----------------------------- MODULE Pcf85063a -----------------------------
(***************************************************************************)
(* drivers/rtc/pcf85063a: the alarm of the real-time clock, set and        *)
(* cancelled by a few transfers on the I2C bus.  The chip goes on counting *)
(* between two transfers, when a transfer fails, and when the processor is *)
(* reset: its battery keeps it running.                                    *)
(***************************************************************************)
EXTENDS Integers, Sequences

CONSTANTS Ticks,         \* seconds an alarm is asked for
          NoAlarm

ASSUME RtcAssumption == Ticks \subseteq Nat

VARIABLES
  chip,            \* the chip's registers
  transfers,       \* what the call in progress still has to write
  request,         \* the seconds it was called with
  alarm,           \* the alarm that was promised, or NoAlarm (history)
  overlap          \* the timer ran already when it was set (history)

rtcVars == <<chip, transfers, request, alarm, overlap>>

(* tf: the timer expired; value: TIMER_VALUE; count: what is left of it;   *)
(* en, int, hz: TIMER_MODE (timer and interrupt enabled, 1 Hz); stop:      *)
(* CTRL1_STOP.                                                             *)
Registers ==
  [tf : BOOLEAN, value : 0 .. 255, count : 0 .. 255, en : BOOLEAN, int : BOOLEAN,
   hz : BOOLEAN, stop : BOOLEAN]

Writes == {"clear", "value", "mode", "off", "start", "stop"}

RtcTypes ==
  /\ chip \in Registers
  /\ transfers \in Seq(Writes)
  /\ request \in Nat
  /\ alarm \in [ticks : 1 .. 255, elapsed : 0 .. 255] \cup {NoAlarm}
  /\ overlap \in BOOLEAN

(* The chip after its own power-up: 1/60 Hz, nothing enabled.              *)
RtcInit ==
  /\ chip = [tf |-> FALSE, value |-> 0, count |-> 0, en |-> FALSE, int |-> FALSE,
             hz |-> FALSE, stop |-> FALSE]
  /\ transfers = <<>> /\ request = 0 /\ alarm = NoAlarm /\ overlap = FALSE
-----------------------------------------------------------------------------
(* The calls.  pcf85063a_set_alarm(): wrong variant: the flag is cleared   *)
(* after the timer was started.                                            *)
SetAlarmClearsLast == <<"value", "mode", "clear">>
SetAlarmWrites     == <<"clear", "value", "mode">>
CancelAlarmWrites  == <<"clear", "off">>

SetAlarm(ticks) ==
  /\ transfers = <<>>
  /\ transfers' = SetAlarmWrites /\ request' = ticks
  /\ alarm' = NoAlarm /\ overlap' = (chip.en /\ ~ chip.stop)
  /\ UNCHANGED chip

CancelAlarm ==
  /\ transfers = <<>>
  /\ transfers' = CancelAlarmWrites
  /\ alarm' = NoAlarm
  /\ UNCHANGED <<chip, request, overlap>>

(* pcf85063a_start(), pcf85063a_stop().                                    *)
StartStop(write) ==
  /\ transfers = <<>>
  /\ transfers' = <<write>>
  /\ UNCHANGED <<chip, request, alarm, overlap>>

(* What a transfer does to the registers; the ticks are a uint8_t.         *)
Written(write) ==
  CASE write = "clear" -> [chip EXCEPT !.tf = FALSE]
    [] write = "value" -> [chip EXCEPT !.value = request % 256, !.count = request % 256]
    [] write = "mode"  -> [chip EXCEPT !.en = TRUE, !.int = TRUE, !.hz = TRUE]
    [] write = "off"   -> [chip EXCEPT !.en = FALSE, !.int = FALSE]
    [] write = "start" -> [chip EXCEPT !.stop = FALSE]
    [] write = "stop"  -> [chip EXCEPT !.stop = TRUE]

(* With the last transfer of set_alarm() the alarm is promised, if it fits *)
(* into eight bits.                                                        *)
Promised == transfers = <<SetAlarmWrites[3]>> /\ request \in 1 .. 255

Transfer ==
  /\ transfers # <<>>
  /\ chip' = Written(Head(transfers))
  /\ transfers' = Tail(transfers)
  /\ request' = IF Len(transfers) = 1 THEN 0 ELSE request
  /\ alarm' = IF Promised THEN [ticks |-> request, elapsed |-> 0] ELSE alarm
  /\ UNCHANGED overlap

(* The call returns an error; the transfers before stay.                   *)
TransferFails ==
  /\ transfers # <<>>
  /\ transfers' = <<>> /\ request' = 0
  /\ UNCHANGED <<chip, alarm, overlap>>

(* The chip: a second passes.  The timer restarts when it has expired.     *)
Second ==
  /\ ~ chip.stop
  /\ alarm' = IF alarm # NoAlarm /\ alarm.elapsed < alarm.ticks
                THEN [alarm EXCEPT !.elapsed = @ + 1] ELSE alarm
  /\ LET counts  == chip.en /\ chip.hz /\ chip.count > 0
         expires == counts /\ chip.count = 1
     IN  chip' = [chip EXCEPT !.tf = @ \/ expires,
                              !.count = IF expires THEN chip.value
                                        ELSE IF counts THEN @ - 1 ELSE @]
  /\ UNCHANGED <<transfers, request, overlap>>

(* pcf85063a_get_pending_int(), when the chip can be read.                 *)
PendingInt == chip.tf

(* The processor is reset in the middle of a call; the chip is not.        *)
RtcReset ==
  /\ transfers' = <<>> /\ request' = 0
  /\ UNCHANGED <<chip, alarm, overlap>>
-----------------------------------------------------------------------------
(* An alarm that set_alarm() reported set is kept: it is pending after its *)
(* seconds and not before, with the interrupt enabled, whatever an earlier *)
(* alarm, a failed call or a reset in the middle of one left in the chip.  *)
(* It may come too soon when the timer was running already, since the old  *)
(* count may expire after the flag was cleared.                            *)
AlarmIsKept ==
  alarm # NoAlarm =>
    /\ chip.en /\ chip.int
    /\ alarm.elapsed = alarm.ticks => PendingInt
    /\ PendingInt /\ ~ overlap => alarm.elapsed = alarm.ticks
=============================================================================
