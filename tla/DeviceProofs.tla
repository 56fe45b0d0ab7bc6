---------------------------- MODULE DeviceProofs ----------------------------
(* What holds of a device for every set of packages, texts and ticks.      *)
EXTENDS Device, SharedProofs, TLAPS

LEMMA AsVersionType ==
  ASSUME NEW p \in Package
  PROVE  AsVersion(p) \in Version
<1>1. \A n \in Nat : n % 256 \in Byte
  BY DEF Byte
<1>2. p.raw \in [1 .. VER_ENTIRES -> Nat] /\ p.hash \in Hash
  BY DEF Package
<1>3. [i \in 1 .. VER_ENTIRES |-> p.raw[i] % 256] \in [1 .. VER_ENTIRES -> Byte]
  BY <1>1, <1>2
<1> QED BY <1>2, <1>3 DEF AsVersion, Version

(* The number kept in a uint8_t is never larger than the one announced, so *)
(* that whatever ver_comp() calls an upgrade is one.                       *)
LEMMA TruncationIsSafe ==
  ASSUME NEW v \in Version, NEW p \in Package, ver_comp(v, AsVersion(p)) = 1
  PROVE  Upgrade(v, p)
<1> DEFINE w == AsVersion(p)
<1>1. w \in Version
  BY AsVersionType
<1>2. \A i \in 1 .. VER_ENTIRES : v.raw[i] \in Byte /\ p.raw[i] \in Nat /\ w.raw[i] \in Nat
  <2>1. v.raw \in [1 .. VER_ENTIRES -> Byte] /\ w.raw \in [1 .. VER_ENTIRES -> Byte]
    BY <1>1 DEF Version
  <2>2. p.raw \in [1 .. VER_ENTIRES -> Nat]
    BY DEF Package
  <2>3. Byte \subseteq Nat
    BY DEF Byte
  <2> HIDE DEF w
  <2> QED BY <2>1, <2>2, <2>3
<1>3. \A i \in 1 .. VER_ENTIRES : w.raw[i] <= p.raw[i]
  <2> TAKE i \in 1 .. VER_ENTIRES
  <2>1. w.raw[i] = p.raw[i] % 256
    BY DEF AsVersion
  <2> QED BY <2>1, <1>2
<1>4. Upgrade(v, w)
  BY <1>1, VerCompDecides
<1>5. VER_ENTIRES = 4 /\ \A b \in Byte : b \in Nat
  BY DEF VER_ENTIRES, Byte
<1> HIDE DEF w
<1>6. CASE \E i \in 1 .. VER_ENTIRES : v.raw[i] # p.raw[i]
  <2>1. PICK i \in 1 .. VER_ENTIRES :
           v.raw[i] # p.raw[i] /\ \A j \in 1 .. i - 1 : v.raw[j] = p.raw[j]
    <3>1. VER_ENTIRES = 4
      BY DEF VER_ENTIRES
    <3> QED BY <1>6, <3>1
  <2>2. \A j \in 1 .. i - 1 : w.raw[j] <= v.raw[j]
    BY <1>3, <2>1 DEF VER_ENTIRES
  <2>3. SUFFICES ASSUME ~ v.raw[i] < p.raw[i]
                 PROVE  FALSE
    BY <2>1 DEF Upgrade, NumLess
  <2>4. w.raw[i] < v.raw[i]
    <3>1. v.raw[i] \in Nat /\ p.raw[i] \in Nat /\ w.raw[i] \in Nat /\ w.raw[i] <= p.raw[i]
      BY <1>2, <1>3, <1>5
    <3> QED BY <3>1, <2>1, <2>3
  <2>5. ~ SameNumbers(v, w)
    BY <2>4, <1>2 DEF SameNumbers, Byte
  <2>6. PICK k \in 1 .. VER_ENTIRES :
           v.raw[k] < w.raw[k] /\ \A j \in 1 .. k - 1 : v.raw[j] = w.raw[j]
    BY <1>4, <2>5 DEF Upgrade, NumLess
  <2>7. CASE k < i
    <3>1. k \in 1 .. i - 1 /\ v.raw[k] \in Nat /\ w.raw[k] \in Nat
      BY <2>7, <1>2, <1>5
    <3> QED BY <3>1, <2>2, <2>6
  <2>8. CASE k = i
    <3>1. v.raw[i] \in Nat /\ w.raw[i] \in Nat
      BY <1>2, <1>5
    <3> QED BY <3>1, <2>4, <2>6, <2>8
  <2>9. CASE k > i
    <3>1. i \in 1 .. k - 1 /\ v.raw[i] \in Nat /\ w.raw[i] \in Nat
      BY <2>9, <1>2, <1>5
    <3> QED BY <3>1, <2>4, <2>6
  <2> QED BY <2>7, <2>8, <2>9 DEF VER_ENTIRES
<1>7. CASE \A i \in 1 .. VER_ENTIRES : v.raw[i] = p.raw[i]
  <2>1. \A i \in 1 .. VER_ENTIRES : w.raw[i] <= v.raw[i]
    BY <1>3, <1>7
  <2>2. ~ NumLess(v, w)
    <3> SUFFICES ASSUME NEW i \in 1 .. VER_ENTIRES, v.raw[i] < w.raw[i]
                 PROVE  FALSE
      BY DEF NumLess
    <3> QED BY <2>1, <1>2, <1>5
  <2>3. v.hash # w.hash
    BY <1>4, <2>2 DEF Upgrade
  <2>4. w.hash = p.hash
    BY DEF w, AsVersion
  <2> QED BY <1>7, <2>3, <2>4 DEF Upgrade, SameNumbers
<1> QED BY <1>6, <1>7

(* A message is decoded without error only as a whole.                     *)
LEMMA WholeMessage ==
  ASSUME NEW old, NEW p, NEW bad, ~ Error(bad), NEW d \in decode_ota_data(old, p, bad)
  PROVE  /\ d.version = AsVersion(p)
         /\ d.host = Overlay(old.host, p.host)
         /\ d.file = Overlay(old.file, p.file)
<1>1. bad = "none"
  BY DEF Error
<1>2. \A item \in {"version", "host", "file"} : item \in Got("none")
  <2>1. /\ Len(Items) = 6 /\ Items[2] = "version" /\ Items[3] = "host" /\ Items[4] = "file"
        /\ \A k \in 1 .. 6 : Items[k] # "none"
    BY DEF Items
  <2> QED BY <2>1 DEF Got
<1> QED BY <1>1, <1>2 DEF decode_ota_data, Copied

(* One that fails in its version, or before it, leaves the URL alone.      *)
LEMMA UrlLeftAlone ==
  ASSUME NEW old, NEW p, NEW bad \in {"map", "version"},
         NEW d \in decode_ota_data(old, p, bad)
  PROVE  d.host = old.host /\ d.file = old.file
<1>1. /\ Len(Items) = 6 /\ Items[1] = "map" /\ Items[2] = "version"
      /\ Items[3] = "host" /\ Items[4] = "file" /\ Items[5] = "force" /\ Items[6] = "tail"
  BY DEF Items
<1>2. "host" \notin Got(bad) /\ "file" \notin Got(bad)
  BY <1>1 DEF Got
<1> QED BY <1>2 DEF decode_ota_data, Copied

LEMMA OverlayCovers ==
  ASSUME NEW old \in Seq(STRING), NEW text \in Seq(STRING), Len(old) <= Len(text)
  PROVE  Overlay(old, text) = text
<1>1. SubSeq(old, Len(text) + 1, Len(old)) = <<>>
  OBVIOUS
<1> QED BY <1>1 DEF Overlay

LEMMA OverlayType ==
  ASSUME NEW old \in Seq(STRING), NEW text \in Seq(STRING)
  PROVE  Overlay(old, text) \in Seq(STRING)
<1>1. SubSeq(old, Len(text) + 1, Len(old)) \in Seq(STRING)
  OBVIOUS
<1> QED BY <1>1 DEF Overlay

(* Texts stay texts, whatever was copied over them.                        *)
LEMMA TextsStay ==
  ASSUME NEW old, old.host \in Seq(STRING), old.file \in Seq(STRING),
         NEW p \in Package, NEW bad, NEW d \in decode_ota_data(old, p, bad)
  PROVE  d.host \in Seq(STRING) /\ d.file \in Seq(STRING)
<1>1. p.host \in Seq(STRING) /\ p.file \in Seq(STRING) /\ Junk \subseteq Seq(STRING)
  BY CodecAssumption DEF Package
<1>2. d.host \in Copied("host", old.host, p.host, bad) /\ d.file \in Copied("file", old.file, p.file, bad)
  BY DEF decode_ota_data
<1>3. ASSUME NEW item, NEW before \in Seq(STRING), NEW text \in Seq(STRING),
             NEW t \in Copied(item, before, text, bad)
      PROVE  t \in Seq(STRING)
  <2>1. Overlay(before, text) \in Seq(STRING)
    BY OverlayType
  <2>2. \A j \in Junk : Overlay(before, j) \in Seq(STRING)
    BY <1>1, OverlayType
  <2>3. t = Overlay(before, text) \/ t = before \/ \E j \in Junk : t = Overlay(before, j)
    BY Zenon DEF Copied
  <2> QED BY <2>1, <2>2, <2>3
<1> QED BY <1>1, <1>2, <1>3

-----------------------------------------------------------------------------
(* The clock.  What a call still has to write, at each of its steps.       *)

SetClear == <<"clear", "value", "mode">>
SetValue == <<"value", "mode">>
SetMode == <<"mode">>
CancelClear == <<"clear", "off">>
CancelOff == <<"off">>
Start == <<"start">>
Stop == <<"stop">>
NoCall == <<>>

Setting == {SetClear, SetValue, SetMode}
Cancelling == {CancelClear, CancelOff}
Calls == Setting \cup Cancelling \cup {NoCall, Start, Stop}

(* The steps are different from one another, and each leads to the next.   *)
LEMMA CallSteps ==
  /\ \A c \in {SetClear, SetValue, SetMode} : c \notin Cancelling \cup {NoCall, Start, Stop}
  /\ \A c \in Cancelling : c \notin {NoCall, Start, Stop}
  /\ SetClear # SetValue /\ SetClear # SetMode /\ SetValue # SetMode
  /\ CancelClear # CancelOff /\ NoCall # Start /\ NoCall # Stop /\ Start # Stop
  /\ Head(SetClear) = "clear" /\ Tail(SetClear) = SetValue
  /\ Head(SetValue) = "value" /\ Tail(SetValue) = SetMode
  /\ Head(SetMode) = "mode" /\ Tail(SetMode) = NoCall
  /\ Head(CancelClear) = "clear" /\ Tail(CancelClear) = CancelOff
  /\ Head(CancelOff) = "off" /\ Tail(CancelOff) = NoCall
  /\ Head(Start) = "start" /\ Tail(Start) = NoCall
  /\ Head(Stop) = "stop" /\ Tail(Stop) = NoCall
<1> USE DEF SetClear, SetValue, SetMode, CancelClear, CancelOff, Start, Stop, NoCall
<1>2. /\ Len(SetClear) = 3 /\ Len(SetValue) = 2 /\ Len(SetMode) = 1 /\ Len(CancelClear) = 2
      /\ Len(CancelOff) = 1 /\ Len(Start) = 1 /\ Len(Stop) = 1 /\ Len(NoCall) = 0
      /\ SetMode[1] = "mode" /\ CancelOff[1] = "off" /\ Start[1] = "start" /\ Stop[1] = "stop"
      /\ SetValue[1] = "value" /\ CancelClear[1] = "clear"
  OBVIOUS
<1>3. /\ \A c \in {SetClear, SetValue, SetMode} : c \notin Cancelling \cup {NoCall, Start, Stop}
      /\ \A c \in Cancelling : c \notin {NoCall, Start, Stop}
      /\ SetClear # SetValue /\ SetClear # SetMode /\ SetValue # SetMode
      /\ CancelClear # CancelOff /\ NoCall # Start /\ NoCall # Stop /\ Start # Stop
  <2> HIDE DEF SetClear, SetValue, SetMode, CancelClear, CancelOff, Start, Stop, NoCall
  <2>1. \A c \in {SetValue, SetMode, CancelClear, CancelOff, NoCall, Start, Stop} : SetClear # c
    <3>1. \A c \in {SetValue, SetMode, CancelClear, CancelOff, NoCall, Start, Stop} : Len(c) # 3
      BY <1>2
    <3> QED BY <1>2, <3>1
  <2>2. SetValue # SetMode /\ SetValue # CancelOff /\ SetValue # NoCall
    BY <1>2
  <2>3. SetValue # Start /\ SetValue # Stop
    BY <1>2
  <2>4. SetValue # CancelClear /\ SetMode # CancelClear /\ SetMode # CancelOff
    BY <1>2
  <2>5. SetMode # NoCall /\ SetMode # Start /\ SetMode # Stop
    BY <1>2
  <2>6. /\ CancelClear # CancelOff /\ CancelClear # NoCall
        /\ CancelClear # Start /\ CancelClear # Stop
    BY <1>2
  <2>7. CancelOff # NoCall /\ CancelOff # Start /\ CancelOff # Stop
    BY <1>2
  <2>8. NoCall # Start /\ NoCall # Stop /\ Start # Stop
    BY <1>2
  <2> QED BY <2>1, <2>2, <2>3, <2>4, <2>5, <2>6, <2>7, <2>8, Zenon DEF Cancelling
<1>4. /\ Head(SetClear) = "clear" /\ Tail(SetClear) = SetValue
      /\ Head(SetValue) = "value" /\ Tail(SetValue) = SetMode
      /\ Head(SetMode) = "mode" /\ Tail(SetMode) = NoCall
      /\ Head(CancelClear) = "clear" /\ Tail(CancelClear) = CancelOff
      /\ Head(CancelOff) = "off" /\ Tail(CancelOff) = NoCall
      /\ Head(Start) = "start" /\ Tail(Start) = NoCall
      /\ Head(Stop) = "stop" /\ Tail(Stop) = NoCall
  OBVIOUS
<1> HIDE DEF SetClear, SetValue, SetMode, CancelClear, CancelOff, Start, Stop, NoCall
<1> QED BY <1>3, <1>4

LEMMA CallTypes ==
  /\ Calls \subseteq Seq(Writes)
  /\ SetClear \in Calls /\ SetValue \in Calls /\ SetMode \in Calls
  /\ CancelClear \in Calls /\ CancelOff \in Calls
  /\ NoCall \in Calls /\ Start \in Calls /\ Stop \in Calls
<1>1. Calls \subseteq Seq(Writes)
  BY DEF Calls, Setting, Cancelling, Writes, SetClear, SetValue, SetMode, CancelClear,
         CancelOff, Start, Stop, NoCall
<1> QED BY <1>1 DEF Calls, Setting, Cancelling

(* What each transfer leaves in the registers.                             *)
LEMMA RegisterTypes ==
  ASSUME NEW c \in Registers
  PROVE  /\ c.tf \in BOOLEAN /\ c.en \in BOOLEAN /\ c.int \in BOOLEAN /\ c.hz \in BOOLEAN
         /\ c.stop \in BOOLEAN /\ c.value \in 0 .. 255 /\ c.count \in 0 .. 255
  BY DEF Registers

LEMMA ClearWritten ==
  ASSUME chip \in Registers, NEW d, d = Written("clear")
  PROVE  /\ d \in Registers /\ d.tf = FALSE /\ d.value = chip.value /\ d.count = chip.count
         /\ d.en = chip.en /\ d.int = chip.int /\ d.hz = chip.hz /\ d.stop = chip.stop
  BY DEF Registers, Written

LEMMA ValueWritten ==
  ASSUME chip \in Registers, request \in Nat, NEW d, d = Written("value")
  PROVE  /\ d \in Registers /\ d.value = request % 256 /\ d.count = request % 256
         /\ d.tf = chip.tf /\ d.en = chip.en /\ d.int = chip.int /\ d.hz = chip.hz
         /\ d.stop = chip.stop
<1> DEFINE n == request % 256
<1>1. d = [chip EXCEPT !.value = n, !.count = n] /\ n \in 0 .. 255
  BY DEF Written
<1> HIDE DEF n
<1>2. /\ d \in Registers /\ d.value = n /\ d.count = n
      /\ d.tf = chip.tf /\ d.en = chip.en /\ d.int = chip.int /\ d.hz = chip.hz
      /\ d.stop = chip.stop
  BY <1>1 DEF Registers
<1> QED BY <1>2 DEF n

LEMMA ModeWritten ==
  ASSUME chip \in Registers, NEW d, d = Written("mode")
  PROVE  /\ d \in Registers /\ d.tf = chip.tf /\ d.value = chip.value /\ d.count = chip.count
         /\ d.en = TRUE /\ d.int = TRUE /\ d.hz = TRUE /\ d.stop = chip.stop
<1>1. d = [chip EXCEPT !.en = TRUE, !.int = TRUE, !.hz = TRUE]
  BY DEF Written
<1> QED BY <1>1 DEF Registers

LEMMA OffWritten ==
  ASSUME chip \in Registers, NEW d, d = Written("off")
  PROVE  d \in Registers
<1>1. d = [chip EXCEPT !.en = FALSE, !.int = FALSE]
  BY DEF Written
<1> QED BY <1>1 DEF Registers

LEMMA StopWritten ==
  ASSUME chip \in Registers, NEW d, d = Written("start") \/ d = Written("stop")
  PROVE  /\ d \in Registers /\ d.tf = chip.tf /\ d.value = chip.value /\ d.count = chip.count
         /\ d.en = chip.en /\ d.int = chip.int /\ d.hz = chip.hz
<1>1. d = [chip EXCEPT !.stop = FALSE] \/ d = [chip EXCEPT !.stop = TRUE]
  BY DEF Written
<1> QED BY <1>1 DEF Registers

(* A second: the timer, when it is enabled and not stopped, counts.        *)
Counts == chip.en /\ chip.hz /\ chip.count > 0
Expires == Counts /\ chip.count = 1

LEMMA SecondPasses ==
  ASSUME chip \in Registers, NEW d,
         d = [chip EXCEPT !.tf = @ \/ Expires,
                          !.count = IF Expires THEN chip.value ELSE IF Counts THEN @ - 1 ELSE @]
  PROVE  /\ d \in Registers /\ d.tf = (chip.tf \/ Expires)
         /\ d.count = IF Expires THEN chip.value ELSE IF Counts THEN chip.count - 1 ELSE chip.count
         /\ d.value = chip.value /\ d.en = chip.en /\ d.int = chip.int /\ d.hz = chip.hz
         /\ d.stop = chip.stop
<1> DEFINE b == chip.tf \/ Expires
           n == IF Expires THEN chip.value ELSE IF Counts THEN chip.count - 1 ELSE chip.count
<1>1. b \in BOOLEAN /\ n \in 0 .. 255
  BY RegisterTypes DEF Expires, Counts
<1>2. d = [chip EXCEPT !.tf = b, !.count = n]
  BY DEF Registers
<1> HIDE DEF b, n
<1>3. /\ d \in Registers /\ d.tf = b /\ d.count = n
      /\ d.value = chip.value /\ d.en = chip.en /\ d.int = chip.int /\ d.hz = chip.hz
      /\ d.stop = chip.stop
  BY <1>1, <1>2 DEF Registers
<1> QED BY <1>3 DEF b, n

(* The arithmetic of it, for a count n that follows count, of an alarm     *)
(* that is elapsed seconds old and then e.                                 *)
LEMMA CountStays ==
  ASSUME NEW count \in 0 .. 255, NEW value \in 0 .. 255, count <= value,
         value > 0 => count > 0, NEW n,
         n = count \/ n = value \/ (n = count - 1 /\ count > 1)
  PROVE  n <= value /\ (value > 0 => n > 0)
OBVIOUS

NextCount(count, value) == IF count = 1 THEN value ELSE count - 1
NextElapsed(elapsed, value) == IF elapsed < value THEN elapsed + 1 ELSE elapsed

LEMMA CountAgrees ==
  ASSUME NEW value \in 1 .. 255, NEW count \in 1 .. 255, NEW elapsed \in 0 .. 255,
         count <= value, elapsed <= value
  PROVE  /\ NextCount(count, value) \in 1 .. value /\ NextElapsed(elapsed, value) \in 0 .. value
         /\ count # 1 /\ count <= value - elapsed
              => NextCount(count, value) <= value - NextElapsed(elapsed, value)
         /\ count # 1 /\ count = value - elapsed
              => NextCount(count, value) = value - NextElapsed(elapsed, value)
         /\ count = 1 /\ count = value - elapsed => NextElapsed(elapsed, value) = value
         /\ elapsed = value => NextElapsed(elapsed, value) = value
BY DEF NextCount, NextElapsed

(* An alarm that was promised ages until its time has come.                *)
Alarms == [ticks : 1 .. 255, elapsed : 0 .. 255]

LEMMA AlarmTypes ==
  ASSUME NEW a \in Alarms
  PROVE  a.ticks \in 1 .. 255 /\ a.elapsed \in 0 .. 255
  BY DEF Alarms

NewAlarm == [ticks |-> request, elapsed |-> 0]

LEMMA AlarmMade ==
  ASSUME request \in 1 .. 255
  PROVE  NewAlarm \in Alarms /\ NewAlarm.ticks = request /\ NewAlarm.elapsed = 0
  BY DEF Alarms, NewAlarm

LEMMA AlarmAges ==
  ASSUME NEW a \in Alarms, a.elapsed < a.ticks, NEW b, b = [a EXCEPT !.elapsed = @ + 1]
  PROVE  b \in Alarms /\ b.ticks = a.ticks /\ b.elapsed = a.elapsed + 1
  BY AlarmTypes DEF Alarms

(* While the alarm is being set nothing counts, unless the timer ran.      *)
SettingInv ==
  /\ transfers \in Setting /\ ~ overlap => ~ chip.en \/ chip.stop
  /\ transfers \in {SetValue, SetMode} /\ ~ overlap => ~ chip.tf
  /\ transfers = SetMode =>
       /\ chip.value = request % 256
       /\ chip.count <= chip.value
       /\ chip.value > 0 => chip.count > 0
       /\ ~ overlap => chip.count = chip.value

(* What is left of the count is what is left of the promised time.         *)
PromiseInv ==
  alarm # NoAlarm =>
    /\ chip.en /\ chip.int /\ chip.hz
    /\ chip.value = alarm.ticks
    /\ chip.count >= 1 /\ chip.count <= chip.value
    /\ alarm.elapsed <= alarm.ticks
    /\ ~ chip.tf => chip.count <= alarm.ticks - alarm.elapsed
    /\ ~ chip.tf /\ ~ overlap => chip.count = alarm.ticks - alarm.elapsed
    /\ chip.tf /\ ~ overlap => alarm.elapsed = alarm.ticks

RtcInv ==
  /\ RtcTypes
  /\ transfers \in Calls
  /\ transfers \in Setting \cup Cancelling => alarm = NoAlarm
  /\ SettingInv
  /\ PromiseInv

RtcNext ==
  \/ \E t \in Ticks : SetAlarm(t)
  \/ CancelAlarm \/ StartStop("start") \/ StartStop("stop")
  \/ Transfer \/ TransferFails \/ Second \/ RtcReset

(* The types of the clock's state, and after a step from its parts.        *)
LEMMA TypesNow ==
  ASSUME RtcTypes
  PROVE  /\ chip \in Registers /\ request \in Nat /\ overlap \in BOOLEAN
         /\ alarm = NoAlarm \/ alarm \in Alarms
  BY DEF RtcTypes, Alarms

LEMMA TypesNext ==
  ASSUME chip' \in Registers, transfers' \in Calls, request' \in Nat,
         alarm' = NoAlarm \/ alarm' \in Alarms, overlap' \in BOOLEAN
  PROVE  RtcTypes'
<1>1. transfers' \in Seq(Writes)
  BY CallTypes
<1>2. alarm' \in [ticks : 1 .. 255, elapsed : 0 .. 255] \cup {NoAlarm}
  BY DEF Alarms
<1> QED BY <1>1, <1>2 DEF RtcTypes

LEMMA RtcInvariant == ASSUME RtcInv, [RtcNext]_rtcVars PROVE RtcInv'
<1>1. /\ chip \in Registers /\ request \in Nat /\ overlap \in BOOLEAN
      /\ alarm = NoAlarm \/ alarm \in Alarms
  BY TypesNow DEF RtcInv
<1>2. /\ chip.tf \in BOOLEAN /\ chip.en \in BOOLEAN /\ chip.int \in BOOLEAN /\ chip.hz \in BOOLEAN
      /\ chip.stop \in BOOLEAN /\ chip.value \in 0 .. 255 /\ chip.count \in 0 .. 255
  BY <1>1, RegisterTypes
<1>3. transfers \in Calls /\ (transfers \in Setting \cup Cancelling => alarm = NoAlarm)
      /\ SettingInv /\ PromiseInv
  BY DEF RtcInv
<1>4. CASE UNCHANGED rtcVars
  BY <1>4 DEF RtcInv, RtcTypes, SettingInv, PromiseInv, rtcVars
<1>5. ASSUME NEW t \in Ticks, SetAlarm(t) PROVE RtcInv'
  <2>1. /\ transfers' = SetClear /\ request' = t /\ alarm' = NoAlarm
        /\ overlap' = (chip.en /\ ~ chip.stop) /\ chip' = chip
    BY <1>5 DEF SetAlarm, SetAlarmWrites, SetClear
  <2>2. t \in Nat /\ (chip.en /\ ~ chip.stop) \in BOOLEAN
    BY RtcAssumption
  <2>3. RtcTypes'
    BY <1>1, <2>1, <2>2, TypesNext, CallTypes
  <2>4. SettingInv'
    BY <2>1, CallSteps DEF SettingInv
  <2>5. PromiseInv'
    BY <2>1 DEF PromiseInv
  <2> QED BY <2>1, <2>3, <2>4, <2>5, CallTypes DEF RtcInv
<1>6. CASE CancelAlarm
  <2>1. transfers' = CancelClear /\ alarm' = NoAlarm /\ UNCHANGED <<chip, request, overlap>>
    BY <1>6 DEF CancelAlarm, CancelAlarmWrites, CancelClear
  <2>2. RtcTypes'
    BY <1>1, <2>1, TypesNext, CallTypes
  <2>3. SettingInv'
    BY <2>1, CallSteps DEF SettingInv, Setting, Cancelling
  <2>4. PromiseInv'
    BY <2>1 DEF PromiseInv
  <2> QED BY <2>1, <2>2, <2>3, <2>4, CallTypes DEF RtcInv
<1>7. CASE StartStop("start") \/ StartStop("stop")
  <2>1. transfers' \in {Start, Stop} /\ UNCHANGED <<chip, request, alarm, overlap>>
    BY <1>7 DEF StartStop, Start, Stop
  <2>2. transfers' \in Calls /\ transfers' \notin Setting \cup Cancelling
    BY <2>1, CallTypes, CallSteps DEF Setting
  <2>3. RtcTypes'
    BY <1>1, <2>1, <2>2, TypesNext
  <2>4. SettingInv'
    BY <2>2 DEF SettingInv, Setting
  <2>5. PromiseInv'
    BY <1>3, <2>1 DEF PromiseInv
  <2> QED BY <2>2, <2>3, <2>4, <2>5 DEF RtcInv
<1>8. CASE Transfer
  <2>1. /\ transfers \in Calls \ {NoCall}
        /\ chip' = Written(Head(transfers)) /\ transfers' = Tail(transfers)
        /\ overlap' = overlap /\ request' \in Nat
    BY <1>1, <1>3, <1>8 DEF Transfer, NoCall
  <2>2. /\ transfers = SetMode => alarm' = IF request \in 1 .. 255 THEN NewAlarm ELSE alarm
        /\ transfers # SetMode => alarm' = alarm
        /\ transfers = SetValue => request' = request
    <3>1. <<SetAlarmWrites[3]>> = SetMode
      BY DEF SetAlarmWrites, SetMode
    <3>2. Len(SetValue) = 2
      BY DEF SetValue
    <3>3. alarm' = IF transfers = SetMode /\ request \in 1 .. 255 THEN NewAlarm ELSE alarm
      BY <1>8, <3>1 DEF Transfer, Promised, NewAlarm
    <3>4. transfers = SetValue => request' = request
      BY <1>8, <3>2 DEF Transfer
    <3> QED BY <3>3, <3>4
  <2>3. CASE transfers = SetClear
    <3>1. chip' = Written("clear") /\ transfers' = SetValue /\ alarm' = NoAlarm
      BY <1>3, <2>1, <2>2, <2>3, CallSteps DEF Setting
    <3>2. chip' \in Registers /\ chip'.tf = FALSE /\ chip'.en = chip.en /\ chip'.stop = chip.stop
      BY <1>1, <3>1, ClearWritten
    <3>3. RtcTypes'
      BY <1>1, <2>1, <3>1, <3>2, TypesNext, CallTypes
    <3>4. SettingInv'
      BY <1>3, <2>1, <2>3, <3>1, <3>2, CallSteps DEF SettingInv, Setting
    <3>5. PromiseInv'
      BY <3>1 DEF PromiseInv
    <3> QED BY <3>1, <3>3, <3>4, <3>5, CallTypes DEF RtcInv
  <2>4. CASE transfers = SetValue
    <3>1. chip' = Written("value") /\ transfers' = SetMode /\ alarm' = NoAlarm /\ request' = request
      BY <1>3, <2>1, <2>2, <2>4, CallSteps DEF Setting
    <3>2. /\ chip' \in Registers /\ chip'.tf = chip.tf /\ chip'.en = chip.en
          /\ chip'.stop = chip.stop
          /\ chip'.value = request % 256 /\ chip'.count = request % 256
      BY <1>1, <3>1, ValueWritten
    <3>3. RtcTypes'
      BY <1>1, <2>1, <3>1, <3>2, TypesNext, CallTypes
    <3>4. request % 256 \in 0 .. 255
      BY <1>1
    <3>5. SettingInv'
      BY <1>3, <2>1, <2>4, <3>1, <3>2, <3>4, CallSteps DEF SettingInv, Setting
    <3>6. PromiseInv'
      BY <3>1 DEF PromiseInv
    <3> QED BY <3>1, <3>3, <3>5, <3>6, CallTypes DEF RtcInv
  <2>5. CASE transfers = SetMode
    <3>1. chip' = Written("mode") /\ transfers' = NoCall /\ alarm = NoAlarm
      BY <1>3, <2>1, <2>5, CallSteps DEF Setting
    <3>2. /\ chip' \in Registers /\ chip'.tf = chip.tf /\ chip'.value = chip.value
          /\ chip'.count = chip.count /\ chip'.en = TRUE /\ chip'.int = TRUE /\ chip'.hz = TRUE
      BY <1>1, <3>1, ModeWritten
    <3>3. SettingInv'
      BY <3>1, CallSteps DEF SettingInv, Setting
    <3>4. CASE request \in 1 .. 255
      <4>1. /\ alarm' \in Alarms /\ alarm'.ticks = request /\ alarm'.elapsed = 0
            /\ request % 256 = request
        <5>1. alarm' = NewAlarm
          BY <2>2, <2>5, <3>4
        <5>2. request % 256 = request
          BY <3>4
        <5> QED BY <3>4, <5>1, <5>2, AlarmMade
      <4>2. RtcTypes'
        BY <1>1, <2>1, <3>1, <3>2, <4>1, TypesNext, CallTypes
      <4>3. /\ chip.value = request /\ chip.count <= request /\ chip.count > 0
            /\ ~ overlap => chip.count = request /\ ~ chip.tf
        <5>1. /\ chip.value = request % 256 /\ chip.count <= chip.value
              /\ chip.value > 0 => chip.count > 0
              /\ ~ overlap => chip.count = chip.value /\ ~ chip.tf
          BY <1>3, <2>5, CallSteps, Zenon DEF SettingInv
        <5> QED BY <3>4, <4>1, <5>1
      <4>4. PromiseInv'
        <5>1. /\ chip'.en /\ chip'.int /\ chip'.hz /\ chip'.value = alarm'.ticks
          BY <3>2, <4>1, <4>3
        <5>2. /\ chip'.count >= 1 /\ chip'.count <= chip'.value
              /\ alarm'.elapsed <= alarm'.ticks
              /\ chip'.count <= alarm'.ticks - alarm'.elapsed
          BY <1>2, <3>2, <3>4, <4>1, <4>3
        <5>3. chip.count = request => chip'.count = alarm'.ticks - alarm'.elapsed
          BY <1>2, <3>2, <3>4, <4>1
        <5>4. ~ overlap' => chip'.count = alarm'.ticks - alarm'.elapsed /\ ~ chip'.tf
          BY <2>1, <3>2, <4>3, <5>3, Zenon
        <5> QED BY <5>1, <5>2, <5>4, Zenon DEF PromiseInv
      <4> QED BY <3>1, <3>3, <4>2, <4>4, CallSteps, CallTypes DEF RtcInv, Setting
    <3>5. CASE request \notin 1 .. 255
      <4>1. alarm' = NoAlarm
        BY <2>2, <2>5, <3>1, <3>5
      <4>2. RtcTypes'
        BY <1>1, <2>1, <3>1, <3>2, <4>1, TypesNext, CallTypes
      <4>3. PromiseInv'
        BY <4>1 DEF PromiseInv
      <4> QED BY <3>1, <3>3, <4>1, <4>2, <4>3, CallTypes DEF RtcInv
    <3> QED BY <3>4, <3>5
  <2>6. CASE transfers \in Cancelling
    <3>1. /\ chip' = Written("clear") \/ chip' = Written("off")
          /\ transfers' \in {CancelOff, NoCall} /\ alarm' = NoAlarm
      <4>1. transfers # SetMode /\ alarm = NoAlarm
        BY <1>3, <2>6, CallSteps
      <4> QED BY <2>1, <2>2, <2>6, <4>1, CallSteps DEF Cancelling
    <3>2. chip' \in Registers
      BY <1>1, <3>1, ClearWritten, OffWritten
    <3>3. RtcTypes'
      BY <1>1, <2>1, <3>1, <3>2, TypesNext, CallTypes
    <3>4. SettingInv'
      BY <3>1, CallSteps DEF SettingInv, Setting, Cancelling
    <3>5. PromiseInv'
      BY <3>1 DEF PromiseInv
    <3> QED BY <3>1, <3>3, <3>4, <3>5, CallTypes DEF RtcInv
  <2>7. CASE transfers \in {Start, Stop}
    <3>1. (chip' = Written("start") \/ chip' = Written("stop")) /\ transfers' = NoCall /\ alarm' = alarm
      BY <2>1, <2>2, <2>7, CallSteps
    <3>2. /\ chip' \in Registers /\ chip'.tf = chip.tf /\ chip'.en = chip.en
          /\ chip'.int = chip.int /\ chip'.hz = chip.hz
          /\ chip'.value = chip.value /\ chip'.count = chip.count
      BY <1>1, <3>1, StopWritten
    <3>3. RtcTypes'
      BY <1>1, <2>1, <3>1, <3>2, TypesNext, CallTypes
    <3>4. SettingInv' /\ transfers' \notin Setting \cup Cancelling
      BY <3>1, CallSteps DEF SettingInv, Setting
    <3>5. PromiseInv'
      BY <1>3, <2>1, <3>1, <3>2 DEF PromiseInv
    <3> QED BY <3>1, <3>3, <3>4, <3>5, CallTypes DEF RtcInv
  <2> QED BY <2>1, <2>3, <2>4, <2>5, <2>6, <2>7 DEF Calls, Setting
<1>9. CASE TransferFails \/ RtcReset
  <2>1. transfers' = NoCall /\ request' = 0 /\ UNCHANGED <<chip, alarm, overlap>>
    BY <1>9 DEF TransferFails, RtcReset, NoCall
  <2>2. RtcTypes'
    BY <1>1, <2>1, TypesNext, CallTypes
  <2>3. SettingInv' /\ transfers' \notin Setting \cup Cancelling
    BY <2>1, CallSteps DEF SettingInv, Setting
  <2>4. PromiseInv'
    BY <1>3, <2>1 DEF PromiseInv
  <2> QED BY <2>1, <2>2, <2>3, <2>4, CallTypes DEF RtcInv
<1>10. CASE Second
  <2>1. /\ ~ chip.stop /\ UNCHANGED <<transfers, request, overlap>>
        /\ chip' = [chip EXCEPT !.tf = @ \/ Expires,
                               !.count = IF Expires THEN chip.value ELSE IF Counts THEN @ - 1 ELSE @]
    BY <1>10 DEF Second, Expires, Counts
  <2>2. /\ chip' \in Registers /\ chip'.tf = (chip.tf \/ Expires)
        /\ chip'.count = IF Expires THEN chip.value ELSE IF Counts THEN chip.count - 1 ELSE chip.count
        /\ chip'.value = chip.value /\ chip'.en = chip.en /\ chip'.int = chip.int
        /\ chip'.hz = chip.hz /\ chip'.stop = chip.stop
    BY <1>1, <2>1, SecondPasses
  <2>3. alarm = NoAlarm => alarm' = NoAlarm
    BY <1>10 DEF Second
  <2>4. alarm # NoAlarm =>
          /\ alarm \in Alarms /\ alarm.ticks \in 1 .. 255 /\ alarm.elapsed \in 0 .. 255
          /\ alarm' \in Alarms /\ alarm'.ticks = alarm.ticks
          /\ alarm'.elapsed = IF alarm.elapsed < alarm.ticks THEN alarm.elapsed + 1 ELSE alarm.elapsed
    <3> SUFFICES ASSUME alarm # NoAlarm
                 PROVE  /\ alarm \in Alarms /\ alarm.ticks \in 1 .. 255 /\ alarm.elapsed \in 0 .. 255
                        /\ alarm' \in Alarms /\ alarm'.ticks = alarm.ticks
                        /\ alarm'.elapsed = IF alarm.elapsed < alarm.ticks
                                              THEN alarm.elapsed + 1 ELSE alarm.elapsed
      OBVIOUS
    <3>1. alarm' = IF alarm.elapsed < alarm.ticks THEN [alarm EXCEPT !.elapsed = @ + 1] ELSE alarm
      BY <1>10 DEF Second
    <3> QED BY <1>1, <3>1, AlarmTypes, AlarmAges
  <2>5. RtcTypes'
    BY <1>1, <1>3, <2>1, <2>2, <2>3, <2>4, TypesNext
  <2>6. SettingInv'
    <3>1. transfers \in Setting /\ ~ overlap => ~ Counts /\ ~ Expires /\ (~ chip.en \/ chip.stop)
      BY <1>3, <2>1, Zenon DEF SettingInv, Counts, Expires
    <3>2. ~ Counts /\ ~ Expires => chip'.tf = chip.tf /\ chip'.count = chip.count
      BY <1>2, <2>2
    <3>3. transfers' \in Setting /\ ~ overlap' => ~ chip'.en \/ chip'.stop
      BY <2>1, <2>2, <3>1, Zenon
    <3>4. transfers' \in {SetValue, SetMode} /\ ~ overlap' => ~ chip'.tf
      BY <1>3, <2>1, <3>1, <3>2, Zenon DEF SettingInv, Setting
    <3>5. transfers = SetMode /\ ~ overlap => chip'.count = chip.count /\ chip.count = chip.value
      BY <1>3, <3>1, <3>2, Zenon DEF SettingInv, Setting
    <3>6. transfers = SetMode =>
            /\ chip.value = request % 256 /\ chip.count <= chip.value
            /\ chip.value > 0 => chip.count > 0
      BY <1>3, Zenon DEF SettingInv
    <3>7. chip.count <= chip.value /\ (chip.value > 0 => chip.count > 0) =>
            chip'.count <= chip.value /\ (chip.value > 0 => chip'.count > 0)
      <4>1. chip'.count = chip.count \/ chip'.count = chip.value \/ (chip'.count = chip.count - 1 /\ chip.count > 1)
        <5>1. Counts /\ ~ Expires => chip.count > 1
          BY <1>2 DEF Counts, Expires
        <5> QED BY <2>2, <5>1
      <4> QED BY <1>2, <4>1, CountStays
    <3>8. transfers' = SetMode =>
            /\ chip'.value = request' % 256 /\ chip'.count <= chip'.value
            /\ chip'.value > 0 => chip'.count > 0
            /\ ~ overlap' => chip'.count = chip'.value
      BY <2>1, <2>2, <3>5, <3>6, <3>7
    <3> QED BY <3>3, <3>4, <3>8 DEF SettingInv
  <2>7. PromiseInv'
    <3>1. CASE alarm = NoAlarm
      BY <2>3, <3>1 DEF PromiseInv
    <3>2. CASE alarm # NoAlarm
      <4>1. /\ chip.en /\ chip.int /\ chip.hz /\ chip.value = alarm.ticks
            /\ chip.count >= 1 /\ chip.count <= chip.value /\ alarm.elapsed <= alarm.ticks
            /\ ~ chip.tf => chip.count <= alarm.ticks - alarm.elapsed
            /\ ~ chip.tf /\ ~ overlap => chip.count = alarm.ticks - alarm.elapsed
            /\ chip.tf /\ ~ overlap => alarm.elapsed = alarm.ticks
        BY <1>3, <3>2, Zenon DEF PromiseInv
      <4>2. alarm.ticks \in 1 .. 255 /\ alarm.elapsed \in 0 .. 255 /\ alarm'.ticks = alarm.ticks
        BY <2>4, <3>2
      <4>3. Counts /\ (Expires <=> chip.count = 1)
        <5>1. chip.count > 0
          BY <1>2, <4>1
        <5> QED BY <4>1, <5>1, Zenon DEF Counts, Expires
      <4>4. chip'.count = NextCount(chip.count, chip.value)
        BY <2>2, <4>3, Zenon DEF NextCount
      <4>5. alarm'.elapsed = NextElapsed(alarm.elapsed, chip.value)
        BY <2>4, <3>2, <4>1 DEF NextElapsed
      <4>6. /\ chip.value \in 1 .. 255 /\ chip.count \in 1 .. 255 /\ alarm.elapsed \in 0 .. 255
            /\ chip.count <= chip.value /\ alarm.elapsed <= chip.value
        BY <1>2, <4>1, <4>2
      <4>7. /\ chip'.count \in 1 .. chip.value /\ alarm'.elapsed \in 0 .. chip.value
            /\ chip.count # 1 /\ chip.count <= chip.value - alarm.elapsed
                 => chip'.count <= chip.value - alarm'.elapsed
            /\ chip.count # 1 /\ chip.count = chip.value - alarm.elapsed
                 => chip'.count = chip.value - alarm'.elapsed
            /\ chip.count = 1 /\ chip.count = chip.value - alarm.elapsed => alarm'.elapsed = chip.value
            /\ alarm.elapsed = chip.value => alarm'.elapsed = chip.value
        <5> DEFINE v == chip.value
                   c == chip.count
                   e == alarm.elapsed
        <5>1. /\ v \in 1 .. 255 /\ c \in 1 .. 255 /\ e \in 0 .. 255 /\ c <= v /\ e <= v
              /\ chip'.count = NextCount(c, v) /\ alarm'.elapsed = NextElapsed(e, v)
          BY <4>4, <4>5, <4>6
        <5> HIDE DEF v, c, e
        <5>2. /\ NextCount(c, v) \in 1 .. v /\ NextElapsed(e, v) \in 0 .. v
              /\ c # 1 /\ c <= v - e => NextCount(c, v) <= v - NextElapsed(e, v)
              /\ c # 1 /\ c = v - e => NextCount(c, v) = v - NextElapsed(e, v)
              /\ c = 1 /\ c = v - e => NextElapsed(e, v) = v
              /\ e = v => NextElapsed(e, v) = v
          BY <5>1, CountAgrees
        <5>3. /\ chip'.count \in 1 .. v /\ alarm'.elapsed \in 0 .. v
              /\ c # 1 /\ c <= v - e => chip'.count <= v - alarm'.elapsed
              /\ c # 1 /\ c = v - e => chip'.count = v - alarm'.elapsed
              /\ c = 1 /\ c = v - e => alarm'.elapsed = v
              /\ e = v => alarm'.elapsed = v
          BY <5>1, <5>2, Zenon
        <5> QED BY <5>3, Zenon DEF v, c, e
      <4>8. /\ chip'.tf <=> (chip.tf \/ chip.count = 1)
            /\ chip'.en /\ chip'.int /\ chip'.hz /\ chip'.value = chip.value
        BY <2>2, <4>1, <4>3, Zenon
      <4>9. /\ ~ chip'.tf => chip'.count <= alarm'.ticks - alarm'.elapsed
            /\ ~ chip'.tf /\ ~ overlap' => chip'.count = alarm'.ticks - alarm'.elapsed
            /\ chip'.tf /\ ~ overlap' => alarm'.elapsed = alarm'.ticks
        BY <2>1, <4>1, <4>2, <4>7, <4>8, Zenon
      <4>10. /\ chip'.count >= 1 /\ chip'.count <= chip'.value /\ alarm'.elapsed <= alarm'.ticks
        <5>1. chip'.count \in 1 .. chip.value /\ alarm'.elapsed \in 0 .. chip.value
          BY <4>7
        <5>2. chip'.value = chip.value /\ alarm'.ticks = chip.value /\ chip.value \in Nat
          BY <4>1, <4>2, <4>6, <4>8
        <5> QED BY <5>1, <5>2
      <4> QED BY <4>1, <4>2, <4>8, <4>9, <4>10 DEF PromiseInv
    <3> QED BY <3>1, <3>2
  <2> QED BY <1>3, <2>1, <2>3, <2>5, <2>6, <2>7 DEF RtcInv
<1> QED BY <1>4, <1>5, <1>6, <1>7, <1>8, <1>9, <1>10 DEF RtcNext
-----------------------------------------------------------------------------
(* The device.  The clock runs beside everything else.                     *)
LEMMA ClockSteps == [Next]_vars => [RtcNext]_rtcVars
<1> SUFFICES ASSUME [Next]_vars PROVE [RtcNext]_rtcVars
  OBVIOUS
<1> USE DEF RtcNext
<1>1. CASE UNCHANGED vars
  BY <1>1 DEF vars
<1>2. CASE Reset
  BY <1>2 DEF Reset
<1>3. CASE Bsdlib \/ Confirm \/ RtcReturns \/ Connect \/ StartDownload \/ Downloaded
  BY <1>3 DEF Bsdlib, Confirm, RtcReturns, Connect, StartDownload, Downloaded
<1>4. CASE RtcInitialised \/ RtcMissing
  BY <1>4 DEF RtcInitialised, RtcMissing
<1>5. CASE AppUsesClock \/ Clock
  BY <1>5 DEF AppUsesClock, Clock
<1>6. CASE \E p \in Packages, bad \in Bad : Announces(p, bad) \/ SaysNothingNew(p, bad)
  BY <1>6 DEF Announces, SaysNothingNew
<1> QED BY <1>1, <1>2, <1>3, <1>4, <1>5, <1>6 DEF Next

(* What an upgrade in progress knows of the package that began it.         *)
UpgradeInv ==
  /\ ota_data.host \in Seq(STRING) /\ ota_data.file \in Seq(STRING)
  /\ update # "none" => announced \in Packages /\ Upgrade(image, announced)
  /\ update = "started" /\ whole =>
       ota_data.host = announced.host /\ ota_data.file = announced.file
  /\ update = "downloading" =>
       fetched \in Packages /\ (whole => fetched = announced)

IInv == TypeOK /\ RtcInv /\ UpgradeInv

LEMMA VersionsAreVersions == Versions \subseteq Version /\ None \notin Versions
  BY DeviceAssumption, AsVersionType DEF Versions

LEMMA Initially == Init => IInv
<1> SUFFICES ASSUME Init PROVE IInv
  OBVIOUS
<1>1. RtcInv
  <2>1. /\ chip \in Registers /\ request \in Nat /\ overlap \in BOOLEAN /\ alarm = NoAlarm
        /\ transfers = NoCall
    <3>1. chip = [tf |-> FALSE, value |-> 0, count |-> 0, en |-> FALSE, int |-> FALSE,
                  hz |-> FALSE, stop |-> FALSE]
      BY DEF Init, RtcInit
    <3>2. chip \in Registers
      BY <3>1 DEF Registers
    <3> QED BY <3>2 DEF Init, RtcInit, NoCall
  <2>2. RtcTypes
    BY <2>1, CallTypes DEF RtcTypes
  <2> QED BY <2>1, <2>2, CallTypes, CallSteps DEF RtcInv, SettingInv, PromiseInv, Setting
<1>2. TypeOK
  BY <1>1 DEF Init, RamInit, TypeOK, Versions, RtcInv
<1>3. UpgradeInv
  BY DEF Init, RamInit, UpgradeInv, NoData
<1> QED BY <1>1, <1>2, <1>3 DEF IInv

LEMMA Inductive == IInv /\ [Next]_vars => IInv'
<1> SUFFICES ASSUME IInv, [Next]_vars PROVE IInv'
  OBVIOUS
<1>1. RtcInv' /\ RtcTypes'
  BY ClockSteps, RtcInvariant DEF IInv, RtcInv
<1>2. TypeOK /\ UpgradeInv
  BY DEF IInv
<1>3. SUFFICES TypeOK' /\ UpgradeInv'
  BY <1>1 DEF IInv
<1>4. CASE UNCHANGED vars
  BY <1>1, <1>2, <1>4 DEF vars, otaVars, flashVars, TypeOK, UpgradeInv, Versions
<1>5. CASE Reset
  <2>1. ota_data'.host \in Seq(STRING) /\ ota_data'.file \in Seq(STRING)
    BY <1>5 DEF Reset, NoData
  <2>2. image' \in Versions /\ previous' \in Versions \cup {None} /\ slot' = None
    BY <1>2, <1>5 DEF Reset, TypeOK
  <2>3. TypeOK'
    BY <1>1, <1>5, <2>2 DEF Reset, TypeOK, Versions
  <2>4. UpgradeInv'
    BY <1>5, <2>1 DEF Reset, UpgradeInv
  <2> QED BY <2>3, <2>4
<1>6. CASE Bsdlib \/ RtcInitialised \/ RtcMissing \/ RtcReturns \/ Connect \/ AppUsesClock \/ Clock
  <2>1. UNCHANGED <<otaVars, flashVars>>
    BY <1>6 DEF Bsdlib, RtcInitialised, RtcMissing, RtcReturns, Connect, AppUsesClock, Clock
  <2>2. main_pc' \in {main_pc, "confirm", "halted", "alarm", "modem", "connect", "wait"}
    BY <1>6 DEF Bsdlib, RtcInitialised, RtcMissing, RtcReturns, Connect, AppUsesClock, Clock
  <2>3. TypeOK'
    BY <1>1, <1>2, <2>1, <2>2 DEF TypeOK, otaVars, flashVars, Versions
  <2>4. UpgradeInv'
    BY <1>2, <2>1 DEF UpgradeInv, otaVars, flashVars
  <2> QED BY <2>3, <2>4
<1>7. CASE Confirm
  <2>1. TypeOK'
    BY <1>1, <1>2, <1>7 DEF Confirm, TypeOK, otaVars, Versions
  <2>2. UpgradeInv'
    BY <1>2, <1>7 DEF Confirm, UpgradeInv, otaVars
  <2> QED BY <2>1, <2>2
<1>8. ASSUME NEW p \in Packages, NEW bad \in Bad, Announces(p, bad)
      PROVE  TypeOK' /\ UpgradeInv'
  <2>1. p \in Package /\ p.host \in Seq(STRING) /\ p.file \in Seq(STRING)
    BY DeviceAssumption, CodecAssumption DEF Package
  <2>2. /\ ota_data'.version = AsVersion(p)
        /\ ota_data'.host = Overlay(ota_data.host, p.host)
        /\ ota_data'.file = Overlay(ota_data.file, p.file)
    BY <1>8, WholeMessage DEF Announces
  <2>3. Upgrade(image, p)
    <3>1. image \in Version
      BY <1>2, VersionsAreVersions DEF TypeOK
    <3>2. ver_comp(image, AsVersion(p)) = 1
      BY <1>8, <2>2 DEF Announces, NewerThanImage
    <3> QED BY <2>1, <3>1, <3>2, TruncationIsSafe
  <2>4. ota_data'.host \in Seq(STRING) /\ ota_data'.file \in Seq(STRING)
    BY <1>2, <2>1, <2>2, OverlayType DEF UpgradeInv
  <2>5. whole' => ota_data'.host = p.host /\ ota_data'.file = p.file
    BY <1>2, <1>8, <2>1, <2>2, OverlayCovers DEF Announces, Covered, UpgradeInv
  <2>6. TypeOK'
    BY <1>1, <1>2, <1>8 DEF Announces, Covered, TypeOK, flashVars, Versions
  <2>7. UpgradeInv'
    BY <1>8, <2>3, <2>4, <2>5 DEF Announces, UpgradeInv, flashVars
  <2> QED BY <2>6, <2>7
<1>9. ASSUME NEW p \in Packages, NEW bad \in Bad, SaysNothingNew(p, bad)
      PROVE  TypeOK' /\ UpgradeInv'
  <2>1. ota_data' \in decode_ota_data(ota_data, p, bad) /\ p \in Package
    BY <1>9, DeviceAssumption DEF SaysNothingNew
  <2>2. ota_data'.host \in Seq(STRING) /\ ota_data'.file \in Seq(STRING)
    BY <1>2, <2>1, TextsStay DEF UpgradeInv
  <2>3. whole' => whole /\ ota_data'.host = ota_data.host /\ ota_data'.file = ota_data.file
    BY <1>9, <2>1, UrlLeftAlone DEF SaysNothingNew
  <2>4. TypeOK'
    BY <1>1, <1>2, <1>9 DEF SaysNothingNew, TypeOK, flashVars, Versions
  <2>5. UpgradeInv'
    BY <1>2, <1>9, <2>2, <2>3 DEF SaysNothingNew, UpgradeInv, flashVars
  <2> QED BY <2>4, <2>5
<1>10. CASE StartDownload
  <2>1. PICK p \in Packages : p.host = ota_data.host /\ p.file = ota_data.file /\ fetched' = p
    BY <1>10 DEF StartDownload
  <2>2. whole => p = announced
    BY <1>2, <1>10, <2>1, DeviceAssumption DEF StartDownload, UpgradeInv
  <2>3. TypeOK'
    BY <1>1, <1>2, <1>10, <2>1 DEF StartDownload, TypeOK, flashVars, Versions
  <2>4. UpgradeInv'
    BY <1>2, <1>10, <2>1, <2>2 DEF StartDownload, UpgradeInv, flashVars
  <2> QED BY <2>3, <2>4
<1>11. CASE Downloaded
  <2>1. fetched \in Packages
    BY <1>2, <1>11 DEF Downloaded, UpgradeInv
  <2>2. slot' \in Versions
    BY <1>11, <2>1 DEF Downloaded, Versions
  <2>3. TypeOK'
    BY <1>1, <1>2, <1>11, <2>2 DEF Downloaded, TypeOK, otaVars, Versions
  <2>4. UpgradeInv'
    BY <1>2, <1>11 DEF Downloaded, UpgradeInv, otaVars
  <2> QED BY <2>3, <2>4
<1> QED BY <1>4, <1>5, <1>6, <1>7, <1>8, <1>9, <1>10, <1>11 DEF Next

LEMMA Always == Spec => []IInv
  BY Initially, Inductive, PTL DEF Spec

(* The state of the device has its types, the clock's included.            *)
THEOREM TypesHold == Spec => []TypeOK
<1>1. IInv => TypeOK
  BY DEF IInv
<1> QED BY <1>1, Always, PTL

(* Whatever packages the server has, with numbers of any size, an upgrade  *)
(* is begun only for one with higher numbers or another build of the same  *)
(* ones, before publish_evt_handler()'s bytes cut them short.              *)
THEOREM UpgradesAreReal == Spec => []UpgradeIsReal
<1>1. IInv => UpgradeIsReal
  BY DEF IInv, UpgradeInv, UpgradeIsReal
<1> QED BY <1>1, Always, PTL

(* fota_start_fn() downloads the package that was announced, whatever      *)
(* texts decode_ota_data() copied before and however messages that could   *)
(* not be decoded came in between, as long as the announcement covered     *)
(* what was there.                                                         *)
THEOREM UrlsAreAnnounced == Spec => []UrlIsAnnounced
<1>1. IInv => UrlIsAnnounced
  BY DEF IInv, UpgradeInv, UrlIsAnnounced
<1> QED BY <1>1, Always, PTL

(* For every number of seconds: an alarm pcf85063a_set_alarm() reported    *)
(* set is pending when they have passed and not before, through every      *)
(* failed transfer and every reset.                                        *)
THEOREM AlarmsAreKept == Spec => []AlarmIsKept
<1>1. IInv => AlarmIsKept
  <2> SUFFICES ASSUME RtcInv, alarm # NoAlarm PROVE AlarmIsKept
    BY DEF IInv, AlarmIsKept
  <2>1. alarm \in Alarms /\ chip \in Registers
    BY TypesNow DEF RtcInv
  <2>2. /\ chip.en /\ chip.int /\ chip.count >= 1
        /\ ~ chip.tf => chip.count <= alarm.ticks - alarm.elapsed
        /\ chip.tf /\ ~ overlap => alarm.elapsed = alarm.ticks
    BY DEF RtcInv, PromiseInv
  <2>3. alarm.elapsed = alarm.ticks => ~ chip.count <= alarm.ticks - alarm.elapsed
    BY <2>1, <2>2, AlarmTypes, RegisterTypes
  <2> QED BY <2>2, <2>3, Zenon DEF AlarmIsKept, PendingInt
<1> QED BY <1>1, Always, PTL
-----------------------------------------------------------------------------
(* The lifecycle.  What a text becomes when another is copied over it.     *)
LEMMA OverlayBegins ==
  ASSUME NEW old \in Seq(STRING), NEW text \in Seq(STRING)
  PROVE  /\ Begins(text, Overlay(old, text))
         /\ text = <<>> => Overlay(old, text) = old
<1> DEFINE rest == SubSeq(old, Len(text) + 1, Len(old))
<1>1. rest \in Seq(STRING) /\ Overlay(old, text) = text \o rest
  BY DEF Overlay
<1>2. Begins(text, Overlay(old, text))
  <2> HIDE DEF rest
  <2>1. Len(text \o rest) = Len(text) + Len(rest) /\ Len(text) \in Nat /\ Len(rest) \in Nat
    BY <1>1
  <2>2. \A i \in 1 .. Len(text) : (text \o rest)[i] = text[i]
    BY <1>1
  <2> QED BY <1>1, <2>1, <2>2 DEF Begins
<1>3. ASSUME text = <<>> PROVE Overlay(old, text) = old
  <2>1. rest = old
    BY <1>3
  <2> QED BY <1>1, <2>1, <1>3
<1> QED BY <1>2, <1>3

(* What a message leaves of a host or a file: the text it has, what was    *)
(* there, or the beginning of something that was never read.               *)
LEMMA PartsLeft ==
  ASSUME NEW part \in {"host", "file"}, NEW old, NEW p, NEW bad,
         NEW d \in decode_ota_data(old, p, bad)
  PROVE  \/ Part(d, part) = Overlay(Part(old, part), Part(p, part))
         \/ Part(d, part) = Part(old, part)
         \/ \E j \in Junk : Part(d, part) = Overlay(Part(old, part), j)
<1>1. d.host \in Copied("host", old.host, p.host, bad) /\ d.file \in Copied("file", old.file, p.file, bad)
  BY DEF decode_ota_data
<1>2. \A item, before, text : \A t \in Copied(item, before, text, bad) :
        t = Overlay(before, text) \/ t = before \/ \E j \in Junk : t = Overlay(before, j)
  BY Zenon DEF Copied
<1>3. \A x : Part(x, "host") = x.host /\ Part(x, "file") = x.file
  <2>1. "file" # "host"
    OBVIOUS
  <2> QED BY <2>1 DEF Part
<1>4. CASE part = "host"
  <2>1. Part(d, part) = d.host /\ Part(old, part) = old.host /\ Part(p, part) = p.host
    BY <1>3, <1>4
  <2>2. \/ d.host = Overlay(old.host, p.host) \/ d.host = old.host
        \/ \E j \in Junk : d.host = Overlay(old.host, j)
    BY <1>1, <1>2
  <2> QED BY <2>1, <2>2, Zenon
<1>5. CASE part = "file"
  <2>1. Part(d, part) = d.file /\ Part(old, part) = old.file /\ Part(p, part) = p.file
    BY <1>3, <1>5
  <2>2. \/ d.file = Overlay(old.file, p.file) \/ d.file = old.file
        \/ \E j \in Junk : d.file = Overlay(old.file, j)
    BY <1>1, <1>2
  <2> QED BY <2>1, <2>2, Zenon
<1> QED BY <1>4, <1>5

(* The part that tells the packages apart.                                 *)
Differ(part) ==
  /\ \A p, q \in Packages : Begins(Part(p, part), Part(q, part)) => p = q
  /\ \A j \in Junk, q \in Packages : Begins(j, Part(q, part)) => j = <<>>

LEMMA PartTypes ==
  ASSUME NEW part \in {"host", "file"}, UpgradeInv
  PROVE  /\ Part(ota_data, part) \in Seq(STRING)
         /\ \A p \in Packages : Part(p, part) \in Seq(STRING)
         /\ Junk \subseteq Seq(STRING)
<1>1. \A p \in Packages : p.host \in Seq(STRING) /\ p.file \in Seq(STRING)
  BY DeviceAssumption, CodecAssumption DEF Package
<1> QED BY <1>1, CodecAssumption DEF UpgradeInv, Part

(* A package that ota_data names after a message is the one the message is *)
(* about, or was named before.                                             *)
LEMMA NamesThatOne ==
  ASSUME NEW part \in {"host", "file"}, Differ(part), UpgradeInv,
         NEW p \in Packages, NEW bad, ota_data' \in decode_ota_data(ota_data, p, bad),
         NEW q \in Packages, Part(q, part) = Part(ota_data', part)
  PROVE  q = p \/ Part(q, part) = Part(ota_data, part)
<1>1. /\ Part(ota_data, part) \in Seq(STRING) /\ Part(p, part) \in Seq(STRING)
      /\ Junk \subseteq Seq(STRING)
  BY PartTypes
<1>2. CASE Part(ota_data', part) = Overlay(Part(ota_data, part), Part(p, part))
  BY <1>1, <1>2, OverlayBegins DEF Differ
<1>3. CASE \E j \in Junk : Part(ota_data', part) = Overlay(Part(ota_data, part), j)
  <2>1. PICK j \in Junk : Part(ota_data', part) = Overlay(Part(ota_data, part), j)
    BY <1>3
  <2>2. Begins(j, Part(q, part))
    BY <1>1, <2>1, OverlayBegins
  <2>3. j = <<>>
    BY <2>2 DEF Differ
  <2> QED BY <1>1, <2>1, <2>3, OverlayBegins
<1> QED BY <1>2, <1>3, PartsLeft

(* An image on trial, in the second slot or being downloaded is an upgrade *)
(* of the one before it.                                                   *)
TrialInv ==
  /\ update # "none" => Online
  /\ previous # None => ver_comp(previous, image) = 1
  /\ slot # None => update = "downloading" /\ ver_comp(image, slot) = 1
  /\ update = "downloading" => ver_comp(image, AsVersion(fetched)) = 1

(* Whatever ota_data names while the download is about to start is newer.  *)
AheadInv(part) ==
  update = "started" =>
    \A q \in Packages :
      Part(q, part) = Part(ota_data, part) => ver_comp(image, AsVersion(q)) = 1

LEMMA TrialInit == ASSUME NEW part, Init PROVE TrialInv /\ AheadInv(part)
  BY DEF Init, RamInit, TrialInv, AheadInv

LEMMA TrialStep ==
  ASSUME NEW part \in {"host", "file"}, Differ(part),
         IInv, TrialInv, AheadInv(part), [Next]_vars
  PROVE  TrialInv' /\ AheadInv(part)'
<1>1. UpgradeInv /\ TypeOK
  BY DEF IInv
<1>2. CASE UNCHANGED vars
  BY <1>2 DEF vars, otaVars, flashVars, TrialInv, AheadInv, Online, Part
<1>3. CASE Reset
  <2>1. previous' # None => ver_comp(previous', image') = 1
    BY <1>3 DEF Reset, TrialInv
  <2> QED BY <1>3, <2>1 DEF Reset, TrialInv, AheadInv
<1>4. CASE Bsdlib \/ RtcInitialised \/ RtcMissing \/ RtcReturns \/ Connect \/ AppUsesClock \/ Clock
  <2>1. UNCHANGED <<otaVars, flashVars>>
    BY <1>4 DEF Bsdlib, RtcInitialised, RtcMissing, RtcReturns, Connect, AppUsesClock, Clock
  <2>2. \/ main_pc' = main_pc
        \/ main_pc' \in {"confirm", "halted"} /\ main_pc = "bsdlib"
        \/ /\ main_pc \in {"rtc", "alarm", "modem", "connect"}
           /\ main_pc' \in {"alarm", "modem", "connect", "wait"}
    BY <1>4 DEF Bsdlib, RtcInitialised, RtcMissing, RtcReturns, Connect, AppUsesClock, Clock
  <2>3. AheadInv(part)'
    BY <2>1 DEF AheadInv, otaVars, flashVars, Part
  <2> QED BY <2>1, <2>2, <2>3 DEF TrialInv, Online, otaVars, flashVars
<1>5. CASE Confirm
  <2>1. AheadInv(part)'
    BY <1>5 DEF Confirm, AheadInv, otaVars, Part
  <2> QED BY <1>5, <2>1 DEF Confirm, TrialInv, Online, otaVars
<1>6. ASSUME NEW p \in Packages, NEW bad \in Bad, Announces(p, bad)
      PROVE  TrialInv' /\ AheadInv(part)'
  <2>1. ota_data' \in decode_ota_data(ota_data, p, bad) /\ UNCHANGED <<main_pc, fetched, flashVars>>
        /\ Online /\ update \in {"none", "started"} /\ update' = "started"
    BY <1>6 DEF Announces
  <2>2. /\ ota_data'.version = AsVersion(p)
        /\ ota_data'.host = Overlay(ota_data.host, p.host)
        /\ ota_data'.file = Overlay(ota_data.file, p.file)
    BY <1>6, WholeMessage DEF Announces
  <2>3. ver_comp(image, AsVersion(p)) = 1
    BY <1>6, <2>2 DEF Announces, NewerThanImage
  <2>4. Part(ota_data', part) = Overlay(Part(ota_data, part), Part(p, part))
    BY <2>2 DEF Part
  <2>5. ASSUME NEW q \in Packages, Part(q, part) = Part(ota_data', part)
        PROVE  q = p
    <3>1. Part(ota_data, part) \in Seq(STRING) /\ Part(p, part) \in Seq(STRING)
      BY <1>1, PartTypes
    <3> QED BY <3>1, <2>4, <2>5, OverlayBegins DEF Differ
  <2>6. AheadInv(part)'
    <3> SUFFICES ASSUME NEW q \in Packages, Part(q, part) = Part(ota_data', part)
                 PROVE  ver_comp(image', AsVersion(q)) = 1
      BY DEF AheadInv, Part
    <3>1. image' = image
      BY <2>1 DEF flashVars
    <3> QED BY <2>3, <2>5, <3>1
  <2> QED BY <2>1, <2>6 DEF TrialInv, Online, flashVars
<1>7. ASSUME NEW p \in Packages, NEW bad \in Bad, SaysNothingNew(p, bad)
      PROVE  TrialInv' /\ AheadInv(part)'
  <2>1. /\ ota_data' \in decode_ota_data(ota_data, p, bad)
        /\ UNCHANGED <<update, announced, fetched, flashVars>>
        /\ Online /\ main_pc' \in {main_pc, "app"}
    BY <1>7 DEF SaysNothingNew
  <2>2. AheadInv(part)'
    <3> SUFFICES ASSUME update = "started",
                        NEW q \in Packages, Part(q, part) = Part(ota_data', part)
                 PROVE  ver_comp(image, AsVersion(q)) = 1
      BY <2>1 DEF AheadInv, Part, flashVars
    <3>1. CASE bad \in {"map", "version"}
      <4>1. ota_data'.host = ota_data.host /\ ota_data'.file = ota_data.file
        BY <2>1, <3>1, UrlLeftAlone
      <4> QED BY <4>1 DEF AheadInv, Part
    <3>2. CASE bad \notin {"map", "version"}
      <4>1. ver_comp(image, AsVersion(p)) = 1
        BY <1>7, <3>2 DEF SaysNothingNew, NewerThanImage
      <4>2. q = p \/ Part(q, part) = Part(ota_data, part)
        BY <1>1, <2>1, NamesThatOne
      <4> QED BY <4>1, <4>2 DEF AheadInv
    <3> QED BY <3>1, <3>2
  <2> QED BY <2>1, <2>2 DEF TrialInv, Online, flashVars
<1>8. CASE StartDownload
  <2>1. PICK p \in Packages : p.host = ota_data.host /\ p.file = ota_data.file /\ fetched' = p
    BY <1>8 DEF StartDownload
  <2>2. ver_comp(image, AsVersion(p)) = 1
    BY <1>8, <2>1 DEF StartDownload, AheadInv, Part
  <2> QED BY <1>8, <2>1, <2>2 DEF StartDownload, TrialInv, AheadInv, Online, flashVars
<1>9. CASE Downloaded
  BY <1>9 DEF Downloaded, TrialInv, AheadInv, Online, otaVars
<1> QED BY <1>2, <1>3, <1>4, <1>5, <1>6, <1>7, <1>8, <1>9 DEF Next

LEMMA SameComparison == \A v, w : Lifecycle!ver_comp(v, w) = ver_comp(v, w)
  BY DEF Lifecycle!ver_comp, ver_comp, Lifecycle!VER_ENTIRES, VER_ENTIRES

(* The lifecycle's variables.                                              *)
Phase ==
  IF previous # None \/ update # "none" THEN "upgrading"
  ELSE IF main_pc = "app" THEN "running" ELSE "checking"
Confirmed == IF previous # None THEN previous ELSE image

LEMMA LifecycleSteps ==
  ASSUME IInv, TrialInv, [Next]_vars
  PROVE  \/ /\ Phase = "checking" /\ Phase' = "running" /\ Confirmed' = Confirmed
         \/ /\ Phase # "upgrading" /\ Phase' = "upgrading" /\ Confirmed' = Confirmed
            /\ \E v \in Versions : ver_comp(Confirmed, v) = 1
         \/ /\ Phase = "upgrading" /\ Phase' = "checking"
            /\ \/ Confirmed' = Confirmed
               \/ Confirmed' \in Versions /\ ver_comp(Confirmed, Confirmed') = 1
         \/ /\ Phase = "upgrading" /\ Phase' = "upgrading"
            /\ Confirmed' \in Versions /\ ver_comp(Confirmed, Confirmed') = 1
         \/ Phase = "running" /\ Phase' = "checking" /\ Confirmed' = Confirmed
         \/ Phase' = Phase /\ Confirmed' = Confirmed
<1>1. TypeOK /\ UpgradeInv
  BY DEF IInv
<1>2. CASE UNCHANGED vars
  BY <1>2 DEF vars, otaVars, flashVars, Phase, Confirmed
<1>3. CASE Reset
  <2>1. CASE slot # None
    <3>1. update = "downloading"
      BY <2>1 DEF TrialInv
    <3>2. image \in Versions /\ image # None
      BY <1>1, VersionsAreVersions DEF TypeOK
    <3>3. Phase = "upgrading" /\ Phase' = "upgrading" /\ Confirmed' = image
      BY <1>3, <2>1, <3>1, <3>2 DEF Reset, Phase, Confirmed
    <3>4. CASE previous = None
      BY <3>3, <3>4 DEF Confirmed
    <3>5. CASE previous # None
      BY <3>2, <3>3, <3>5 DEF Confirmed, TrialInv
    <3> QED BY <3>4, <3>5
  <2>2. CASE slot = None
    <3>1. CASE previous = None
      BY <1>3, <2>2, <3>1 DEF Reset, Phase, Confirmed
    <3>2. CASE previous # None
      <4>1. Phase = "upgrading" /\ Confirmed = previous
        BY <3>2 DEF Phase, Confirmed
      <4>2. previous' = None /\ image' \in {previous, image}
            /\ main_pc' = "bsdlib" /\ update' = "none"
        BY <1>3, <2>2, <3>2 DEF Reset
      <4>3. Phase' = "checking" /\ Confirmed' = image'
        BY <4>2 DEF Phase, Confirmed
      <4>4. image \in Versions /\ ver_comp(previous, image) = 1
        BY <1>1, <3>2 DEF TypeOK, TrialInv
      <4> QED BY <4>1, <4>2, <4>3, <4>4
    <3> QED BY <3>1, <3>2
  <2> QED BY <2>1, <2>2
<1>4. CASE Bsdlib \/ RtcInitialised \/ RtcMissing \/ RtcReturns \/ Connect \/ AppUsesClock \/ Clock
  <2>1. UNCHANGED <<otaVars, flashVars>>
    BY <1>4 DEF Bsdlib, RtcInitialised, RtcMissing, RtcReturns, Connect, AppUsesClock, Clock
  <2>2. main_pc' = "app" <=> main_pc = "app"
    BY <1>4 DEF Bsdlib, RtcInitialised, RtcMissing, RtcReturns, Connect, AppUsesClock, Clock
  <2> QED BY <2>1, <2>2 DEF otaVars, flashVars, Phase, Confirmed
<1>5. CASE Confirm
  <2>1. update = "none"
    BY <1>5 DEF Confirm, TrialInv, Online
  <2>2. image' = image /\ image \in Versions /\ previous' \in {None, previous}
        /\ update' = update /\ main_pc = "confirm" /\ main_pc' = "rtc"
    BY <1>1, <1>5 DEF Confirm, TypeOK, otaVars
  <2>3. CASE previous' = previous
    BY <2>1, <2>2, <2>3 DEF Phase, Confirmed
  <2>4. CASE previous # None /\ previous' = None
    BY <2>1, <2>2, <2>4 DEF TrialInv, Phase, Confirmed
  <2> QED BY <2>2, <2>3, <2>4
<1>6. ASSUME NEW p \in Packages, NEW bad \in Bad, Announces(p, bad)
      PROVE  \/ /\ Phase # "upgrading" /\ Phase' = "upgrading" /\ Confirmed' = Confirmed
                /\ \E v \in Versions : ver_comp(Confirmed, v) = 1
             \/ Phase' = Phase /\ Confirmed' = Confirmed
  <2>1. UNCHANGED <<main_pc, flashVars>> /\ Online /\ update' = "started"
    BY <1>6 DEF Announces
  <2>2. ver_comp(image, AsVersion(p)) = 1 /\ AsVersion(p) \in Versions
    BY <1>6, WholeMessage DEF Announces, NewerThanImage, Versions
  <2> QED BY <2>1, <2>2 DEF flashVars, Phase, Confirmed
<1>7. ASSUME NEW p \in Packages, NEW bad \in Bad, SaysNothingNew(p, bad)
      PROVE  \/ Phase = "checking" /\ Phase' = "running" /\ Confirmed' = Confirmed
             \/ Phase' = Phase /\ Confirmed' = Confirmed
  <2>1. /\ Online /\ UNCHANGED <<update, flashVars>>
        /\ main_pc' = IF update = "none" THEN "app" ELSE main_pc
    BY <1>7 DEF SaysNothingNew
  <2> QED BY <2>1 DEF flashVars, Phase, Confirmed
<1>8. CASE StartDownload \/ Downloaded
  BY <1>8 DEF StartDownload, Downloaded, otaVars, flashVars, Phase, Confirmed
<1> QED BY <1>2, <1>3, <1>4, <1>5, <1>6, <1>7, <1>8 DEF Next

(* For every set of packages whose hosts or files tell them apart: through *)
(* every reset at any step, every mixture of texts and every trial of an   *)
(* image, confirmed or not, the device goes through the update lifecycle,  *)
(* and what MCUboot may go back to is the confirmed image or an upgrade of *)
(* it.                                                                     *)
THEOREM DeviceLifecycle ==
  ASSUME UrlsDiffer
  PROVE  Spec => Refines
<1>1. PICK part \in {"host", "file"} : Differ(part)
  BY DEF UrlsDiffer, Differ
<1>2. Init => Lifecycle!Init
  BY DEF Init, RamInit, Lifecycle!Init
<1>3. IInv /\ TrialInv /\ [Next]_vars => [Lifecycle!Next]_(Lifecycle!vars)
  <2> SUFFICES ASSUME IInv, TrialInv, [Next]_vars
               PROVE  [Lifecycle!Next]_(Lifecycle!vars)
    OBVIOUS
  <2> QED
    BY LifecycleSteps, SameComparison
    DEF Lifecycle!Next, Lifecycle!vars, Lifecycle!Proceed, Lifecycle!BeginUpgrade,
        Lifecycle!Restart, Lifecycle!ReplaceTrial, Lifecycle!Reset, Phase, Confirmed
<1>4. Init => TrialInv /\ AheadInv(part)
  BY TrialInit
<1>5. IInv /\ TrialInv /\ AheadInv(part) /\ [Next]_vars => TrialInv' /\ AheadInv(part)'
  BY <1>1, TrialStep
<1> HIDE DEF AheadInv, TrialInv, IInv
<1> QED BY <1>2, <1>3, <1>4, <1>5, Always, PTL DEF Spec, Refines, Lifecycle!Spec
=============================================================================
