------------------------------- MODULE HciUart -------------------------------
(***************************************************************************)
(* samples/hci_uart: the firmware of the Bluetooth controller, between a   *)
(* UART and the link layer.  bt_uart_isr() frames what the host sends into *)
(* buffers of two fixed pools; tx_thread() passes them to the controller;  *)
(* main() writes the controller's events to the UART.                      *)
(*                                                                         *)
(* The interrupt preempts both threads.  It never waits, except for the    *)
(* header of a packet whose type it has read; nothing else runs until the  *)
(* header has come.  H4 has no way to find the start of a packet again: a  *)
(* byte read in the wrong place counts as whatever value it has.           *)
(***************************************************************************)
EXTENDS Integers, Sequences, SequencesExt, FiniteSets

CONSTANTS
  Pool,            \* buffers for commands and for ACL data
  Room,            \* payload that fits into a buffer
  Lengths,         \* how long the payloads of packets are
  DiscardLen,      \* H4_DISCARD_LEN
  Credits,         \* packets the host may have under way (HCI flow control)
  MaxPackets,      \* bound: packets the host sends
  Faults           \* which of the faults below may happen

Types == {"cmd", "acl"}

(* flood: the host sends without a credit; oversize: or a packet too large; *)
(* sendfail: bt_send() fails; assert: the controller asserts.              *)
ASSUME HciAssumption ==
  /\ Pool \in [Types -> Nat] /\ Credits \in [Types -> Nat]
  /\ \A t \in Types : Credits[t] <= Pool[t]
  /\ Room \in Nat /\ Lengths \subseteq Nat /\ DiscardLen \in Nat \ {0}
  /\ MaxPackets \in Nat
  /\ Faults \subseteq {"flood", "oversize", "sendfail", "assert"}

VARIABLES
  \* the host (external)
  sent,            \* packets begun so far
  sending,         \* bytes of the last one that are still to come
  credits,         \* of each type, how many packets the host may send
  line,            \* bytes that came and were not read
  \* bt_uart_isr()
  isr,             \* "idle", "header" (waits for it) or "body" (goes on after it)
  buf,             \* type of the buffer being filled, "none" when NULL
  remaining,       \* bytes of the packet still to be read
  filled,          \* bytes in the buffer, the type that it stands for first
  \* threads
  free,            \* of each pool, the buffers that are not in use
  tx_queue,        \* buffers for the controller
  started,         \* main() has written the first event and started tx_thread()
  rx_queue,        \* events for the host: the type of packet each one credits
  writing,         \* main() is in h4_send(), with the first event of rx_queue
  halted,          \* the assertion handler's endless loop
  \* history
  handed,          \* what bt_send() was called with
  starved,         \* a type byte was thrown away for want of a buffer
  faults           \* faults that happened

hostVars   == <<sent, sending, credits>>
isrVars    == <<isr, buf, remaining, filled>>
threadVars == <<started, rx_queue, writing, halted, handed>>
vars == <<hostVars, line, isrVars, free, tx_queue, threadVars, starved, faults>>

Packet == [type : Types, len : Lengths]
Byte == [part : {"type", "header", "data"}, packet : Packet]

(* A packet on the line.  The header stands for its three or four bytes.   *)
Bytes(p) ==
  <<[part |-> "type", packet |-> p], [part |-> "header", packet |-> p]>>
    \o [i \in 1 .. p.len |-> [part |-> "data", packet |-> p]]

TypeOK ==
  /\ sent \in Seq(Packet) /\ sending \in Seq(Byte) /\ line \in Seq(Byte)
  /\ credits \in [Types -> Nat]
  /\ isr \in {"idle", "header", "body"} /\ buf \in Types \cup {"none"}
  /\ remaining \in Nat /\ filled \in Seq(Byte)
  /\ free \in [Types -> Nat] /\ \A t \in Types : free[t] <= Pool[t]
  /\ tx_queue \in Seq([type : Types, bytes : Seq(Byte)])
  /\ handed \in Seq(Seq(Byte))
  /\ started \in BOOLEAN /\ rx_queue \in Seq(Types)
  /\ writing \in BOOLEAN /\ halted \in BOOLEAN
  /\ starved \in BOOLEAN /\ faults \subseteq Faults

Init ==
  /\ sent = <<>> /\ sending = <<>> /\ credits = [t \in Types |-> 0] /\ line = <<>>
  /\ isr = "idle" /\ buf = "none" /\ remaining = 0 /\ filled = <<>>
  /\ free = Pool /\ tx_queue = <<>>
  /\ started = FALSE /\ rx_queue = <<>> /\ writing = FALSE /\ halted = FALSE
  /\ handed = <<>> /\ starved = FALSE /\ faults = {}
-----------------------------------------------------------------------------
(* The host.                                                               *)

HostBegins(p) ==
  /\ sending = <<>> /\ Len(sent) < MaxPackets
  /\ credits[p.type] > 0 \/ "flood" \in Faults
  /\ p.len <= Room \/ "oversize" \in Faults
  /\ sent' = Append(sent, p)
  /\ sending' = Tail(Bytes(p)) /\ line' = Append(line, Head(Bytes(p)))
  /\ credits' = [credits EXCEPT ![p.type] = IF @ > 0 THEN @ - 1 ELSE 0]
  /\ faults' = faults \cup (IF credits[p.type] = 0 THEN {"flood"} ELSE {})
                      \cup (IF p.len > Room THEN {"oversize"} ELSE {})
  /\ UNCHANGED <<isrVars, free, tx_queue, threadVars, starved>>

HostContinues ==
  /\ sending # <<>>
  /\ line' = Append(line, Head(sending)) /\ sending' = Tail(sending)
  /\ UNCHANGED <<sent, credits, isrVars, free, tx_queue, threadVars, starved, faults>>
-----------------------------------------------------------------------------
(* bt_uart_isr(), one iteration of its loop at a time.                     *)

(* What a byte may be taken for where a type or a header is expected.      *)
AsType(b) == IF b.part = "type" THEN {b.packet.type} ELSE Types \cup {"other"}
AsLength(b) == IF b.part = "header" THEN {b.packet.len} ELSE Lengths

(* The type of a packet, and a buffer for it.  Without one the byte is     *)
(* gone: of an unknown type, or of a type whose pool is empty.             *)
ReadType ==
  /\ ~ halted /\ isr = "idle" /\ remaining = 0 /\ line # <<>>
  /\ line' = Tail(line)
  /\ \E t \in AsType(Head(line)) :
       IF t \in Types /\ free[t] > 0
         THEN /\ free' = [free EXCEPT ![t] = @ - 1]
              /\ buf' = t /\ filled' = <<Head(line)>> /\ isr' = "header"
              /\ UNCHANGED starved
         ELSE /\ starved' = (starved \/ t \in Types)
              /\ buf' = "none"
              /\ UNCHANGED <<free, filled, isr>>
  /\ UNCHANGED <<hostVars, remaining, tx_queue, threadVars, faults>>

(* h4_cmd_recv(), h4_acl_recv(): the length.  A packet that does not fit   *)
(* gives its buffer back; its payload will be discarded.  Wrong variant:   *)
(* the buffer is forgotten.                                                *)
ForgottenBuffer(t) == free' = free
GivenBack(t)       == free' = [free EXCEPT ![t] = @ + 1]

ReadHeader ==
  /\ ~ halted /\ isr = "header" /\ line # <<>>
  /\ line' = Tail(line)
  /\ isr' = "body"
  /\ \E len \in AsLength(Head(line)) :
       /\ remaining' = len
       /\ \/ /\ len > Room
             /\ GivenBack(buf)
             /\ buf' = "none" /\ filled' = <<>>
          \/ /\ len <= Room
             /\ filled' = Append(filled, Head(line))
             /\ UNCHANGED <<free, buf>>
  /\ UNCHANGED <<hostVars, tx_queue, threadVars, starved, faults>>

AtPayload == isr = "body" \/ (isr = "idle" /\ remaining > 0 /\ line # <<>>)

(* h4_discard(): at most as much as is left of the packet.  Wrong variant: *)
(* as much as has come.                                                    *)
DiscardAll  == Min({DiscardLen, Len(line)})
DiscardSome == Min({remaining, DiscardLen, Len(line)})

DiscardPayload ==
  /\ ~ halted /\ AtPayload /\ buf = "none"
  /\ LET n == DiscardSome IN
       /\ line' = SubSeq(line, n + 1, Len(line))
       /\ remaining' = IF n > remaining THEN 0 ELSE remaining - n
  /\ isr' = "idle"
  /\ UNCHANGED <<hostVars, buf, filled, free, tx_queue, threadVars, starved, faults>>

(* Payload that has come is read; the buffer of a whole packet is queued.  *)
ReadPayload ==
  /\ ~ halted /\ AtPayload /\ buf # "none"
  /\ LET n == Min({remaining, Len(line)})
         bytes == filled \o SubSeq(line, 1, n)
     IN  /\ line' = SubSeq(line, n + 1, Len(line))
         /\ remaining' = remaining - n
         /\ IF n = remaining
              THEN /\ tx_queue' = Append(tx_queue, [type |-> buf, bytes |-> bytes])
                   /\ buf' = "none" /\ filled' = <<>>
              ELSE filled' = bytes /\ UNCHANGED <<tx_queue, buf>>
  /\ isr' = "idle"
  /\ UNCHANGED <<hostVars, free, threadVars, starved, faults>>
-----------------------------------------------------------------------------
(* The threads run while no interrupt does.                                *)

ThreadsRun == ~ halted /\ isr = "idle"

(* main(): a first Command Complete, for no command, gives the host its    *)
(* first credit (CONFIG_BT_WAIT_NOP, which the board's configuration sets, *)
(* boards/particle_xenon.conf:4); then tx_thread() is created.  Wrong      *)
(* variants: no such event is written; it allows more than there are       *)
(* buffers.                                                                *)
NoFirstEvent    == credits' = credits
FirstEventLarge == credits' = [t \in Types |-> Pool[t] + 1]
FirstEvent      == credits' = Credits

MainStarts ==
  /\ ThreadsRun /\ ~ started
  /\ started' = TRUE
  /\ FirstEvent
  /\ UNCHANGED <<sent, sending, line, isrVars, free, tx_queue, rx_queue, writing,
                 halted, handed, starved, faults>>

(* tx_thread(): the controller takes the packet, releases the buffer and   *)
(* reports the completion; or refuses it, and the thread releases it.      *)
(* Wrong variants: it does not; the controller had released it already.    *)
SendRefusedOnly(t)  == free' = free
SendRefusedTwice(t) == free' = [free EXCEPT ![t] = @ + 2]
SendRefused(t)      == free' = [free EXCEPT ![t] = @ + 1]

ThreadSends ==
  /\ ThreadsRun /\ started /\ tx_queue # <<>>
  /\ handed' = Append(handed, Head(tx_queue).bytes)
  /\ tx_queue' = Tail(tx_queue)
  /\ LET t == Head(tx_queue).type IN
       \/ /\ free' = [free EXCEPT ![t] = @ + 1]
          /\ rx_queue' = Append(rx_queue, t)
          /\ UNCHANGED faults
       \/ /\ "sendfail" \in Faults
          /\ SendRefused(t)
          /\ faults' = faults \cup {"sendfail"}
          /\ UNCHANGED rx_queue
  /\ UNCHANGED <<hostVars, line, isrVars, started, writing, halted, starved>>

(* main(): h4_send() writes an event byte by byte; the host reads it.      *)
MainWrites ==
  /\ ThreadsRun /\ started /\ rx_queue # <<>> /\ ~ writing
  /\ writing' = TRUE
  /\ UNCHANGED <<hostVars, line, isrVars, free, tx_queue, started, rx_queue, halted,
                 handed, starved, faults>>

MainWritten ==
  /\ ThreadsRun /\ writing
  /\ writing' = FALSE
  /\ rx_queue' = Tail(rx_queue)
  /\ credits' = [credits EXCEPT ![Head(rx_queue)] = @ + 1]
  /\ UNCHANGED <<sent, sending, line, isrVars, free, tx_queue, started, halted,
                 handed, starved, faults>>

(* bt_ctlr_assert_handle(), in an interrupt: a debug event, whatever is    *)
(* being written, and an endless loop.                                     *)
ControllerAsserts ==
  /\ ~ halted /\ "assert" \in Faults
  /\ halted' = TRUE
  /\ faults' = faults \cup {"assert"}
  /\ UNCHANGED <<hostVars, line, isrVars, free, tx_queue, started, rx_queue, writing,
                 handed, starved>>
-----------------------------------------------------------------------------
Host      == HostContinues \/ \E p \in Packet : HostBegins(p)
Interrupt == ReadType \/ ReadHeader \/ DiscardPayload \/ ReadPayload
Threads   == MainStarts \/ ThreadSends \/ MainWrites \/ MainWritten

Next == Host \/ Interrupt \/ Threads \/ ControllerAsserts

Spec == Init /\ [][Next]_vars

(* The host finishes a packet it began; interrupts are served and threads  *)
(* scheduled.                                                              *)
FairSpec ==
  Spec /\ WF_vars(HostContinues) /\ WF_vars(Interrupt)
       /\ WF_vars(MainStarts) /\ WF_vars(ThreadSends)
       /\ WF_vars(MainWrites) /\ WF_vars(MainWritten)

Fits(p) == p.len <= Room

(* How many of the first i packets fit into a buffer.                      *)
Fitting(i) == Cardinality({j \in 1 .. i : Fits(sent[j])})

(* What the controller got and what waits for it.                          *)
Passed == handed \o [i \in 1 .. Len(tx_queue) |-> tx_queue[i].bytes]

(* As long as every type byte found a buffer, the controller gets the      *)
(* host's packets byte for byte and in order, but for those too large,     *)
(* which are skipped without losing the framing: the k-th packet it gets   *)
(* is the k-th that fits, whatever the lengths, and wherever an interrupt  *)
(* finds the bytes that have come.                                         *)
PacketsAreWhole ==
  ~ starved =>
    /\ Len(Passed) <= Fitting(Len(sent))
    /\ \A i \in DOMAIN sent :
         Fits(sent[i]) /\ Fitting(i) <= Len(Passed)
           => Passed[Fitting(i)] = Bytes(sent[i])

(* A host that respects the flow control never finds a pool empty: the    *)
(* credit for a packet is given after its buffer is back.                  *)
FlowControlSuffices == starved => "flood" \in faults

(* Every buffer comes back to its pool, also that of a packet too large or *)
(* refused by the controller, unless the framing was lost or the           *)
(* controller has asserted.                                                *)
BuffersComeBack ==
  \A t \in Types : free[t] < Pool[t] ~> free[t] = Pool[t] \/ starved \/ halted

(* A host that waits for a credit gets it, unless a fault cost it one.     *)
CreditsReturn ==
  \A t \in Types : credits[t] = 0 ~> credits[t] > 0 \/ faults # {}
=============================================================================
