------------------------------- MODULE Comms -------------------------------
(***************************************************************************)
(* The serial line to another processor, subsys/comms/comms.c: two ring    *)
(* buffers between the UART's interrupt and the threads.                   *)
(*                                                                         *)
(* Receiving: the interrupt puts what arrived into rx_buf and signals the  *)
(* thread, which cuts the bytes into messages, each behind a byte with its *)
(* length.  Sending: comms_write() puts bytes into tx_buf and starts a     *)
(* transmission of what is in it; the interrupt starts the next.  The      *)
(* interrupt comes between any two steps of either thread.                 *)
(*                                                                         *)
(* A ring buffer is the sequence of its bytes, how many of them are        *)
(* claimed, and where in memory the first one is: a claim ends where the   *)
(* memory does.  A byte sent is its number in the order of writing.        *)
(* The receiving thread, of the lowest priority, initialises both rings;   *)
(* the interrupt and a write may come before it.                           *)
(***************************************************************************)
EXTENDS Naturals, Sequences, FiniteSets, SequencesExt

CONSTANTS
  RxSize, TxSize,    \* sizes of the ring buffers
  ClaimSize,         \* UART_RINGBUF_SIZE, the most a claim asks for
  Lengths,           \* lengths of the messages the peer sends
  MaxMessages,       \* bound: messages the peer sends
  WriteLengths,      \* lengths the application writes
  MaxBytes           \* bound: bytes the application writes

ASSUME CommsAssumption ==
  /\ RxSize \in Nat \ {0} /\ TxSize \in Nat \ {0} /\ ClaimSize \in Nat \ {0}
  /\ Lengths \subseteq Nat /\ WriteLengths \subseteq Nat \ {0}
  /\ MaxMessages \in Nat /\ MaxBytes \in Nat

VARIABLES
  rx, comms_sem, rx_pc,          \* receiving: ring, signal, comms_rx_thread
  message, message_size,         \* what the thread has of the present message
  line, sent, delivered,         \* bytes on the line, messages sent and delivered
  excused, cut,                  \* see DeliveredInOrder; the last claim left
                                 \* bytes, at its limit or the memory's end
  tx, air,                       \* sending: ring, the block under transmission
  tx_pc, block, written,         \* comms_write(): its step, the block it claimed
  wire, aborted, overlapped      \* what was transmitted; the last transmission
                                 \* was aborted; see SentWhole

rxVars == <<rx, comms_sem, rx_pc, message, message_size, line, sent, delivered,
            excused, cut>>
txVars == <<tx, air, tx_pc, block, written, wire, aborted,
            overlapped>>
vars == <<rxVars, txVars>>

(* A byte received is a length or a place in message m; end marks the last *)
(* byte of a message.                                                      *)
Byte == [value : Nat, end : BOOLEAN]

Init ==
  /\ rx = [bytes |-> <<>>, claimed |-> 0, at |-> 0]
  /\ comms_sem = FALSE /\ rx_pc = "init"
  /\ message = <<>> /\ message_size = 0
  /\ line = <<>> /\ sent = <<>> /\ delivered = <<>>
  /\ excused = FALSE /\ cut = FALSE
  /\ tx = [bytes |-> <<>>, claimed |-> 0, at |-> 0]
  /\ air = <<>> /\ tx_pc = "idle" /\ block = <<>> /\ written = 0
  /\ wire = <<>> /\ aborted = FALSE /\ overlapped = FALSE
-----------------------------------------------------------------------------
(* Zephyr's ring buffer.                                                   *)

Least(S) == CHOOSE n \in S : \A k \in S : n <= k

Room(ring, size) == size - Len(ring.bytes)
Put(ring, size, bytes) ==
  [ring EXCEPT !.bytes = @ \o SubSeq(bytes, 1, Least({Len(bytes), Room(ring, size)}))]

(* ring_buf_get_claim(): how much can be claimed beyond the last claim.    *)
Claimable(ring, size) ==
  Least({ClaimSize,
         Len(ring.bytes) - ring.claimed,
         size - ((ring.at + ring.claimed) % size)})

Claimed(ring, n) == SubSeq(ring.bytes, ring.claimed + 1, ring.claimed + n)
Claim(ring, n) == [ring EXCEPT !.claimed = @ + n]

(* ring_buf_get_finish(): forgets every claim; fails if n is too much.     *)
Finish(ring, size, n) ==
  IF n > Len(ring.bytes) THEN ring
  ELSE [bytes |-> SubSeq(ring.bytes, n + 1, Len(ring.bytes)),
        claimed |-> 0, at |-> (ring.at + n) % size]
-----------------------------------------------------------------------------
(* The peer sends a message of length n: its number n times.               *)
Encoded(m, n) ==
  <<[value |-> n, end |-> FALSE]>> \o [k \in 1 .. n |-> [value |-> m, end |-> k = n]]

PeerSends ==
  /\ Len(sent) < MaxMessages
  /\ \E n \in Lengths :
       LET m == Len(sent) + 1 IN
       /\ sent' = Append(sent, [k \in 1 .. n |-> m])
       /\ line' = line \o Encoded(m, n)
  /\ UNCHANGED <<rx, comms_sem, rx_pc, message, message_size, delivered, excused,
                 cut, txVars>>

(* UART_RX_RDY: what does not fit into the ring is lost.  Wrong variant:   *)
(* the thread is only signalled when the ring was empty.                   *)
RxReadyIfEmpty ==
  /\ rx_pc # "init"
  /\ \E n \in 1 .. Len(line) :
       /\ rx' = Put(rx, RxSize, SubSeq(line, 1, n))
       /\ line' = SubSeq(line, n + 1, Len(line))
       /\ excused' = (excused \/ n > Room(rx, RxSize))
  /\ comms_sem' = (comms_sem \/ rx.bytes = <<>>)
  /\ UNCHANGED <<rx_pc, message, message_size, sent, delivered, cut, txVars>>

RxReady ==
  /\ rx_pc # "init"
  /\ \E n \in 1 .. Len(line) :
       /\ rx' = Put(rx, RxSize, SubSeq(line, 1, n))
       /\ line' = SubSeq(line, n + 1, Len(line))
       /\ excused' = (excused \/ n > Room(rx, RxSize))
  /\ comms_sem' = TRUE
  /\ UNCHANGED <<rx_pc, message, message_size, sent, delivered, cut, txVars>>

(* Before the thread ran the ring has no memory: all is lost, and the      *)
(* thread is signalled.                                                    *)
RxReadyEarly ==
  /\ rx_pc = "init"
  /\ \E n \in 1 .. Len(line) : line' = SubSeq(line, n + 1, Len(line))
  /\ excused' = TRUE /\ comms_sem' = TRUE
  /\ UNCHANGED <<rx, rx_pc, message, message_size, sent, delivered, cut, txVars>>

(* comms_rx_thread(): ring_buf_init() of both rings, ...                   *)
RxInits ==
  /\ rx_pc = "init"
  /\ rx_pc' = "wait"
  /\ UNCHANGED <<rx, comms_sem, message, message_size, line, sent, delivered,
                 excused, cut, txVars>>

(* ... then k_sem_take() and ring_buf_get_claim().                         *)
RxTakes ==
  /\ rx_pc = "wait" /\ comms_sem
  /\ comms_sem' = FALSE /\ rx_pc' = "claim"
  /\ UNCHANGED <<rx, message, message_size, line, sent, delivered, excused, cut, txVars>>

Confusing(bytes) ==
  \/ Cardinality({k \in DOMAIN bytes : bytes[k].end}) > 1
  \/ \E k \in DOMAIN bytes : bytes[k].value = 0

RxClaims ==
  /\ rx_pc = "claim"
  /\ LET n == Claimable(rx, RxSize) IN
     /\ rx' = Claim(rx, n)
     /\ rx_pc' = IF n = 0 THEN "wait" ELSE "parse"
     /\ excused' = (excused \/ Confusing(Claimed(rx, n)))
     /\ cut' = (n < Len(rx.bytes) /\ (n = ClaimSize \/ rx.at + n = RxSize))
  /\ UNCHANGED <<comms_sem, message, message_size, line, sent, delivered, txVars>>

(* The bytes behind a message that is complete: the next length and what   *)
(* there is of that message.  A length of 0 drops the rest of the claim.   *)
(* Wrong variant: they are dropped.                                        *)
RestDropped(bytes) == [message |-> <<>>, size |-> 0]
Rest(bytes) ==
  IF bytes = <<>> THEN [message |-> <<>>, size |-> 0]
  ELSE IF Head(bytes) = 0 THEN [message |-> <<>>, size |-> 0]
  ELSE [message |-> Tail(bytes), size |-> Head(bytes)]

(* One claim: data is what is left of it behind a first length, have what  *)
(* the message buffer holds, size the length of the message.  The count of *)
(* remaining bytes is unsigned: with more than a message in the buffer, it *)
(* is larger than any claim.                                               *)
Cut(data, have, size) ==
  LET remaining == size - Len(have)
      complete == Len(have) <= size /\ Len(data) >= remaining
      all == have \o SubSeq(data, 1, remaining) IN
  IF complete
    THEN [out |-> <<all>>, next |-> Rest(SubSeq(data, remaining + 1, Len(data)))]
    ELSE [out |-> <<>>, next |-> [message |-> have \o data, size |-> size]]

Parse(bytes) ==
  IF message_size # 0 THEN Cut(bytes, message, message_size)
  ELSE IF Head(bytes) = 0 THEN [out |-> <<>>, next |-> [message |-> <<>>, size |-> 0]]
  ELSE Cut(Tail(bytes), <<>>, Head(bytes))

(* ... then the claim is cut into messages and released.                   *)
RxParses ==
  /\ rx_pc = "parse"
  /\ LET values == [k \in 1 .. rx.claimed |-> rx.bytes[k].value]
         parsed == Parse(values) IN
     /\ delivered' = delivered \o parsed.out
     /\ message' = parsed.next.message
     /\ message_size' = parsed.next.size
  /\ rx' = Finish(rx, RxSize, rx.claimed)
  /\ rx_pc' = "wait"
  /\ UNCHANGED <<comms_sem, line, sent, excused, cut, txVars>>
-----------------------------------------------------------------------------
(* uart_start_tx(), up to uart_tx() and from there.  uart_tx() refuses     *)
(* while a transmission is under way; then the bytes are dropped.          *)
Starts(ring) == LET n == Claimable(ring, TxSize) IN
  /\ tx' = Claim(ring, n)
  /\ air' = Claimed(ring, n)

(* comms_write(): into the ring what fits, ... (With no room, or with no   *)
(* ring yet, it returns an error and nothing else.)                        *)
WritePuts ==
  /\ tx_pc = "idle" /\ rx_pc # "init" /\ Room(tx, TxSize) > 0
  /\ \E n \in WriteLengths :
       /\ written + n <= MaxBytes
       /\ tx' = Put(tx, TxSize, [k \in 1 .. n |-> written + k])
       /\ written' = written + n
       /\ overlapped' = (overlapped \/ air # <<>> \/ n > Room(tx, TxSize))
  /\ tx_pc' = "claim"
  /\ UNCHANGED <<air, block, wire, aborted, rxVars>>

(* ... a claim ...                                                         *)
WriteClaims ==
  /\ tx_pc = "claim"
  /\ LET n == Claimable(tx, TxSize) IN
     /\ tx' = Claim(tx, n)
     /\ block' = Claimed(tx, n)
     /\ tx_pc' = IF n = 0 THEN "idle" ELSE "start"
  /\ UNCHANGED <<air, written, wire, aborted, overlapped, rxVars>>

(* ... and uart_tx() of it.                                                *)
WriteStarts ==
  /\ tx_pc = "start"
  /\ tx_pc' = "idle" /\ block' = <<>>
  /\ IF air = <<>>
       THEN air' = block /\ aborted' = FALSE /\ UNCHANGED tx
       ELSE tx' = Finish(tx, TxSize, Len(block)) /\ UNCHANGED <<air, aborted>>
  /\ UNCHANGED <<written, wire, overlapped, rxVars>>

(* UART_TX_DONE: releases the bytes and starts the next block.             *)
(* Wrong variant: the next block waits for the next write.                 *)
TxDoneOnly ==
  /\ air # <<>>
  /\ wire' = wire \o air
  /\ tx' = Finish(tx, TxSize, Len(air)) /\ air' = <<>>
  /\ UNCHANGED <<tx_pc, block, written, aborted, overlapped, rxVars>>

TxDone ==
  /\ air # <<>>
  /\ wire' = wire \o air
  /\ LET ring == Finish(tx, TxSize, Len(air)) IN
     IF ring.bytes = <<>> THEN tx' = ring /\ air' = <<>> ELSE Starts(ring)
  /\ UNCHANGED <<tx_pc, block, written, aborted, overlapped, rxVars>>

(* UART_TX_ABORTED: releases what was transmitted and starts nothing.      *)
(* Wrong variant: it releases the whole block.                             *)
TxAbortedAll ==
  /\ air # <<>>
  /\ \E n \in 0 .. Len(air) - 1 : wire' = wire \o SubSeq(air, 1, n)
  /\ tx' = Finish(tx, TxSize, Len(air))
  /\ air' = <<>> /\ aborted' = TRUE
  /\ UNCHANGED <<tx_pc, block, written, overlapped, rxVars>>

TxAborted ==
  /\ air # <<>>
  /\ \E n \in 0 .. Len(air) - 1 :
       /\ wire' = wire \o SubSeq(air, 1, n)
       /\ tx' = Finish(tx, TxSize, n)
  /\ air' = <<>> /\ aborted' = TRUE
  /\ UNCHANGED <<tx_pc, block, written, overlapped, rxVars>>
-----------------------------------------------------------------------------
Next ==
  \/ PeerSends \/ RxReady \/ RxReadyEarly \/ RxInits \/ RxTakes \/ RxClaims \/ RxParses
  \/ WritePuts \/ WriteClaims \/ WriteStarts \/ TxDone \/ TxAborted

Spec == Init /\ [][Next]_vars

(* Messages are handed on whole, in order and none twice, however the      *)
(* interrupt cuts them into pieces and whatever arrives meanwhile: unless  *)
(* the ring overflowed or bytes came before it was initialised, or one     *)
(* claim held the ends of two messages or an empty one, after which        *)
(* comms_rx_thread() may no longer know where a message begins.            *)
DeliveredInOrder == ~ excused => IsPrefix(delivered, sent)

(* The signal, which counts to one, is never lost: the thread waits only   *)
(* with nothing left to do, except in two cases: its last claim took the   *)
(* most a claim asks for (UART_RINGBUF_SIZE bytes, of a ring four times    *)
(* that size), or it ended where the memory of the ring does.  The thread  *)
(* claims once per signal, so the rest then waits for the next byte.       *)
NothingForgotten ==
  (rx_pc = "wait" /\ ~ comms_sem) =>
    /\ rx.bytes = <<>> \/ cut
    /\ (rx.bytes = <<>> /\ line = <<>> /\ ~ excused) => delivered = sent

(* However a write and the interrupt overlap: the line is not idle with    *)
(* bytes in the ring, unless the last transmission was aborted.            *)
TxNeverStalls == (tx_pc = "idle" /\ air = <<>> /\ ~ aborted) => tx.bytes = <<>>

(* What the application wrote was transmitted or is in the ring, in order  *)
(* and once, aborted transmissions included: as long as no write came      *)
(* while the last one was transmitted, and none was too long.              *)
SentWhole == ~ overlapped => wire \o tx.bytes = [k \in 1 .. written |-> k]
=============================================================================
