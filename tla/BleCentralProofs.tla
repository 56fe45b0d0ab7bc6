-------------------------- MODULE BleCentralProofs --------------------------
(***************************************************************************)
(* What BleCentral promises for every number of peripherals, connections   *)
(* and messages.  Publishing may interrupt disconnected(), except where    *)
(* what is promised speaks of the contents of the queues.                  *)
(***************************************************************************)
EXTENDS BleCentral, SharedProofs, FiniteSetTheorems, TLAPS

(* Nothing is published from an interrupt.                                 *)
Quiet == "isr" \notin Environment

(* A connection is in one slot at most, and in none before connected();    *)
(* what waits in a queue waits for a connection that is ready; the slot    *)
(* disconnected() works on has no connection any more.                     *)
SlotInv ==
  /\ \A i, j \in Slots :
       conns[i].conn = conns[j].conn /\ conns[i].conn # None => i = j
  /\ \A d \in Peripherals :
       link[d] \in {"away", "initiating"} => SlotsOf(d) = {}
  /\ \A i \in Slots : conns[i].ready => conns[i].conn # None \/ leaving = i
  /\ Quiet => \A i \in Slots :
       conns[i].q # <<>> => conns[i].ready /\ conns[i].conn # None
  /\ leaving # 0 => conns[leaving].conn = None

(* What waits for a peripheral is fresh; one that is not ready has a clean *)
(* history.                                                                *)
FreshInv ==
  /\ Quiet => \A i \in Slots : conns[i].conn # None =>
       Fresh(conns[i].q, received[conns[i].conn], joined[conns[i].conn], published)
  /\ \A d \in Peripherals \ Members : received[d] = <<>> /\ joined[d] = 0

CentralInv == SlotTypes /\ OtherTypes /\ SlotInv /\ FreshInv

-----------------------------------------------------------------------------
LEMMA InitInv == Init => CentralInv
<1> SUFFICES ASSUME Init
             PROVE  CentralInv
  OBVIOUS
<1>1. SlotTypes
  BY BleAssumption DEF Init, SlotTypes, Conns
<1>2. OtherTypes
  <2>1. <<>> \in Seq(1 .. MaxPublish)
    OBVIOUS
  <2>2. received \in [Peripherals -> Seq(1 .. MaxPublish)]
    BY <2>1 DEF Init
  <2>3. 0 \in 0 .. MaxConn /\ 0 \in 0 .. MaxPublish
    BY BleAssumption
  <2> QED BY <2>2, <2>3 DEF Init, OtherTypes, LinkStates
<1>3. SlotInv
  <2>1. \A i \in Slots : /\ conns[i].conn = None /\ conns[i].ready = FALSE
                        /\ conns[i].q = <<>>
    BY DEF Init
  <2> QED BY <2>1, BleAssumption DEF Init, SlotInv, SlotsOf
<1>4. FreshInv
  BY DEF Init, FreshInv
<1> QED BY <1>1, <1>2, <1>3, <1>4 DEF CentralInv

(* Whatever a slot holds. *)
LEMMA SlotFacts ==
  ASSUME SlotTypes, NEW i \in Slots
  PROVE  /\ conns[i].conn \in Peripherals \cup {None}
         /\ conns[i].ready \in BOOLEAN
         /\ conns[i].q \in Seq(1 .. MaxPublish) /\ Len(conns[i].q) <= QueueSize
         /\ conns[i].q \in Seq(Nat)
<1>1. conns[i] \in Conns
  BY DEF SlotTypes
<1>2. conns[i].q \in Seq(1 .. MaxPublish)
  BY <1>1 DEF Conns
<1>3. conns[i].q \in Seq(Nat)
  BY <1>2, BleAssumption
<1> QED BY <1>1, <1>2, <1>3 DEF Conns, SlotTypes

(* A slot that changes in one place. *)
LEMMA ConnSet ==
  ASSUME SlotTypes, NEW i \in Slots, NEW c \in Peripherals \cup {None},
         conns' = [conns EXCEPT ![i].conn = c]
  PROVE  /\ SlotTypes'
         /\ conns'[i].conn = c /\ \A k \in Slots \ {i} : conns'[k] = conns[k]
         /\ \A k \in Slots : conns'[k].ready = conns[k].ready /\ conns'[k].q = conns[k].q
<1>1. \A k \in Slots : conns[k] \in Conns
  BY DEF SlotTypes
<1>2. /\ conns'[i] = [conns[i] EXCEPT !.conn = c]
      /\ \A k \in Slots \ {i} : conns'[k] = conns[k]
  BY DEF SlotTypes
<1>3. [conns[i] EXCEPT !.conn = c] \in Conns
  BY <1>1 DEF Conns
<1>4. /\ conns'[i].conn = c
      /\ conns'[i].ready = conns[i].ready /\ conns'[i].q = conns[i].q
  BY <1>1, <1>2 DEF Conns
<1>5. conns' \in [Slots -> Conns]
  BY <1>1, <1>3 DEF SlotTypes
<1>6. \A k \in Slots : conns'[k].ready = conns[k].ready /\ conns'[k].q = conns[k].q
  BY <1>2, <1>4
<1>7. \A k \in Slots : Len(conns'[k].q) <= QueueSize
  BY <1>6 DEF SlotTypes
<1> QED BY <1>2, <1>4, <1>5, <1>6, <1>7 DEF SlotTypes

LEMMA ReadySet ==
  ASSUME SlotTypes, NEW i \in Slots, NEW b \in BOOLEAN,
         conns' = [conns EXCEPT ![i].ready = b]
  PROVE  /\ SlotTypes'
         /\ conns'[i].ready = b /\ \A k \in Slots \ {i} : conns'[k] = conns[k]
         /\ \A k \in Slots : conns'[k].conn = conns[k].conn /\ conns'[k].q = conns[k].q
<1>1. \A k \in Slots : conns[k] \in Conns
  BY DEF SlotTypes
<1>2. /\ conns'[i] = [conns[i] EXCEPT !.ready = b]
      /\ \A k \in Slots \ {i} : conns'[k] = conns[k]
  BY DEF SlotTypes
<1>3. [conns[i] EXCEPT !.ready = b] \in Conns
  BY <1>1 DEF Conns
<1>4. /\ conns'[i].ready = b
      /\ conns'[i].conn = conns[i].conn /\ conns'[i].q = conns[i].q
  BY <1>1, <1>2 DEF Conns
<1>5. conns' \in [Slots -> Conns]
  BY <1>1, <1>3 DEF SlotTypes
<1>6. \A k \in Slots : conns'[k].conn = conns[k].conn /\ conns'[k].q = conns[k].q
  BY <1>2, <1>4
<1>7. \A k \in Slots : Len(conns'[k].q) <= QueueSize
  BY <1>6 DEF SlotTypes
<1> QED BY <1>2, <1>4, <1>5, <1>6, <1>7 DEF SlotTypes

LEMMA SlotPurged ==
  ASSUME SlotTypes, NEW i \in Slots,
         conns' = [conns EXCEPT ![i] = Purged(conns[i])]
  PROVE  /\ SlotTypes'
         /\ conns'[i].conn = None /\ conns'[i].q = <<>>
         /\ conns'[i].ready = conns[i].ready
         /\ \A k \in Slots \ {i} : conns'[k] = conns[k]
<1>1. \A k \in Slots : conns[k] \in Conns
  BY DEF SlotTypes
<1>2. conns'[i] = Purged(conns[i]) /\ \A k \in Slots \ {i} : conns'[k] = conns[k]
  BY DEF SlotTypes
<1>3. Purged(conns[i]) \in Conns
  <2>1. <<>> \in Seq(1 .. MaxPublish) /\ conns[i].ready \in BOOLEAN
    BY <1>1 DEF Conns
  <2> QED BY <2>1 DEF Conns, Purged
<1>4. conns'[i].conn = None /\ conns'[i].q = <<>> /\ conns'[i].ready = conns[i].ready
  BY <1>2 DEF Purged
<1>5. conns' \in [Slots -> Conns]
  BY <1>1, <1>3 DEF SlotTypes
<1>6. \A k \in Slots : Len(conns'[k].q) <= QueueSize
  BY <1>2, <1>4, BleAssumption DEF SlotTypes
<1> QED BY <1>2, <1>4, <1>5, <1>6 DEF SlotTypes

LEMMA QueueTail ==
  ASSUME SlotTypes, NEW i \in Slots, conns[i].q # <<>>,
         conns' = [conns EXCEPT ![i].q = Tail(@)]
  PROVE  /\ SlotTypes'
         /\ conns'[i].conn = conns[i].conn /\ conns'[i].q = Tail(conns[i].q)
         /\ conns'[i].ready = conns[i].ready
         /\ \A k \in Slots \ {i} : conns'[k] = conns[k]
<1> DEFINE t == Tail(conns[i].q)
<1>1. \A k \in Slots : conns[k] \in Conns
  BY DEF SlotTypes
<1>2. conns' = [conns EXCEPT ![i] = [conns[i] EXCEPT !.q = t]]
  OBVIOUS
<1>3. conns[i].q \in Seq(1 .. MaxPublish) /\ Len(conns[i].q) <= QueueSize
  BY SlotFacts
<1>4. t \in Seq(1 .. MaxPublish) /\ Len(t) <= QueueSize
  <2>1. t \in Seq(1 .. MaxPublish) /\ Len(t) = Len(conns[i].q) - 1
    BY <1>3, TailType
  <2> QED BY <1>3, <2>1, BleAssumption
<1> HIDE DEF t
<1>5. [conns[i] EXCEPT !.q = t] \in Conns
  BY <1>1, <1>4 DEF Conns
<1>6. conns'[i] = [conns[i] EXCEPT !.q = t] /\ \A k \in Slots \ {i} : conns'[k] = conns[k]
  BY <1>2 DEF SlotTypes
<1>7. conns'[i].conn = conns[i].conn /\ conns'[i].q = t /\ conns'[i].ready = conns[i].ready
  BY <1>1, <1>6 DEF Conns
<1>8. conns' \in [Slots -> Conns]
  BY <1>1, <1>2, <1>5 DEF SlotTypes
<1>9. \A k \in Slots : Len(conns'[k].q) <= QueueSize
  BY <1>4, <1>6, <1>7 DEF SlotTypes
<1> QED BY <1>6, <1>7, <1>8, <1>9 DEF SlotTypes, t
-----------------------------------------------------------------------------
(* The types of everything but the slots and the count of connections.     *)
LEMMA OtherTypesStep ==
  ASSUME SlotTypes, OtherTypes, [Next]_vars
  PROVE  OtherTypes'
<1> USE BleAssumption DEF stackVars, history, NoFault, Fault, ScanStart, NoScanStart,
        LinkStates, OtherTypes, May
<1>1. CASE ScanWork
  BY <1>1 DEF ScanWork
<1>2. CASE DisconnectedMarks
  <2>1. leaving' \in 0 .. MaxConn
    BY <1>2 DEF DisconnectedMarks
  <2> QED BY <1>2, <2>1 DEF DisconnectedMarks
<1>3. ASSUME NEW d \in Peripherals, ScanMatch(d)
      PROVE  OtherTypes'
  BY <1>3 DEF ScanMatch
<1>4. ASSUME NEW d \in Peripherals, Connected(d)
      PROVE  OtherTypes'
  BY <1>4 DEF Connected, ConnectedIn, Insecure, GattDiscover
<1>5. ASSUME NEW d \in Peripherals, ConnectFails(d) \/ SecurityFails(d) \/ HandlesRefused(d)
      PROVE  OtherTypes'
  BY <1>5 DEF ConnectFails, SecurityFails, HandlesRefused
<1>6. ASSUME NEW d \in Peripherals, SecurityChanged(d)
      PROVE  OtherTypes'
  BY <1>6 DEF SecurityChanged, GattDiscover
<1>7. ASSUME NEW d \in Peripherals, Discovered(d)
      PROVE  OtherTypes'
  <2>1. joined' \in [Peripherals -> 0 .. MaxPublish]
    BY <1>7 DEF Discovered
  <2> QED BY <1>7, <2>1 DEF Discovered
<1>8. ASSUME NEW d \in Peripherals, DiscoveryEnds(d)
      PROVE  OtherTypes'
  BY <1>8 DEF DiscoveryEnds
<1>9. ASSUME NEW d \in Peripherals, Disconnected(d)
      PROVE  OtherTypes'
  <2>1. <<>> \in Seq(1 .. MaxPublish)
    OBVIOUS
  <2>2. /\ received' \in [Peripherals -> Seq(1 .. MaxPublish)]
        /\ joined' \in [Peripherals -> 0 .. MaxPublish]
    BY <1>9, <2>1 DEF Disconnected
  <2>3. leaving' \in 0 .. MaxConn
    BY <1>9 DEF Disconnected, Lowest, SlotsOf, Slots
  <2> QED BY <1>9, <2>2, <2>3 DEF Disconnected
<1>10. CASE Write
  BY <1>10 DEF Write
<1>11. CASE SendStarts
  <2>1. sending' \in 0 .. MaxConn
    BY <1>11 DEF SendStarts
  <2> QED BY <1>11, <2>1 DEF SendStarts
<1>12. NextSlot => sending' \in 0 .. MaxConn
  BY DEF NextSlot
<1>13. CASE SendSkips
  BY <1>12, <1>13 DEF SendSkips
<1>14. CASE Sends
  <2> DEFINE c == conns[sending].conn
  <2> DEFINE m == Head(conns[sending].q)
  <2>1. sending \in Slots /\ conns[sending].q # <<>> /\ c # None
    <3>1. sending # 0 /\ HasMessage(sending)
      BY <1>14 DEF Sends
    <3> QED BY <3>1 DEF HasMessage, Slots
  <2>2. c \in Peripherals /\ m \in 1 .. MaxPublish
    BY <2>1, SlotFacts
  <2>3. \/ UNCHANGED received
        \/ received' = [received EXCEPT ![c] = Append(@, m)]
    BY <1>14 DEF Sends
  <2> HIDE DEF c, m
  <2>4. received' \in [Peripherals -> Seq(1 .. MaxPublish)]
    <3>1. received[c] \in Seq(1 .. MaxPublish)
      BY <2>2
    <3>2. Append(received[c], m) \in Seq(1 .. MaxPublish)
      BY <2>2, <3>1
    <3>3. received \in [Peripherals -> Seq(1 .. MaxPublish)]
      OBVIOUS
    <3> QED BY <2>3, <3>2, <3>3
  <2> QED BY <1>12, <1>14, <2>1, <2>4 DEF Sends
<1>15. ASSUME NEW i \in Slots, DataSent(i)
       PROVE  OtherTypes'
  BY <1>15 DEF DataSent
<1>16. CASE UNCHANGED vars
  BY <1>16 DEF vars
<1> QED BY <1>1, <1>2, <1>3, <1>4, <1>5, <1>6, <1>7, <1>8, <1>9, <1>10, <1>11, <1>13,
           <1>14, <1>15, <1>16 DEF Next, Stack, Sending
-----------------------------------------------------------------------------
(* What a step has to show: the invariant of the slots and the messages,   *)
(* and that it is a step of Delivery when no publish interrupts it.        *)
Implements ==
  SlotInv' /\ FreshInv' /\ (Quiet => [Peripheral!Next]_(Peripheral!vars))

LEMMA MembersAre ==
  /\ \A d \in Peripherals :
       d \in Members <=> \E i \in Slots : conns[i].conn = d /\ conns[i].ready
  /\ \A d \in Peripherals :
       d \in Members' <=> \E i \in Slots : conns'[i].conn = d /\ conns'[i].ready
  BY DEF Members, SlotsOf, Ready

(* A step that leaves the slots and the messages alone. *)
LEMMA QuietStep ==
  ASSUME SlotInv, FreshInv, UNCHANGED <<conns, leaving, published, received, joined>>,
         \A d \in Peripherals :
           link'[d] \in {"away", "initiating"} => link[d] \in {"away", "initiating"}
  PROVE  Implements /\ Members' = Members
<1>1. SlotInv'
  BY DEF SlotInv, SlotsOf
<1>2. Members' = Members
  BY DEF Members, SlotsOf, Ready
<1>3. FreshInv'
  BY <1>2 DEF FreshInv
<1> QED BY <1>1, <1>2, <1>3 DEF Implements, Peripheral!vars

(* connected() *)
LEMMA ConnectedStep ==
  ASSUME SlotTypes, OtherTypes, SlotInv, FreshInv, NEW d \in Peripherals, Connected(d)
  PROVE  Implements /\ Members' = Members
<1>1. /\ leaving = 0 /\ link[d] = "initiating" /\ SlotsOf(d) = {}
      /\ UNCHANGED <<leaving, published, received, joined>>
  BY DEF Connected, ConnectedIn, Callback, SlotInv
<1>2. \A e \in Peripherals :
        link'[e] \in {"away", "initiating"} => e # d /\ link[e] \in {"away", "initiating"}
  BY DEF Connected, ConnectedIn, OtherTypes, NoFault
<1>3. CASE UNCHANGED conns
  BY <1>1, <1>2, <1>3, QuietStep
<1>4. CASE ~ UNCHANGED conns
  <2>1. PICK i \in Lowest(FreeSlots) : conns' = [conns EXCEPT ![i].conn = d]
    BY <1>4 DEF Connected, ConnectedIn
  <2>2. i \in Slots /\ conns[i].conn = None
    BY <2>1 DEF Lowest, FreeSlots, SlotsOf
  <2>3. /\ conns'[i].conn = d /\ \A k \in Slots \ {i} : conns'[k] = conns[k]
        /\ \A k \in Slots : conns'[k].ready = conns[k].ready /\ conns'[k].q = conns[k].q
    BY <2>1, <2>2, ConnSet
  <2>4. (Quiet => conns[i].q = <<>>) /\ ~ conns[i].ready
    BY <1>1, <2>2, BleAssumption DEF SlotInv, Slots
  <2>5. \A k \in Slots : conns[k].conn # d
    BY <1>1 DEF SlotsOf
  <2>6. SlotInv'
    <3>1. \A k, l \in Slots :
            conns'[k].conn = conns'[l].conn /\ conns'[k].conn # None => k = l
      BY <2>3, <2>5 DEF SlotInv
    <3>2. \A e \in Peripherals : link'[e] \in {"away", "initiating"} => SlotsOf(e)' = {}
      BY <1>2, <2>3 DEF SlotInv, SlotsOf
    <3> QED BY <1>1, <2>2, <2>3, <2>4, <3>1, <3>2 DEF SlotInv
  <2>7. Members' = Members
    <3>1. \A e \in Peripherals : e \in Members' <=> e \in Members
      BY <2>2, <2>3, <2>4, MembersAre
    <3> QED BY <3>1 DEF Members
  <2>8. FreshInv'
    <3>1. d \notin Members
      BY <2>5, MembersAre
    <3>2. Fresh(<<>>, <<>>, 0, published)
      BY BleAssumption DEF Fresh, OtherTypes
    <3>3. received[d] = <<>> /\ joined[d] = 0
      BY <3>1 DEF FreshInv
    <3>4. ASSUME Quiet, NEW k \in Slots, conns'[k].conn # None
          PROVE  Fresh(conns'[k].q, received[conns'[k].conn], joined[conns'[k].conn], published)
      <4>1. CASE k = i
        BY <2>3, <2>4, <3>2, <3>3, <3>4, <4>1
      <4>2. CASE k # i
        BY <2>3, <3>4, <4>2 DEF FreshInv
      <4> QED BY <4>1, <4>2
    <3> QED BY <1>1, <2>7, <3>4 DEF FreshInv
  <2> QED BY <1>1, <2>6, <2>7, <2>8 DEF Implements, Peripheral!vars
<1> QED BY <1>3, <1>4

(* discovery_completed(): the peripheral joins. *)
LEMMA DiscoveredStep ==
  ASSUME SlotTypes, OtherTypes, SlotInv, FreshInv, NEW d \in Peripherals, Discovered(d)
  PROVE  Implements /\ Members' = Members \cup {d}
<1>1. leaving = 0 /\ UNCHANGED <<link, leaving, published, received>>
  BY DEF Discovered, Callback
<1>2. PICK i \in Slots : conns[i].conn = d /\ conns' = [conns EXCEPT ![i].ready = TRUE]
  BY DEF Discovered, Lowest, SlotsOf
<1>3. /\ conns'[i].ready /\ \A k \in Slots \ {i} : conns'[k] = conns[k]
      /\ \A k \in Slots : conns'[k].conn = conns[k].conn /\ conns'[k].q = conns[k].q
  BY <1>2, ReadySet
<1>4. \A k \in Slots : conns[k].conn = d => k = i
  BY <1>2, BleAssumption DEF SlotInv
<1>5. d # None
  BY BleAssumption
<1>6. SlotInv'
  <2>1. \A e \in Peripherals : SlotsOf(e)' = SlotsOf(e)
    BY <1>3 DEF SlotsOf
  <2> QED BY <1>1, <1>2, <1>3, <1>5, <2>1 DEF SlotInv
<1>7. d \in Members <=> conns[i].ready
  BY <1>2, <1>4, MembersAre
<1>8. Members' = Members \cup {d}
  <2>1. \A e \in Peripherals : e \in Members' <=> e \in Members \/ e = d
    BY <1>2, <1>3, <1>4, MembersAre
  <2> QED BY <2>1 DEF Members
<1>9. SlotsOf(d) \subseteq Ready <=> conns[i].ready
  BY <1>2, <1>4 DEF SlotsOf, Ready
<1>10. CASE conns[i].ready
  <2>1. Members' = Members /\ joined' = joined
    BY <1>7, <1>8, <1>9, <1>10 DEF Discovered
  <2>2. FreshInv'
    BY <1>1, <1>3, <2>1 DEF FreshInv
  <2> QED BY <1>1, <1>6, <1>8, <2>1, <2>2 DEF Implements, Peripheral!vars
<1>11. CASE ~ conns[i].ready
  <2>1. joined' = [joined EXCEPT ![d] = published] /\ d \notin Members
    BY <1>7, <1>9, <1>11 DEF Discovered
  <2>2. (Quiet => conns[i].q = <<>>) /\ received[d] = <<>>
    BY <1>11, <2>1 DEF SlotInv, FreshInv
  <2>3. joined'[d] = published /\ \A e \in Peripherals \ {d} : joined'[e] = joined[e]
    BY <2>1 DEF OtherTypes
  <2>4. FreshInv'
    <3>1. Fresh(<<>>, <<>>, published, published)
      BY FreshEmpty, BleAssumption DEF OtherTypes
    <3>2. ASSUME Quiet, NEW k \in Slots, conns'[k].conn # None
          PROVE  Fresh(conns'[k].q, received'[conns'[k].conn], joined'[conns'[k].conn],
                       published')
      <4>1. CASE k = i
        BY <1>1, <1>2, <1>3, <2>2, <2>3, <3>1, <3>2, <4>1
      <4>2. CASE k # i
        <5>1. conns[k].conn \in Peripherals \ {d}
          BY <1>3, <1>4, <3>2, <4>2, SlotFacts
        <5> QED BY <1>1, <1>3, <2>3, <3>2, <5>1, BleAssumption DEF FreshInv
      <4> QED BY <4>1, <4>2
    <3>3. \A e \in Peripherals \ Members' : received'[e] = <<>> /\ joined'[e] = 0
      BY <1>1, <1>8, <2>3 DEF FreshInv
    <3> QED BY <3>2, <3>3 DEF FreshInv
  <2>5. Peripheral!Join(d)
    BY <1>1, <1>8, <2>1 DEF Peripheral!Join
  <2> QED BY <1>6, <1>8, <2>4, <2>5 DEF Implements, Peripheral!Next
<1> QED BY <1>10, <1>11

(* disconnected(), first part: the peripheral leaves, if it was a member.  *)
LEMMA DisconnectedStep ==
  ASSUME SlotTypes, OtherTypes, SlotInv, FreshInv, NEW d \in Peripherals, Disconnected(d)
  PROVE  Implements /\ Members' = Members \ {d}
<1>1. /\ leaving = 0 /\ published' = published
      /\ link' = [link EXCEPT ![d] = "away"]
      /\ received' = [received EXCEPT ![d] = <<>>]
      /\ joined' = [joined EXCEPT ![d] = 0]
  BY DEF Disconnected, Callback
<1>2. /\ received'[d] = <<>> /\ joined'[d] = 0
      /\ \A e \in Peripherals \ {d} : /\ received'[e] = received[e] /\ joined'[e] = joined[e]
                                     /\ link'[e] = link[e]
  BY <1>1 DEF OtherTypes
<1>3. CASE UNCHANGED <<conns, leaving>> /\ SlotsOf(d) = {}
  <2>1. SlotInv'
    BY <1>1, <1>2, <1>3 DEF SlotInv, SlotsOf
  <2>2. d \notin Members /\ Members' = Members
    BY <1>3 DEF Members, SlotsOf, Ready
  <2>3. received' = received /\ joined' = joined
    <3>1. received[d] = <<>> /\ joined[d] = 0
      BY <2>2 DEF FreshInv
    <3>2. /\ received \in [Peripherals -> Seq(1 .. MaxPublish)]
          /\ joined \in [Peripherals -> 0 .. MaxPublish]
      BY DEF OtherTypes
    <3> QED BY <1>1, <3>1, <3>2
  <2>4. FreshInv'
    BY <1>1, <1>3, <2>2, <2>3 DEF FreshInv
  <2> QED BY <1>1, <2>1, <2>2, <2>3, <2>4 DEF Implements, Peripheral!vars
<1>4. CASE ~ (UNCHANGED <<conns, leaving>> /\ SlotsOf(d) = {})
  <2>1. PICK i \in Lowest(SlotsOf(d)) :
          conns' = [conns EXCEPT ![i] = Purged(conns[i])] /\ leaving' = i
    BY <1>4 DEF Disconnected
  <2>2. i \in Slots /\ conns[i].conn = d /\ d # None
    BY <2>1, BleAssumption DEF Lowest, SlotsOf
  <2>3. /\ conns'[i].conn = None /\ conns'[i].q = <<>>
        /\ conns'[i].ready = conns[i].ready
        /\ \A k \in Slots \ {i} : conns'[k] = conns[k]
    BY <2>1, <2>2, SlotPurged
  <2>4. \A k \in Slots \ {i} : conns[k].conn # d
    BY <2>2 DEF SlotInv
  <2>5. SlotInv'
    <3>1. \A k, l \in Slots :
            conns'[k].conn = conns'[l].conn /\ conns'[k].conn # None => k = l
      BY <2>3 DEF SlotInv
    <3>2. ASSUME NEW e \in Peripherals, link'[e] \in {"away", "initiating"}
          PROVE  SlotsOf(e)' = {}
      <4>1. CASE e = d
        BY <2>2, <2>3, <2>4, <4>1 DEF SlotsOf
      <4>2. CASE e # d
        BY <1>2, <2>3, <3>2, <4>2, BleAssumption DEF SlotInv, SlotsOf
      <4> QED BY <4>1, <4>2
    <3>3. \A k \in Slots : conns'[k].ready => conns'[k].conn # None \/ leaving' = k
      BY <1>1, <2>1, <2>2, <2>3 DEF SlotInv, Slots
    <3>4. Quiet => \A k \in Slots :
            conns'[k].q # <<>> => conns'[k].ready /\ conns'[k].conn # None
      BY <2>2, <2>3 DEF SlotInv
    <3> QED BY <2>1, <2>3, <3>1, <3>2, <3>3, <3>4 DEF SlotInv
  <2>6. Members' = Members \ {d}
    <3>1. \A e \in Peripherals : e \in Members' <=> e \in Members /\ e # d
      BY <2>2, <2>3, <2>4, MembersAre, BleAssumption
    <3> QED BY <3>1 DEF Members
  <2>7. FreshInv'
    <3>1. ASSUME Quiet, NEW k \in Slots, conns'[k].conn # None
          PROVE  Fresh(conns'[k].q, received'[conns'[k].conn], joined'[conns'[k].conn],
                       published')
      <4>1. k # i /\ conns[k].conn \in Peripherals \ {d} /\ conns'[k] = conns[k]
        BY <2>2, <2>3, <2>4, <3>1, SlotFacts
      <4> QED BY <1>1, <1>2, <3>1, <4>1, BleAssumption DEF FreshInv
    <3>2. \A e \in Peripherals \ Members' : received'[e] = <<>> /\ joined'[e] = 0
      BY <1>2, <2>6 DEF FreshInv
    <3> QED BY <3>1, <3>2 DEF FreshInv
  <2>8. CASE d \in Members
    <3>1. Peripheral!Leave(d)
      BY <1>1, <2>6, <2>8 DEF Peripheral!Leave
    <3> QED BY <2>5, <2>6, <2>7, <3>1 DEF Implements, Peripheral!Next
  <2>9. CASE d \notin Members
    <3>1. received[d] = <<>> /\ joined[d] = 0
      BY <2>9 DEF FreshInv
    <3>2. /\ received \in [Peripherals -> Seq(1 .. MaxPublish)]
          /\ joined \in [Peripherals -> 0 .. MaxPublish]
      BY DEF OtherTypes
    <3>3. received' = received /\ joined' = joined
      BY <1>1, <3>1, <3>2
    <3> QED BY <1>1, <2>5, <2>6, <2>7, <2>9, <3>3 DEF Implements, Peripheral!vars
  <2> QED BY <2>8, <2>9
<1> QED BY <1>3, <1>4

(* The second part marks a slot that has no connection any more. *)
LEMMA MarksStep ==
  ASSUME SlotTypes, OtherTypes, SlotInv, FreshInv, DisconnectedMarks
  PROVE  Implements /\ Members' = Members
<1>1. /\ leaving # 0 /\ leaving' = 0
      /\ UNCHANGED <<link, published, received, joined>>
      /\ conns' = [conns EXCEPT ![leaving].ready = FALSE]
  BY DEF DisconnectedMarks, history
<1>2. leaving \in Slots
  BY <1>1 DEF OtherTypes, Slots
<1>3. /\ ~ conns'[leaving].ready /\ \A k \in Slots \ {leaving} : conns'[k] = conns[k]
      /\ \A k \in Slots : conns'[k].conn = conns[k].conn /\ conns'[k].q = conns[k].q
  BY <1>1, <1>2, ReadySet
<1>4. conns[leaving].conn = None
  BY <1>1 DEF SlotInv
<1>5. SlotInv'
  <2>1. \A e \in Peripherals : SlotsOf(e)' = SlotsOf(e)
    BY <1>3 DEF SlotsOf
  <2> QED BY <1>1, <1>3, <1>4, <2>1 DEF SlotInv
<1>6. Members' = Members
  <2>1. \A e \in Peripherals : e \in Members' <=> e \in Members
    BY <1>2, <1>3, <1>4, MembersAre, BleAssumption
  <2> QED BY <2>1 DEF Members
<1>7. FreshInv'
  BY <1>1, <1>3, <1>6 DEF FreshInv
<1> QED BY <1>1, <1>5, <1>6, <1>7 DEF Implements, Peripheral!vars

(* ble_central_write() *)
LEMMA WriteStep ==
  ASSUME SlotTypes, OtherTypes, SlotInv, FreshInv, Write
  PROVE  Implements /\ Members' = Members /\ SlotTypes'
<1>1. /\ published' = published + 1 /\ published < MaxPublish
      /\ UNCHANGED <<link, leaving, received, joined>>
      /\ conns' = [i \in Slots |->
                     IF conns[i].ready /\ Len(conns[i].q) < QueueSize
                       THEN [conns[i] EXCEPT !.q = Append(@, published')] ELSE conns[i]]
  BY DEF Write, stackVars
<1>2. ASSUME NEW k \in Slots
      PROVE  /\ conns'[k] \in Conns /\ Len(conns'[k].q) <= QueueSize
             /\ conns'[k].conn = conns[k].conn /\ conns'[k].ready = conns[k].ready
             /\ \/ conns'[k].q = conns[k].q
                \/ conns[k].ready /\ conns'[k].q = Append(conns[k].q, published + 1)
  <2> DEFINE s == Append(conns[k].q, published + 1)
  <2>1. conns[k] \in Conns
    BY DEF SlotTypes
  <2>2. conns[k].q \in Seq(1 .. MaxPublish) /\ published + 1 \in 1 .. MaxPublish
    BY <1>1, SlotFacts, BleAssumption DEF OtherTypes
  <2>3. s \in Seq(1 .. MaxPublish) /\ Len(s) = Len(conns[k].q) + 1
    BY <2>2
  <2>4. CASE conns[k].ready /\ Len(conns[k].q) < QueueSize
    <3>1. conns'[k] = [conns[k] EXCEPT !.q = s]
      BY <1>1, <2>4
    <3> HIDE DEF s
    <3>2. conns'[k].q = s /\ conns'[k].conn = conns[k].conn
          /\ conns'[k].ready = conns[k].ready /\ conns'[k] \in Conns
      BY <2>1, <2>3, <3>1 DEF Conns
    <3>3. Len(s) <= QueueSize
      BY <2>2, <2>3, <2>4, BleAssumption
    <3> QED BY <2>4, <3>2, <3>3 DEF s
  <2>5. CASE ~ (conns[k].ready /\ Len(conns[k].q) < QueueSize)
    <3>1. conns'[k] = conns[k]
      BY <1>1, <2>5
    <3> QED BY <2>1, <3>1, SlotFacts
  <2> QED BY <2>4, <2>5
<1>3. SlotTypes'
  BY <1>1, <1>2 DEF SlotTypes
<1>4. Quiet => leaving = 0
  BY DEF Write, Callback, Quiet
<1>5. SlotInv'
  <2>1. \A e \in Peripherals : SlotsOf(e)' = SlotsOf(e)
    BY <1>2 DEF SlotsOf
  <2>2. Quiet => \A k \in Slots : conns[k].ready => conns[k].conn # None
    BY <1>4, BleAssumption DEF SlotInv, Slots
  <2>3. Quiet => \A k \in Slots :
          conns'[k].q # <<>> => conns'[k].ready /\ conns'[k].conn # None
    BY <1>2, <2>2 DEF SlotInv
  <2>4. leaving # 0 => leaving \in Slots
    BY DEF OtherTypes, Slots
  <2> QED BY <1>1, <1>2, <2>1, <2>3, <2>4 DEF SlotInv
<1>6. Members' = Members
  <2>1. \A e \in Peripherals : e \in Members' <=> e \in Members
    BY <1>2, MembersAre
  <2> QED BY <2>1 DEF Members
<1>7. FreshInv'
  <2>1. ASSUME Quiet, NEW k \in Slots, conns'[k].conn # None
        PROVE  Fresh(conns'[k].q, received'[conns'[k].conn], joined'[conns'[k].conn],
                     published')
    <3> DEFINE c == conns[k].conn
    <3>1. c \in Peripherals /\ conns'[k].conn = c /\ conns[k].q \in Seq(Nat)
      BY <1>2, <2>1, SlotFacts
    <3>2. received[c] \in Seq(1 .. MaxPublish) /\ joined[c] \in Nat /\ published \in Nat
      BY <3>1, BleAssumption DEF OtherTypes
    <3>3. received[c] \in Seq(Nat)
      BY <3>2, BleAssumption
    <3>4. Fresh(conns[k].q, received[c], joined[c], published)
      BY <1>2, <2>1 DEF FreshInv
    <3>5. /\ Fresh(conns[k].q, received[c], joined[c], published + 1)
          /\ Fresh(Append(conns[k].q, published + 1), received[c], joined[c], published + 1)
      BY <3>1, <3>2, <3>3, <3>4, FreshOlder, FreshAppend
    <3> QED BY <1>1, <1>2, <3>5
  <2>2. \A e \in Peripherals \ Members' : received'[e] = <<>> /\ joined'[e] = 0
    BY <1>1, <1>6 DEF FreshInv
  <2> QED BY <2>1, <2>2 DEF FreshInv
<1>8. Peripheral!Publish
  BY <1>1, <1>6 DEF Peripheral!Publish
<1> QED BY <1>3, <1>5, <1>6, <1>7, <1>8 DEF Implements, Peripheral!Next

(* bt_send_work_handler(): the first message leaves the queue, received or *)
(* lost.                                                                   *)
LEMMA SendsStep ==
  ASSUME SlotTypes, OtherTypes, SlotInv, FreshInv, Sends
  PROVE  Implements /\ Members' = Members /\ SlotTypes'
<1> DEFINE i == sending
<1> DEFINE d == conns[i].conn
<1> DEFINE q == conns[i].q
<1>1. /\ i \in Slots /\ conns[i].ready /\ d # None /\ q # <<>>
      /\ conns' = [conns EXCEPT ![i].q = Tail(@)]
      /\ UNCHANGED <<link, leaving, published, joined>>
  BY DEF Sends, HasMessage, OtherTypes, Slots
<1>2. \/ UNCHANGED received
      \/ received' = [received EXCEPT ![d] = Append(@, Head(q))]
  BY DEF Sends
<1>3. /\ SlotTypes'
      /\ conns'[i].conn = d /\ conns'[i].q = Tail(q) /\ conns'[i].ready
      /\ \A k \in Slots \ {i} : conns'[k] = conns[k]
  BY <1>1, QueueTail
<1>4. d \in Peripherals /\ q \in Seq(Nat)
  BY <1>1, SlotFacts
<1>5. /\ received \in [Peripherals -> Seq(1 .. MaxPublish)] /\ received[d] \in Seq(Nat)
      /\ joined[d] \in Nat /\ published \in Nat
  <2>1. received[d] \in Seq(1 .. MaxPublish)
    BY <1>4 DEF OtherTypes
  <2> QED BY <1>4, <2>1, BleAssumption DEF OtherTypes
<1>6. \A k \in Slots \ {i} : conns[k].conn # d
  BY <1>1 DEF SlotInv
<1>7. Quiet => Fresh(q, received[d], joined[d], published)
  BY <1>1 DEF FreshInv
<1> HIDE DEF i, d, q
<1>8. SlotInv'
  <2>1. \A e \in Peripherals : SlotsOf(e)' = SlotsOf(e)
    BY <1>3 DEF SlotsOf, d
  <2>2. \A k \in Slots : conns'[k].conn = conns[k].conn /\ conns'[k].ready = conns[k].ready
    BY <1>1, <1>3 DEF d
  <2>3. Quiet => \A k \in Slots :
          conns'[k].q # <<>> => conns'[k].ready /\ conns'[k].conn # None
    BY <1>1, <1>3 DEF SlotInv
  <2>4. leaving' # 0 => conns'[leaving].conn = None
    BY <1>1, <2>2 DEF SlotInv, OtherTypes, Slots
  <2> QED BY <1>1, <2>1, <2>2, <2>3, <2>4 DEF SlotInv
<1>9. Members' = Members /\ d \in Members
  <2>1. \A e \in Peripherals : e \in Members' <=> e \in Members
    BY <1>1, <1>3, MembersAre DEF d
  <2> QED BY <1>1, <1>4, <2>1, MembersAre DEF Members, d
<1>10. Quiet =>
         /\ Fresh(Tail(q), received[d], joined[d], published)
         /\ Fresh(Tail(q), Append(received[d], Head(q)), joined[d], published)
         /\ Head(q) \in joined[d] + 1 .. published
         /\ \A l \in 1 .. Len(received[d]) : Head(q) > received[d][l]
  BY <1>1, <1>4, <1>5, <1>7, FreshTail
<1>11. /\ \A e \in Peripherals \ {d} : received'[e] = received[e]
       /\ received'[d] \in {received[d], Append(received[d], Head(q))}
  BY <1>2, <1>4, <1>5
<1>12. FreshInv'
  <2>1. ASSUME Quiet, NEW k \in Slots, conns'[k].conn # None
        PROVE  Fresh(conns'[k].q, received'[conns'[k].conn], joined'[conns'[k].conn],
                     published')
    <3>1. CASE k = i
      BY <1>1, <1>3, <1>10, <1>11, <2>1, <3>1
    <3>2. CASE k # i
      <4>1. conns'[k] = conns[k] /\ conns[k].conn \in Peripherals \ {d}
        BY <1>3, <1>6, <2>1, <3>2, SlotFacts
      <4> QED BY <1>1, <1>11, <2>1, <4>1, BleAssumption DEF FreshInv
    <3> QED BY <3>1, <3>2
  <2>2. \A e \in Peripherals \ Members' : received'[e] = <<>> /\ joined'[e] = 0
    BY <1>1, <1>9, <1>11 DEF FreshInv
  <2> QED BY <2>1, <2>2 DEF FreshInv
<1>13. CASE UNCHANGED received
  BY <1>1, <1>3, <1>8, <1>9, <1>12, <1>13 DEF Implements, Peripheral!vars
<1>14. CASE received' = [received EXCEPT ![d] = Append(@, Head(q))]
  <2>1. Quiet => Head(q) \in Peripheral!Newer(d)
    BY <1>10 DEF Peripheral!Newer
  <2>2. Quiet => Peripheral!Deliver(d)
    BY <1>1, <1>9, <1>14, <2>1 DEF Peripheral!Deliver
  <2> QED BY <1>3, <1>4, <1>8, <1>9, <1>12, <2>2 DEF Implements, Peripheral!Next
<1> QED BY <1>2, <1>13, <1>14
-----------------------------------------------------------------------------
(* An interrupt that publishes between the two parts of disconnected()     *)
(* breaks the second part: ble_isr shows what it leaves behind.            *)
LEMMA CentralStep ==
  ASSUME CentralInv, [Next]_vars
  PROVE  CentralInv' /\ (Quiet => [Peripheral!Next]_(Peripheral!vars))
<1> USE DEF CentralInv
<1>t. OtherTypes'
  BY OtherTypesStep
<1> SUFFICES SlotTypes' /\ Implements
  BY <1>t DEF Implements
<1>q. ASSUME UNCHANGED <<conns, leaving, published, received, joined>>,
             \A d \in Peripherals :
               link'[d] \in {"away", "initiating"} => link[d] \in {"away", "initiating"}
      PROVE  SlotTypes' /\ Implements
  BY <1>q, QuietStep DEF SlotTypes
<1>1. CASE ScanWork \/ SendStarts \/ SendSkips \/ (\E i \in Slots : DataSent(i)) \/ UNCHANGED vars
  BY <1>1, <1>q DEF ScanWork, SendStarts, SendSkips, DataSent, vars, stackVars, history
<1>2. ASSUME NEW d \in Peripherals,
             \/ ScanMatch(d) \/ ConnectFails(d) \/ SecurityChanged(d)
             \/ SecurityFails(d) \/ HandlesRefused(d) \/ DiscoveryEnds(d)
      PROVE  SlotTypes' /\ Implements
  <2>1. UNCHANGED <<conns, leaving, published, received, joined>>
    BY <1>2 DEF ScanMatch, ConnectFails, SecurityChanged, SecurityFails, HandlesRefused,
                DiscoveryEnds, history
  <2>2. \/ link' = link
        \/ link[d] \in {"away", "initiating"} /\ \E l : link' = [link EXCEPT ![d] = l]
        \/ \E l \in {"secured", "closing"} : link' = [link EXCEPT ![d] = l]
    BY <1>2 DEF ScanMatch, ConnectFails, SecurityChanged, SecurityFails, HandlesRefused,
                DiscoveryEnds
  <2>3. \A e \in Peripherals :
          link'[e] \in {"away", "initiating"} => link[e] \in {"away", "initiating"}
    BY <2>2 DEF OtherTypes
  <2> QED BY <1>q, <2>1, <2>3
<1>3. ASSUME NEW d \in Peripherals, Connected(d)
      PROVE  SlotTypes' /\ Implements
  <2>1. SlotTypes'
    <3>1. CASE UNCHANGED conns
      BY <3>1 DEF SlotTypes
    <3>2. CASE ~ UNCHANGED conns
      <4>1. PICK i \in Slots : conns' = [conns EXCEPT ![i].conn = d]
        BY <1>3, <3>2 DEF Connected, ConnectedIn, Lowest, FreeSlots, SlotsOf
      <4> QED BY <4>1, ConnSet
    <3> QED BY <3>1, <3>2
  <2> QED BY <1>3, <2>1, ConnectedStep
<1>4. ASSUME NEW d \in Peripherals, Discovered(d)
      PROVE  SlotTypes' /\ Implements
  <2>1. PICK i \in Slots : conns' = [conns EXCEPT ![i].ready = TRUE]
    BY <1>4 DEF Discovered, Lowest, SlotsOf
  <2> QED BY <1>4, <2>1, ReadySet, DiscoveredStep
<1>5. ASSUME NEW d \in Peripherals, Disconnected(d)
      PROVE  SlotTypes' /\ Implements
  <2>1. SlotTypes'
    <3>1. CASE UNCHANGED conns
      BY <3>1 DEF SlotTypes
    <3>2. CASE ~ UNCHANGED conns
      <4>1. PICK i \in Slots : conns' = [conns EXCEPT ![i] = Purged(conns[i])]
        BY <1>5, <3>2 DEF Disconnected, Lowest, SlotsOf
      <4> QED BY <4>1, SlotPurged
    <3> QED BY <3>1, <3>2
  <2> QED BY <1>5, <2>1, DisconnectedStep
<1>6. CASE DisconnectedMarks
  <2>1. leaving \in Slots /\ conns' = [conns EXCEPT ![leaving].ready = FALSE]
    BY <1>6 DEF DisconnectedMarks, OtherTypes, Slots
  <2> QED BY <1>6, <2>1, ReadySet, MarksStep
<1>7. CASE Write
  BY <1>7, WriteStep
<1>8. CASE Sends
  BY <1>8, SendsStep
<1> QED
  BY <1>1, <1>2, <1>3, <1>4, <1>5, <1>6, <1>7, <1>8 DEF Next, Stack, Sending

LEMMA CentralAlways == Spec => []CentralInv
<1>1. CentralInv /\ [Next]_vars => CentralInv'
  BY CentralStep
<1> QED BY <1>1, InitInv, PTL DEF Spec

(* The central implements Delivery for every number of peripherals, slots  *)
(* and messages and whatever fails, as long as publishing does not         *)
(* interrupt disconnected(): no peripheral receives what was published for *)
(* the one before it in its slot, or twice, or out of order.               *)
THEOREM DeliveryImplemented ==
  ASSUME "isr" \notin Environment
  PROVE  Spec => Refines
<1>1. Init => Peripheral!Init
  <2> SUFFICES ASSUME Init
               PROVE  Peripheral!Init
    OBVIOUS
  <2>1. \A i \in Slots : ~ conns[i].ready
    BY DEF Init
  <2>2. Members = {}
    BY <2>1 DEF Members, Ready
  <2> QED BY <2>2 DEF Init, Peripheral!Init
<1>2. CentralInv /\ [Next]_vars => [Peripheral!Next]_(Peripheral!vars)
  BY CentralStep DEF Quiet
<1> QED BY <1>1, <1>2, CentralAlways, PTL DEF Spec, Refines, Peripheral!Spec
-----------------------------------------------------------------------------
(* A secured connection is discovered, or a member, or abandoned.          *)
SetupInv ==
  \A d \in Peripherals \ abandoned : link[d] = "secured" => dm = d \/ d \in Members

LEMMA SetupStep ==
  ASSUME CentralInv, SetupInv, [Next]_vars
  PROVE  SetupInv'
<1> USE DEF CentralInv
<1>n. \A d \in Peripherals : d # None /\ "away" # "secured" /\ "closing" # "secured"
  BY BleAssumption
<1>m. ASSUME UNCHANGED conns
      PROVE  Members' = Members
  BY <1>m DEF Members, SlotsOf, Ready
<1>l. link \in [Peripherals -> LinkStates]
  BY DEF OtherTypes
<1>1. CASE ScanWork \/ SendStarts \/ SendSkips \/ (\E i \in Slots : DataSent(i)) \/ UNCHANGED vars
  BY <1>1, <1>m DEF ScanWork, SendStarts, SendSkips, DataSent, vars, stackVars, history,
                    SetupInv
<1>2. ASSUME NEW d \in Peripherals, ScanMatch(d) \/ ConnectFails(d) \/ SecurityFails(d)
      PROVE  SetupInv'
  <2>1. UNCHANGED <<conns, dm, abandoned>>
    BY <1>2 DEF ScanMatch, ConnectFails, SecurityFails, history
  <2>2. link' = link \/ \E l \in {"away", "initiating", "closing"} : link' = [link EXCEPT ![d] = l]
    BY <1>2 DEF ScanMatch, ConnectFails, SecurityFails
  <2> QED BY <1>l, <1>m, <2>1, <2>2 DEF SetupInv
<1>3. ASSUME NEW d \in Peripherals, NEW slots, GattDiscover(d, slots), Members' = Members,
             link' = [link EXCEPT ![d] = "secured"]
      PROVE  SetupInv'
  <2>1. dm' = d \/ d \in abandoned'
    BY <1>3 DEF GattDiscover
  <2>2. ASSUME NEW e \in Peripherals \ abandoned', e # d, link'[e] = "secured"
        PROVE  dm' = e \/ e \in Members'
    <3>1. link[e] = "secured" /\ e \notin abandoned
      BY <1>l, <1>3, <2>2 DEF GattDiscover
    <3>2. dm = e \/ e \in Members
      BY <3>1 DEF SetupInv
    <3>3. dm = e => dm' = dm
      BY <1>n, <1>3 DEF GattDiscover
    <3> QED BY <1>3, <3>2, <3>3
  <2> QED BY <2>1, <2>2 DEF SetupInv
<1>4. ASSUME NEW d \in Peripherals, SecurityChanged(d)
      PROVE  SetupInv'
  BY <1>3, <1>4, <1>m DEF SecurityChanged
<1>5. ASSUME NEW d \in Peripherals, Connected(d)
      PROVE  SetupInv'
  <2>1. Members' = Members
    BY <1>5, ConnectedStep
  <2>2. CASE UNCHANGED <<dm, abandoned>> /\ link' = [link EXCEPT ![d] = "connected"]
    BY <1>l, <2>1, <2>2 DEF SetupInv
  <2>3. CASE Insecure(d, FreeSlots) /\ link' = [link EXCEPT ![d] = "secured"]
    BY <1>3, <2>1, <2>3 DEF Insecure
  <2> QED BY <1>5, <2>2, <2>3 DEF Connected, ConnectedIn
<1>6. ASSUME NEW d \in Peripherals, Discovered(d)
      PROVE  SetupInv'
  <2>1. Members' = Members \cup {d}
    BY <1>6, DiscoveredStep
  <2> QED BY <1>6, <2>1 DEF Discovered, SetupInv
<1>7. ASSUME NEW d \in Peripherals, HandlesRefused(d) \/ DiscoveryEnds(d)
      PROVE  SetupInv'
  <2>1. UNCHANGED conns /\ dm = d
    BY <1>7 DEF HandlesRefused, DiscoveryEnds
  <2>2. \/ link' = [link EXCEPT ![d] = "closing"] /\ abandoned' = abandoned
        \/ link' = link /\ abandoned' = abandoned \cup {d}
    BY <1>7 DEF HandlesRefused, DiscoveryEnds, history
  <2> QED BY <1>l, <1>m, <2>1, <2>2 DEF SetupInv
<1>8. ASSUME NEW d \in Peripherals, Disconnected(d)
      PROVE  SetupInv'
  <2>1. Members' = Members \ {d}
    BY <1>8, DisconnectedStep
  <2> QED BY <1>l, <1>8, <2>1 DEF Disconnected, SetupInv
<1>9. CASE DisconnectedMarks
  BY <1>9, MarksStep DEF DisconnectedMarks, history, SetupInv
<1>10. CASE Write
  BY <1>10, WriteStep DEF Write, stackVars, SetupInv
<1>11. CASE Sends
  BY <1>11, SendsStep DEF Sends, SetupInv
<1> QED
  BY <1>1, <1>2, <1>4, <1>5, <1>6, <1>7, <1>8, <1>9, <1>10, <1>11 DEF Next, Stack, Sending

(* A connection that is secured is being discovered or is ready, unless    *)
(* its own discovery was refused or found nothing, for every number of     *)
(* peripherals that connect, fail and leave in any order.                  *)
THEOREM EverySetupGoesOn == Spec => []SetupGoesOn
<1>1. Init => SetupInv
  BY DEF Init, SetupInv
<1>2. CentralInv /\ SetupInv /\ [Next]_vars => SetupInv'
  BY SetupStep
<1>3. SetupInv => SetupGoesOn
  BY DEF SetupInv, SetupGoesOn, Members, SlotsOf, Ready
<1> QED BY <1>1, <1>2, <1>3, CentralAlways, PTL DEF Spec
-----------------------------------------------------------------------------
LEMMA QueuedStep ==
  ASSUME Quiet, CentralInv, QueuedIsSent, [Next]_vars
  PROVE  QueuedIsSent'
<1> USE DEF CentralInv, NoFault, Fault, May
<1> DEFINE Chain(i) == send_work \/ sending \in 1 .. i \/ i \in pending
<1>f. /\ \A i \in Slots : "send" \notin faults /\ HasMessage(i) => Chain(i)
      /\ MaxConn \in Nat /\ sending \in 0 .. MaxConn
  BY BleAssumption DEF QueuedIsSent, OtherTypes
<1>h. ASSUME NEW i \in Slots, conns'[i] = conns[i]
      PROVE  HasMessage(i)' = HasMessage(i)
  BY <1>h DEF HasMessage
<1>n. ASSUME NEW i \in Slots, sending \in Slots, i # sending, NextSlot, sending \in 1 .. i
      PROVE  sending' \in 1 .. i
  <2>1. sending + 1 <= i /\ i <= MaxConn /\ sending + 1 < MaxConn + 1
    BY <1>f, <1>n DEF Slots
  <2>2. sending' = sending + 1
    BY <1>f, <1>n, <2>1 DEF NextSlot, Slots
  <2> QED BY <1>f, <1>n, <2>1, <2>2 DEF Slots
<1>1. ASSUME UNCHANGED <<conns, pending, sending>>, faults \subseteq faults',
             send_work => send_work'
      PROVE  QueuedIsSent'
  BY <1>1 DEF QueuedIsSent, HasMessage
<1>2. CASE ScanWork \/ UNCHANGED vars
  BY <1>1, <1>2 DEF ScanWork, vars, stackVars
<1>3. ASSUME NEW d \in Peripherals,
             \/ ScanMatch(d) \/ ConnectFails(d) \/ SecurityChanged(d)
             \/ SecurityFails(d) \/ HandlesRefused(d) \/ DiscoveryEnds(d)
      PROVE  QueuedIsSent'
  BY <1>1, <1>3 DEF ScanMatch, ConnectFails, SecurityChanged, SecurityFails,
                    HandlesRefused, DiscoveryEnds, ScanStart
<1>4. ASSUME NEW d \in Peripherals, Connected(d) \/ Discovered(d)
      PROVE  QueuedIsSent'
  <2>1. UNCHANGED <<pending, sending, send_work, faults>>
    BY <1>4 DEF Connected, ConnectedIn, Discovered, ScanStart, NoScanStart
  <2>2. PICK i \in Slots :
          \/ UNCHANGED conns
          \/ conns' = [conns EXCEPT ![i].conn = d] /\ conns[i].conn = None
          \/ conns' = [conns EXCEPT ![i].ready = TRUE]
    <3>1. 1 \in Slots
      BY BleAssumption DEF Slots
    <3>2. CASE Connected(d)
      BY <3>1, <3>2 DEF Connected, ConnectedIn, Lowest, FreeSlots, SlotsOf
    <3>3. CASE Discovered(d)
      BY <3>3 DEF Discovered, Lowest, SlotsOf
    <3> QED BY <1>4, <3>2, <3>3
  <2>3. /\ \A k \in Slots \ {i} : conns'[k] = conns[k]
        /\ conns'[i].q = conns[i].q
    BY <2>2, ConnSet, ReadySet
  <2>4. conns'[i].q # <<>> => HasMessage(i)
    BY <2>3 DEF SlotInv, HasMessage
  <2>5. \A k \in Slots : HasMessage(k)' => HasMessage(k)
    BY <2>3, <2>4 DEF HasMessage
  <2> QED BY <2>1, <2>5 DEF QueuedIsSent
<1>5. ASSUME NEW d \in Peripherals, Disconnected(d)
      PROVE  QueuedIsSent'
  <2>1. UNCHANGED <<sending, send_work, faults>> /\ pending' = pending \ SlotsOf(d)
    BY <1>5 DEF Disconnected, NoScanStart
  <2>2. ASSUME NEW k \in Slots, HasMessage(k)'
        PROVE  HasMessage(k) /\ k \notin SlotsOf(d)
    <3>1. CASE UNCHANGED conns /\ SlotsOf(d) = {}
      BY <2>2, <3>1 DEF HasMessage
    <3>2. ASSUME NEW i \in Slots, conns[i].conn = d, conns' = [conns EXCEPT ![i] = Purged(conns[i])]
          PROVE  HasMessage(k) /\ k \notin SlotsOf(d)
      <4>1. conns'[i].q = <<>> /\ \A l \in Slots \ {i} : conns'[l] = conns[l]
        BY <3>2, SlotPurged
      <4>2. k # i /\ HasMessage(k)
        BY <2>2, <4>1 DEF HasMessage
      <4> QED BY <3>2, <4>2, BleAssumption DEF SlotInv, SlotsOf
    <3> QED BY <1>5, <3>1, <3>2 DEF Disconnected, Lowest, SlotsOf
  <2> QED BY <2>1, <2>2 DEF QueuedIsSent
<1>6. CASE DisconnectedMarks
  <2>1. /\ leaving \in Slots /\ conns' = [conns EXCEPT ![leaving].ready = FALSE]
        /\ UNCHANGED <<sending, send_work, pending, faults>>
    BY <1>6 DEF DisconnectedMarks, OtherTypes, Slots, ScanStart
  <2>2. \A k \in Slots : HasMessage(k)' => HasMessage(k)
    BY <2>1, ReadySet DEF HasMessage
  <2> QED BY <2>1, <2>2 DEF QueuedIsSent
<1>7. CASE Write
  BY <1>7 DEF Write, QueuedIsSent
<1>8. CASE SendStarts
  <2>1. sending' = 1 /\ UNCHANGED <<conns, pending, faults>>
    BY <1>8 DEF SendStarts, stackVars
  <2> QED BY <2>1 DEF QueuedIsSent, Slots
<1>9. CASE SendSkips
  <2>1. /\ sending \in Slots /\ ~ HasMessage(sending) /\ NextSlot
        /\ UNCHANGED <<conns, send_work, pending, faults>>
    BY <1>f, <1>9 DEF SendSkips, stackVars, Slots
  <2>2. \A k \in Slots : HasMessage(k)' => HasMessage(k) /\ k # sending
    BY <2>1 DEF HasMessage
  <2> QED BY <1>n, <2>1, <2>2 DEF QueuedIsSent
<1>10. CASE Sends
  <2>1. /\ sending \in Slots /\ HasMessage(sending) /\ NextSlot /\ send_work' = send_work
        /\ conns' = [conns EXCEPT ![sending].q = Tail(@)]
        /\ faults \subseteq faults' /\ pending \subseteq pending'
        /\ "send" \in faults' \/ sending \in pending'
    BY <1>f, <1>10 DEF Sends, Slots
  <2>2. \A k \in Slots \ {sending} : conns'[k] = conns[k]
    BY <2>1, QueueTail DEF HasMessage
  <2>3. ASSUME NEW k \in Slots, HasMessage(k)', "send" \notin faults'
        PROVE  send_work' \/ sending' \in 1 .. k \/ k \in pending'
    <3>1. CASE k = sending
      BY <2>1, <2>3, <3>1
    <3>2. CASE k # sending
      BY <1>f, <1>h, <1>n, <2>1, <2>2, <2>3, <3>2
    <3> QED BY <3>1, <3>2
  <2> QED BY <2>3 DEF QueuedIsSent
<1>11. ASSUME NEW i \in Slots, DataSent(i)
       PROVE  QueuedIsSent'
  BY <1>11 DEF DataSent, QueuedIsSent, HasMessage
<1> QED BY <1>2, <1>3, <1>4, <1>5, <1>6, <1>7, <1>8, <1>9, <1>10, <1>11
        DEF Next, Stack, Sending

(* What a ready connection has in its queue is never stranded: the send    *)
(* work or the completion of a write will come for it.                     *)
THEOREM NothingIsStranded ==
  ASSUME "isr" \notin Environment
  PROVE  Spec => []QueuedIsSent
<1>1. Init => QueuedIsSent
  BY DEF Init, QueuedIsSent, HasMessage
<1>2. CentralInv /\ QueuedIsSent /\ [Next]_vars => QueuedIsSent'
  BY QueuedStep DEF Quiet
<1> QED BY <1>1, <1>2, CentralAlways, PTL DEF Spec
-----------------------------------------------------------------------------
(* m_num_connected strays from the number of ready slots within MaxDrift,  *)
(* and disconnected() has room to count a slot that never was ready.       *)
DriftInv ==
  /\ m_num_connected \in Int
  /\ Drift \in - MaxDrift .. MaxDrift
  /\ leaving # 0 /\ ~ conns[leaving].ready => Drift # - MaxDrift

LEMMA ReadyFacts ==
  /\ Slots \in SUBSET Nat /\ IsFiniteSet(Slots) /\ Cardinality(Slots) = MaxConn
  /\ \A S \in SUBSET Slots : /\ IsFiniteSet(S) /\ Cardinality(S) \in 0 .. MaxConn
                           /\ Cardinality(S) \in Int
<1>1. IsFiniteSet(Slots) /\ Cardinality(Slots) = MaxConn
  BY FS_Interval, BleAssumption DEF Slots
<1>2. ASSUME NEW S \in SUBSET Slots
      PROVE  IsFiniteSet(S) /\ Cardinality(S) \in Nat /\ Cardinality(S) <= MaxConn
  BY <1>1, FS_Subset, FS_CardinalityType
<1> QED BY <1>1, <1>2, BleAssumption DEF Slots

(* How a step moves the count away from the ready slots: disconnected() of *)
(* a device that was not ready, a second discovery of one that is.         *)
DriftMove ==
  /\ m_num_connected' \in Int
  /\ \/ Drift' = Drift
     \/ leaving # 0 /\ ~ conns[leaving].ready /\ Drift' = Drift - 1
     \/ /\ Drift' = Drift + 1 /\ Drift < MaxDrift
        /\ \E d \in Peripherals : dm = d /\ SlotsOf(d) # {} /\ SlotsOf(d) \subseteq Ready
  /\ leaving' # 0 /\ ~ conns'[leaving'].ready => Drift' # - MaxDrift

LEMMA DriftMoves ==
  ASSUME CentralInv, DriftInv, [Next]_vars
  PROVE  DriftMove
<1> USE DEF CentralInv
<1>c. Cardinality(Ready) \in Int /\ MaxDrift \in Nat
  BY ReadyFacts, BleAssumption DEF Ready
<1>1. ASSUME UNCHANGED m_num_connected, Ready' = Ready, leaving' = 0 \/ leaving' = leaving
      PROVE  DriftMove
  <2>1. leaving # 0 => leaving \in Slots
    BY DEF OtherTypes, Slots
  <2>2. leaving' # 0 /\ ~ conns'[leaving'].ready => leaving # 0 /\ ~ conns[leaving].ready
    BY <1>1, <2>1 DEF Ready
  <2> QED BY <1>1, <2>2 DEF DriftInv, Drift, DriftMove
<1>2. CASE ScanWork \/ SendStarts \/ SendSkips \/ (\E i \in Slots : DataSent(i)) \/ UNCHANGED vars
  BY <1>1, <1>2 DEF ScanWork, SendStarts, SendSkips, DataSent, vars, Ready
<1>3. ASSUME NEW d \in Peripherals,
             \/ ScanMatch(d) \/ ConnectFails(d) \/ SecurityChanged(d)
             \/ SecurityFails(d) \/ HandlesRefused(d) \/ DiscoveryEnds(d)
      PROVE  DriftMove
  BY <1>1, <1>3 DEF ScanMatch, ConnectFails, SecurityChanged, SecurityFails,
                    HandlesRefused, DiscoveryEnds, Ready
<1>4. ASSUME NEW d \in Peripherals, Connected(d)
      PROVE  DriftMove
  <2>1. UNCHANGED m_num_connected /\ leaving' = 0
    BY <1>4 DEF Connected, ConnectedIn, Callback
  <2>2. Ready' = Ready
    <3>1. CASE UNCHANGED conns
      BY <3>1 DEF Ready
    <3>2. ASSUME NEW i \in Slots, conns' = [conns EXCEPT ![i].conn = d]
          PROVE  Ready' = Ready
      BY <3>2, ConnSet DEF Ready
    <3> QED BY <1>4, <3>1, <3>2 DEF Connected, ConnectedIn, Lowest, FreeSlots, SlotsOf
  <2> QED BY <1>1, <2>1, <2>2
<1>5. ASSUME NEW d \in Peripherals, Discovered(d)
      PROVE  DriftMove
  <2>1. PICK i \in Slots : conns[i].conn = d /\ conns' = [conns EXCEPT ![i].ready = TRUE]
    BY <1>5 DEF Discovered, Lowest, SlotsOf
  <2>2. SlotsOf(d) = {i}
    BY <2>1, BleAssumption DEF SlotsOf, SlotInv
  <2>3. Ready' = Ready \cup {i}
    BY <2>1, ReadySet DEF Ready
  <2>4. leaving' = 0 /\ m_num_connected' = m_num_connected + 1
    BY <1>5 DEF Discovered, Callback
  <2>5. CASE i \in Ready
    <3>1. Ready' = Ready /\ Drift < MaxDrift
      BY <1>5, <2>2, <2>3, <2>5 DEF Discovered
    <3>2. Drift' = Drift + 1
      BY <1>c, <2>4, <3>1 DEF Drift, DriftInv
    <3>3. dm = d /\ SlotsOf(d) # {} /\ SlotsOf(d) \subseteq Ready
      BY <1>5, <2>2, <2>5 DEF Discovered
    <3> QED BY <1>c, <2>4, <3>1, <3>2, <3>3 DEF DriftInv, DriftMove
  <2>6. CASE i \notin Ready
    <3>1. Cardinality(Ready') = Cardinality(Ready) + 1
      BY <2>3, <2>6, ReadyFacts, FS_AddElement DEF Ready
    <3>2. Drift' = Drift
      BY <1>c, <2>4, <3>1 DEF Drift, DriftInv
    <3> QED BY <2>4, <3>2 DEF DriftInv, DriftMove
  <2> QED BY <2>5, <2>6
<1>6. ASSUME NEW d \in Peripherals, Disconnected(d)
      PROVE  DriftMove
  <2>1. UNCHANGED m_num_connected /\ leaving = 0
        /\ (Drift = - MaxDrift => SlotsOf(d) \subseteq Ready)
    BY <1>6 DEF Disconnected, Callback
  <2>2. CASE UNCHANGED <<conns, leaving>>
    BY <1>1, <2>1, <2>2 DEF Ready
  <2>3. CASE ~ UNCHANGED <<conns, leaving>>
    <3>1. PICK i \in SlotsOf(d) :
            conns' = [conns EXCEPT ![i] = Purged(conns[i])] /\ leaving' = i
      BY <1>6, <2>3 DEF Disconnected, Lowest
    <3>2. i \in Slots
      BY <3>1 DEF SlotsOf
    <3>3. \A k \in Slots : conns'[k].ready = conns[k].ready
      BY <3>1, <3>2, SlotPurged
    <3>4. Ready' = Ready
      BY <3>3 DEF Ready
    <3>5. ~ conns'[leaving'].ready => Drift # - MaxDrift
      BY <2>1, <3>1, <3>2, <3>3 DEF Ready
    <3>6. Drift' = Drift
      BY <2>1, <3>4 DEF Drift
    <3> QED BY <2>1, <3>5, <3>6 DEF DriftInv, DriftMove
  <2> QED BY <2>2, <2>3
<1>7. CASE DisconnectedMarks
  <2>1. /\ leaving # 0 /\ leaving \in Slots /\ conns' = [conns EXCEPT ![leaving].ready = FALSE]
        /\ leaving' = 0 /\ m_num_connected' = m_num_connected - 1
    BY <1>7 DEF DisconnectedMarks, OtherTypes, Slots
  <2>2. Ready' = Ready \ {leaving}
    BY <2>1, ReadySet DEF Ready
  <2>3. CASE leaving \in Ready
    <3>1. Cardinality(Ready') = Cardinality(Ready) - 1
      <4>1. IsFiniteSet(Ready)
        BY ReadyFacts DEF Ready
      <4>2. Cardinality(Ready \ {leaving}) = Cardinality(Ready) - 1
        BY <2>3, <4>1, FS_RemoveElement
      <4> QED BY <2>2, <4>2
    <3>2. Drift' = Drift
      BY <1>c, <2>1, <3>1 DEF Drift, DriftInv
    <3> QED BY <2>1, <3>2 DEF DriftInv, DriftMove
  <2>4. CASE leaving \notin Ready
    <3>1. Ready' = Ready /\ Drift # - MaxDrift
      BY <2>1, <2>2, <2>4 DEF DriftInv, Ready
    <3>2. Drift' = Drift - 1
      BY <1>c, <2>1, <3>1 DEF Drift, DriftInv
    <3> QED BY <1>c, <2>1, <2>4, <3>1, <3>2 DEF DriftInv, DriftMove, Ready
  <2> QED BY <2>3, <2>4
<1>8. CASE Write
  <2>1. UNCHANGED m_num_connected /\ leaving' = leaving
    BY <1>8 DEF Write
  <2>2. \A k \in Slots : conns'[k].ready = conns[k].ready
    <3>1. ASSUME NEW k \in Slots
          PROVE  conns'[k].ready = conns[k].ready
      <4>1. conns'[k] = conns[k] \/ \E q : conns'[k] = [conns[k] EXCEPT !.q = q]
        BY <1>8 DEF Write
      <4>2. conns[k] \in Conns
        BY DEF SlotTypes
      <4> QED BY <4>1, <4>2 DEF Conns
    <3> QED BY <3>1
  <2> QED BY <1>1, <2>1, <2>2 DEF Ready
<1>9. CASE Sends
  <2>1. /\ sending \in Slots /\ HasMessage(sending) /\ UNCHANGED m_num_connected /\ leaving' = 0
        /\ conns' = [conns EXCEPT ![sending].q = Tail(@)]
    BY <1>9 DEF Sends, OtherTypes, Slots, Callback
  <2>2. \A k \in Slots : conns'[k].ready = conns[k].ready
    BY <2>1, QueueTail DEF HasMessage
  <2> QED BY <1>1, <2>1, <2>2 DEF Ready
<1> QED BY <1>2, <1>3, <1>4, <1>5, <1>6, <1>7, <1>8, <1>9 DEF Next, Stack, Sending

LEMMA DriftStep ==
  ASSUME CentralInv, DriftInv, [Next]_vars
  PROVE  DriftInv'
<1>1. DriftMove
  BY DriftMoves
<1>2. Drift \in - MaxDrift .. MaxDrift /\ MaxDrift \in Nat
  BY BleAssumption DEF DriftInv
<1>3. Drift' \in - MaxDrift .. MaxDrift
  BY <1>1, <1>2 DEF DriftMove, DriftInv
<1> QED BY <1>1, <1>3 DEF DriftMove, DriftInv

(* The slots, the queues, the count of connections and the stack keep      *)
(* their types and bounds.                                                 *)
THEOREM SlotsAreTyped == Spec => []TypeOK
<1>1. Init => DriftInv
  <2> SUFFICES ASSUME Init
               PROVE  DriftInv
    OBVIOUS
  <2>1. Ready = {} /\ m_num_connected = 0 /\ leaving = 0
    BY DEF Init, Ready
  <2>2. Cardinality({}) = 0
    BY FS_EmptySet
  <2> QED BY <2>1, <2>2, BleAssumption DEF DriftInv, Drift
<1>2. CentralInv /\ DriftInv /\ [Next]_vars => DriftInv'
  BY DriftStep
<1>3. CentralInv /\ DriftInv => TypeOK
  <2> SUFFICES ASSUME CentralInv, DriftInv
               PROVE  TypeOK
    OBVIOUS
  <2>1. Cardinality(Ready) \in 0 .. MaxConn
    BY ReadyFacts DEF Ready
  <2>2. m_num_connected \in - MaxDrift .. MaxConn + MaxDrift
    BY <2>1, BleAssumption DEF DriftInv, Drift
  <2> QED BY <2>2 DEF CentralInv, TypeOK
<1> QED BY <1>1, <1>2, <1>3, CentralAlways, PTL DEF Spec
-----------------------------------------------------------------------------
(* The stack has at most MaxConn connections, and each has a slot once the *)
(* application knows of it.                                                *)
ConnStates == {"connected", "secured", "closing"}

HasSlotInv ==
  /\ IsFiniteSet(InUse) /\ Cardinality(InUse) <= MaxConn
  /\ \A d \in Peripherals : link[d] \in ConnStates => SlotsOf(d) # {}

(* While a connection is being established a slot is free for it: as many  *)
(* slots as connections are taken, and that one has none.                  *)
LEMMA SlotIsFree ==
  ASSUME CentralInv, HasSlotInv, NEW d \in Peripherals, link[d] = "initiating"
  PROVE  FreeSlots # {}
<1> SUFFICES ASSUME FreeSlots = {}
             PROVE  FALSE
  OBVIOUS
<1> DEFINE f == [i \in Slots |-> conns[i].conn]
           T == InUse \ {d}
<1>1. \A i \in Slots : conns[i].conn \in Peripherals
  <2> SUFFICES ASSUME NEW i \in Slots
               PROVE  conns[i].conn \in Peripherals
    OBVIOUS
  <2>1. conns[i].conn \in Peripherals \cup {None}
    BY SlotFacts DEF CentralInv
  <2> QED BY <2>1 DEF FreeSlots, SlotsOf
<1>2. \A i \in Slots : conns[i].conn \in T
  <2> SUFFICES ASSUME NEW i \in Slots
               PROVE  conns[i].conn \in T
    OBVIOUS
  <2>1. i \in SlotsOf(conns[i].conn)
    BY DEF SlotsOf
  <2>2. link[conns[i].conn] \notin {"away", "initiating"}
    BY <1>1, <2>1 DEF CentralInv, SlotInv
  <2> QED BY <1>1, <2>2 DEF InUse
<1>3. \A i, j \in Slots : f[i] = f[j] => i = j
  BY <1>1, BleAssumption DEF CentralInv, SlotInv
<1>4. f \in Injection(Slots, T)
  BY <1>2, <1>3 DEF Injection, IsInjective
<1>5. d \in InUse
  BY DEF InUse
<1>6. IsFiniteSet(T) /\ Cardinality(T) = Cardinality(InUse) - 1
  BY <1>5, FS_RemoveElement DEF HasSlotInv
<1> HIDE DEF f, T
<1>7. Cardinality(Slots) <= Cardinality(T)
  BY <1>4, <1>6, FS_Injection
<1>8. Cardinality(Slots) = MaxConn
  <2>1. Cardinality(1 .. MaxConn) = MaxConn
    BY BleAssumption, FS_Interval
  <2> QED BY <2>1 DEF Slots
<1>9. Cardinality(InUse) \in Nat
  BY FS_CardinalityType DEF HasSlotInv
<1> QED BY <1>6, <1>7, <1>8, <1>9, BleAssumption DEF HasSlotInv

(* A step that opens no connection.                                        *)
LEMMA FewerInUse ==
  ASSUME HasSlotInv, \A d \in Peripherals : link[d] = "away" => link'[d] = "away"
  PROVE  IsFiniteSet(InUse') /\ Cardinality(InUse') <= MaxConn
<1>1. InUse' \in SUBSET InUse
  BY DEF InUse
<1>2. /\ IsFiniteSet(InUse') /\ Cardinality(InUse') <= Cardinality(InUse)
      /\ Cardinality(InUse') \in Nat /\ Cardinality(InUse) \in Nat
  BY <1>1, FS_Subset, FS_CardinalityType DEF HasSlotInv
<1> QED BY <1>2, BleAssumption DEF HasSlotInv

(* A step that changes at most the link of d, which then has a slot or no  *)
(* connection, and takes no slot from another.                             *)
LEMMA OneLink ==
  ASSUME HasSlotInv, NEW d \in Peripherals,
         \A e \in Peripherals : e # d => link'[e] = link[e] /\ SlotsOf(e) \subseteq SlotsOf(e)',
         link[d] = "away" => link'[d] = "away",
         link'[d] \in ConnStates => SlotsOf(d)' # {}
  PROVE  HasSlotInv'
<1>1. IsFiniteSet(InUse') /\ Cardinality(InUse') <= MaxConn
  BY FewerInUse
<1>2. \A e \in Peripherals : link'[e] \in ConnStates => SlotsOf(e)' # {}
  BY DEF HasSlotInv
<1> QED BY <1>1, <1>2 DEF HasSlotInv

(* A step that changes neither connections nor who has which slot.         *)
LEMMA SameLinks ==
  ASSUME HasSlotInv, UNCHANGED link, \A i \in Slots : conns'[i].conn = conns[i].conn
  PROVE  HasSlotInv'
<1>1. IsFiniteSet(InUse') /\ Cardinality(InUse') <= MaxConn
  BY FewerInUse
<1>2. \A e \in Peripherals : SlotsOf(e)' = SlotsOf(e)
  BY DEF SlotsOf
<1> QED BY <1>1, <1>2 DEF HasSlotInv

(* A connection being established or connected: the stack is within its    *)
(* limit, or the free slot is taken.                                       *)
LEMMA InitiatingStep ==
  ASSUME CentralInv, HasSlotInv, NEW d \in Peripherals, ScanMatch(d)
  PROVE  HasSlotInv'
<1>1. UNCHANGED conns /\ \A e \in Peripherals : SlotsOf(e)' = SlotsOf(e)
  BY DEF ScanMatch, SlotsOf
<1>2. CASE UNCHANGED link
  BY <1>1, <1>2, SameLinks
<1>3. CASE MayCreate /\ link' = [link EXCEPT ![d] = "initiating"]
  <2>1. /\ link'[d] = "initiating" /\ \A e \in Peripherals \ {d} : link'[e] = link[e]
        /\ link[d] = "away"
    BY <1>3 DEF ScanMatch, CentralInv, OtherTypes
  <2>2. InUse' = InUse \cup {d} /\ d \notin InUse
    BY <2>1 DEF InUse
  <2>3. IsFiniteSet(InUse') /\ Cardinality(InUse') = Cardinality(InUse) + 1
    BY <2>2, FS_AddElement DEF HasSlotInv
  <2>4. Cardinality(InUse') <= MaxConn
    <3>1. Cardinality(InUse) \in Nat /\ Cardinality(InUse) < MaxConn
      BY <1>3, FS_CardinalityType DEF HasSlotInv, MayCreate
    <3> QED BY <3>1, <2>3, BleAssumption
  <2>5. \A e \in Peripherals : link'[e] \in ConnStates => SlotsOf(e)' # {}
    BY <1>1, <2>1 DEF HasSlotInv, ConnStates
  <2> QED BY <2>3, <2>4, <2>5 DEF HasSlotInv
<1> QED BY <1>2, <1>3 DEF ScanMatch

LEMMA ConnectedHasSlot ==
  ASSUME CentralInv, HasSlotInv, NEW d \in Peripherals, Connected(d)
  PROVE  HasSlotInv'
<1>1. link[d] = "initiating"
  BY DEF Connected, ConnectedIn
<1>2. PICK i \in Lowest(FreeSlots) : conns' = [conns EXCEPT ![i].conn = d]
  BY <1>1, SlotIsFree DEF Connected, ConnectedIn
<1>3. i \in Slots /\ conns[i].conn = None
  BY <1>2 DEF Lowest, FreeSlots, SlotsOf
<1>4. conns'[i].conn = d /\ \A k \in Slots \ {i} : conns'[k] = conns[k]
  BY <1>2, <1>3, ConnSet DEF CentralInv
<1>5. i \in SlotsOf(d)'
  BY <1>3, <1>4 DEF SlotsOf
<1>6. ASSUME NEW e \in Peripherals, e # d
      PROVE  link'[e] = link[e] /\ SlotsOf(e) \subseteq SlotsOf(e)'
  <2>1. link'[e] = link[e]
    BY <1>6 DEF Connected, ConnectedIn, CentralInv, OtherTypes
  <2>2. e # None
    BY BleAssumption
  <2> QED BY <1>3, <1>4, <2>1, <2>2 DEF SlotsOf
<1> QED BY <1>1, <1>5, <1>6, OneLink

LEMMA DisconnectedHasSlot ==
  ASSUME CentralInv, HasSlotInv, NEW d \in Peripherals, Disconnected(d)
  PROVE  HasSlotInv'
<1>1. link'[d] = "away" /\ \A e \in Peripherals \ {d} : link'[e] = link[e]
  BY DEF Disconnected, CentralInv, OtherTypes
<1>2. ASSUME NEW e \in Peripherals, e # d
      PROVE  SlotsOf(e) \subseteq SlotsOf(e)'
  <2>1. CASE UNCHANGED conns
    BY <2>1 DEF SlotsOf
  <2>2. CASE \E i \in Lowest(SlotsOf(d)) : conns' = [conns EXCEPT ![i] = Purged(conns[i])]
    <3>1. PICK i \in Lowest(SlotsOf(d)) : conns' = [conns EXCEPT ![i] = Purged(conns[i])]
      BY <2>2
    <3>2. i \in Slots /\ conns[i].conn = d
      BY <3>1 DEF Lowest, SlotsOf
    <3>3. \A k \in Slots \ {i} : conns'[k] = conns[k]
      BY <3>1, <3>2, SlotPurged DEF CentralInv
    <3> QED BY <1>2, <3>2, <3>3 DEF SlotsOf
  <2> QED BY <2>1, <2>2 DEF Disconnected
<1>3. link'[d] \notin ConnStates
  BY <1>1 DEF ConnStates
<1> QED BY <1>1, <1>2, <1>3, OneLink

(* The steps that change the link of d and no slot.                        *)
LEMMA LinkMoves ==
  ASSUME CentralInv, HasSlotInv, NEW d \in Peripherals, UNCHANGED conns,
         NEW state \in {"away", "secured", "closing"},
         link' = [link EXCEPT ![d] = state],
         state # "away" => link[d] \in ConnStates
  PROVE  HasSlotInv'
<1>1. link'[d] = state /\ \A e \in Peripherals \ {d} : link'[e] = link[e]
  BY DEF CentralInv, OtherTypes
<1>2. \A e \in Peripherals : SlotsOf(e)' = SlotsOf(e)
  BY DEF SlotsOf
<1>3. link[d] = "away" => link'[d] = "away"
  BY <1>1 DEF ConnStates
<1>4. link'[d] \in ConnStates => SlotsOf(d)' # {}
  BY <1>1, <1>2 DEF HasSlotInv, ConnStates
<1> QED BY <1>1, <1>2, <1>3, <1>4, OneLink

LEMMA HasSlotStep ==
  ASSUME CentralInv, HasSlotInv, [Next]_vars
  PROVE  HasSlotInv'
<1> USE DEF CentralInv
<1>1. CASE UNCHANGED <<conns, link>>
  BY <1>1, SameLinks
<1>2. ASSUME NEW d \in Peripherals, ConnectFails(d)
      PROVE  HasSlotInv'
  BY <1>2, LinkMoves DEF ConnectFails
<1>3. ASSUME NEW d \in Peripherals, SecurityChanged(d)
      PROVE  HasSlotInv'
  <2>1. link[d] \in ConnStates
    BY <1>3 DEF SecurityChanged, ConnStates
  <2> QED BY <1>3, <2>1, LinkMoves DEF SecurityChanged
<1>4. ASSUME NEW d \in Peripherals,
             SecurityFails(d) \/ HandlesRefused(d) \/ DiscoveryEnds(d)
      PROVE  HasSlotInv'
  <2>1. link[d] \in ConnStates /\ UNCHANGED conns
    BY <1>4 DEF SecurityFails, HandlesRefused, DiscoveryEnds, ConnStates
  <2>2. UNCHANGED link \/ link' = [link EXCEPT ![d] = "closing"]
    BY <1>4 DEF SecurityFails, HandlesRefused, DiscoveryEnds
  <2> QED BY <1>1, <2>1, <2>2, LinkMoves
<1>5. ASSUME NEW d \in Peripherals, Discovered(d)
      PROVE  HasSlotInv'
  <2>1. PICK i \in Lowest(SlotsOf(d)) : conns' = [conns EXCEPT ![i].ready = TRUE]
    BY <1>5 DEF Discovered
  <2>2. i \in Slots /\ UNCHANGED link
    BY <1>5, <2>1 DEF Lowest, SlotsOf, Discovered
  <2> QED BY <2>1, <2>2, ReadySet, SameLinks
<1>6. CASE DisconnectedMarks
  <2>1. /\ leaving \in Slots /\ conns' = [conns EXCEPT ![leaving].ready = FALSE]
        /\ UNCHANGED link
    BY <1>6 DEF DisconnectedMarks, OtherTypes, Slots
  <2> QED BY <2>1, ReadySet, SameLinks
<1>7. CASE Write
  <2>1. \A k \in Slots : conns'[k].conn = conns[k].conn
    <3>1. ASSUME NEW k \in Slots
          PROVE  conns'[k].conn = conns[k].conn
      <4>1. conns'[k] = conns[k] \/ \E q : conns'[k] = [conns[k] EXCEPT !.q = q]
        BY <1>7 DEF Write
      <4>2. conns[k] \in Conns
        BY DEF SlotTypes
      <4> QED BY <4>1, <4>2 DEF Conns
    <3> QED BY <3>1
  <2> QED BY <1>7, <2>1, SameLinks DEF Write, stackVars
<1>8. CASE Sends
  <2>1. /\ sending \in Slots /\ HasMessage(sending) /\ UNCHANGED link
        /\ conns' = [conns EXCEPT ![sending].q = Tail(@)]
    BY <1>8 DEF Sends, OtherTypes, Slots
  <2>2. \A k \in Slots : conns'[k].conn = conns[k].conn
    BY <2>1, QueueTail DEF HasMessage
  <2> QED BY <2>1, <2>2, SameLinks
<1>9. ScanWork \/ SendStarts \/ SendSkips \/ (\E i \in Slots : DataSent(i)) \/ UNCHANGED vars
        => UNCHANGED <<conns, link>>
  BY DEF ScanWork, SendStarts, SendSkips, DataSent, stackVars, vars
<1> QED
  BY <1>1, <1>2, <1>3, <1>4, <1>5, <1>6, <1>7, <1>8, <1>9, InitiatingStep,
     ConnectedHasSlot, DisconnectedHasSlot DEF Next, Stack, Sending

(* Every connection the stack reports has a slot, and only one.            *)
THEOREM EveryConnectionServed == Spec => []EveryConnectionHasItsSlot
<1>1. Init => HasSlotInv
  <2> SUFFICES ASSUME Init
               PROVE  HasSlotInv
    OBVIOUS
  <2>1. \A d \in Peripherals : link[d] = "away"
    BY DEF Init
  <2>2. InUse = {}
    BY <2>1 DEF InUse
  <2> QED BY <2>1, <2>2, FS_EmptySet, BleAssumption DEF HasSlotInv, ConnStates
<1>2. CentralInv /\ HasSlotInv /\ [Next]_vars => HasSlotInv'
  BY HasSlotStep
<1>3. CentralInv /\ HasSlotInv => EveryConnectionHasItsSlot
  <2> SUFFICES ASSUME CentralInv, HasSlotInv, NEW d \in Peripherals
               PROVE  Cardinality(SlotsOf(d)) = IF link[d] \in ConnStates THEN 1 ELSE 0
    BY DEF EveryConnectionHasItsSlot, ConnStates
  <2>1. CASE link[d] \in ConnStates
    <3>1. PICK i \in Slots : conns[i].conn = d
      BY <2>1 DEF HasSlotInv, SlotsOf
    <3>2. SlotsOf(d) = {i}
      BY <3>1, BleAssumption DEF CentralInv, SlotInv, SlotsOf
    <3> QED BY <2>1, <3>2, FS_Singleton
  <2>2. CASE link[d] \notin ConnStates
    <3>1. link[d] \in {"away", "initiating"}
      BY <2>2 DEF CentralInv, OtherTypes, LinkStates, ConnStates
    <3>2. SlotsOf(d) = {}
      BY <3>1 DEF CentralInv, SlotInv
    <3> QED BY <2>2, <3>2, FS_EmptySet
  <2> QED BY <2>1, <2>2
<1> QED BY <1>1, <1>2, <1>3, CentralAlways, PTL DEF Spec

-----------------------------------------------------------------------------
(* As long as no connecting was refused, no service missing and no security*)
(* changed again: who is ready is not being discovered, and the count of   *)
(* connections is never above that of the ready slots.                     *)
ReadyClean ==
  \A i \in Slots : conns[i].ready /\ conns[i].conn # None =>
    link[conns[i].conn] \in {"secured", "closing"} /\ dm # conns[i].conn

CleanInv ==
  "scan" \notin faults =>
    dm \in Peripherals \cup {None} /\ ReadyClean /\ Drift <= 0

LEMMA FaultsStay == [Next]_vars => faults \subseteq faults'
<1> SUFFICES ASSUME [Next]_vars
             PROVE  faults \subseteq faults'
  OBVIOUS
<1> USE DEF NoFault, Fault, May, ScanStart, NoScanStart
<1>1. CASE ScanWork \/ DisconnectedMarks \/ Write \/ UNCHANGED vars
  BY <1>1 DEF ScanWork, DisconnectedMarks, Write, vars
<1>2. CASE Sending
  BY <1>2 DEF Sending, SendStarts, SendSkips, Sends, DataSent
<1>3. ASSUME NEW d \in Peripherals, ScanMatch(d) \/ Connected(d) \/ ConnectFails(d)
      PROVE  faults \subseteq faults'
  BY <1>3 DEF ScanMatch, Connected, ConnectedIn, ConnectFails
<1>4. ASSUME NEW d \in Peripherals, SecurityChanged(d) \/ SecurityFails(d) \/ Discovered(d)
      PROVE  faults \subseteq faults'
  BY <1>4 DEF SecurityChanged, SecurityFails, Discovered
<1>5. ASSUME NEW d \in Peripherals, HandlesRefused(d) \/ DiscoveryEnds(d) \/ Disconnected(d)
      PROVE  faults \subseteq faults'
  BY <1>5 DEF HandlesRefused, DiscoveryEnds, Disconnected
<1> QED BY <1>1, <1>2, <1>3, <1>4, <1>5 DEF Next, Stack

(* A step that changes no slot's connection and readies none.              *)
LEMMA CleanFrame ==
  ASSUME ReadyClean, UNCHANGED <<link, dm>>,
         \A i \in Slots : conns'[i].conn = conns[i].conn /\ (conns'[i].ready => conns[i].ready)
  PROVE  ReadyClean'
  BY DEF ReadyClean

(* A step that changes at most the link and the discovery of d.            *)
LEMMA LinkClean ==
  ASSUME ReadyClean, NEW d \in Peripherals, UNCHANGED conns,
         \A e \in Peripherals \ {d} : link'[e] = link[e],
         dm' \in {dm, None, d},
         \A i \in Slots : conns[i].conn \in Peripherals \cup {None},
         \/ \A i \in SlotsOf(d) : ~ conns[i].ready
         \/ link'[d] \in {"secured", "closing"} /\ dm' \in {dm, None}
  PROVE  ReadyClean'
<1> SUFFICES ASSUME NEW i \in Slots, conns[i].ready, conns[i].conn # None
             PROVE  link'[conns[i].conn] \in {"secured", "closing"} /\ dm' # conns[i].conn
  BY DEF ReadyClean
<1>1. link[conns[i].conn] \in {"secured", "closing"} /\ dm # conns[i].conn
  BY DEF ReadyClean
<1> QED BY <1>1 DEF SlotsOf

LEMMA CleanStep ==
  ASSUME CentralInv, HasSlotInv, DriftInv, CleanInv, [Next]_vars
  PROVE  CleanInv'
<1> SUFFICES ASSUME "scan" \notin faults'
             PROVE  dm' \in Peripherals \cup {None} /\ ReadyClean' /\ Drift' <= 0
  BY DEF CleanInv
<1>s. "scan" \notin faults
  BY FaultsStay
<1>c. dm \in Peripherals \cup {None} /\ ReadyClean /\ Drift <= 0
  BY <1>s DEF CleanInv
<1>d. Drift' <= 0
  <2>1. DriftMove
    BY DriftMoves
  <2>2. ~ \E d \in Peripherals : dm = d /\ SlotsOf(d) # {} /\ SlotsOf(d) \subseteq Ready
    BY <1>c, BleAssumption DEF ReadyClean, SlotsOf, Ready
  <2>3. Drift \in Int
    BY DEF DriftInv
  <2> QED BY <1>c, <2>1, <2>2, <2>3 DEF DriftMove
<1> SUFFICES dm' \in Peripherals \cup {None} /\ ReadyClean'
  BY <1>d
<1> USE DEF CentralInv, NoFault, Fault, May, ScanStart, NoScanStart
<1>p. \A i \in Slots : conns[i].conn \in Peripherals \cup {None}
  BY SlotFacts
<1>1. CASE UNCHANGED <<conns, link, dm>>
  BY <1>1, <1>c, CleanFrame
<1>2. ASSUME NEW d \in Peripherals, link[d] \notin {"secured", "closing"}
      PROVE  \A i \in SlotsOf(d) : ~ conns[i].ready
  BY <1>2, <1>c, BleAssumption DEF ReadyClean, SlotsOf
<1>3. ASSUME NEW d \in Peripherals, ScanMatch(d) \/ ConnectFails(d) \/ SecurityFails(d)
      PROVE  dm' \in Peripherals \cup {None} /\ ReadyClean'
  <2>1. /\ UNCHANGED <<conns, dm>> /\ link[d] \notin {"secured", "closing"}
        /\ \A e \in Peripherals \ {d} : link'[e] = link[e]
    BY <1>3 DEF ScanMatch, ConnectFails, SecurityFails, OtherTypes
  <2> QED BY <1>2, <1>c, <1>p, <2>1, LinkClean
<1>4. ASSUME NEW d \in Peripherals, SecurityChanged(d)
      PROVE  dm' \in Peripherals \cup {None} /\ ReadyClean'
  <2>1. link[d] = "connected" /\ UNCHANGED conns
    BY <1>4 DEF SecurityChanged
  <2>2. dm' \in {dm, d} /\ \A e \in Peripherals \ {d} : link'[e] = link[e]
    BY <1>4 DEF SecurityChanged, GattDiscover, OtherTypes
  <2>3. ReadyClean'
    BY <1>2, <1>c, <1>p, <2>1, <2>2, LinkClean
  <2> QED BY <1>c, <2>2, <2>3
<1>5. ASSUME NEW d \in Peripherals, HandlesRefused(d) \/ DiscoveryEnds(d)
      PROVE  dm' \in Peripherals \cup {None} /\ ReadyClean'
  <2>1. /\ UNCHANGED conns /\ dm' = None /\ link'[d] = "closing"
        /\ \A e \in Peripherals \ {d} : link'[e] = link[e]
    BY <1>5 DEF HandlesRefused, DiscoveryEnds, OtherTypes
  <2> QED BY <1>c, <1>p, <2>1, LinkClean
<1>6. ASSUME NEW d \in Peripherals, Connected(d)
      PROVE  dm' \in Peripherals \cup {None} /\ ReadyClean'
  <2>1. /\ link[d] = "initiating" /\ leaving = 0 /\ dm' \in {dm, d}
        /\ \A e \in Peripherals \ {d} : link'[e] = link[e]
    BY <1>6 DEF Connected, ConnectedIn, Callback, Insecure, GattDiscover, OtherTypes
  <2>2. PICK i \in Lowest(FreeSlots) : conns' = [conns EXCEPT ![i].conn = d]
    BY <1>6, <2>1, SlotIsFree DEF Connected, ConnectedIn
  <2>3. i \in Slots /\ conns[i].conn = None
    BY <2>2 DEF Lowest, FreeSlots, SlotsOf
  <2>4. /\ \A k \in Slots \ {i} : conns'[k] = conns[k]
        /\ conns'[i].ready = conns[i].ready
    BY <2>2, <2>3, ConnSet
  <2>5. ~ conns[i].ready
    BY <2>1, <2>3 DEF SlotInv, Slots
  <2>6. \A k \in Slots : conns[k].conn # d
    BY <2>1 DEF SlotInv, SlotsOf
  <2>7. ReadyClean'
    <3> SUFFICES ASSUME NEW k \in Slots, conns'[k].ready, conns'[k].conn # None
                 PROVE  /\ link'[conns'[k].conn] \in {"secured", "closing"}
                        /\ dm' # conns'[k].conn
      BY DEF ReadyClean
    <3>1. k # i /\ conns'[k] = conns[k] /\ conns[k].conn # d
      BY <2>4, <2>5, <2>6
    <3> QED BY <1>c, <1>p, <2>1, <3>1 DEF ReadyClean
  <2> QED BY <1>c, <2>1, <2>7
<1>7. ASSUME NEW d \in Peripherals, Discovered(d)
      PROVE  dm' \in Peripherals \cup {None} /\ ReadyClean'
  <2>1. PICK i \in Lowest(SlotsOf(d)) : conns' = [conns EXCEPT ![i].ready = TRUE]
    BY <1>7 DEF Discovered
  <2>2. i \in Slots /\ conns[i].conn = d /\ dm' = None /\ UNCHANGED link /\ link[d] = "secured"
    BY <1>7, <2>1 DEF Discovered, Lowest, SlotsOf
  <2>3. /\ \A k \in Slots : conns'[k].conn = conns[k].conn
        /\ \A k \in Slots \ {i} : conns'[k] = conns[k]
    BY <2>1, <2>2, ReadySet
  <2> QED BY <1>c, <2>2, <2>3 DEF ReadyClean
<1>8. ASSUME NEW d \in Peripherals, Disconnected(d)
      PROVE  dm' \in Peripherals \cup {None} /\ ReadyClean'
  <2>1. dm' \in {dm, None} /\ \A e \in Peripherals \ {d} : link'[e] = link[e]
    BY <1>8 DEF Disconnected, OtherTypes
  <2>2. SlotsOf(d) # {}
    BY <1>8 DEF Disconnected, HasSlotInv, ConnStates
  <2>3. PICK i \in Lowest(SlotsOf(d)) : conns' = [conns EXCEPT ![i] = Purged(conns[i])]
    BY <1>8, <2>2 DEF Disconnected
  <2>4. i \in Slots /\ conns[i].conn = d
    BY <2>3 DEF Lowest, SlotsOf
  <2>5. conns'[i].conn = None /\ \A k \in Slots \ {i} : conns'[k] = conns[k]
    BY <2>3, <2>4, SlotPurged
  <2>6. \A k \in Slots \ {i} : conns[k].conn # d
    BY <2>4, BleAssumption DEF SlotInv
  <2>7. ReadyClean'
    <3> SUFFICES ASSUME NEW k \in Slots, conns'[k].ready, conns'[k].conn # None
                 PROVE  /\ link'[conns'[k].conn] \in {"secured", "closing"}
                        /\ dm' # conns'[k].conn
      BY DEF ReadyClean
    <3>1. k # i /\ conns'[k] = conns[k] /\ conns[k].conn # d
      BY <2>5, <2>6
    <3> QED BY <1>c, <1>p, <2>1, <3>1 DEF ReadyClean
  <2> QED BY <1>c, <2>1, <2>7
<1>9. CASE DisconnectedMarks
  <2>1. /\ leaving \in Slots /\ conns' = [conns EXCEPT ![leaving].ready = FALSE]
        /\ UNCHANGED <<link, dm>>
    BY <1>9 DEF DisconnectedMarks, OtherTypes, Slots
  <2>2. \A k \in Slots : conns'[k].conn = conns[k].conn /\ (conns'[k].ready => conns[k].ready)
    BY <2>1, ReadySet
  <2> QED BY <1>c, <2>1, <2>2, CleanFrame
<1>10. CASE Write
  <2>1. \A k \in Slots : conns'[k].conn = conns[k].conn /\ conns'[k].ready = conns[k].ready
    <3>1. ASSUME NEW k \in Slots
          PROVE  conns'[k].conn = conns[k].conn /\ conns'[k].ready = conns[k].ready
      <4>1. conns'[k] = conns[k] \/ \E q : conns'[k] = [conns[k] EXCEPT !.q = q]
        BY <1>10 DEF Write
      <4>2. conns[k] \in Conns
        BY DEF SlotTypes
      <4> QED BY <4>1, <4>2 DEF Conns
    <3> QED BY <3>1
  <2>2. UNCHANGED <<link, dm>>
    BY <1>10 DEF Write, stackVars
  <2> QED BY <1>c, <2>1, <2>2, CleanFrame
<1>11. CASE Sends
  <2>1. /\ sending \in Slots /\ HasMessage(sending) /\ UNCHANGED <<link, dm>>
        /\ conns' = [conns EXCEPT ![sending].q = Tail(@)]
    BY <1>11 DEF Sends, OtherTypes, Slots
  <2>2. \A k \in Slots : conns'[k].conn = conns[k].conn /\ conns'[k].ready = conns[k].ready
    BY <2>1, QueueTail DEF HasMessage
  <2> QED BY <1>c, <2>1, <2>2, CleanFrame
<1>12. ScanWork \/ SendStarts \/ SendSkips \/ (\E i \in Slots : DataSent(i)) \/ UNCHANGED vars
         => UNCHANGED <<conns, link, dm>>
  BY DEF ScanWork, SendStarts, SendSkips, DataSent, stackVars, vars
<1> QED
  BY <1>1, <1>3, <1>4, <1>5, <1>6, <1>7, <1>8, <1>9, <1>10, <1>11, <1>12
  DEF Next, Stack, Sending
-----------------------------------------------------------------------------
(* When a slot is free and no connection is being established, the stack   *)
(* accepts another one.                                                    *)
LEMMA RoomForOne ==
  ASSUME CentralInv, HasSlotInv, NEW i \in Slots, conns[i].conn = None,
         \A d \in InUse : link[d] \in ConnStates
  PROVE  MayCreate
<1> DEFINE f == [d \in InUse |-> CHOOSE k \in Slots : conns[k].conn = d]
           T == Slots \ {i}
<1>1. ASSUME NEW d \in InUse
      PROVE  f[d] \in T /\ conns[f[d]].conn = d
  <2>1. d \in Peripherals /\ \E k \in Slots : conns[k].conn = d
    BY <1>1 DEF HasSlotInv, InUse, SlotsOf
  <2>2. f[d] \in Slots /\ conns[f[d]].conn = d
    BY <2>1
  <2> QED BY <2>1, <2>2, BleAssumption
<1>2. f \in Injection(InUse, T)
  <2>1. \A d, e \in InUse : f[d] = f[e] => d = e
    BY <1>1
  <2>2. f \in [InUse -> T]
    BY <1>1
  <2> QED BY <2>1, <2>2 DEF Injection, IsInjective
<1>3. IsFiniteSet(T) /\ Cardinality(T) = MaxConn - 1
  BY ReadyFacts, FS_RemoveElement
<1> HIDE DEF f, T
<1>4. Cardinality(InUse) <= MaxConn - 1
  BY <1>2, <1>3, FS_Injection
<1>5. Cardinality(InUse) \in Nat
  BY FS_CardinalityType DEF HasSlotInv
<1>6. Cardinality(InUse) < MaxConn
  BY <1>4, <1>5, BleAssumption
<1> QED BY <1>6 DEF MayCreate, ConnStates

LEMMA LookStep ==
  ASSUME CentralInv, HasSlotInv, DriftInv, CleanInv,
         CentralInv', DriftInv', CleanInv', LooksForPeripherals, [Next]_vars
  PROVE  LooksForPeripherals'
<1> SUFFICES ASSUME "scan" \notin faults', leaving' = 0, SlotsOf(None)' # {},
                    \A d \in Peripherals : ~ SettingUp(d)'
             PROVE  scanning' \/ scan_work'
  BY DEF LooksForPeripherals, Callback
<1>s. "scan" \notin faults
  BY FaultsStay
<1>c. dm \in Peripherals \cup {None} /\ dm' \in Peripherals \cup {None} /\ Drift' <= 0
  BY <1>s DEF CleanInv
<1>n. /\ dm' \notin Peripherals
      /\ \A d \in Peripherals : link'[d] \notin {"initiating", "connected", "closing"}
  BY DEF SettingUp
<1>i. PICK i \in Slots : conns'[i].conn = None
  BY DEF SlotsOf
<1> USE DEF NoFault, Fault, May, ScanStart, NoScanStart
(* A step that leaves alone what the property speaks of.                   *)
<1>1. ASSUME leaving = 0, UNCHANGED <<link, dm, scanning, scan_work>>,
             \A k \in Slots : conns'[k].conn = conns[k].conn
      PROVE  scanning' \/ scan_work'
  <2>1. SlotsOf(None) # {}
    BY <1>1, <1>i DEF SlotsOf
  <2>2. \A d \in Peripherals : ~ SettingUp(d)
    BY <1>1, <1>n DEF SettingUp
  <2> QED BY <1>1, <1>s, <2>1, <2>2 DEF LooksForPeripherals, Callback
<1>2. ScanWork \/ DisconnectedMarks \/ (\E d \in Peripherals : ConnectFails(d))
        => scanning' \/ scan_work'
  BY DEF ScanWork, DisconnectedMarks, ConnectFails
<1>3. SendStarts \/ SendSkips \/ (\E k \in Slots : DataSent(k)) \/ UNCHANGED vars
        => scanning' \/ scan_work'
  BY <1>1 DEF SendStarts, SendSkips, DataSent, stackVars, vars, Callback
<1>4. ASSUME NEW d \in Peripherals, ScanMatch(d)
      PROVE  FALSE
  <2>1. UNCHANGED conns /\ (MayCreate => link' = [link EXCEPT ![d] = "initiating"])
    BY <1>4 DEF ScanMatch
  <2>2. UNCHANGED link
    BY <1>4, <1>n DEF ScanMatch, CentralInv, OtherTypes
  <2>3. \A e \in InUse : link[e] \in ConnStates
    BY <2>2, <1>n DEF InUse, ConnStates, CentralInv, OtherTypes, LinkStates
  <2>4. MayCreate
    BY <1>i, <2>1, <2>3, RoomForOne
  <2> QED BY <1>n, <2>1, <2>4 DEF CentralInv, OtherTypes
<1>5. ASSUME NEW d \in Peripherals, NEW slots, slots # {}, GattDiscover(d, slots)
      PROVE  FALSE
  BY <1>5, <1>c, <1>n DEF GattDiscover
<1>6. ASSUME NEW d \in Peripherals, Connected(d)
      PROVE  FALSE
  <2>1. FreeSlots # {}
    BY <1>6, SlotIsFree DEF Connected, ConnectedIn
  <2>2. link' # [link EXCEPT ![d] = "connected"]
    BY <1>n DEF CentralInv, OtherTypes
  <2>3. GattDiscover(d, FreeSlots)
    BY <1>6, <2>2 DEF Connected, ConnectedIn, Insecure
  <2> QED BY <1>5, <2>1, <2>3
<1>7. ASSUME NEW d \in Peripherals, SecurityChanged(d)
      PROVE  FALSE
  <2>1. link[d] \in ConnStates /\ GattDiscover(d, SlotsOf(d))
    BY <1>7 DEF SecurityChanged, ConnStates
  <2>2. SlotsOf(d) # {}
    BY <2>1 DEF HasSlotInv
  <2> QED BY <1>5, <2>1, <2>2
<1>8. ASSUME NEW d \in Peripherals, SecurityFails(d) \/ HandlesRefused(d) \/ DiscoveryEnds(d)
      PROVE  FALSE
  <2>1. link'[d] = "closing"
    BY <1>8 DEF SecurityFails, HandlesRefused, DiscoveryEnds, CentralInv, OtherTypes
  <2> QED BY <1>n, <2>1
<1>9. ASSUME NEW d \in Peripherals, Discovered(d)
      PROVE  scanning' \/ scan_work'
  <2>1. i \notin Ready'
    BY <1>i, BleAssumption DEF Ready, CentralInv, SlotInv, Slots
  <2>2. Cardinality(Ready') \in Int /\ Cardinality(Ready') < MaxConn
    <3>1. IsFiniteSet(Slots \ {i}) /\ Cardinality(Slots \ {i}) = MaxConn - 1
      BY ReadyFacts, FS_RemoveElement
    <3>2. Ready' \in SUBSET (Slots \ {i})
      BY <2>1 DEF Ready
    <3>3. Cardinality(Ready') <= Cardinality(Slots \ {i})
      BY <3>1, <3>2, FS_Subset
    <3>4. Cardinality(Ready') \in Int
      BY <3>2, ReadyFacts
    <3> QED BY <3>1, <3>3, <3>4, BleAssumption
  <2>3. m_num_connected' < MaxConn
    BY <1>c, <2>2, BleAssumption DEF DriftInv, Drift
  <2> QED BY <1>9, <2>3 DEF Discovered
<1>10. ASSUME NEW d \in Peripherals, Disconnected(d)
       PROVE  FALSE
  <2>1. SlotsOf(d) # {}
    BY <1>10 DEF Disconnected, HasSlotInv, ConnStates
  <2> QED BY <1>10, <2>1 DEF Disconnected, Lowest, SlotsOf, Slots
<1>11. CASE Write
  <2>1. \A k \in Slots : conns'[k].conn = conns[k].conn
    <3>1. ASSUME NEW k \in Slots
          PROVE  conns'[k].conn = conns[k].conn
      <4>1. conns'[k] = conns[k] \/ \E q : conns'[k] = [conns[k] EXCEPT !.q = q]
        BY <1>11 DEF Write
      <4>2. conns[k] \in Conns
        BY DEF CentralInv, SlotTypes
      <4> QED BY <4>1, <4>2 DEF Conns
    <3> QED BY <3>1
  <2> QED BY <1>1, <1>11, <2>1 DEF Write, stackVars, Callback
<1>12. CASE Sends
  <2>1. /\ sending \in Slots /\ HasMessage(sending) /\ leaving = 0
        /\ UNCHANGED <<link, dm, scanning, scan_work>>
        /\ conns' = [conns EXCEPT ![sending].q = Tail(@)]
    BY <1>12 DEF Sends, CentralInv, OtherTypes, Slots, Callback
  <2>2. \A k \in Slots : conns'[k].conn = conns[k].conn
    BY <2>1, QueueTail DEF HasMessage, CentralInv
  <2> QED BY <1>1, <2>1, <2>2
<1> QED
  BY <1>2, <1>3, <1>4, <1>6, <1>7, <1>8, <1>9, <1>10, <1>11, <1>12
  DEF Next, Stack, Sending

(* The hub looks for peripherals whenever it has room and sets up none.    *)
THEOREM HubKeepsLooking == Spec => []LooksForPeripherals
<1>1. Init => HasSlotInv /\ DriftInv /\ CleanInv /\ LooksForPeripherals
  <2> SUFFICES ASSUME Init
               PROVE  HasSlotInv /\ DriftInv /\ CleanInv /\ LooksForPeripherals
    OBVIOUS
  <2>1. InUse = {} /\ Ready = {} /\ m_num_connected = 0 /\ leaving = 0 /\ dm = None /\ scanning
    BY DEF Init, InUse, Ready
  <2>2. Cardinality({}) = 0 /\ IsFiniteSet({})
    BY FS_EmptySet
  <2>3. Drift = 0
    BY <2>1, <2>2 DEF Drift
  <2>4. HasSlotInv /\ DriftInv
    BY <2>1, <2>2, <2>3, BleAssumption DEF HasSlotInv, DriftInv, ConnStates, InUse
  <2>5. ReadyClean
    BY <2>1 DEF ReadyClean, Ready
  <2> QED BY <2>1, <2>3, <2>4, <2>5 DEF CleanInv, LooksForPeripherals
<1>2. CentralInv /\ HasSlotInv /\ [Next]_vars => HasSlotInv'
  BY HasSlotStep
<1>3. CentralInv /\ DriftInv /\ [Next]_vars => DriftInv'
  BY DriftStep
<1>4. CentralInv /\ HasSlotInv /\ DriftInv /\ CleanInv /\ [Next]_vars => CleanInv'
  BY CleanStep
<1>5. CentralInv /\ HasSlotInv /\ DriftInv /\ CleanInv /\ CentralInv' /\ DriftInv'
        /\ CleanInv' /\ LooksForPeripherals /\ [Next]_vars => LooksForPeripherals'
  BY LookStep
<1> QED BY <1>1, <1>2, <1>3, <1>4, <1>5, CentralAlways, PTL DEF Spec
=============================================================================
