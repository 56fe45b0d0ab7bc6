------------------------- MODULE AppCallbacksProofs -------------------------
(* For a table and a heap of any size, any topics and any callbacks: an    *)
(* event of a topic nobody unsubscribed from, and which is no prefix of    *)
(* another one's, finds an entry, and the entry is one of its own.         *)
EXTENDS AppCallbacks, TLAPS

(* Every step but a restart only cancels and subscribes more. *)
Grows == subscribed \subseteq subscribed' /\ cancelled \subseteq cancelled'

(* What the heap holds: a block whose topic can still be read is the entry *)
(* of a subscription, or a freed one of a topic that was cancelled.        *)
BlockInv(b) ==
  /\ memory[b].full # Junk =>
       /\ memory[b].full = memory[b].topic
       /\ <<memory[b].full, memory[b].cb>> \in subscribed
  /\ memory[b].topic # Junk /\ memory[b].topic \notin cancelled =>
       /\ owner[b] = "entry"
       /\ memory[b].full = memory[b].topic

HeapInv == \A b \in Blocks : BlockInv(b)

(* A slot from s on leads to an entry of the topic. *)
Reached(topic, s) ==
  \E i \in Slots : /\ i >= s
                   /\ callbacks[i] # None
                   /\ memory[callbacks[i]].full = topic

TableInv ==
  \A p \in subscribed : p[1] \notin cancelled => Reached(p[1], 1)

DispatchInv ==
  /\ due => event # None
  /\ matched # None => event # None /\ slot \in Slots
  /\ matched # None /\ Clean(event) => memory[matched].full = event
  /\ event # None /\ matched = None /\ due /\ Clean(event) => Reached(event, slot)

IInv == TypeOK /\ HeapInv /\ TableInv /\ DispatchInv

LEMMA UnwrittenTyped == Unwritten \in Entry
BY DEF Unwritten, Entry

LEMMA InitInv == Init => IInv
<1> SUFFICES ASSUME Init PROVE IInv
  OBVIOUS
<1> USE CallbacksAssumption
<1>1. TypeOK
  <2>1. 1 \in 1 .. MaxCount + 1
    OBVIOUS
  <2> QED BY <2>1, UnwrittenTyped DEF Init, TypeOK
<1>2. HeapInv
  BY DEF Init, HeapInv, BlockInv, Unwritten
<1>3. TableInv /\ DispatchInv
  BY DEF Init, TableInv, DispatchInv
<1> QED BY <1>1, <1>2, <1>3 DEF IInv

LEMMA RestartInv == Restart => IInv'
<1> SUFFICES ASSUME Restart PROVE IInv'
  OBVIOUS
<1> USE CallbacksAssumption
<1>1. TypeOK'
  <2>1. 1 \in 1 .. MaxCount + 1
    OBVIOUS
  <2> QED BY <2>1, UnwrittenTyped DEF Restart, TypeOK
<1>2. HeapInv'
  BY DEF Restart, HeapInv, BlockInv, Unwritten
<1>3. TableInv' /\ DispatchInv'
  BY DEF Restart, TableInv, DispatchInv
<1> QED BY <1>1, <1>2, <1>3 DEF IInv

(* A topic that is clean after a step was clean before it. *)
LEMMA CleanBefore ==
  ASSUME Grows, NEW topic \in Topics, Clean(topic)'
  PROVE  Clean(topic)
BY DEF Grows, Clean

(* A match for a clean topic is a match of the whole topic. *)
LEMMA MatchIsExact ==
  ASSUME IInv, event \in Topics, Clean(event), NEW b \in Blocks, Matches(b)
  PROVE  memory[b].full = event
<1>1. memory[b] \in Entry /\ BlockInv(b)
  BY DEF IInv, TypeOK, HeapInv
<1>2. memory[b].full \in Prefix[event] /\ memory[b].full # Junk
  BY <1>1, CallbacksAssumption DEF Matches
<1>3. <<memory[b].full, memory[b].cb>> \in subscribed
  BY <1>1, <1>2 DEF BlockInv
<1>4. memory[b].cb \in Callbacks
  BY <1>3 DEF IInv, TypeOK
<1> QED BY <1>2, <1>3, <1>4 DEF Clean

(* A slot that leads to a topic nobody unsubscribed from leads to an entry. *)
LEMMA ReachedIsEntry ==
  ASSUME IInv, NEW t \in Topics, t \notin cancelled, NEW k \in Slots,
         callbacks[k] # None, memory[callbacks[k]].full = t
  PROVE  callbacks[k] \in Blocks /\ owner[callbacks[k]] = "entry"
<1>1. callbacks[k] \in Blocks
  BY DEF IInv, TypeOK
<1>2. BlockInv(callbacks[k])
  BY <1>1 DEF IInv, HeapInv
<1>3. t # Junk
  BY CallbacksAssumption
<1> QED BY <1>1, <1>2, <1>3 DEF BlockInv

LEMMA SubscribeInv ==
  ASSUME IInv, NEW topic \in Topics, NEW cb \in Callbacks, Subscribe(topic, cb)
  PROVE  IInv'
<1> USE CallbacksAssumption
<1>1. PICK i \in 1 .. MaxCount + 1, b \in Blocks, ends \in BOOLEAN :
        /\ Empty(i) /\ owner[b] = "free"
        /\ owner' = [owner EXCEPT ![b] = "entry"]
        /\ callbacks' = [j \in Slots \cup {i} |-> IF j = i THEN b ELSE callbacks[j]]
        /\ memory' = [memory EXCEPT ![b] =
                        [full |-> topic, topic |-> topic, cb |-> cb, ends |-> ends]]
  BY DEF Subscribe
<1>2. subscribed' = subscribed \cup {<<topic, cb>>} /\ UNCHANGED <<dispatchVars, cancelled, due>>
  BY DEF Subscribe
<1>3. i \in Slots /\ callbacks[i] = None /\ Slots \cup {i} = Slots
  BY <1>1 DEF Empty
<1>4. TypeOK'
  BY <1>1, <1>2, <1>3 DEF IInv, TypeOK, Entry, dispatchVars
<1>5. HeapInv'
  BY <1>1, <1>2 DEF IInv, TypeOK, HeapInv, BlockInv
<1>6. ASSUME NEW t \in Topics, t \notin cancelled, NEW s \in Nat, Reached(t, s)
      PROVE  Reached(t, s)'
  <2>1. PICK k \in Slots : k >= s /\ callbacks[k] # None /\ memory[callbacks[k]].full = t
    BY <1>6 DEF Reached
  <2>2. callbacks[k] \in Blocks /\ owner[callbacks[k]] = "entry"
    BY <1>6, <2>1, ReachedIsEntry
  <2>3. callbacks[k] # b /\ k # i
    BY <1>1, <1>3, <2>1, <2>2
  <2>4. callbacks'[k] = callbacks[k] /\ memory'[callbacks[k]] = memory[callbacks[k]]
    BY <1>1, <1>3, <2>2, <2>3 DEF IInv, TypeOK
  <2> QED BY <2>1, <2>4 DEF Reached
<1>7. Reached(topic, 1)'
  <2>1. callbacks'[i] = b /\ memory'[b].full = topic /\ i >= 1 /\ b # None
    BY <1>1, <1>3 DEF IInv, TypeOK, Slots
  <2> QED BY <1>3, <2>1 DEF Reached
<1>8. TableInv'
  <2> SUFFICES ASSUME NEW p \in subscribed', p[1] \notin cancelled' PROVE Reached(p[1], 1)'
    BY DEF TableInv
  <2>1. CASE p = <<topic, cb>>
    BY <2>1, <1>7
  <2>2. CASE p \in subscribed
    BY <2>2, <1>2, <1>6 DEF IInv, TypeOK, TableInv
  <2> QED BY <1>2, <2>1, <2>2
<1>9. DispatchInv'
  <2>1. ASSUME event # None, Clean(event)'
        PROVE  event \in Topics /\ event' = event /\ event \notin cancelled /\ Clean(event)
    BY <1>2, <2>1, CleanBefore DEF IInv, TypeOK, dispatchVars, Grows, Clean
  <2>2. (due => event # None)' /\ (matched # None => event # None /\ slot \in Slots)'
    BY <1>2 DEF IInv, DispatchInv, dispatchVars
  <2>3. (matched # None /\ Clean(event) => memory[matched].full = event)'
    <3> SUFFICES ASSUME matched # None, Clean(event)' PROVE memory'[matched].full = event
      BY <1>2 DEF dispatchVars
    <3>1. matched \in Blocks /\ memory[matched].full = event /\ event \in Topics
      BY <2>1 DEF IInv, DispatchInv, TypeOK
    <3>2. owner[matched] = "entry"
      BY <3>1, <2>1, <2>2 DEF IInv, HeapInv, BlockInv, DispatchInv
    <3> QED BY <1>1, <3>1, <3>2 DEF IInv, TypeOK
  <2>4. (event # None /\ matched = None /\ due /\ Clean(event) => Reached(event, slot))'
    BY <1>2, <2>1, <1>6 DEF IInv, DispatchInv, TypeOK, dispatchVars, Reached
  <2> QED BY <2>2, <2>3, <2>4 DEF DispatchInv
<1> QED BY <1>4, <1>5, <1>8, <1>9 DEF IInv

(* The block that is freed held the cancelled topic's entry.               *)
LEMMA UnsubscribeInv ==
  ASSUME IInv, NEW topic \in Topics, Unsubscribe(topic)
  PROVE  IInv'
<1> USE CallbacksAssumption
<1>1. PICK i \in Slots :
        /\ Found(i, topic)
        /\ owner' = [owner EXCEPT ![callbacks[i]] = "free"]
        /\ \/ memory' = memory
           \/ memory' = [memory EXCEPT ![callbacks[i]].full = Junk, ![callbacks[i]].cb = Junk]
  BY DEF Unsubscribe
<1>2. /\ cancelled' = cancelled \cup {topic}
      /\ UNCHANGED <<callbacks, dispatchVars, subscribed, due>>
  BY DEF Unsubscribe
<1> DEFINE b == callbacks[i]
<1>3. b \in Blocks /\ memory[b].topic = topic /\ memory[b] \in Entry
  BY <1>1 DEF IInv, TypeOK, Found, Named
<1>4. \A c \in Blocks : c # b => memory'[c] = memory[c] /\ owner'[c] = owner[c]
  BY <1>1, <1>3 DEF IInv, TypeOK
<1>5. /\ memory'[b].topic = topic
      /\ memory'[b].full # Junk => memory'[b] = memory[b]
  BY <1>1, <1>3 DEF IInv, TypeOK, Entry
<1>6. TypeOK'
  <2>1. memory'[b] \in Entry /\ memory' \in [Blocks -> Entry]
    BY <1>1, <1>3 DEF IInv, TypeOK, Entry
  <2>2. owner' \in [Blocks -> {"free", "entry", "other"}]
    BY <1>1, <1>3 DEF IInv, TypeOK
  <2> QED BY <1>2, <2>1, <2>2 DEF IInv, TypeOK, dispatchVars
<1>7. HeapInv'
  <2> SUFFICES ASSUME NEW c \in Blocks PROVE BlockInv(c)'
    BY DEF HeapInv
  <2>1. BlockInv(c)
    BY DEF IInv, HeapInv
  <2>2. CASE c = b
    BY <1>2, <1>3, <1>5, <2>1, <2>2 DEF BlockInv
  <2>3. CASE c # b
    BY <1>2, <1>4, <2>1, <2>3 DEF BlockInv
  <2> QED BY <2>2, <2>3
<1>8. ASSUME NEW t \in Topics, t \notin cancelled', NEW s, Reached(t, s)
      PROVE  Reached(t, s)'
  <2>1. PICK k \in Slots : k >= s /\ callbacks[k] # None /\ memory[callbacks[k]].full = t
    BY <1>8 DEF Reached
  <2>2. callbacks[k] \in Blocks /\ memory[callbacks[k]].topic = t
    BY <2>1 DEF IInv, TypeOK, HeapInv, BlockInv
  <2>3. callbacks[k] # b
    BY <1>2, <1>3, <1>8, <2>2
  <2> QED BY <1>2, <1>4, <2>1, <2>2, <2>3 DEF Reached
<1>9. TableInv'
  <2> SUFFICES ASSUME NEW p \in subscribed', p[1] \notin cancelled' PROVE Reached(p[1], 1)'
    BY DEF TableInv
  <2>1. p[1] \in Topics /\ Reached(p[1], 1)
    BY <1>2 DEF IInv, TypeOK, TableInv
  <2> QED BY <1>8, <2>1
<1>10. DispatchInv'
  <2>1. ASSUME event # None, Clean(event)'
        PROVE  event \in Topics /\ event' = event /\ event \notin cancelled' /\ Clean(event)
    BY <1>2, <2>1, CleanBefore DEF IInv, TypeOK, dispatchVars, Grows, Clean
  <2>2. (due => event # None)' /\ (matched # None => event # None /\ slot \in Slots)'
    BY <1>2 DEF IInv, DispatchInv, dispatchVars
  <2>3. (matched # None /\ Clean(event) => memory[matched].full = event)'
    <3> SUFFICES ASSUME matched # None, Clean(event)' PROVE memory'[matched].full = event
      BY <1>2 DEF dispatchVars
    <3>1. matched \in Blocks /\ memory[matched].full = event /\ event \in Topics
      BY <2>1 DEF IInv, DispatchInv, TypeOK
    <3>2. memory[matched].topic = event /\ event # topic
      BY <1>2, <2>1, <3>1 DEF IInv, DispatchInv, HeapInv, BlockInv
    <3> QED BY <1>3, <1>4, <3>1, <3>2
  <2>4. (event # None /\ matched = None /\ due /\ Clean(event) => Reached(event, slot))'
    BY <1>2, <2>1, <1>8 DEF IInv, DispatchInv, TypeOK, dispatchVars, Reached
  <2> QED BY <2>2, <2>3, <2>4 DEF DispatchInv
<1> QED BY <1>6, <1>7, <1>9, <1>10 DEF IInv

LEMMA EventArrivesInv ==
  ASSUME IInv, NEW topic \in Topics, EventArrives(topic)
  PROVE  IInv'
<1> USE CallbacksAssumption
<1>1. TypeOK'
  <2>1. 1 \in 1 .. MaxCount + 1
    OBVIOUS
  <2> QED BY <2>1 DEF IInv, TypeOK, EventArrives, tableVars
<1>2. HeapInv' /\ TableInv'
  BY DEF IInv, HeapInv, BlockInv, TableInv, Reached, EventArrives, tableVars
<1>3. DispatchInv'
  <2>1. event' = topic /\ slot' = 1 /\ matched' = None /\ topic # None
    BY DEF EventArrives, IInv, DispatchInv
  <2>2. ASSUME due', Clean(topic)' PROVE Reached(topic, 1)'
    <3>1. PICK cb \in Callbacks : <<topic, cb>> \in subscribed
      BY <2>2 DEF EventArrives
    <3>2. topic \notin cancelled
      BY <2>2 DEF Clean, EventArrives
    <3>3. Reached(topic, 1)
      BY <3>1, <3>2 DEF IInv, TableInv
    <3> QED BY <3>3 DEF Reached, EventArrives, tableVars
  <2> QED BY <2>1, <2>2 DEF DispatchInv
<1> QED BY <1>1, <1>2, <1>3 DEF IInv

(* The steps of the loop and the call of a callback.                       *)
LEMMA LoopInv ==
  ASSUME IInv, LoopMatches \/ LoopContinues \/ LoopEnds \/ CallbackRuns
  PROVE  IInv'
<1> USE CallbacksAssumption
<1>1. UNCHANGED <<tableVars, subscribed, cancelled>>
  BY DEF LoopMatches, LoopContinues, LoopEnds, CallbackRuns, historyVars
<1>2. HeapInv' /\ TableInv'
  BY <1>1 DEF IInv, HeapInv, BlockInv, TableInv, Reached, tableVars
<1>3. 1 \in 1 .. MaxCount + 1
  OBVIOUS
<1>4. CASE LoopMatches
  <2>1. TypeOK'
    BY <1>4 DEF IInv, TypeOK, LoopMatches, tableVars, historyVars
  <2>2. ASSUME Clean(event)' PROVE memory'[matched'].full = event'
    <3>1. event \in Topics /\ callbacks[slot] \in Blocks /\ event' = event /\ Clean(event)
      BY <1>4, <2>2 DEF IInv, TypeOK, LoopMatches, historyVars, Clean
    <3>2. memory[callbacks[slot]].full = event
      BY <1>4, <3>1, MatchIsExact DEF LoopMatches
    <3> QED BY <1>1, <1>4, <3>1, <3>2 DEF LoopMatches, tableVars
  <2>3. DispatchInv'
    BY <1>4, <2>2 DEF IInv, TypeOK, DispatchInv, LoopMatches, historyVars
  <2> QED BY <1>2, <2>1, <2>3 DEF IInv
<1>5. CASE LoopContinues
  <2>1. slot \in Slots /\ slot' = slot + 1 /\ slot' \in 1 .. MaxCount + 1
    BY <1>5 DEF LoopContinues, Slots
  <2>2. TypeOK'
    BY <1>5, <2>1 DEF IInv, TypeOK, LoopContinues, tableVars, historyVars
  <2>3. ASSUME due, Clean(event)' PROVE Reached(event, slot)'
    <3>1. event \in Topics /\ Clean(event) /\ Reached(event, slot)
      BY <1>5, <2>3 DEF IInv, TypeOK, DispatchInv, LoopContinues, historyVars, Clean
    <3>2. PICK k \in Slots : k >= slot /\ callbacks[k] # None /\ memory[callbacks[k]].full = event
      BY <3>1 DEF Reached
    <3>3. k # slot
      BY <1>5, <3>1, <3>2 DEF LoopContinues, Matches
    <3>4. k >= slot'
      BY <2>1, <3>2, <3>3 DEF Slots
    <3> QED BY <1>1, <1>5, <3>2, <3>4 DEF LoopContinues, Reached, tableVars
  <2>4. DispatchInv'
    BY <1>5, <2>3 DEF IInv, DispatchInv, LoopContinues, historyVars, Reached
  <2> QED BY <1>2, <2>2, <2>4 DEF IInv
<1>6. CASE LoopEnds
  <2>1. matched = None
    BY <1>6 DEF IInv, DispatchInv, LoopEnds
  <2>2. TypeOK' /\ DispatchInv'
    BY <1>3, <1>6, <2>1 DEF IInv, TypeOK, DispatchInv, LoopEnds, tableVars
  <2> QED BY <1>2, <2>2 DEF IInv
<1>7. CASE CallbackRuns
  <2>1. TypeOK' /\ DispatchInv'
    BY <1>3, <1>7 DEF IInv, TypeOK, DispatchInv, CallbackRuns, tableVars
  <2> QED BY <1>2, <2>1 DEF IInv
<1> QED BY <1>4, <1>5, <1>6, <1>7

LEMMA OthersInv ==
  ASSUME IInv, NEW b \in Blocks, OtherAllocates(b) \/ OtherFrees(b)
  PROVE  IInv'
<1> USE CallbacksAssumption
<1>1. UNCHANGED <<callbacks, dispatchVars, historyVars>>
  BY DEF OtherAllocates, OtherFrees
<1>2. owner[b] # "entry" /\ \A c \in Blocks \ {b} : memory'[c] = memory[c] /\ owner'[c] = owner[c]
  BY DEF IInv, TypeOK, OtherAllocates, OtherFrees
<1>3. memory'[b] = memory[b] \/ memory'[b] = Unwritten
  BY DEF IInv, TypeOK, OtherAllocates, OtherFrees
<1>4. TypeOK'
  BY <1>1, UnwrittenTyped
     DEF IInv, TypeOK, OtherAllocates, OtherFrees, dispatchVars, historyVars
<1>5. HeapInv'
  <2> SUFFICES ASSUME NEW c \in Blocks PROVE BlockInv(c)'
    BY DEF HeapInv
  <2>1. BlockInv(c)
    BY DEF IInv, HeapInv
  <2>2. CASE c = b
    BY <1>1, <1>2, <1>3, <2>1, <2>2 DEF BlockInv, Unwritten, historyVars
  <2>3. CASE c # b
    BY <1>1, <1>2, <2>1, <2>3 DEF BlockInv, historyVars
  <2> QED BY <2>2, <2>3
<1>6. ASSUME NEW t \in Topics, t \notin cancelled, NEW s, Reached(t, s)
      PROVE  Reached(t, s)'
  <2>1. PICK k \in Slots : k >= s /\ callbacks[k] # None /\ memory[callbacks[k]].full = t
    BY <1>6 DEF Reached
  <2>2. callbacks[k] \in Blocks /\ owner[callbacks[k]] = "entry"
    BY <1>6, <2>1, ReachedIsEntry
  <2> QED BY <1>1, <1>2, <2>1, <2>2 DEF Reached
<1>7. TableInv'
  BY <1>1, <1>6 DEF IInv, TypeOK, TableInv, historyVars
<1>8. DispatchInv'
  <2>1. ASSUME event # None, Clean(event)'
        PROVE  event \in Topics /\ event \notin cancelled /\ Clean(event)
    BY <1>1, <2>1 DEF IInv, TypeOK, dispatchVars, historyVars, Clean
  <2>2. (due => event # None)' /\ (matched # None => event # None /\ slot \in Slots)'
    BY <1>1 DEF IInv, DispatchInv, dispatchVars, historyVars
  <2>3. (matched # None /\ Clean(event) => memory[matched].full = event)'
    <3> SUFFICES ASSUME matched # None, Clean(event)' PROVE memory'[matched].full = event
      BY <1>1 DEF dispatchVars
    <3>1. matched \in Blocks /\ memory[matched].full = event /\ event \in Topics
      BY <2>1 DEF IInv, DispatchInv, TypeOK
    <3>2. owner[matched] = "entry"
      BY <2>1, <2>2, <3>1 DEF IInv, HeapInv, BlockInv, DispatchInv
    <3> QED BY <1>2, <3>1, <3>2
  <2>4. (event # None /\ matched = None /\ due /\ Clean(event) => Reached(event, slot))'
    BY <1>1, <2>1, <1>6 DEF IInv, DispatchInv, TypeOK, dispatchVars, historyVars, Reached
  <2> QED BY <2>2, <2>3, <2>4 DEF DispatchInv
<1> QED BY <1>4, <1>5, <1>7, <1>8 DEF IInv

LEMMA StepInv == IInv /\ [Next]_vars => IInv'
<1> SUFFICES ASSUME IInv, [Next]_vars PROVE IInv'
  OBVIOUS
<1>1. CASE Application
  BY <1>1, SubscribeInv, UnsubscribeInv, RestartInv
     DEF Application, SubscribeFaults, UnsubscribeAgain
<1>2. CASE CloudThread
  BY <1>2, EventArrivesInv, LoopInv, RestartInv DEF CloudThread, CallbackFaults
<1>3. CASE \E b \in Blocks : OtherAllocates(b) \/ OtherFrees(b)
  BY <1>3, OthersInv
<1>4. CASE UNCHANGED vars
  BY <1>4 DEF IInv, TypeOK, HeapInv, BlockInv, TableInv, DispatchInv, Clean, Reached,
              vars, tableVars, dispatchVars, historyVars
<1> QED BY <1>1, <1>2, <1>3, <1>4 DEF Next

LEMMA Invariant == Spec => []IInv
BY InitInv, StepInv, PTL DEF Spec

(* The types of the table, the heap and the dispatcher. *)
THEOREM TablesAreTyped == Spec => []TypeOK
<1>1. IInv => TypeOK
  BY DEF IInv
<1> QED BY <1>1, Invariant, PTL

(* The callback called for an event is one that subscribed to its topic.   *)
THEOREM OnlyTheRightCallback == Spec => []RightCallback
<1>1. IInv => RightCallback
  <2> SUFFICES ASSUME IInv, matched # None, Clean(event)
               PROVE  /\ memory[matched].full = event
                      /\ <<event, memory[matched].cb>> \in subscribed
    BY DEF RightCallback
  <2>1. matched \in Blocks /\ event \in Topics /\ memory[matched].full = event
    BY DEF IInv, TypeOK, DispatchInv
  <2> QED BY <2>1, CallbacksAssumption DEF IInv, HeapInv, BlockInv
<1> QED BY <1>1, Invariant, PTL

(* An event that has a subscription when it arrives reaches a callback.    *)
THEOREM EverySubscriberIsFound == Spec => []SubscriberIsFound
<1>1. IInv => SubscriberIsFound
  <2> SUFFICES ASSUME IInv, event # None, slot \notin Slots, due, Clean(event)
               PROVE  FALSE
    BY DEF SubscriberIsFound
  <2>1. matched = None /\ Reached(event, slot)
    BY DEF IInv, DispatchInv
  <2>2. slot = MaxCount + 1
    BY CallbacksAssumption DEF IInv, TypeOK, Slots
  <2> QED BY <2>1, <2>2, CallbacksAssumption DEF Reached, Slots
<1> QED BY <1>1, Invariant, PTL
=============================================================================
