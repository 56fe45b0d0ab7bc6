---------------------------- MODULE AppCallbacks ----------------------------
(***************************************************************************)
(* The application's callbacks for events from the cloud: the table of     *)
(* pyrinas_cloud.c that pyrinas_cloud_subscribe() fills, from which        *)
(* pyrinas_cloud_unsubscribe() frees an entry, and through which           *)
(* publish_evt_handler() dispatches an event.                              *)
(*                                                                         *)
(* An entry lives in a block of the kernel's heap, shared with other users *)
(* of k_malloc().  The cloud thread has the lowest priority, so that any   *)
(* thread may run between two steps of its loop over the table, and        *)
(* between the test of a topic and the call of its callback.               *)
(***************************************************************************)
EXTENDS Integers, FiniteSets

CONSTANTS
  MaxCount,        \* CONFIG_PYRINAS_CLOUD_APPLICATION_CALLBACK_MAX_COUNT
  Blocks,          \* the blocks of the heap an entry fits into
  Topics,          \* names of events
  FullLength,      \* the topics as long as an entry's field: no terminator fits
  Prefix,          \* Prefix[t]: the topics t is a prefix of, t among them
  Callbacks,
  None, Junk

ASSUME CallbacksAssumption ==
  /\ MaxCount \in Nat
  /\ FullLength \subseteq Topics
  /\ Prefix \in [Topics -> SUBSET Topics]
  /\ \A t \in Topics : t \in Prefix[t]
  /\ None \notin Blocks \cup Topics
  /\ Junk \notin Topics \cup Callbacks

VARIABLES
  callbacks,       \* the table: for each slot, the block it points to, or None
  owner,           \* for each block: "free", "entry" or "other"
  memory,          \* what each block contains, read as an entry
  \* publish_evt_handler()
  event,           \* the topic of the event being dispatched, or None
  slot,            \* the slot its loop has come to
  matched,         \* the entry found for the event, not yet called
  \* what a reader of the API would say (history)
  subscribed,      \* <<topic, callback>> of every subscription since the boot
  cancelled,       \* topics unsubscribed since the boot
  due              \* the event had a subscription when it arrived

tableVars    == <<callbacks, owner, memory>>
dispatchVars == <<event, slot, matched>>
historyVars  == <<subscribed, cancelled, due>>
vars == <<tableVars, dispatchVars, historyVars>>

Slots == 1 .. MaxCount

(* pryinas_cloud_application_cb_entry_t; ends: a terminator follows topic. *)
Entry ==
  [full : Topics \cup {Junk}, topic : Topics \cup {Junk},
   cb : Callbacks \cup {Junk}, ends : BOOLEAN]

Unwritten == [full |-> Junk, topic |-> Junk, cb |-> Junk, ends |-> FALSE]

(* The values the table, the heap and the dispatcher may have. *)
TypeOK ==
  /\ callbacks \in [Slots -> Blocks \cup {None}]
  /\ owner \in [Blocks -> {"free", "entry", "other"}]
  /\ memory \in [Blocks -> Entry]
  /\ event \in Topics \cup {None}
  /\ slot \in 1 .. MaxCount + 1
  /\ matched \in Blocks \cup {None}
  /\ subscribed \subseteq Topics \X Callbacks
  /\ cancelled \subseteq Topics
  /\ due \in BOOLEAN

Init ==
  /\ callbacks = [i \in Slots |-> None]
  /\ owner = [b \in Blocks |-> "free"]
  /\ memory = [b \in Blocks |-> Unwritten]
  /\ event = None /\ slot = 1 /\ matched = None
  /\ subscribed = {} /\ cancelled = {} /\ due = FALSE

(* A fault (a write through NULL, a jump to a clobbered address) or the    *)
(* assertion of the heap against a double free resets the device.          *)
Restart ==
  /\ callbacks' = [i \in Slots |-> None]
  /\ owner' = [b \in Blocks |-> "free"]
  /\ memory' = [b \in Blocks |-> Unwritten]
  /\ event' = None /\ slot' = 1 /\ matched' = None
  /\ subscribed' = {} /\ cancelled' = {} /\ due' = FALSE
-----------------------------------------------------------------------------
(* pyrinas_cloud_subscribe(): the first slot without an entry gets a new   *)
(* one.  What k_malloc() returns is not cleared, so a terminator follows   *)
(* the topic only by chance.  Wrong variant: the search runs past the      *)
(* table.                                                                  *)
EmptyPast(i) == \A j \in Slots : j < i => callbacks[j] # None
Empty(i) ==
  /\ i \in Slots /\ callbacks[i] = None
  /\ \A j \in Slots : j < i => callbacks[j] # None

Subscribe(topic, cb) ==
  \E i \in 1 .. MaxCount + 1, b \in Blocks :
    /\ Empty(i)
    /\ owner[b] = "free"
    /\ owner' = [owner EXCEPT ![b] = "entry"]
    /\ callbacks' = [j \in Slots \cup {i} |-> IF j = i THEN b ELSE callbacks[j]]
    /\ \E ends \in BOOLEAN :
         /\ ends => topic \notin FullLength
         /\ memory' = [memory EXCEPT ![b] =
                         [full |-> topic, topic |-> topic, cb |-> cb, ends |-> ends]]
    /\ subscribed' = subscribed \cup {<<topic, cb>>}
    /\ UNCHANGED <<dispatchVars, cancelled, due>>

(* k_malloc() returns NULL, which is not tested.                           *)
SubscribeFaults ==
  /\ \E i \in Slots : Empty(i)
  /\ \A b \in Blocks : owner[b] # "free"
  /\ Restart

(* pyrinas_cloud_unsubscribe(): strcmp() with the topic of each entry, in  *)
(* order.  Wrong variant: strncmp() over the length of the argument.       *)
NamedPrefix(i, topic) ==
  callbacks[i] # None /\ memory[callbacks[i]].topic \in Prefix[topic]
Named(i, topic) ==
  /\ callbacks[i] # None
  /\ memory[callbacks[i]].topic = topic /\ memory[callbacks[i]].ends

Found(i, topic) == Named(i, topic) /\ \A j \in Slots : j < i => ~ Named(j, topic)

(* k_free() may use the start of the block, where cb and full_topic are,   *)
(* for the list of free blocks.  The slot keeps its pointer.               *)
Unsubscribe(topic) ==
  \E i \in Slots :
    /\ Found(i, topic)
    /\ owner[callbacks[i]] # "free"
    /\ owner' = [owner EXCEPT ![callbacks[i]] = "free"]
    /\ \/ UNCHANGED memory
       \/ memory' = [memory EXCEPT ![callbacks[i]].full = Junk, ![callbacks[i]].cb = Junk]
    /\ cancelled' = cancelled \cup {topic}
    /\ UNCHANGED <<callbacks, dispatchVars, subscribed, due>>

(* The entry found was freed before: sys_heap_free() asserts.              *)
UnsubscribeAgain(topic) ==
  /\ \E i \in Slots : Found(i, topic) /\ owner[callbacks[i]] = "free"
  /\ Restart
-----------------------------------------------------------------------------
(* publish_evt_handler() for a topic that is not the OTA topic.            *)
EventArrives(topic) ==
  /\ event = None
  /\ event' = topic /\ slot' = 1
  /\ due' = (\E cb \in Callbacks : <<topic, cb>> \in subscribed)
  /\ UNCHANGED <<tableVars, matched, subscribed, cancelled>>

(* strncmp(full_topic, topic, topic_len): the event's topic is a prefix of *)
(* the entry's.  Wrong variant: the entry's is a prefix of the event's.    *)
MatchesShorter(b) == memory[b].full \in Topics /\ event \in Prefix[memory[b].full]
Matches(b)        == memory[b].full \in Prefix[event]

LoopMatches ==
  /\ event # None /\ matched = None /\ slot \in Slots
  /\ callbacks[slot] # None /\ Matches(callbacks[slot])
  /\ matched' = callbacks[slot]
  /\ UNCHANGED <<tableVars, event, slot, historyVars>>

LoopContinues ==
  /\ event # None /\ matched = None /\ slot \in Slots
  /\ callbacks[slot] # None => ~ Matches(callbacks[slot])
  /\ slot' = slot + 1
  /\ UNCHANGED <<tableVars, event, matched, historyVars>>

LoopEnds ==
  /\ event # None /\ slot \notin Slots
  /\ event' = None /\ slot' = 1 /\ due' = FALSE
  /\ UNCHANGED <<tableVars, matched, subscribed, cancelled>>

(* The callback is read from the entry again and called.                   *)
CallbackRuns ==
  /\ matched # None /\ memory[matched].cb \in Callbacks
  /\ event' = None /\ slot' = 1 /\ matched' = None /\ due' = FALSE
  /\ UNCHANGED <<tableVars, subscribed, cancelled>>

CallbackFaults ==
  /\ matched # None /\ memory[matched].cb = Junk
  /\ Restart

(* Other users of the heap.                                                *)
OtherAllocates(b) ==
  /\ owner[b] = "free"
  /\ owner' = [owner EXCEPT ![b] = "other"]
  /\ memory' = [memory EXCEPT ![b] = Unwritten]
  /\ UNCHANGED <<callbacks, dispatchVars, historyVars>>

OtherFrees(b) ==
  /\ owner[b] = "other"
  /\ owner' = [owner EXCEPT ![b] = "free"]
  /\ UNCHANGED <<callbacks, memory, dispatchVars, historyVars>>
-----------------------------------------------------------------------------
Application ==
  \/ \E topic \in Topics, cb \in Callbacks : Subscribe(topic, cb)
  \/ SubscribeFaults
  \/ \E topic \in Topics : Unsubscribe(topic) \/ UnsubscribeAgain(topic)

CloudThread ==
  \/ \E topic \in Topics : EventArrives(topic)
  \/ LoopMatches \/ LoopContinues \/ LoopEnds \/ CallbackRuns \/ CallbackFaults

Next ==
  \/ Application \/ CloudThread
  \/ \E b \in Blocks : OtherAllocates(b) \/ OtherFrees(b)

Spec == Init /\ [][Next]_vars

(* Two things excuse a topic: somebody unsubscribed from it (the slot then *)
(* points to freed memory), or it is a prefix of another subscribed topic  *)
(* (whose entry may come first).                                           *)
Clean(topic) ==
  /\ topic \notin cancelled
  /\ \A u \in Prefix[topic] \ {topic}, cb \in Callbacks : <<u, cb>> \notin subscribed

(* "Determine if this is the topic": an entry that was found for an event  *)
(* is, and until its callback was called remains, one that subscribed to   *)
(* that very topic: whatever was subscribed, unsubscribed, freed and used  *)
(* again for other topics before the event came or while it is dispatched. *)
RightCallback ==
  matched # None /\ Clean(event) =>
    /\ memory[matched].full = event
    /\ <<event, memory[matched].cb>> \in subscribed

(* An event somebody had subscribed to when it came finds an entry: the    *)
(* loop over the table does not end without a match.                       *)
SubscriberIsFound == event # None /\ slot \notin Slots => ~ (due /\ Clean(event))
=============================================================================
