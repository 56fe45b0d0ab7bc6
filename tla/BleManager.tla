----------------------------- MODULE BleManager -----------------------------
(***************************************************************************)
(* The Bluetooth manager, lib/ble/ble_m.c, between the application and the *)
(* role of the device: events that arrive are queued and dispatched by a   *)
(* work on the system work queue to the handler subscribed to their name.  *)
(*                                                                         *)
(* Dispatching is one step per event, because a handler may wait; it       *)
(* preempts the main thread, which subscribes, between any two statements. *)
(* An event is its number in the order of arrival and its name.  The raw   *)
(* handler gets every event the others get and is left out.                *)
(***************************************************************************)
EXTENDS Naturals, Sequences, WorkQueue

CONSTANTS
  Names,             \* of events
  Handlers,          \* evt_handler
  MaxSubscriptions,  \* BLE_SETTINGS_MAX_SUBSCRIPTIONS
  EventQueueSize,    \* of m_event_queue
  MaxEvents,         \* bound: events that arrive
  None

ASSUME ManagerAssumption ==
  /\ MaxSubscriptions \in Nat /\ EventQueueSize \in Nat \ {0} /\ MaxEvents \in Nat
  /\ Names # {} /\ None \notin Handlers \cup {"events", "send"}

VARIABLES
  m_event_queue,
  subscribers, count,  \* m_subscribe_list
  subscribing,         \* ble_subscribe() is about to count its entry
  work,                \* the FIFO of the system work queue
  running,             \* the work it runs: "events" here, "send" of the role, or None
  \* what happened, for the properties
  arrived,             \* how many events arrived
  called,              \* the event dispatched last and its handler
  current              \* what the application has subscribed

tableVars == <<subscribers, count, subscribing, current>>
managerVars == <<m_event_queue, tableVars, work, running, arrived, called>>

Event == [number : 1 .. MaxEvents, name : Names]
Subscriber == [name : Names, evt_handler : Handlers]
HandlerOrNone == Handlers \cup {None}

ManagerTypeOK ==
  /\ m_event_queue \in Seq(Event) /\ Len(m_event_queue) <= EventQueueSize
  /\ subscribers \in [1 .. MaxSubscriptions -> Subscriber \cup {None}]
  /\ count \in 0 .. MaxSubscriptions
  /\ subscribing \in Subscriber \cup {None}
  /\ ToSet(work) \subseteq {"events", "send"}
  /\ running \in {"events", "send", None}
  /\ arrived \in 0 .. MaxEvents
  /\ called \in [number : 0 .. MaxEvents, name : Names, by : HandlerOrNone]
  /\ current \in [Names -> HandlerOrNone]

ManagerInit ==
  /\ m_event_queue = <<>>
  /\ subscribers = [i \in 1 .. MaxSubscriptions |-> None]
  /\ count = 0 /\ subscribing = None
  /\ work = <<>> /\ running = None
  /\ arrived = 0
  /\ called \in [number : {0}, name : {CHOOSE n \in Names : TRUE}, by : {None}]
  /\ current = [n \in Names |-> None]
-----------------------------------------------------------------------------
(* subscriber_search(), with the handler of the entry it finds.            *)
SubscriberSearch(n) == {i \in 1 .. count : subscribers[i].name = n}
First(S) == CHOOSE i \in S : \A j \in S : i <= j
HandlerOf(n) ==
  LET found == SubscriberSearch(n) IN
  IF found = {} THEN None ELSE subscribers[First(found)].evt_handler

(* ble_subscribe() for a name that has an entry ...                        *)
SubscribeReplaces(n, h) ==
  /\ subscribing = None /\ count < MaxSubscriptions /\ SubscriberSearch(n) # {}
  /\ subscribers' = [subscribers EXCEPT ![First(SubscriberSearch(n))] =
                       [name |-> n, evt_handler |-> h]]
  /\ current' = [current EXCEPT ![n] = h]
  /\ UNCHANGED <<count, subscribing, m_event_queue, work, running, arrived, called>>

(* ... and for one that has none: the entry is written, then counted.      *)
(* Wrong variants: an entry is appended for a name that has one, or past   *)
(* the end.                                                                *)
Writes(n, h) ==
  /\ subscribing = None
  /\ subscribing' = [name |-> n, evt_handler |-> h]
  /\ subscribers' = [subscribers EXCEPT ![count + 1] = subscribing']
  /\ UNCHANGED <<count, current, m_event_queue, work, running, arrived, called>>

SubscribeAppends(n, h) == count < MaxSubscriptions /\ Writes(n, h)
SubscribePast(n, h) ==
  count <= MaxSubscriptions /\ SubscriberSearch(n) = {} /\ Writes(n, h)
SubscribeWrites(n, h) ==
  count < MaxSubscriptions /\ SubscriberSearch(n) = {} /\ Writes(n, h)

SubscribeCounts ==
  /\ subscribing # None
  /\ count' = count + 1
  /\ current' = [current EXCEPT ![subscribing.name] = subscribing.evt_handler]
  /\ subscribing' = None
  /\ UNCHANGED <<subscribers, m_event_queue, work, running, arrived, called>>

(* ble_evt_handler(): an event that finds the queue full is lost; the work *)
(* is submitted in either case.                                            *)
EvtHandler(n) ==
  /\ arrived < MaxEvents
  /\ arrived' = arrived + 1
  /\ m_event_queue' =
       IF Len(m_event_queue) < EventQueueSize
         THEN Append(m_event_queue, [number |-> arrived', name |-> n])
         ELSE m_event_queue
  /\ work' = Submit(work, "events")
  /\ UNCHANGED <<tableVars, running, called>>

(* bt_send_work_handler(), which dispatches until the queue is empty.      *)
Begin(w) == running = None /\ work # <<>> /\ Head(work) = w /\ work' = Tail(work)

EventsBegin ==
  /\ Begin("events")
  /\ running' = "events"
  /\ UNCHANGED <<m_event_queue, tableVars, arrived, called>>

DispatchFirst ==
  /\ running = "events" /\ m_event_queue # <<>>
  /\ LET e == Head(m_event_queue) IN
     called' = [number |-> e.number, name |-> e.name, by |-> HandlerOf(e.name)]
  /\ m_event_queue' = Tail(m_event_queue)
  /\ UNCHANGED <<tableVars, work, arrived>>

(* Wrong variant: one event for each time the work runs.                   *)
DispatchOne == DispatchFirst /\ running' = None
Dispatch == DispatchFirst /\ UNCHANGED running

EventsEnd ==
  /\ running = "events" /\ m_event_queue = <<>>
  /\ running' = None
  /\ UNCHANGED <<m_event_queue, tableVars, work, arrived, called>>

Subscribing ==
  \/ \E n \in Names, h \in Handlers : SubscribeReplaces(n, h) \/ SubscribeWrites(n, h)
  \/ SubscribeCounts

ManagerNext == Subscribing \/ EventsBegin \/ Dispatch \/ EventsEnd
-----------------------------------------------------------------------------
(* Each event that finds room in the queue reaches, once and in the order  *)
(* of arrival, the handler the application subscribed last to its name; an *)
(* event that comes while the first subscription is being made may be late *)
(* for it, but never reaches a handler of another name or an earlier one.  *)
(* The table, the two steps of ble_subscribe() and the search of           *)
(* subscriber_search() act like one map from names to handlers.            *)
EventsReachTheirHandler ==
  [][called' # called =>
       /\ called'.number > called.number
       /\ called'.by = current[called'.name]]_<<called, current>>

(* No event is stranded in the queue: the work is submitted or runs.       *)
EventsAreDispatched ==
  m_event_queue # <<>> => "events" \in Pending(work) \cup {running}
=============================================================================
