------------------------ MODULE BlePeripheralProofs ------------------------
(***************************************************************************)
(* What BlePeripheral and the manager above it promise for every number of *)
(* names, handlers, events and messages, and whatever fails.               *)
(***************************************************************************)
EXTENDS BlePeripheral, SharedProofs, TLAPS

(* The work queue holds each work once.                                    *)
WorkInv == work \in Seq({"events", "send"}) /\ Once(work)

(* The subscriptions are a map: an entry for each name the application     *)
(* subscribed, at most one, with its last handler; the entry that is being *)
(* added is the next.                                                      *)
TableInv ==
  /\ \A i \in 1 .. count : subscribers[i] \in Subscriber
  /\ \A i, j \in 1 .. count : subscribers[i].name = subscribers[j].name => i = j
  /\ \A i \in 1 .. count : current[subscribers[i].name] = subscribers[i].evt_handler
  /\ \A n \in Names : (\A i \in 1 .. count : subscribers[i].name # n) => current[n] = None
  /\ subscribing # None =>
       /\ count < MaxSubscriptions
       /\ subscribers[count + 1] = subscribing
       /\ \A i \in 1 .. count : subscribers[i].name # subscribing.name

(* The events in the queue are newer than the last one dispatched, and in  *)
(* the order of their arrival.                                             *)
EventInv ==
  /\ \A k \in 1 .. Len(m_event_queue) :
       called.number < m_event_queue[k].number /\ m_event_queue[k].number <= arrived
  /\ \A k, l \in 1 .. Len(m_event_queue) :
       k < l => m_event_queue[k].number < m_event_queue[l].number
  /\ called.number <= arrived

ManagerInv == ManagerTypeOK /\ WorkInv /\ TableInv /\ EventInv /\ EventsAreDispatched

ManagerStep ==
  ManagerInv' /\ (called' # called => /\ called'.number > called.number
                                      /\ called'.by = current[called'.name])
-----------------------------------------------------------------------------
LEMMA ManagerInitially == ManagerInit => ManagerInv
<1> SUFFICES ASSUME ManagerInit
             PROVE  ManagerInv
  OBVIOUS
<1>1. /\ m_event_queue = <<>> /\ work = <<>> /\ count = 0 /\ subscribing = None
      /\ Len(m_event_queue) = 0 /\ 1 .. count = {}
      /\ called.number = 0 /\ called.by = None /\ called.name \in Names /\ arrived = 0
  BY ManagerAssumption DEF ManagerInit
<1>2. ManagerTypeOK
  <2>1. m_event_queue \in Seq(Event) /\ ToSet(work) = {}
    BY <1>1 DEF ToSet
  <2>2. called \in [number : 0 .. MaxEvents, name : Names, by : HandlerOrNone]
    BY ManagerAssumption DEF ManagerInit, HandlerOrNone
  <2> QED BY <1>1, <2>1, <2>2, ManagerAssumption DEF ManagerInit, ManagerTypeOK, HandlerOrNone
<1>3. WorkInv
  BY <1>1 DEF WorkInv, Once
<1>4. TableInv
  BY <1>1 DEF ManagerInit, TableInv
<1>5. EventInv /\ EventsAreDispatched
  BY <1>1 DEF EventInv, EventsAreDispatched
<1> QED BY <1>2, <1>3, <1>4, <1>5 DEF ManagerInv

(* subscriber_search() finds the one entry of a name, or none.             *)
LEMMA SearchFacts ==
  ASSUME ManagerTypeOK, TableInv, NEW n \in Names
  PROVE  /\ SubscriberSearch(n) # {} =>
              /\ First(SubscriberSearch(n)) \in 1 .. count
              /\ subscribers[First(SubscriberSearch(n))].name = n
         /\ HandlerOf(n) = current[n]
<1>0. count \in Nat
  BY DEF ManagerTypeOK
<1>1. CASE SubscriberSearch(n) = {}
  BY <1>1 DEF HandlerOf, SubscriberSearch, TableInv
<1>2. CASE SubscriberSearch(n) # {}
  <2>1. PICK i \in 1 .. count : subscribers[i].name = n
    BY <1>2 DEF SubscriberSearch
  <2>2. SubscriberSearch(n) = {i}
    BY <2>1 DEF SubscriberSearch, TableInv
  <2>3. First(SubscriberSearch(n)) = i
    BY <1>0, <2>1, <2>2 DEF First
  <2>4. current[n] = subscribers[i].evt_handler
    BY <2>1 DEF TableInv
  <2> QED BY <1>2, <2>1, <2>3, <2>4 DEF HandlerOf
<1> QED BY <1>1, <1>2
-----------------------------------------------------------------------------
(* What a step of the role or of the work queue does that touches neither  *)
(* the events nor the table.                                               *)
LEMMA RoleStep ==
  ASSUME ManagerInv, UNCHANGED <<m_event_queue, tableVars, arrived, called>>,
         WorkInv', running' \in {"events", "send", None},
         "events" \in Pending(work) \cup {running}
           => "events" \in Pending(work') \cup {running'}
  PROVE  ManagerStep
<1>1. ToSet(work') \subseteq {"events", "send"}
  BY DEF WorkInv, ToSet
<1>2. ManagerTypeOK'
  BY <1>1 DEF ManagerInv, ManagerTypeOK, tableVars
<1>3. TableInv'
  BY DEF ManagerInv, TableInv, tableVars
<1>4. EventInv' /\ EventsAreDispatched'
  BY DEF ManagerInv, EventInv, EventsAreDispatched
<1> QED BY <1>2, <1>3, <1>4 DEF ManagerStep, ManagerInv

LEMMA ManagerRests ==
  ASSUME ManagerInv, UNCHANGED managerVars
  PROVE  ManagerStep
<1>1. WorkInv' /\ running' \in {"events", "send", None}
  BY DEF ManagerInv, ManagerTypeOK, WorkInv, managerVars, Once
<1> QED BY <1>1, RoleStep DEF managerVars

LEMMA RoleSubmits ==
  ASSUME ManagerInv, work' = Submit(work, "send"),
         UNCHANGED <<m_event_queue, tableVars, running, arrived, called>>
  PROVE  ManagerStep /\ Pending(work') = Pending(work) \cup {"send"}
<1>1. WorkInv' /\ Pending(work') = Pending(work) \cup {"send"}
  <2> DEFINE S == {"events", "send"}
  <2>1. work \in Seq(S) /\ "send" \in S /\ Once(work)
    BY DEF ManagerInv, WorkInv
  <2> HIDE DEF S
  <2>2. /\ work' \in Seq(S) /\ Once(work')
        /\ Pending(work') = Pending(work) \cup {"send"}
    BY <2>1, SubmitFacts
  <2> QED BY <2>2 DEF WorkInv, S
<1>2. running' \in {"events", "send", None}
  BY DEF ManagerInv, ManagerTypeOK
<1> QED BY <1>1, <1>2, RoleStep

LEMMA RoleBegins ==
  ASSUME ManagerInv, Begin("send"), running' \in {"send", None},
         UNCHANGED <<m_event_queue, tableVars, arrived, called>>
  PROVE  ManagerStep
<1>1. /\ work \in Seq({"events", "send"}) /\ work # <<>> /\ Once(work)
      /\ work' = Tail(work) /\ Head(work) = "send" /\ running = None
  BY DEF ManagerInv, WorkInv, Begin
<1>2. /\ work' \in Seq({"events", "send"}) /\ Once(work')
      /\ Pending(work) = Pending(work') \cup {"send"}
  BY <1>1, TailFacts
<1>3. running # "events"
  BY <1>1, ManagerAssumption
<1> QED BY <1>2, <1>3, RoleStep DEF WorkInv

LEMMA RoleEnds ==
  ASSUME ManagerInv, running = "send", running' = None,
         UNCHANGED <<m_event_queue, tableVars, work, arrived, called>>
  PROVE  ManagerStep
<1>1. WorkInv'
  BY DEF ManagerInv, WorkInv, Once
<1> QED BY <1>1, RoleStep

(* ble_subscribe().                                                        *)
LEMMA ReplacesStep ==
  ASSUME ManagerInv, NEW n \in Names, NEW h \in Handlers, SubscribeReplaces(n, h)
  PROVE  ManagerStep
<1> DEFINE f == First(SubscriberSearch(n))
           s == [name |-> n, evt_handler |-> h]
<1>1. f \in 1 .. count /\ subscribers[f].name = n
  BY SearchFacts DEF SubscribeReplaces, ManagerInv
<1>2. /\ subscribers' = [subscribers EXCEPT ![f] = s]
      /\ current' = [current EXCEPT ![n] = h]
      /\ UNCHANGED <<count, subscribing, m_event_queue, work, running, arrived, called>>
      /\ subscribing = None
  BY DEF SubscribeReplaces
<1>3. /\ count \in 0 .. MaxSubscriptions /\ MaxSubscriptions \in Nat
      /\ subscribers \in [1 .. MaxSubscriptions -> Subscriber \cup {None}]
      /\ current \in [Names -> HandlerOrNone]
  BY ManagerAssumption DEF ManagerInv, ManagerTypeOK
<1>4. s \in Subscriber /\ s.name = n /\ s.evt_handler = h /\ h \in HandlerOrNone
  BY DEF Subscriber, HandlerOrNone
<1> HIDE DEF f, s
<1>5. /\ subscribers' \in [1 .. MaxSubscriptions -> Subscriber \cup {None}]
      /\ current' \in [Names -> HandlerOrNone]
  BY <1>2, <1>3, <1>4
<1>6. /\ subscribers'[f] = s
      /\ \A i \in 1 .. count : i # f => subscribers'[i] = subscribers[i]
      /\ \A i \in 1 .. count : subscribers'[i].name = subscribers[i].name
      /\ \A i \in 1 .. count : subscribers[i] \in Subscriber
      /\ \A i \in 1 .. count : subscribers[i].name \in Names
      /\ \A i \in 1 .. count : i # f => subscribers[i].name # n
    <2>1. \A i \in 1 .. count : subscribers[i] \in Subscriber /\ i \in 1 .. MaxSubscriptions
      BY <1>3 DEF ManagerInv, TableInv
    <2>2. f \in 1 .. MaxSubscriptions
      BY <1>1, <1>3
    <2>3. /\ subscribers'[f] = s
          /\ \A i \in 1 .. count : i # f => subscribers'[i] = subscribers[i]
      BY <1>2, <1>3, <2>1, <2>2
    <2>4. \A i \in 1 .. count : subscribers'[i].name = subscribers[i].name
      BY <1>1, <1>4, <2>3
    <2>5. \A i \in 1 .. count : subscribers[i].name \in Names
      BY <2>1 DEF Subscriber
    <2> QED BY <1>1, <2>1, <2>3, <2>4, <2>5 DEF ManagerInv, TableInv
<1>7. current'[n] = h /\ \A m \in Names : m # n => current'[m] = current[m]
  BY <1>2, <1>3
<1>8. TableInv'
  <2>1. \A i \in 1 .. count' : subscribers'[i] \in Subscriber
    BY <1>2, <1>4, <1>6
  <2>2. \A i, j \in 1 .. count' : subscribers'[i].name = subscribers'[j].name => i = j
    BY <1>2, <1>6 DEF ManagerInv, TableInv
  <2>3. \A i \in 1 .. count' : current'[subscribers'[i].name] = subscribers'[i].evt_handler
    BY <1>1, <1>2, <1>4, <1>6, <1>7 DEF ManagerInv, TableInv
  <2>4. \A m \in Names : (\A i \in 1 .. count' : subscribers'[i].name # m) => current'[m] = None
    BY <1>1, <1>2, <1>6, <1>7 DEF ManagerInv, TableInv
  <2> QED BY <1>2, <2>1, <2>2, <2>3, <2>4 DEF TableInv
<1>9. ManagerTypeOK'
  BY <1>2, <1>5 DEF ManagerInv, ManagerTypeOK
<1>10. WorkInv' /\ EventInv' /\ EventsAreDispatched'
  BY <1>2 DEF ManagerInv, WorkInv, EventInv, EventsAreDispatched, Once
<1> QED BY <1>2, <1>8, <1>9, <1>10 DEF ManagerStep, ManagerInv

LEMMA WritesStep ==
  ASSUME ManagerInv, NEW n \in Names, NEW h \in Handlers, SubscribeWrites(n, h)
  PROVE  ManagerStep
<1> DEFINE s == [name |-> n, evt_handler |-> h]
<1>1. /\ subscribing = None /\ subscribing' = s /\ count < MaxSubscriptions
      /\ subscribers' = [subscribers EXCEPT ![count + 1] = s]
      /\ SubscriberSearch(n) = {}
      /\ UNCHANGED <<count, current, m_event_queue, work, running, arrived, called>>
  BY DEF SubscribeWrites, Writes
<1>2. /\ count \in 0 .. MaxSubscriptions /\ MaxSubscriptions \in Nat
      /\ subscribers \in [1 .. MaxSubscriptions -> Subscriber \cup {None}]
  BY ManagerAssumption DEF ManagerInv, ManagerTypeOK
<1>3. s \in Subscriber /\ s.name = n
  BY DEF Subscriber
<1> HIDE DEF s
<1>4. subscribers' \in [1 .. MaxSubscriptions -> Subscriber \cup {None}]
  BY <1>1, <1>2, <1>3
<1>5. /\ subscribers'[count + 1] = s
      /\ \A i \in 1 .. count : subscribers'[i] = subscribers[i]
  BY <1>1, <1>2
<1>6. \A i \in 1 .. count : subscribers[i].name # n
  BY <1>1 DEF SubscriberSearch
<1>7. TableInv'
  BY <1>1, <1>3, <1>5, <1>6 DEF ManagerInv, TableInv
<1>8. ManagerTypeOK'
  BY <1>1, <1>3, <1>4 DEF ManagerInv, ManagerTypeOK
<1>9. WorkInv' /\ EventInv' /\ EventsAreDispatched'
  BY <1>1 DEF ManagerInv, WorkInv, EventInv, EventsAreDispatched, Once
<1> QED BY <1>1, <1>7, <1>8, <1>9 DEF ManagerStep, ManagerInv

LEMMA CountsStep ==
  ASSUME ManagerInv, SubscribeCounts
  PROVE  ManagerStep
<1> DEFINE s == subscribing
<1>1. /\ s # None /\ subscribing' = None /\ count' = count + 1
      /\ current' = [current EXCEPT ![s.name] = s.evt_handler]
      /\ UNCHANGED <<subscribers, m_event_queue, work, running, arrived, called>>
  BY DEF SubscribeCounts
<1>2. /\ count \in 0 .. MaxSubscriptions /\ MaxSubscriptions \in Nat
      /\ current \in [Names -> HandlerOrNone]
      /\ s \in Subscriber
  BY <1>1, ManagerAssumption DEF ManagerInv, ManagerTypeOK
<1>3. /\ count < MaxSubscriptions
      /\ subscribers[count + 1] = s
      /\ \A i \in 1 .. count : subscribers[i].name # s.name
  BY <1>1 DEF ManagerInv, TableInv
<1>4. s.name \in Names /\ s.evt_handler \in HandlerOrNone
  BY <1>2 DEF Subscriber, HandlerOrNone
<1> HIDE DEF s
<1>5. /\ current' \in [Names -> HandlerOrNone]
      /\ current'[s.name] = s.evt_handler
      /\ \A m \in Names : m # s.name => current'[m] = current[m]
  BY <1>1, <1>2, <1>4
<1>6. \A i \in 1 .. count' : i \in 1 .. count \/ i = count + 1
  BY <1>1, <1>2
<1>7. \A i \in 1 .. count : subscribers[i] \in Subscriber /\ subscribers[i].name \in Names
  BY DEF ManagerInv, TableInv, Subscriber
<1>8. TableInv'
  <2>1. \A i \in 1 .. count' : subscribers'[i] \in Subscriber
    BY <1>1, <1>2, <1>3, <1>6, <1>7
  <2>2. \A i, j \in 1 .. count' : subscribers'[i].name = subscribers'[j].name => i = j
    BY <1>1, <1>3, <1>6 DEF ManagerInv, TableInv
  <2>3. \A i \in 1 .. count' : current'[subscribers'[i].name] = subscribers'[i].evt_handler
    BY <1>1, <1>3, <1>5, <1>6, <1>7 DEF ManagerInv, TableInv
  <2>4. ASSUME NEW m \in Names, \A i \in 1 .. count' : subscribers'[i].name # m
        PROVE  current'[m] = None
    <3>1. 1 .. count \subseteq 1 .. count' /\ count + 1 \in 1 .. count'
      BY <1>1, <1>2
    <3>2. m # s.name /\ \A i \in 1 .. count : subscribers[i].name # m
      BY <1>1, <1>3, <2>4, <3>1
    <3> QED BY <1>5, <3>2 DEF ManagerInv, TableInv
  <2> QED BY <1>1, <2>1, <2>2, <2>3, <2>4 DEF TableInv
<1>9. ManagerTypeOK'
  BY <1>1, <1>2, <1>3, <1>5 DEF ManagerInv, ManagerTypeOK
<1>10. WorkInv' /\ EventInv' /\ EventsAreDispatched'
  BY <1>1 DEF ManagerInv, WorkInv, EventInv, EventsAreDispatched, Once
<1> QED BY <1>1, <1>8, <1>9, <1>10 DEF ManagerStep, ManagerInv

(* ble_evt_handler().                                                      *)
LEMMA EvtHandlerStep ==
  ASSUME ManagerInv, NEW n \in Names, EvtHandler(n)
  PROVE  ManagerStep
<1> DEFINE e == [number |-> arrived + 1, name |-> n]
           q == m_event_queue
<1>1. /\ arrived < MaxEvents /\ arrived' = arrived + 1
      /\ work' = Submit(work, "events")
      /\ UNCHANGED <<subscribers, count, subscribing, current, running, called>>
      /\ \/ Len(q) < EventQueueSize /\ q' = Append(q, e)
         \/ q' = q
  BY DEF EvtHandler, tableVars
<1>2. /\ arrived \in 0 .. MaxEvents /\ MaxEvents \in Nat /\ EventQueueSize \in Nat
      /\ q \in Seq(Event) /\ Len(q) <= EventQueueSize
      /\ called \in [number : 0 .. MaxEvents, name : Names, by : HandlerOrNone]
  BY ManagerAssumption DEF ManagerInv, ManagerTypeOK
<1>3. WorkInv' /\ Pending(work') = Pending(work) \cup {"events"}
  <2> DEFINE S == {"events", "send"}
  <2>1. work \in Seq(S) /\ "events" \in S /\ Once(work)
    BY DEF ManagerInv, WorkInv
  <2> HIDE DEF S
  <2>2. /\ work' \in Seq(S) /\ Once(work')
        /\ Pending(work') = Pending(work) \cup {"events"}
    BY <1>1, <2>1, SubmitFacts
  <2> QED BY <2>2 DEF WorkInv, S
<1>4. e \in Event /\ e.number = arrived + 1
  BY <1>1, <1>2 DEF Event
<1>5. called.number \in Nat
  BY <1>2
<1>6. \A k \in 1 .. Len(q) : q[k].number \in Nat
  <2>1. \A k \in 1 .. Len(q) : q[k] \in Event
    BY <1>2
  <2> QED BY <1>2, <2>1 DEF Event
<1> HIDE DEF e
<1>7. q' \in Seq(Event) /\ Len(q') <= EventQueueSize
  BY <1>1, <1>2, <1>4
<1>8. EventInv'
  <2>1. CASE q' = q
    BY <1>1, <1>2, <1>5, <1>6, <2>1 DEF ManagerInv, EventInv
  <2>2. CASE q' = Append(q, e)
    <3>1. /\ Len(q') = Len(q) + 1 /\ q'[Len(q) + 1] = e
          /\ \A k \in 1 .. Len(q) : q'[k] = q[k]
          /\ \A k \in 1 .. Len(q') : k \in 1 .. Len(q) \/ k = Len(q) + 1
      BY <1>2, <2>2
    <3> HIDE DEF q
    <3>2. \A k \in 1 .. Len(q) :
            /\ called.number < q[k].number /\ q[k].number <= arrived
            /\ \A l \in 1 .. Len(q) : k < l => q[k].number < q[l].number
      BY DEF ManagerInv, EventInv, q
    <3>3. \A k \in 1 .. Len(q') : called'.number < q'[k].number /\ q'[k].number <= arrived'
      BY <1>1, <1>2, <1>4, <1>5, <1>6, <3>1, <3>2 DEF ManagerInv, EventInv
    <3>4. ASSUME NEW k \in 1 .. Len(q'), NEW l \in 1 .. Len(q'), k < l
          PROVE  q'[k].number < q'[l].number
      <4>1. k \in 1 .. Len(q)
        BY <1>2, <3>1, <3>4 DEF q
      <4>2. CASE l \in 1 .. Len(q)
        BY <3>1, <3>2, <3>4, <4>1, <4>2
      <4>3. CASE l = Len(q) + 1
        <5>1. q'[k].number <= arrived /\ q'[k].number \in Nat
          BY <1>6, <3>1, <3>2, <4>1
        <5>2. q'[l].number = arrived + 1 /\ arrived \in Nat
          BY <1>2, <1>4, <3>1, <4>3
        <5> QED BY <5>1, <5>2
      <4> QED BY <3>1, <4>2, <4>3
    <3>5. called'.number <= arrived'
      BY <1>1, <1>2, <1>5 DEF ManagerInv, EventInv
    <3> QED BY <3>3, <3>4, <3>5 DEF EventInv, q
  <2> QED BY <1>1, <2>1, <2>2
<1>9. TableInv'
  BY <1>1 DEF ManagerInv, TableInv
<1>10. ManagerTypeOK'
  <2>1. ToSet(work') \subseteq {"events", "send"} /\ arrived' \in 0 .. MaxEvents
    BY <1>1, <1>2, <1>3 DEF WorkInv, ToSet
  <2> QED BY <1>1, <1>7, <2>1 DEF ManagerInv, ManagerTypeOK
<1>11. EventsAreDispatched'
  BY <1>3 DEF EventsAreDispatched
<1> QED BY <1>1, <1>3, <1>8, <1>9, <1>10, <1>11 DEF ManagerStep, ManagerInv

(* bt_send_work_handler() of the manager.                                  *)
LEMMA EventsBeginStep ==
  ASSUME ManagerInv, EventsBegin
  PROVE  ManagerStep
<1>1. /\ work \in Seq({"events", "send"}) /\ work # <<>> /\ Once(work)
      /\ work' = Tail(work) /\ running' = "events"
      /\ UNCHANGED <<m_event_queue, tableVars, arrived, called>>
  BY DEF ManagerInv, WorkInv, EventsBegin, Begin
<1>2. WorkInv'
  BY <1>1, TailFacts DEF WorkInv
<1> QED BY <1>1, <1>2, RoleStep

LEMMA EventsEndStep ==
  ASSUME ManagerInv, EventsEnd
  PROVE  ManagerStep
<1>1. /\ m_event_queue = <<>> /\ running' = None
      /\ UNCHANGED <<m_event_queue, tableVars, work, arrived, called>>
  BY DEF EventsEnd
<1>2. WorkInv' /\ EventInv' /\ TableInv' /\ EventsAreDispatched'
  BY <1>1 DEF ManagerInv, WorkInv, EventInv, TableInv, EventsAreDispatched, Once, tableVars
<1>3. ManagerTypeOK'
  BY <1>1 DEF ManagerInv, ManagerTypeOK, tableVars
<1> QED BY <1>1, <1>2, <1>3 DEF ManagerStep, ManagerInv

LEMMA DispatchStep ==
  ASSUME ManagerInv, Dispatch
  PROVE  ManagerStep
<1> DEFINE q == m_event_queue
           e == Head(q)
<1>1. /\ running = "events" /\ q # <<>> /\ q' = Tail(q)
      /\ called' = [number |-> e.number, name |-> e.name, by |-> HandlerOf(e.name)]
      /\ UNCHANGED <<subscribers, count, subscribing, current, work, arrived, running>>
  BY DEF Dispatch, DispatchFirst, tableVars
<1>2. /\ q \in Seq(Event) /\ Len(q) <= EventQueueSize /\ EventQueueSize \in Nat
      /\ MaxEvents \in Nat /\ arrived \in Nat
      /\ current \in [Names -> HandlerOrNone]
  BY ManagerAssumption DEF ManagerInv, ManagerTypeOK
<1>3. /\ Tail(q) \in Seq(Event) /\ Len(Tail(q)) = Len(q) - 1 /\ Len(q) \in Nat /\ Len(q) > 0
      /\ e = q[1] /\ e \in Event
      /\ \A k \in 1 .. Len(q) : q[k] \in Event
      /\ \A k \in 1 .. Len(q) - 1 : Tail(q)[k] = q[k + 1]
  BY <1>1, <1>2
<1>4. e.number \in 1 .. MaxEvents /\ e.name \in Names
  BY <1>3 DEF Event
<1>5. HandlerOf(e.name) = current[e.name] /\ HandlerOf(e.name) \in HandlerOrNone
  BY <1>2, <1>4, SearchFacts DEF ManagerInv
<1> HIDE DEF e
<1>6. /\ called'.number = e.number
      /\ called'.name = e.name
      /\ called'.by = current[e.name]
      /\ called' \in [number : 0 .. MaxEvents, name : Names, by : HandlerOrNone]
  BY <1>1, <1>4, <1>5
<1> HIDE DEF q
<1>7. /\ \A k \in 1 .. Len(q) : called.number < q[k].number /\ q[k].number <= arrived
      /\ \A k, l \in 1 .. Len(q) : k < l => q[k].number < q[l].number
  BY DEF ManagerInv, EventInv, q
<1>8. 1 \in 1 .. Len(q) /\ \A k \in 1 .. Len(q') : k + 1 \in 1 .. Len(q) /\ 1 < k + 1
                                                 /\ q'[k] = q[k + 1]
  BY <1>1, <1>3
<1>9. EventInv'
  <2>1. \A k \in 1 .. Len(q') : called'.number < q'[k].number /\ q'[k].number <= arrived'
    BY <1>1, <1>3, <1>6, <1>7, <1>8
  <2>2. ASSUME NEW k \in 1 .. Len(q'), NEW l \in 1 .. Len(q'), k < l
        PROVE  q'[k].number < q'[l].number
    <3>1. k + 1 \in 1 .. Len(q) /\ l + 1 \in 1 .. Len(q) /\ k + 1 < l + 1
      BY <1>8, <2>2
    <3> QED BY <1>7, <1>8, <3>1
  <2>3. called'.number <= arrived'
    BY <1>1, <1>3, <1>6, <1>7, <1>8
  <2> QED BY <2>1, <2>2, <2>3 DEF EventInv, q
<1>10. TableInv' /\ WorkInv'
  BY <1>1 DEF ManagerInv, TableInv, WorkInv, Once
<1>11. ManagerTypeOK'
  <2>1. q' \in Seq(Event) /\ Len(q') <= EventQueueSize
    BY <1>1, <1>2, <1>3
  <2> QED BY <1>1, <1>6, <2>1 DEF ManagerInv, ManagerTypeOK, q
<1>12. EventsAreDispatched'
  BY <1>1 DEF EventsAreDispatched
<1>13. called'.number > called.number
  BY <1>3, <1>6, <1>7, <1>8
<1>14. called'.by = current[called'.name]
  BY <1>6
<1> QED BY <1>1, <1>9, <1>10, <1>11, <1>12, <1>13, <1>14 DEF ManagerStep, ManagerInv

LEMMA ManagerNextStep ==
  ASSUME ManagerInv, ManagerNext
  PROVE  ManagerStep
BY ReplacesStep, WritesStep, CountsStep, EventsBeginStep, DispatchStep, EventsEndStep
DEF ManagerNext, Subscribing
-----------------------------------------------------------------------------
(* What the connection and the queue of messages are like, whatever is     *)
(* under way.                                                              *)
LinkInv ==
  /\ current_conn <=> link # "away"
  /\ leaving # None => ~ current_conn
  /\ ~ current_conn => received = <<>> /\ joined = 0 /\ payload = 0 /\ inflight = 0
  /\ ~ current_conn /\ leaving # "purge" => queue = <<>>
  /\ payload # 0 => running = "send"

(* The message taken is between what was received and what waits.          *)
MessageInv ==
  /\ current_conn => Fresh(queue, received, joined, published)
  /\ payload # 0 =>
       /\ Fresh(queue, Append(received, payload), joined, published)
       /\ payload \in joined + 1 .. published
       /\ \A l \in 1 .. Len(received) : payload > received[l]

(* What was published on a connection waits, is being sent or has left.    *)
CountInv ==
  LET taken == IF payload = 0 THEN 0 ELSE 1 IN
  inflight + taken + Len(queue) <= published - joined

PeripheralInv == ManagerInv /\ RoleTypes /\ LinkInv /\ MessageInv /\ CountInv

HubStep == Hub!Next \/ UNCHANGED Hub!vars

PeripheralStep == ManagerStep /\ PeripheralInv' /\ HubStep

LEMMA Initially == Init => PeripheralInv /\ Hub!Init
<1> SUFFICES ASSUME Init
             PROVE  PeripheralInv /\ Hub!Init
  OBVIOUS
<1>1. ManagerInv
  BY ManagerInitially DEF Init
<1>2. RoleTypes
  <2>1. queue \in Seq(1 .. MaxPublish) /\ received \in Seq(1 .. MaxPublish) /\ Len(queue) = 0
    BY DEF Init
  <2>2. 0 \in 0 .. MaxPublish /\ 0 <= QueueSize
    BY PeripheralAssumption
  <2> QED BY <2>1, <2>2 DEF Init, RoleTypes
<1>3. LinkInv /\ MessageInv
  BY DEF Init, LinkInv, MessageInv
<1>4. CountInv
  <2>1. Len(queue) = 0 /\ inflight = 0 /\ payload = 0 /\ published = 0 /\ joined = 0
    BY DEF Init
  <2> QED BY <2>1 DEF CountInv
<1>5. Hub!Init
  BY DEF Init, Hub!Init
<1> QED BY <1>1, <1>2, <1>3, <1>4, <1>5 DEF PeripheralInv

(* A step that leaves the messages and the connection alone.               *)
LEMMA QuietStep ==
  ASSUME PeripheralInv, ManagerStep,
         UNCHANGED <<queue, payload, inflight, published, received, current_conn, joined>>,
         running = "send" => running' = "send",
         link = "away" <=> link' = "away",
         RoleTypes', leaving' = leaving
  PROVE  PeripheralStep
<1>1. LinkInv'
  BY DEF PeripheralInv, LinkInv
<1>2. MessageInv' /\ CountInv'
  BY DEF PeripheralInv, MessageInv, Fresh, CountInv
<1>3. HubStep
  BY DEF HubStep, Hub!vars
<1> QED BY <1>1, <1>2, <1>3 DEF PeripheralStep, PeripheralInv, ManagerStep

LEMMA BootSteps ==
  ASSUME PeripheralInv, BleReady \/ StackInitEnds
  PROVE  PeripheralStep
<1>1. /\ UNCHANGED <<managerVars, sendVars, current_conn, joined, link, leaving>>
      /\ boot' \subseteq {"ready", "attached"}
      /\ m_ready' \in BOOLEAN /\ advertising' \in BOOLEAN
      /\ faults' \subseteq {"adv", "early", "notify"}
  BY DEF BleReady, StackInitEnds, AdvertisingStart, Fault, NoFault, PeripheralInv, RoleTypes
<1>2. ManagerStep /\ RoleTypes'
  BY <1>1, ManagerRests DEF PeripheralInv, RoleTypes, sendVars
<1>3. running' = running
  BY <1>1 DEF managerVars
<1> QED BY <1>1, <1>2, <1>3, QuietStep DEF sendVars

LEMMA SecurityStep ==
  ASSUME PeripheralInv, SecurityChanged
  PROVE  PeripheralStep
<1>1. /\ UNCHANGED <<managerVars, sendVars, current_conn, joined, leaving, boot, advertising, faults>>
      /\ link = "connected" /\ link' \in {"secured", "closing"} /\ m_ready' \in BOOLEAN
  BY DEF SecurityChanged, NoFault, PeripheralInv, RoleTypes
<1>2. ManagerStep /\ RoleTypes'
  BY <1>1, ManagerRests DEF PeripheralInv, RoleTypes, sendVars
<1>3. running' = running
  BY <1>1 DEF managerVars
<1> QED BY <1>1, <1>2, <1>3, QuietStep DEF sendVars

LEMMA ManagerSteps ==
  ASSUME PeripheralInv, Manager \/ \E n \in Names : Receive(n)
  PROVE  PeripheralStep
<1>1. UNCHANGED <<sendVars, linkVars, faults>>
  BY DEF Manager, Receive, NoFault
<1>2. ManagerStep
  BY ManagerNextStep, EvtHandlerStep DEF Manager, Receive, PeripheralInv
<1>3. running = "send" => running' = "send"
  <2>1. CASE Manager
    BY <2>1, ManagerAssumption DEF Manager, ManagerNext, Subscribing, SubscribeReplaces, SubscribeWrites,
      Writes, SubscribeCounts, EventsBegin, Begin, Dispatch, DispatchFirst, EventsEnd
  <2>2. CASE \E n \in Names : Receive(n)
    BY <2>2 DEF Receive, EvtHandler
  <2> QED BY <2>1, <2>2
<1>4. RoleTypes'
  BY <1>1 DEF PeripheralInv, RoleTypes, sendVars, linkVars
<1> QED BY <1>1, <1>2, <1>3, <1>4, QuietStep DEF sendVars, linkVars

(* Facts about the state every step starts from.                           *)
LEMMA RoleFacts ==
  ASSUME PeripheralInv
  PROVE  /\ queue \in Seq(Nat) /\ received \in Seq(Nat) /\ Len(queue) \in Nat
         /\ published \in Nat /\ joined \in Nat /\ payload \in Nat /\ inflight \in Nat
         /\ MaxPublish \in Nat /\ QueueSize \in Nat \ {0}
         /\ queue \in Seq(1 .. MaxPublish) /\ received \in Seq(1 .. MaxPublish)
<1>1. MaxPublish \in Nat /\ QueueSize \in Nat \ {0}
  BY PeripheralAssumption
<1>2. /\ queue \in Seq(1 .. MaxPublish) /\ received \in Seq(1 .. MaxPublish)
      /\ published \in 0 .. MaxPublish /\ joined \in 0 .. MaxPublish
      /\ payload \in 0 .. MaxPublish /\ inflight \in 0 .. MaxPublish
  BY DEF PeripheralInv, RoleTypes
<1>3. 1 .. MaxPublish \subseteq Nat
  BY <1>1
<1>4. queue \in Seq(Nat) /\ received \in Seq(Nat)
  BY <1>2, <1>3, SeqMonotonic
<1> QED BY <1>1, <1>2, <1>4

LEMMA ConnectedStep ==
  ASSUME PeripheralInv, Connected
  PROVE  PeripheralStep
<1>1. /\ UNCHANGED <<managerVars, queue, payload, inflight, published, received,
                     m_ready, leaving, boot>>
      /\ link = "away" /\ leaving = None /\ advertising' = FALSE
      /\ faults' \subseteq {"adv", "early", "notify"}
  BY DEF Connected, Callback, sendVars, NoFault, Fault, PeripheralInv, RoleTypes
<1>2. ManagerStep /\ running' = running
  BY <1>1, ManagerRests DEF PeripheralInv, managerVars
<1>3. CASE link' = "connected" /\ current_conn' = TRUE /\ joined' = published
  <2>1. /\ ~ current_conn /\ received = <<>> /\ joined = 0 /\ payload = 0 /\ inflight = 0
        /\ queue = <<>>
    BY <1>1, PeripheralAssumption DEF PeripheralInv, LinkInv
  <2>2. RoleTypes'
    BY <1>1, <1>3 DEF PeripheralInv, RoleTypes
  <2>3. LinkInv'
    BY <1>1, <1>3, <2>1 DEF LinkInv
  <2>4. MessageInv'
    BY <1>1, <1>3, <2>1, RoleFacts, FreshEmpty DEF MessageInv
  <2>5. CountInv'
    <3>1. Len(queue') = 0
      BY <1>1, <2>1
    <3> QED BY <1>1, <1>3, <2>1, <3>1, RoleFacts DEF CountInv
  <2>6. Hub!Join("hub")
    BY <1>1, <1>3, <2>1 DEF Hub!Join
  <2> QED BY <1>2, <2>2, <2>3, <2>4, <2>5, <2>6
      DEF PeripheralStep, PeripheralInv, ManagerStep, HubStep, Hub!Next
<1>4. CASE UNCHANGED <<link, current_conn, joined>>
  <2>1. RoleTypes'
    BY <1>1, <1>4 DEF PeripheralInv, RoleTypes
  <2> QED BY <1>1, <1>2, <1>4, <2>1, QuietStep
<1> QED BY <1>3, <1>4 DEF Connected

LEMMA DisconnectedStep ==
  ASSUME PeripheralInv, Disconnected
  PROVE  PeripheralStep
<1>1. /\ UNCHANGED <<managerVars, queue, published, m_ready, boot, advertising, faults>>
      /\ link # "away" /\ link' = "away" /\ current_conn' = FALSE /\ leaving' = "purge"
      /\ payload' = 0 /\ inflight' = 0 /\ received' = <<>> /\ joined' = 0
  BY DEF Disconnected, NoFault
<1>2. ManagerStep
  BY <1>1, ManagerRests DEF PeripheralInv
<1>3. current_conn
  BY <1>1 DEF PeripheralInv, LinkInv
<1>4. RoleTypes'
  <2>1. received' \in Seq(1 .. MaxPublish) /\ 0 \in 0 .. MaxPublish
    BY <1>1, RoleFacts
  <2> QED BY <1>1, <2>1 DEF PeripheralInv, RoleTypes
<1>5. LinkInv' /\ MessageInv'
  BY <1>1, PeripheralAssumption DEF LinkInv, MessageInv
<1>6. CountInv'
  <2>1. Len(queue) <= published
    BY RoleFacts DEF PeripheralInv, CountInv
  <2> QED BY <1>1, <2>1, RoleFacts DEF CountInv
<1>7. Hub!Leave("hub")
  BY <1>1, <1>3 DEF Hub!Leave
<1> QED BY <1>2, <1>4, <1>5, <1>6, <1>7
    DEF PeripheralStep, PeripheralInv, ManagerStep, HubStep, Hub!Next

LEMMA PurgesStep ==
  ASSUME PeripheralInv, DisconnectedPurges
  PROVE  PeripheralStep
<1>1. /\ UNCHANGED <<managerVars, payload, inflight, published, received, current_conn,
                     m_ready, boot, link, advertising, joined, faults>>
      /\ leaving # None /\ leaving' = "reset" /\ queue' = <<>>
  BY PeripheralAssumption DEF DisconnectedPurges, NoFault
<1>2. ManagerStep /\ running' = running
  BY <1>1, ManagerRests DEF PeripheralInv, managerVars
<1>3. RoleTypes'
  <2>1. queue' \in Seq(1 .. MaxPublish) /\ Len(queue') <= QueueSize
    BY <1>1, RoleFacts
  <2> QED BY <1>1, <2>1 DEF PeripheralInv, RoleTypes
<1>4. LinkInv'
  BY <1>1, <1>2 DEF PeripheralInv, LinkInv
<1>5. MessageInv'
  BY <1>1 DEF PeripheralInv, LinkInv, MessageInv
<1>6. CountInv'
  <2>1. Len(queue') = 0
    BY <1>1
  <2> QED BY <1>1, <2>1, RoleFacts DEF PeripheralInv, CountInv
<1>7. HubStep
  BY <1>1 DEF HubStep, Hub!vars
<1> QED BY <1>2, <1>3, <1>4, <1>5, <1>6, <1>7 DEF PeripheralStep, PeripheralInv, ManagerStep

LEMMA ResetsStep ==
  ASSUME PeripheralInv, DisconnectedResets
  PROVE  PeripheralStep
<1>1. /\ UNCHANGED <<managerVars, sendVars, current_conn, boot, link, joined>>
      /\ leaving = "reset" /\ leaving' = None
      /\ m_ready' \in BOOLEAN /\ advertising' \in BOOLEAN
      /\ faults' \subseteq {"adv", "early", "notify"}
  BY DEF DisconnectedResets, Resets, ResetsKept, AdvertisingStart, NoFault, Fault,
         PeripheralInv, RoleTypes
<1>2. ManagerStep /\ running' = running
  BY <1>1, ManagerRests DEF PeripheralInv, managerVars
<1>3. RoleTypes'
  BY <1>1 DEF PeripheralInv, RoleTypes, sendVars
<1>4. LinkInv'
  BY <1>1, <1>2, PeripheralAssumption DEF PeripheralInv, LinkInv, sendVars
<1>5. MessageInv' /\ CountInv'
  BY <1>1 DEF PeripheralInv, MessageInv, CountInv, sendVars, Fresh
<1>6. HubStep
  BY <1>1 DEF HubStep, Hub!vars, sendVars
<1> QED BY <1>2, <1>3, <1>4, <1>5, <1>6 DEF PeripheralStep, PeripheralInv, ManagerStep

LEMMA WriteStep ==
  ASSUME PeripheralInv, Write
  PROVE  PeripheralStep /\ Pending(work') = Pending(work) \cup {"send"}
<1>1. /\ current_conn /\ published < MaxPublish /\ Len(queue) < QueueSize
      /\ published' = published + 1 /\ queue' = Append(queue, published + 1)
      /\ work' = Submit(work, "send")
      /\ UNCHANGED <<m_event_queue, tableVars, running, arrived, called, payload, inflight,
                     received, linkVars, faults>>
  BY DEF Write, Queues, NoFault
<1>2. ManagerStep /\ Pending(work') = Pending(work) \cup {"send"}
  BY <1>1, RoleSubmits DEF PeripheralInv
<1>3. /\ queue' \in Seq(1 .. MaxPublish) /\ Len(queue') = Len(queue) + 1
      /\ Len(queue') <= QueueSize /\ published' \in 0 .. MaxPublish
  <2>1. published + 1 \in 1 .. MaxPublish
    BY <1>1, RoleFacts
  <2> QED BY <1>1, <2>1, RoleFacts
<1>4. RoleTypes'
  BY <1>1, <1>3 DEF PeripheralInv, RoleTypes, linkVars
<1>5. LinkInv'
  BY <1>1 DEF PeripheralInv, LinkInv, linkVars
<1>6. MessageInv'
  <2>1. Fresh(queue', received', joined', published')
    BY <1>1, RoleFacts, FreshAppend DEF PeripheralInv, MessageInv, linkVars
  <2>2. ASSUME payload # 0
        PROVE  Fresh(queue', Append(received, payload), joined', published')
    <3>1. Append(received, payload) \in Seq(Nat)
      BY RoleFacts
    <3> QED BY <1>1, <2>2, <3>1, RoleFacts, FreshAppend DEF PeripheralInv, MessageInv, linkVars
  <2>3. payload # 0 => payload \in joined + 1 .. published'
    BY <1>1, RoleFacts DEF PeripheralInv, MessageInv
  <2> QED BY <1>1, <2>1, <2>2, <2>3 DEF PeripheralInv, MessageInv, linkVars
<1>7. CountInv'
  <2> DEFINE taken == IF payload = 0 THEN 0 ELSE 1
  <2>1. taken \in Nat /\ inflight + taken + Len(queue) <= published - joined
    BY DEF PeripheralInv, CountInv
  <2>2. UNCHANGED <<payload, inflight, joined>>
    BY <1>1 DEF linkVars
  <2> HIDE DEF taken
  <2>3. published' = published + 1 /\ Len(queue') = Len(queue) + 1
    BY <1>1, <1>3
  <2>4. {inflight, Len(queue), published, joined} \subseteq Nat
    BY RoleFacts
  <2>5. inflight + taken + Len(queue') <= published' - joined
    BY <2>1, <2>3, <2>4
  <2> QED BY <2>2, <2>5 DEF CountInv, taken
<1>8. Hub!Publish
  BY <1>1 DEF Hub!Publish, linkVars
<1> QED BY <1>2, <1>4, <1>5, <1>6, <1>7, <1>8
    DEF PeripheralStep, PeripheralInv, ManagerStep, HubStep, Hub!Next

(* bt_send_work_handler() of the peripheral takes a message, if there is   *)
(* one and a connection ...                                                *)
LEMMA TakesStep ==
  ASSUME PeripheralInv, SendTakes
  PROVE  PeripheralStep
<1>1. /\ running = None /\ running' \in {"send", None} /\ running # "send"
      /\ UNCHANGED <<m_event_queue, tableVars, arrived, called, inflight, published,
                     received, linkVars, faults>>
  BY ManagerAssumption DEF SendTakes, Begin, NoFault
<1>2. ManagerStep
  BY <1>1, RoleBegins DEF SendTakes, PeripheralInv
<1>3. payload = 0
  BY <1>1 DEF PeripheralInv, LinkInv
<1>4. CASE current_conn /\ queue # <<>>
  <2>1. running' = "send" /\ payload' = Head(queue) /\ queue' = Tail(queue)
    BY <1>4 DEF SendTakes
  <2>2. Fresh(queue, received, joined, published)
    BY <1>4 DEF PeripheralInv, MessageInv
  <2>3. /\ Fresh(Tail(queue), received, joined, published)
        /\ Fresh(Tail(queue), Append(received, Head(queue)), joined, published)
        /\ Head(queue) \in joined + 1 .. published
        /\ \A l \in 1 .. Len(received) : Head(queue) > received[l]
    BY <1>4, <2>2, RoleFacts, FreshTail
  <2>4. /\ Tail(queue) \in Seq(1 .. MaxPublish) /\ Len(Tail(queue)) = Len(queue) - 1
        /\ Head(queue) \in 1 .. MaxPublish
    <3> DEFINE S == 1 .. MaxPublish
    <3>1. queue \in Seq(S) /\ queue # <<>>
      BY <1>4, RoleFacts
    <3> HIDE DEF S
    <3>2. Head(queue) \in S
      BY <3>1
    <3> QED BY <3>1, <3>2, TailType DEF S
  <2>5. RoleTypes'
    BY <1>1, <2>1, <2>4, RoleFacts DEF PeripheralInv, RoleTypes, linkVars
  <2>6. LinkInv'
    BY <1>1, <1>4, <2>1 DEF PeripheralInv, LinkInv, linkVars
  <2>7. MessageInv'
    BY <1>1, <2>1, <2>3 DEF MessageInv, linkVars
  <2>8. CountInv'
    BY <1>1, <1>3, <2>1, <2>4, RoleFacts DEF PeripheralInv, CountInv, linkVars
  <2>9. HubStep
    BY <1>1 DEF HubStep, Hub!vars, linkVars
  <2> QED BY <1>2, <2>5, <2>6, <2>7, <2>8, <2>9
      DEF PeripheralStep, PeripheralInv, ManagerStep
<1>5. CASE ~ (current_conn /\ queue # <<>>)
  <2>1. UNCHANGED <<running, payload, queue>>
    BY <1>5 DEF SendTakes
  <2>2. RoleTypes'
    BY <1>1, <2>1 DEF PeripheralInv, RoleTypes, linkVars
  <2> QED BY <1>1, <1>2, <2>1, <2>2, QuietStep DEF linkVars
<1> QED BY <1>4, <1>5

(* ... and notifies the hub of it.                                         *)
LEMMA EndsStep ==
  ASSUME PeripheralInv, SendEnds
  PROVE  PeripheralStep
<1>1. /\ running = "send" /\ running' = None /\ payload' = 0
      /\ UNCHANGED <<m_event_queue, tableVars, work, arrived, called, queue, published,
                     linkVars>>
      /\ faults' \subseteq {"adv", "early", "notify"}
  BY DEF SendEnds, NoFault, Fault, PeripheralInv, RoleTypes
<1>2. ManagerStep
  BY <1>1, RoleEnds DEF PeripheralInv
<1>3. CASE payload # 0 /\ inflight' = inflight + 1 /\ received' = Append(received, payload)
  <2>1. /\ Fresh(queue, Append(received, payload), joined, published)
        /\ payload \in joined + 1 .. published
        /\ \A l \in 1 .. Len(received) : payload > received[l]
    BY <1>3 DEF PeripheralInv, MessageInv
  <2>2. inflight + 1 + Len(queue) <= published - joined
    BY <1>3 DEF PeripheralInv, CountInv
  <2>3. RoleTypes'
    <3>1. payload \in 1 .. MaxPublish /\ inflight + 1 \in 0 .. MaxPublish
      BY <1>3, <2>2, RoleFacts DEF PeripheralInv, RoleTypes
    <3>2. received' \in Seq(1 .. MaxPublish)
      BY <1>3, <3>1, RoleFacts
    <3>3. payload' \in 0 .. MaxPublish
      BY <1>1, RoleFacts
    <3> QED BY <1>1, <1>3, <3>1, <3>2, <3>3 DEF PeripheralInv, RoleTypes, linkVars
  <2>4. current_conn
    BY <1>3 DEF PeripheralInv, LinkInv
  <2>5. LinkInv'
    BY <1>1, <2>4 DEF PeripheralInv, LinkInv, linkVars
  <2>6. MessageInv'
    BY <1>1, <1>3, <2>1 DEF MessageInv, linkVars
  <2>7. CountInv'
    BY <1>1, <1>3, <2>2, RoleFacts DEF CountInv, linkVars
  <2>8. Hub!Deliver("hub")
    BY <1>1, <1>3, <2>1, <2>4 DEF Hub!Deliver, Hub!Newer, linkVars
  <2> QED BY <1>2, <2>3, <2>5, <2>6, <2>7, <2>8
      DEF PeripheralStep, PeripheralInv, ManagerStep, HubStep, Hub!Next
<1>4. CASE UNCHANGED <<inflight, received>>
  <2>1. RoleTypes'
    BY <1>1, <1>4, RoleFacts DEF PeripheralInv, RoleTypes, linkVars
  <2>2. LinkInv'
    BY <1>1, <1>4 DEF PeripheralInv, LinkInv, linkVars
  <2>3. MessageInv'
    BY <1>1, <1>4 DEF PeripheralInv, MessageInv, linkVars
  <2>4. CountInv'
    BY <1>1, <1>4, RoleFacts DEF PeripheralInv, CountInv, linkVars
  <2>5. HubStep
    BY <1>1, <1>4 DEF HubStep, Hub!vars, linkVars
  <2> QED BY <1>2, <2>1, <2>2, <2>3, <2>4, <2>5
      DEF PeripheralStep, PeripheralInv, ManagerStep
<1> QED BY <1>3, <1>4 DEF SendEnds

LEMMA SentStep ==
  ASSUME PeripheralInv, Sent
  PROVE  PeripheralStep /\ (queue # <<>> => "send" \in Pending(work'))
<1>1. /\ inflight > 0 /\ inflight' = inflight - 1
      /\ UNCHANGED <<m_event_queue, tableVars, running, arrived, called, queue, payload,
                     published, received, linkVars, faults>>
  BY DEF Sent, Completes, NoFault
<1>2. ManagerStep /\ (queue # <<>> => "send" \in Pending(work'))
  <2>1. CASE queue = <<>>
    <3>1. UNCHANGED managerVars
      BY <1>1, <2>1 DEF Sent, managerVars
    <3> QED BY <2>1, <3>1, ManagerRests DEF PeripheralInv
  <2>2. CASE queue # <<>>
    <3>1. work' = Submit(work, "send")
      BY <2>2 DEF Sent
    <3> QED BY <1>1, <3>1, RoleSubmits DEF PeripheralInv
  <2> QED BY <2>1, <2>2
<1>3. RoleTypes'
  BY <1>1, RoleFacts DEF PeripheralInv, RoleTypes, linkVars
<1>4. LinkInv'
  BY <1>1 DEF PeripheralInv, LinkInv, linkVars
<1>5. MessageInv'
  BY <1>1 DEF PeripheralInv, MessageInv, linkVars
<1>6. CountInv'
  <2> DEFINE taken == IF payload = 0 THEN 0 ELSE 1
  <2>1. taken \in Nat /\ inflight + taken + Len(queue) <= published - joined
    BY DEF PeripheralInv, CountInv
  <2>2. UNCHANGED <<payload, queue, published, joined>>
    BY <1>1 DEF linkVars
  <2> HIDE DEF taken
  <2>3. inflight' + taken + Len(queue) <= published - joined
    <3>1. /\ inflight' = inflight - 1 /\ inflight \in Int /\ taken \in Int
          /\ Len(queue) \in Int /\ published \in Int /\ joined \in Int
      BY <1>1, <2>1, RoleFacts
    <3> QED BY ONLY <2>1, <3>1
  <2> QED BY <2>2, <2>3 DEF CountInv, taken
<1>7. HubStep
  BY <1>1 DEF HubStep, Hub!vars, linkVars
<1> QED BY <1>2, <1>3, <1>4, <1>5, <1>6, <1>7 DEF PeripheralStep, PeripheralInv, ManagerStep

LEMMA NextStep ==
  ASSUME PeripheralInv, Next
  PROVE  PeripheralStep
BY BootSteps, ConnectedStep, SecurityStep, DisconnectedStep, PurgesStep, ResetsStep,
   ManagerSteps, WriteStep, TakesStep, EndsStep, SentStep
DEF Next, Link

LEMMA Stutters ==
  ASSUME PeripheralInv, UNCHANGED vars
  PROVE  PeripheralStep
<1>1. UNCHANGED <<managerVars, sendVars, linkVars, faults>>
  BY DEF vars
<1>2. ManagerStep
  BY <1>1, ManagerRests DEF PeripheralInv
<1>3. RoleTypes'
  BY <1>1 DEF PeripheralInv, RoleTypes, sendVars, linkVars
<1>4. running' = running
  BY <1>1 DEF managerVars
<1> QED BY <1>1, <1>2, <1>3, <1>4, QuietStep DEF sendVars, linkVars

LEMMA Always == Spec => []PeripheralInv
<1>1. PeripheralInv /\ [Next]_vars => PeripheralInv'
  BY NextStep, Stutters DEF PeripheralStep
<1> QED BY <1>1, Initially, PTL DEF Spec
-----------------------------------------------------------------------------
(* The table, the queue of events and that of messages, and what the stack *)
(* is doing keep their types and bounds: ble_subscribe() never writes past *)
(* m_subscribe_list, and no more notifications are under way than messages *)
(* were published.                                                         *)
THEOREM PeripheralTyped == Spec => []TypeOK
<1>1. PeripheralInv => TypeOK
  BY DEF PeripheralInv, ManagerInv, TypeOK
<1> QED BY <1>1, Always, PTL

(* No event is stranded in m_event_queue, whenever ble_evt_handler() comes *)
(* between two steps of bt_send_work_handler().                            *)
THEOREM EventsNotStranded == Spec => []EventsAreDispatched
<1>1. PeripheralInv => EventsAreDispatched
  BY DEF PeripheralInv, ManagerInv
<1> QED BY <1>1, Always, PTL

(* subscriber_search() and the two statements with which ble_subscribe()   *)
(* adds an entry give every event the handler subscribed last to its name, *)
(* for every number of names, handlers and entries.                        *)
THEOREM HandlersAreFound == Spec => EventsReachTheirHandler
<1>1. /\ PeripheralInv /\ [Next]_vars
      => [called' # called =>
            /\ called'.number > called.number
            /\ called'.by = current[called'.name]]_<<called, current>>
  BY NextStep, Stutters DEF PeripheralStep, ManagerStep
<1> QED BY <1>1, Always, PTL DEF Spec, EventsReachTheirHandler

(* A hub receives what was published on its connection, in order and once, *)
(* though ble_peripheral_write() may interrupt disconnected() anywhere.    *)
THEOREM PeripheralDelivers == Spec => Refines
<1>1. Init => Hub!Init
  BY Initially
<1>2. PeripheralInv /\ [Next]_vars => [Hub!Next]_(Hub!vars)
  BY NextStep, Stutters DEF PeripheralStep, HubStep
<1> QED BY <1>1, <1>2, Always, PTL DEF Spec, Refines, Hub!Spec
-----------------------------------------------------------------------------
(* QueuedIsSent without the send work that ran into a disconnection.       *)
SentInv ==
  queue # <<>> /\ current_conn /\ "notify" \notin faults =>
    "send" \in Pending(work) \/ payload # 0 \/ inflight > 0

SafeInv == SentInv /\ ReadyExactlyWhenSecured /\ CanBeFound

LEMMA SentInvStep ==
  ASSUME PeripheralInv, SentInv, [Next]_vars
  PROVE  SentInv'
<1>1. CASE BleReady \/ StackInitEnds \/ SecurityChanged \/ DisconnectedResets
  BY <1>1 DEF SentInv, BleReady, StackInitEnds, SecurityChanged, DisconnectedResets, ResetsKept,
              AdvertisingStart, NoFault, Fault, sendVars, managerVars
<1>2. CASE Connected
  <2>1. \/ queue = <<>> /\ queue' = queue
        \/ UNCHANGED <<current_conn, managerVars, sendVars>>
    BY <1>2, PeripheralAssumption
    DEF Connected, Callback, PeripheralInv, LinkInv, sendVars
  <2>2. faults \subseteq faults'
    BY <1>2 DEF Connected, NoFault, Fault
  <2> QED BY <2>1, <2>2 DEF SentInv, sendVars, managerVars
<1>3. CASE Disconnected \/ DisconnectedPurges
  BY <1>3 DEF SentInv, Disconnected, DisconnectedPurges
<1>4. CASE Manager \/ \E n \in Names : Receive(n)
  <2>1. UNCHANGED <<sendVars, linkVars, faults>>
    BY <1>4 DEF Manager, Receive, NoFault
  <2>2. "send" \in Pending(work) => "send" \in Pending(work')
    <3>1. CASE UNCHANGED work
      BY <3>1
    <3>2. CASE EventsBegin
      <4>1. work \in Seq({"events", "send"}) /\ work # <<>> /\ work' = Tail(work)
            /\ Head(work) = "events"
        BY <3>2 DEF EventsBegin, Begin, PeripheralInv, ManagerInv, WorkInv
      <4>2. Pending(work) = Pending(work') \cup {"events"}
        BY <4>1, TailFacts
      <4> QED BY <4>2
    <3>3. ASSUME NEW n \in Names, EvtHandler(n)
          PROVE  "send" \in Pending(work) => "send" \in Pending(work')
      <4> DEFINE S == {"events", "send"}
      <4>1. work \in Seq(S) /\ "events" \in S
        BY DEF PeripheralInv, ManagerInv, WorkInv
      <4> HIDE DEF S
      <4>2. Pending(work') = Pending(work) \cup {"events"}
        BY <3>3, <4>1, SubmitFacts DEF EvtHandler
      <4> QED BY <4>2
    <3> QED BY <1>4, <3>1, <3>2, <3>3
        DEF Manager, Receive, ManagerNext, Subscribing, SubscribeReplaces, SubscribeWrites, Writes,
            SubscribeCounts, Dispatch, DispatchFirst, EventsEnd
  <2> QED BY <2>1, <2>2 DEF SentInv, sendVars, linkVars
<1>5. CASE Write
  BY <1>5, WriteStep DEF SentInv
<1>6. CASE SendTakes
  <2>1. UNCHANGED <<current_conn, faults, inflight>>
    BY <1>6 DEF SendTakes, NoFault, linkVars
  <2>2. CASE current_conn /\ queue # <<>>
    <3>1. payload' = Head(queue) /\ Head(queue) # 0
      <4> DEFINE S == 1 .. MaxPublish
      <4>1. queue \in Seq(S) /\ queue # <<>>
        BY <2>2, RoleFacts
      <4> HIDE DEF S
      <4>2. Head(queue) \in S
        BY <4>1
      <4>3. Head(queue) # 0
        BY <4>2 DEF S
      <4> QED BY <1>6, <2>2, <4>3 DEF SendTakes
    <3> QED BY <3>1 DEF SentInv
  <2>3. CASE ~ (current_conn /\ queue # <<>>)
    BY <1>6, <2>1, <2>3 DEF SendTakes, SentInv
  <2> QED BY <2>2, <2>3
<1>7. CASE SendEnds
  <2>1. UNCHANGED <<work, queue, linkVars>> /\ faults \subseteq faults'
    BY <1>7 DEF SendEnds, NoFault, Fault
  <2>2. \/ inflight' = inflight + 1
        \/ payload = 0 /\ inflight' = inflight
        \/ "notify" \in faults'
    BY <1>7 DEF SendEnds, Fault
  <2> QED BY <2>1, <2>2, RoleFacts DEF SentInv, linkVars
<1>8. CASE Sent
  BY <1>8, SentStep DEF SentInv, Sent, Completes
<1>9. CASE UNCHANGED vars
  BY <1>9 DEF SentInv, vars, managerVars, sendVars, linkVars
<1> QED BY <1>1, <1>2, <1>3, <1>4, <1>5, <1>6, <1>7, <1>8, <1>9 DEF Next, Link

LEMMA ReadyStep ==
  ASSUME PeripheralInv, ReadyExactlyWhenSecured, CanBeFound, [Next]_vars
  PROVE  ReadyExactlyWhenSecured' /\ CanBeFound'
<1>1. CASE UNCHANGED <<linkVars, faults>>
  BY <1>1 DEF ReadyExactlyWhenSecured, CanBeFound, Callback, linkVars
<1>2. CASE BleReady
  BY <1>2 DEF BleReady, AdvertisingStart, Fault, NoFault, ReadyExactlyWhenSecured, CanBeFound, Callback
<1>3. CASE StackInitEnds
  BY <1>3 DEF StackInitEnds, Fault, NoFault, ReadyExactlyWhenSecured, CanBeFound, Callback
<1>4. CASE Connected
  BY <1>4 DEF Connected, Fault, NoFault, ReadyExactlyWhenSecured, CanBeFound, Callback
<1>5. CASE SecurityChanged
  BY <1>5 DEF SecurityChanged, NoFault, PeripheralInv, LinkInv, ReadyExactlyWhenSecured, CanBeFound,
              Callback
<1>6. CASE Disconnected \/ DisconnectedPurges
  BY <1>6, PeripheralAssumption DEF Disconnected, DisconnectedPurges, ReadyExactlyWhenSecured, CanBeFound,
              Callback
<1>7. CASE DisconnectedResets
  BY <1>7, PeripheralAssumption DEF DisconnectedResets, Resets, ResetsKept, AdvertisingStart, Fault, NoFault,
              PeripheralInv, LinkInv, ReadyExactlyWhenSecured, CanBeFound, Callback
<1>8. CASE Manager \/ Write \/ SendTakes \/ Sent \/ \E n \in Names : Receive(n)
  <2>1. UNCHANGED <<linkVars, faults>>
    BY <1>8 DEF Manager, Write, Queues, SendTakes, Sent, Completes, Receive, NoFault
  <2> QED BY <1>1, <2>1
<1>9. CASE SendEnds
  <2>1. UNCHANGED linkVars /\ \/ faults' = faults
                              \/ faults' = faults \cup {"notify"}
    BY <1>9 DEF SendEnds, NoFault, Fault
  <2> QED BY <2>1 DEF ReadyExactlyWhenSecured, CanBeFound, Callback, linkVars
<1>10. CASE UNCHANGED vars
  BY <1>1, <1>10 DEF vars
<1> QED BY <1>2, <1>3, <1>4, <1>5, <1>6, <1>7, <1>8, <1>9, <1>10 DEF Next, Link

LEMMA SafeAlways == Spec => []SafeInv
<1>1. Init => SafeInv
  BY DEF Init, SafeInv, SentInv, ReadyExactlyWhenSecured, CanBeFound, Callback
<1>2. PeripheralInv /\ SafeInv /\ [Next]_vars => SafeInv'
  BY SentInvStep, ReadyStep DEF SafeInv
<1> QED BY <1>1, <1>2, Always, PTL DEF Spec

(* Every message in the queue is being taken care of, unless a             *)
(* notification was refused: the send work and the completion of the one   *)
(* before resubmit each other.                                             *)
THEOREM PeripheralQueuedIsSent == Spec => []QueuedIsSent
<1>1. PeripheralInv /\ SafeInv => QueuedIsSent
  BY DEF SafeInv, SentInv, PeripheralInv, LinkInv, QueuedIsSent
<1> QED BY <1>1, Always, SafeAlways, PTL

(* ble_peripheral_is_connected() tells whether the connection is secured,  *)
(* and security_changed() and disconnected() keep it so.                   *)
THEOREM ReadyWhenSecured == Spec => []ReadyExactlyWhenSecured
<1>1. SafeInv => ReadyExactlyWhenSecured
  BY DEF SafeInv
<1> QED BY <1>1, SafeAlways, PTL

(* The device advertises whenever no hub is connected, unless the stack    *)
(* refused it or a connection failed, which no callback repeats.           *)
THEOREM FoundAgain == Spec => []CanBeFound
<1>1. SafeInv => CanBeFound
  BY DEF SafeInv
<1> QED BY <1>1, SafeAlways, PTL
=============================================================================
