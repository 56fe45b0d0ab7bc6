--------------------------- MODULE BlePeripheral ---------------------------
(***************************************************************************)
(* The Bluetooth peripheral, lib/ble/ble_peripheral.c, under the manager   *)
(* of BleManager: it advertises, serves one connection, hands what the hub *)
(* sends to the manager, and notifies the hub of what the application      *)
(* publishes.                                                              *)
(*                                                                         *)
(* The manager's and the peripheral's work share the system work queue.    *)
(* Callbacks of the Bluetooth stack and the work queue are cooperative     *)
(* threads: a callback is one step, but the send work may wait for a       *)
(* buffer.  The application publishes from a timer (applications/client),  *)
(* so an interrupt comes between any two statements, of disconnected() too.*)
(***************************************************************************)
EXTENDS BleManager

CONSTANTS
  QueueSize,     \* of m_peripheral_event_queue
  MaxPublish,    \* bound: messages the application publishes
  Environment    \* which of EnvironmentEvents may happen

(* What the outside world may do beyond working:                           *)
(*   lost: the connection ends           failed: it is not established     *)
(*   insecure: pairing fails             adv: advertising cannot start     *)
(*   notify: a notification is refused                                     *)
EnvironmentEvents == {"lost", "failed", "insecure", "adv", "notify"}

ASSUME PeripheralAssumption ==
  /\ QueueSize \in Nat \ {0}
  /\ MaxPublish \in Nat
  /\ Environment \subseteq EnvironmentEvents
  /\ None \notin {"purge", "reset"}

VARIABLES
  \* ble_peripheral.c
  current_conn,        \* not NULL
  m_ready,
  queue,               \* m_peripheral_event_queue
  payload,             \* the send work waits to notify of it, or 0
  leaving,             \* what disconnected() does next, or None
  boot,                \* "ready": the stack is; "attached": ble_stack_init() is over
  \* the Bluetooth stack
  link, advertising,
  inflight,            \* notifications whose completion is not reported yet
  \* what happened, for the properties
  published,           \* how many messages were published
  received,            \* what the hub received on the present connection
  joined,              \* how many were published before that connection
  faults               \* what a property below excuses: "adv", "early", "notify"

sendVars == <<queue, payload, inflight, published, received>>
linkVars == <<current_conn, m_ready, leaving, boot, link, advertising, joined>>
vars == <<managerVars, sendVars, linkVars, faults>>

RoleTypes ==
  /\ current_conn \in BOOLEAN /\ m_ready \in BOOLEAN
  /\ queue \in Seq(1 .. MaxPublish) /\ Len(queue) <= QueueSize
  /\ payload \in 0 .. MaxPublish
  /\ leaving \in {"purge", "reset", None}
  /\ boot \subseteq {"ready", "attached"}
  /\ link \in {"away", "connected", "secured", "closing"}
  /\ advertising \in BOOLEAN
  /\ inflight \in 0 .. MaxPublish
  /\ published \in 0 .. MaxPublish /\ joined \in 0 .. MaxPublish
  /\ received \in Seq(1 .. MaxPublish)
  /\ faults \subseteq {"adv", "early", "notify"}

TypeOK == ManagerTypeOK /\ RoleTypes

Init ==
  /\ ManagerInit
  /\ current_conn = FALSE /\ m_ready = FALSE
  /\ queue = <<>> /\ payload = 0 /\ leaving = None
  /\ boot = {} /\ link = "away" /\ advertising = FALSE /\ inflight = 0
  /\ published = 0 /\ joined = 0 /\ received = <<>>
  /\ faults = {}
-----------------------------------------------------------------------------
May(e) == e \in Environment
NoFault == UNCHANGED faults
Fault(what) == faults' = faults \cup {what}

Callback == leaving = None /\ "ready" \in boot

(* ble_peripheral_advertising_start() only logs when it fails.             *)
AdvertisingStart ==
  \/ advertising' = TRUE /\ NoFault
  \/ May("adv") /\ UNCHANGED advertising /\ Fault("adv")

(* ble_peripheral_ready(), from the stack once bt_enable() has completed.  *)
BleReady ==
  /\ "ready" \notin boot
  /\ boot' = boot \cup {"ready"}
  /\ AdvertisingStart
  /\ UNCHANGED <<managerVars, sendVars, current_conn, m_ready, leaving, link, joined>>

(* What ble_stack_init() does after bt_enable(), perhaps a second later:   *)
(* the handler is attached and the ready bit cleared, whoever has connected*)
(* already.                                                                *)
StackInitEnds ==
  /\ "attached" \notin boot
  /\ boot' = boot \cup {"attached"}
  /\ m_ready' = FALSE
  /\ IF m_ready THEN Fault("early") ELSE NoFault
  /\ UNCHANGED <<managerVars, sendVars, current_conn, leaving, link, advertising,
                 joined>>

(* connected(); the stack has stopped advertising.                         *)
Connected ==
  /\ Callback /\ advertising /\ link = "away"
  /\ advertising' = FALSE
  /\ \/ /\ link' = "connected" /\ current_conn' = TRUE
        /\ joined' = published
        /\ NoFault
     \/ /\ May("failed") /\ Fault("adv")
        /\ UNCHANGED <<link, current_conn, joined>>
  /\ UNCHANGED <<managerVars, sendVars, m_ready, leaving, boot>>

(* security_changed(), without and with an error.                          *)
SecurityChanged ==
  /\ Callback /\ link = "connected"
  /\ \/ link' = "secured" /\ m_ready' = TRUE
     \/ May("insecure") /\ link' = "closing" /\ UNCHANGED m_ready
  /\ NoFault
  /\ UNCHANGED <<managerVars, sendVars, current_conn, leaving, boot, advertising,
                 joined>>

(* disconnected(): the connection is dropped, so that a write is refused   *)
(* from here on; what the send work waits for will fail ...                *)
Disconnected ==
  /\ Callback /\ link # "away"
  /\ link # "closing" => May("lost")
  /\ link' = "away"
  /\ current_conn' = FALSE
  /\ leaving' = "purge"
  /\ payload' = 0 /\ inflight' = 0 /\ received' = <<>> /\ joined' = 0
  /\ NoFault
  /\ UNCHANGED <<managerVars, queue, published, m_ready, boot, advertising>>

(* ... then the queue is purged ...                                        *)
DisconnectedPurges ==
  /\ leaving = "purge"
  /\ leaving' = "reset"
  /\ queue' = <<>>
  /\ NoFault
  /\ UNCHANGED <<managerVars, payload, inflight, published, received, current_conn,
                 m_ready, boot, link, advertising, joined>>

(* ... and the ready bit cleared, before advertising starts again.  Wrong  *)
(* variants: the bit stays, advertising does not start.                    *)
Resets == leaving = "reset" /\ leaving' = None
ResetsKept == UNCHANGED <<managerVars, sendVars, current_conn, boot, link, joined>>

DisconnectedStaysReady ==
  Resets /\ AdvertisingStart /\ ResetsKept /\ UNCHANGED m_ready
DisconnectedQuietly ==
  Resets /\ m_ready' = FALSE /\ ResetsKept /\ NoFault /\ UNCHANGED advertising
DisconnectedResets ==
  Resets /\ m_ready' = FALSE /\ AdvertisingStart /\ ResetsKept

(* bt_receive_cb(): nothing is handed on before the handler is attached.   *)
Receive(n) ==
  /\ Callback /\ link \in {"connected", "secured"}
  /\ "attached" \in boot
  /\ EvtHandler(n)
  /\ NoFault
  /\ UNCHANGED <<sendVars, linkVars>>
-----------------------------------------------------------------------------
(* ble_publish() from the application's timer, with ble_is_connected():    *)
(* ble_peripheral_write() queues the message and submits the send work.    *)
(* Wrong variant: it relies on the ready bit.                              *)
Queues ==
  /\ "attached" \in boot
  /\ published < MaxPublish /\ Len(queue) < QueueSize
  /\ published' = published + 1
  /\ queue' = Append(queue, published')
  /\ work' = Submit(work, "send")
  /\ NoFault
  /\ UNCHANGED <<m_event_queue, tableVars, running, arrived, called, payload, inflight,
                 received, linkVars>>

WriteUnchecked == m_ready /\ Queues
Write == m_ready /\ current_conn /\ Queues

(* bt_send_work_handler(): takes one message ...                           *)
SendTakes ==
  /\ Callback /\ Begin("send")
  /\ IF current_conn /\ queue # <<>>
       THEN running' = "send" /\ payload' = Head(queue) /\ queue' = Tail(queue)
       ELSE UNCHANGED <<running, payload, queue>>
  /\ NoFault
  /\ UNCHANGED <<m_event_queue, tableVars, arrived, called, inflight, published,
                 received, linkVars>>

(* ... and notifies the hub of it, unless the connection is gone or the    *)
(* notification refused.                                                   *)
SendEnds ==
  /\ Callback /\ running = "send"
  /\ running' = None /\ payload' = 0
  /\ \/ /\ payload # 0 /\ NoFault
        /\ inflight' = inflight + 1
        /\ received' = Append(received, payload)
     \/ payload = 0 /\ NoFault /\ UNCHANGED <<inflight, received>>
     \/ payload # 0 /\ May("notify") /\ Fault("notify") /\ UNCHANGED <<inflight, received>>
  /\ UNCHANGED <<m_event_queue, tableVars, work, arrived, called, queue, published,
                 linkVars>>

(* bt_sent_cb(): a notification has left.  Wrong variant: the next message *)
(* waits for the next write.                                               *)
Completes ==
  /\ Callback /\ inflight > 0
  /\ inflight' = inflight - 1
  /\ NoFault
  /\ UNCHANGED <<m_event_queue, tableVars, running, arrived, called, queue, payload,
                 published, received, linkVars>>

SentOnly == Completes /\ UNCHANGED work
Sent == Completes /\ work' = IF queue = <<>> THEN work ELSE Submit(work, "send")

(* The main thread, after ble_stack_init(), subscribes; the work queue     *)
(* dispatches.                                                             *)
Manager ==
  /\ leaving = None /\ "attached" \in boot
  /\ ManagerNext
  /\ UNCHANGED <<sendVars, linkVars, faults>>

Link ==
  \/ BleReady \/ StackInitEnds \/ Connected \/ SecurityChanged
  \/ Disconnected \/ DisconnectedPurges \/ DisconnectedResets
  \/ \E n \in Names : Receive(n)

Next == Manager \/ Link \/ Write \/ SendTakes \/ SendEnds \/ Sent

Spec == Init /\ [][Next]_vars
-----------------------------------------------------------------------------
(* ble_peripheral_is_connected() says what its comment says, "set up and   *)
(* not disconnected": the ready bit is set exactly while the connection is *)
(* secured.  A hub that is quicker than ble_stack_init() is the exception: *)
(* its ready bit is cleared again.                                         *)
ReadyExactlyWhenSecured ==
  leaving = None =>
    /\ m_ready => current_conn /\ link = "secured"
    /\ link = "secured" /\ "early" \notin faults => m_ready

(* What the hub receives on a connection was published on that connection, *)
(* in order and once, as Delivery says of a single peer: a write that      *)
(* interrupts disconnected() leaves nothing behind for the next hub,       *)
(* because the connection is dropped before the queue is purged.           *)
Hub == INSTANCE Delivery
  WITH Peers <- {"hub"},
       members <- {p \in {"hub"} : current_conn},
       joined <- [p \in {"hub"} |-> joined],
       received <- [p \in {"hub"} |-> received]

Refines == Hub!Spec

(* A message in the queue of the connection is never stranded: the send    *)
(* work is submitted or runs, or a notification is under way whose         *)
(* completion submits it.  After a refused notification the chain is       *)
(* broken until the next write.                                            *)
QueuedIsSent ==
  queue # <<>> /\ current_conn /\ "notify" \notin faults =>
    "send" \in Pending(work) \cup {running} \/ inflight > 0

(* Unless advertising was refused or a connection not established, a       *)
(* device without a connection can be found.                               *)
CanBeFound ==
  Callback /\ ~ current_conn /\ "adv" \notin faults => advertising
=============================================================================
