----------------------------- MODULE BleCentral -----------------------------
(***************************************************************************)
(* The Bluetooth central, lib/ble/ble_central.c: it scans for peripherals, *)
(* connects up to MaxConn of them, secures each connection, discovers its  *)
(* data service, and sends what the application publishes to all that are  *)
(* ready.                                                                  *)
(*                                                                         *)
(* Callbacks of the Bluetooth stack and the send work run on cooperative   *)
(* threads: a callback is one step, and the send work one step per         *)
(* connection, because a send may wait for a buffer.  The application may  *)
(* publish from a timer (applications/hub does), and an interrupt comes    *)
(* between any two statements: disconnected() is split where that matters. *)
(*                                                                         *)
(* A connection object is identified with its peripheral: an object is not *)
(* reused while a slot holds a reference to it.  The committed file does   *)
(* not define the bt_start_scan() its retry calls; the model retries       *)
(* ble_central_scan_start().                                               *)
(***************************************************************************)
EXTENDS Naturals, Integers, Sequences, FiniteSets

CONSTANTS
  Peripherals,
  MaxConn,       \* CONFIG_BT_MAX_CONN
  QueueSize,     \* BLE_CENTRAL_QUEUE_SIZE
  MaxPublish,    \* bound: messages the application publishes
  MaxDrift,      \* bound: how far m_num_connected strays from the count of ready slots
  Environment,   \* which of EnvironmentEvents may happen
  None

(* What the outside world may do beyond working:                           *)
(*   lost: a connection ends        failed: one cannot be established      *)
(*   insecure: pairing fails        scan: scanning cannot be started       *)
(*   create: connecting is refused  discovery: the discovery fails         *)
(*   service: no usable service     again: security changes once more      *)
(*   write: a write is refused      isr: publishing happens in interrupts  *)
EnvironmentEvents ==
  {"lost", "failed", "insecure", "scan", "create", "discovery", "service",
   "again", "write", "isr"}

ASSUME BleAssumption ==
  /\ MaxConn \in Nat \ {0}
  /\ QueueSize \in Nat \ {0}
  /\ MaxPublish \in Nat
  /\ MaxDrift \in Nat
  /\ Environment \subseteq EnvironmentEvents
  /\ None \notin Peripherals

VARIABLES
  \* ble_central.c
  conns,           \* m_conns: the connection, the ready flag, the queue of each slot
  m_num_connected,
  send_work,       \* bt_send_work is submitted
  scan_work,       \* bt_start_scan_work is submitted
  sending,         \* the slot bt_send_work_handler() looks at next, 0 when not running
  leaving,         \* the slot disconnected() is about to mark not ready, or 0
  \* the Bluetooth stack
  scanning,
  link,            \* of each peripheral
  dm,              \* who the one discovery instance is taken by
  pending,         \* the slots with a write under way
  \* what happened, for the properties
  published,       \* how many messages were published
  received,        \* what each peripheral received on its present connection
  joined,          \* how many were published when it became ready
  abandoned,       \* the peripherals whose discovery was refused or found nothing
  faults           \* what a property below excuses: "scan" and "send"

Slots == 1 .. MaxConn

stackVars == <<scanning, link, dm, pending>>
history   == <<published, received, joined, abandoned>>
vars == <<conns, m_num_connected, send_work, scan_work, sending, leaving,
          stackVars, history, faults>>

Conns == [conn : Peripherals \cup {None}, ready : BOOLEAN, q : Seq(1 .. MaxPublish)]

LinkStates == {"away", "initiating", "connected", "secured", "closing"}

SlotTypes ==
  /\ conns \in [Slots -> Conns]
  /\ \A i \in Slots : Len(conns[i].q) <= QueueSize

OtherTypes ==
  /\ send_work \in BOOLEAN /\ scan_work \in BOOLEAN
  /\ sending \in 0 .. MaxConn /\ leaving \in 0 .. MaxConn
  /\ scanning \in BOOLEAN
  /\ link \in [Peripherals -> LinkStates]
  /\ dm \in Peripherals \cup {None, "locked"}
  /\ pending \subseteq Slots
  /\ published \in 0 .. MaxPublish
  /\ received \in [Peripherals -> Seq(1 .. MaxPublish)]
  /\ joined \in [Peripherals -> 0 .. MaxPublish]
  /\ abandoned \subseteq Peripherals
  /\ faults \subseteq {"scan", "send"}

TypeOK ==
  /\ SlotTypes /\ OtherTypes
  /\ m_num_connected \in - MaxDrift .. MaxConn + MaxDrift

(* ble_central_init() and ble_central_ready().                             *)
Init ==
  /\ conns = [i \in Slots |-> [conn |-> None, ready |-> FALSE, q |-> <<>>]]
  /\ m_num_connected = 0
  /\ send_work = FALSE /\ scan_work = FALSE /\ sending = 0 /\ leaving = 0
  /\ scanning = TRUE
  /\ link = [d \in Peripherals |-> "away"]
  /\ dm = None /\ pending = {}
  /\ published = 0
  /\ received = [d \in Peripherals |-> <<>>]
  /\ joined = [d \in Peripherals |-> 0]
  /\ abandoned = {}
  /\ faults = {}
-----------------------------------------------------------------------------
SlotsOf(d) == {i \in Slots : conns[i].conn = d}
Lowest(S) == {i \in S : \A j \in S : i <= j}
InUse == {d \in Peripherals : link[d] # "away"}
Ready == {i \in Slots : conns[i].ready}
Drift == m_num_connected - Cardinality(Ready)

Callback == leaving = 0

May(e) == e \in Environment
NoFault == UNCHANGED faults
Fault(what) == faults' = faults \cup {what}

(* ble_central_scan_start(), with err # 0 retried a second later.          *)
ScanStart ==
  \/ scanning' = TRUE /\ UNCHANGED scan_work /\ NoFault
  \/ May("scan") /\ ~ scanning /\ scan_work' = TRUE /\ UNCHANGED scanning /\ NoFault

NoScanStart == UNCHANGED <<scanning, scan_work>> /\ NoFault

ScanWork ==
  /\ Callback /\ scan_work
  /\ scan_work' = FALSE /\ scanning' = TRUE
  /\ NoFault
  /\ UNCHANGED <<conns, m_num_connected, send_work, sending, leaving, link, dm,
                 pending, history>>

(* scan_filter_match(): stops scanning, then connects.  The stack refuses  *)
(* when it is connecting already or has no connection object left.         *)
MayCreate == Cardinality(InUse) < MaxConn /\ \A e \in InUse : link[e] # "initiating"

ScanMatch(d) ==
  /\ Callback /\ scanning /\ link[d] = "away"
  /\ scanning' = FALSE
  /\ \/ MayCreate /\ link' = [link EXCEPT ![d] = "initiating"] /\ NoFault
     \/ ~ MayCreate /\ UNCHANGED link /\ NoFault
     \/ May("create") /\ UNCHANGED link /\ Fault("scan")
  /\ UNCHANGED <<conns, m_num_connected, send_work, scan_work, sending, leaving,
                 dm, pending, history>>

(* gatt_discover(): -EALREADY when a discovery is under way is only logged. *)
GattDiscover(d, slots) ==
  \/ /\ slots # {} /\ dm = None
     /\ dm' = d /\ abandoned' = abandoned \ {d}
  \/ /\ slots = {} \/ dm # None
     /\ abandoned' = IF dm = d THEN abandoned ELSE abandoned \cup {d}
     /\ UNCHANGED dm

(* bt_conn_set_security() fails in connected(): the service is discovered  *)
(* all the same.  Wrong variant: it is only logged.                        *)
InsecureOnlyLogged(d, slots) == UNCHANGED <<dm, abandoned>>
Insecure(d, slots) == GattDiscover(d, slots)

(* connected(): takes the first slot without a connection.                 *)
FreeSlots == SlotsOf(None)
UnreadySlots == {i \in Slots : ~ conns[i].ready}

ConnectedIn(free, d) ==
  /\ Callback /\ link[d] = "initiating"
  /\ \/ free = {} /\ UNCHANGED conns
     \/ \E i \in Lowest(free) : conns' = [conns EXCEPT ![i].conn = d]
  /\ \/ /\ link' = [link EXCEPT ![d] = "connected"]
        /\ UNCHANGED <<dm, abandoned>> /\ NoFault
     \/ /\ May("insecure") /\ NoFault
        /\ link' = [link EXCEPT ![d] = "secured"]
        /\ Insecure(d, free)
  /\ scanning' = FALSE
  /\ UNCHANGED <<m_num_connected, send_work, scan_work, sending, leaving, pending,
                 published, received, joined>>

(* Wrong variant: a slot whose device is not ready counts as free.         *)
ConnectedAnyUnready(d) == ConnectedIn(UnreadySlots, d)
Connected(d) == ConnectedIn(FreeSlots, d)

(* connected() with an error: the object is in no slot, so disconnected()  *)
(* does nothing; scanning starts again.                                    *)
ConnectFails(d) ==
  /\ Callback /\ link[d] = "initiating" /\ "failed" \in Environment
  /\ link' = [link EXCEPT ![d] = "away"]
  /\ ScanStart
  /\ UNCHANGED <<conns, m_num_connected, send_work, sending, leaving, dm, pending,
                 history>>

(* security_changed() without error: a discovery, also the second time.    *)
SecurityChanged(d) ==
  /\ Callback
  /\ \/ link[d] = "connected" /\ NoFault
     \/ link[d] = "secured" /\ May("again") /\ Fault("scan")
  /\ link' = [link EXCEPT ![d] = "secured"]
  /\ GattDiscover(d, SlotsOf(d))
  /\ UNCHANGED <<conns, m_num_connected, send_work, scan_work, sending, leaving,
                 scanning, pending, published, received, joined>>

(* security_changed() with an error: bt_conn_disconnect().                 *)
SecurityFails(d) ==
  /\ Callback /\ link[d] = "connected" /\ May("insecure") /\ NoFault
  /\ link' = [link EXCEPT ![d] = "closing"]
  /\ UNCHANGED <<conns, m_num_connected, send_work, scan_work, sending, leaving,
                 scanning, dm, pending, history>>

(* discovery_completed(): the slot is ready, and scanning goes on while    *)
(* m_num_connected is below the maximum.                                   *)
Discovered(d) ==
  /\ Callback /\ dm = d /\ link[d] = "secured" /\ SlotsOf(d) # {}
  /\ SlotsOf(d) \subseteq Ready => Drift < MaxDrift
  /\ dm' = None
  /\ \E i \in Lowest(SlotsOf(d)) : conns' = [conns EXCEPT ![i].ready = TRUE]
  /\ m_num_connected' = m_num_connected + 1
  /\ IF m_num_connected' < MaxConn THEN ScanStart ELSE NoScanStart
  /\ joined' = IF SlotsOf(d) \subseteq Ready THEN joined
                 ELSE [joined EXCEPT ![d] = published]
  /\ UNCHANGED <<send_work, sending, leaving, link, pending, published, received,
                 abandoned>>

(* The service lacks what bt_gatt_nus_c_handles_assign() or the            *)
(* notifications need: the connection is closed, the discovery instance    *)
(* never released.                                                         *)
HandlesRefused(d) ==
  /\ Callback /\ dm = d /\ link[d] = "secured" /\ May("service") /\ Fault("scan")
  /\ dm' = "locked"
  /\ link' = [link EXCEPT ![d] = "closing"]
  /\ UNCHANGED <<conns, m_num_connected, send_work, scan_work, sending, leaving,
                 scanning, pending, history>>

(* discovery_service_not_found() only logs; discovery_error_found()        *)
(* disconnects.                                                            *)
DiscoveryEnds(d) ==
  /\ Callback /\ dm = d /\ link[d] = "secured"
  /\ \/ /\ May("service") /\ UNCHANGED link /\ Fault("scan")
        /\ abandoned' = abandoned \cup {d}
     \/ /\ May("discovery") /\ link' = [link EXCEPT ![d] = "closing"]
        /\ UNCHANGED abandoned /\ NoFault
  /\ dm' = None
  /\ UNCHANGED <<conns, m_num_connected, send_work, scan_work, sending, leaving,
                 scanning, pending, published, received, joined>>

(* disconnected(), after the stack has ended what was under way on the     *)
(* connection.  First the reference is dropped and the queue purged ...    *)
(* Wrong variant: the queue is kept.                                       *)
Forgotten(slot) == [slot EXCEPT !.conn = None]
Purged(slot) == [conn |-> None, ready |-> slot.ready, q |-> <<>>]

Disconnected(d) ==
  /\ Callback
  /\ link[d] \in {"connected", "secured", "closing"}
  /\ link[d] # "closing" => "lost" \in Environment
  /\ Drift = - MaxDrift => SlotsOf(d) \subseteq Ready
  /\ link' = [link EXCEPT ![d] = "away"]
  /\ dm' = IF dm = d THEN None ELSE dm
  /\ pending' = pending \ SlotsOf(d)
  /\ \/ SlotsOf(d) = {} /\ UNCHANGED <<conns, leaving>>
     \/ \E i \in Lowest(SlotsOf(d)) :
          conns' = [conns EXCEPT ![i] = Purged(conns[i])] /\ leaving' = i
  /\ NoScanStart
  /\ received' = [received EXCEPT ![d] = <<>>]
  /\ joined' = [joined EXCEPT ![d] = 0]
  /\ abandoned' = abandoned \ {d}
  /\ UNCHANGED <<m_num_connected, send_work, sending, published>>

(* ... then the slot is marked, whether it was ready or not, and scanning  *)
(* starts again.  Wrong variant: it does not.                              *)
DisconnectedQuietly ==
  /\ leaving # 0
  /\ conns' = [conns EXCEPT ![leaving].ready = FALSE]
  /\ m_num_connected' = m_num_connected - 1
  /\ leaving' = 0
  /\ NoScanStart
  /\ UNCHANGED <<send_work, sending, link, dm, pending, history>>

DisconnectedMarks ==
  /\ leaving # 0
  /\ conns' = [conns EXCEPT ![leaving].ready = FALSE]
  /\ m_num_connected' = m_num_connected - 1
  /\ leaving' = 0
  /\ ScanStart
  /\ UNCHANGED <<send_work, sending, link, dm, pending, history>>
-----------------------------------------------------------------------------
(* ble_central_write(): a copy into the queue of every ready slot that has *)
(* room, then the send work.                                               *)
Write ==
  /\ Callback \/ "isr" \in Environment
  /\ published < MaxPublish
  /\ Ready # {}
  /\ published' = published + 1
  /\ conns' = [i \in Slots |->
                 IF conns[i].ready /\ Len(conns[i].q) < QueueSize
                   THEN [conns[i] EXCEPT !.q = Append(@, published')] ELSE conns[i]]
  /\ send_work' = TRUE
  /\ NoFault
  /\ UNCHANGED <<m_num_connected, scan_work, sending, leaving, stackVars, received,
                 joined, abandoned>>

(* bt_send_work_handler(), slot after slot.                                *)
SendStarts ==
  /\ Callback /\ send_work /\ sending = 0
  /\ send_work' = FALSE /\ sending' = 1
  /\ NoFault
  /\ UNCHANGED <<conns, m_num_connected, scan_work, leaving, stackVars, history>>

HasMessage(i) == conns[i].ready /\ conns[i].conn # None /\ conns[i].q # <<>>

(* Wrong variant: the loop runs past the last slot.                        *)
NextSlotPast == sending' = sending + 1
NextSlot == sending' = (sending + 1) % (MaxConn + 1)

SendSkips ==
  /\ Callback /\ sending # 0 /\ ~ HasMessage(sending)
  /\ NextSlot
  /\ NoFault
  /\ UNCHANGED <<conns, m_num_connected, send_work, scan_work, leaving, stackVars,
                 history>>

(* The message leaves the queue whether or not bt_gatt_nus_c_send() takes  *)
(* it; it does not while a write is under way.                             *)
Sends ==
  /\ Callback /\ sending # 0 /\ HasMessage(sending)
  /\ conns' = [conns EXCEPT ![sending].q = Tail(@)]
  /\ \/ /\ sending \notin pending
        /\ pending' = pending \cup {sending}
        /\ received' = [received EXCEPT ![conns[sending].conn] =
                          Append(@, Head(conns[sending].q))]
        /\ NoFault
     \/ sending \in pending /\ UNCHANGED <<pending, received>> /\ NoFault
     \/ May("write") /\ UNCHANGED <<pending, received>> /\ Fault("send")
  /\ NextSlot
  /\ UNCHANGED <<m_num_connected, send_work, scan_work, leaving, scanning, link, dm,
                 published, joined, abandoned>>

(* ble_data_sent().  Wrong variant: it leaves the rest to the next write.  *)
DataSentOnly(i) ==
  /\ Callback /\ i \in pending
  /\ pending' = pending \ {i}
  /\ NoFault
  /\ UNCHANGED <<conns, m_num_connected, send_work, scan_work, sending, leaving,
                 scanning, link, dm, history>>

DataSent(i) ==
  /\ Callback /\ i \in pending
  /\ pending' = pending \ {i}
  /\ send_work' = (send_work \/ conns[i].q # <<>>)
  /\ NoFault
  /\ UNCHANGED <<conns, m_num_connected, scan_work, sending, leaving, scanning, link,
                 dm, history>>
-----------------------------------------------------------------------------
Stack ==
  \/ ScanWork \/ DisconnectedMarks
  \/ \E d \in Peripherals :
       \/ ScanMatch(d) \/ Connected(d) \/ ConnectFails(d)
       \/ SecurityChanged(d) \/ SecurityFails(d)
       \/ Discovered(d) \/ HandlesRefused(d) \/ DiscoveryEnds(d)
       \/ Disconnected(d)

Sending == SendStarts \/ SendSkips \/ Sends \/ \E i \in Slots : DataSent(i)

Next == Stack \/ Write \/ Sending

Spec == Init /\ [][Next]_vars
-----------------------------------------------------------------------------
(* Every connection the stack reports has a slot, and only one: connected()*)
(* takes the first free slot without checking that there is one, and       *)
(* disconnected() and discovery_completed() look the connection up by it.  *)
EveryConnectionHasItsSlot ==
  Callback =>
    \A d \in Peripherals :
      Cardinality(SlotsOf(d)) =
        IF link[d] \in {"connected", "secured", "closing"} THEN 1 ELSE 0

(* What a peripheral receives on a connection was published after that     *)
(* connection was ready, in the order of publishing, each message once:    *)
(* nothing is left over from the slot's last peripheral.                   *)
Members == {d \in Peripherals : SlotsOf(d) \cap Ready # {}}

Peripheral == INSTANCE Delivery WITH Peers <- Peripherals, members <- Members

Refines == Peripheral!Spec

(* A message in the queue of a ready connection is never stranded: the     *)
(* send work is submitted or has not passed the slot yet, or a write is    *)
(* under way whose completion submits it.  A refused write breaks the      *)
(* chain until the next publish.                                           *)
QueuedIsSent ==
  "send" \notin faults =>
    \A i \in Slots :
      HasMessage(i) => send_work \/ sending \in 1 .. i \/ i \in pending

(* Unless a request to connect was refused, a peripheral lacked the        *)
(* service or changed security again, the hub is looking for peripherals   *)
(* whenever it has room and sets up no connection: m_num_connected may be  *)
(* too low, but never so high that discovery_completed() stops scanning.   *)
SettingUp(d) ==
  \/ link[d] \in {"initiating", "connected", "closing"}
  \/ dm = d

LooksForPeripherals ==
  (/\ "scan" \notin faults
   /\ Callback
   /\ SlotsOf(None) # {}
   /\ \A d \in Peripherals : ~ SettingUp(d))
     => scanning \/ scan_work

(* A peripheral whose connection is secured is discovered, or ready to     *)
(* receive, unless its own discovery was refused because another one ran,  *)
(* or found no service: nothing else leaves a connection that nobody uses  *)
(* and nobody closes.                                                      *)
SetupGoesOn ==
  Callback =>
    \A d \in Peripherals \ abandoned :
      link[d] = "secured" => dm = d \/ \E i \in SlotsOf(d) : conns[i].ready

(* Finding: disconnected() says it purges the data, line 490, but a        *)
(* message published from an interrupt before the ready flag is reset goes *)
(* back into the queue and waits there for the slot's next peripheral.     *)
FreeQueuesAreEmpty ==
  Callback => \A i \in Slots : conns[i].conn = None => conns[i].q = <<>>
=============================================================================
