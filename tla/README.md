# Verification of the Pyrinas firmware

TLA+ modules, TLC configurations and TLAPS proofs for `pyrinas-zephyr`: the
firmware of a cellular and Bluetooth gateway on Zephyr. The reference is the C
source; where a library is modelled (MQTT, FOTA, the Bluetooth stack, ring
buffers) it is modelled from how this code uses it, and `PROJECT.json` marks it
external.

## 1. The system

| Part | State | Operations | Talks to |
|---|---|---|---|
| `lib/app/main.c` | the semaphore `main_thread_proceed_sem`, the reconnect work | boot, connect, wait for the OTA check, `setup()`, reconnect 3 s / 10 s later | calls `pyrinas_cloud_*`; is called back with the connection state and the OTA events |
| `subsys/pyrinas_cloud/pyrinas_cloud.c` | `cloud_state_s`, `ota_state_s`, `initial_ota_check`, `ota_sub_message_id`, `ota_data`, the MQTT client, six work items, the cloud thread and its semaphore, the watchdog | connect, disconnect, publish, the MQTT events, the work items, download events, reboot | main (callbacks), worker (submits), broker, OTA server |
| `pyrinas_cloud_helper.c` | none | `ver_comp()` | the OTA handler |
| `pyrinas_cloud_codec.c` | none | CBOR in and out | the OTA handler and the publishers |
| `subsys/worker` | `main_tasks_q` | submit, run in order | every part that submits work |
| `lib/ble/ble_central.c` | connection slots with queues, `m_num_connected`, scanning | scan, connect, secure, discover, send | Bluetooth stack (callbacks), `ble_m` |
| `lib/ble/ble_peripheral.c` | one connection, advertising | the same from the other side | Bluetooth stack, `ble_m` |
| `lib/ble/ble_m.c` | event queue, subscription table | publish, subscribe, dispatch | the two above, the application |
| `subsys/comms` | two ring buffers, a semaphore, the message being received | write, UART events, receiving thread | UART interrupt, the application |
| `drivers/rtc/pcf85063a` | the registers of the chip, which survive a reset | set and cancel an alarm, start, stop, read the flag | I2C bus; main and the application |
| `samples/hci_uart` | two buffer pools, the packet being framed, the queue to the controller | interrupt, sending thread, events to the host | host (UART), Bluetooth controller |
| `subsys/cellular`, `applications/*`, `scripts` | next to none | modem commands in a row, examples, a build script | |

What is hard in it:

* MQTT events run on whichever thread called the library. A publish that fails
  on the work queue runs the disconnect handler there, while the cloud thread
  is in `poll()` on the same socket.
* A reconnect opens a new session under a thread that still looks at the old
  one. Flags, message ids and delayed works of the old session meet the new one.
* An update is announced, decided, started five seconds later, downloaded and
  booted, and at each point another announcement, a lost link or a reboot may
  come in between; `ota_data` is one global.
* The watchdog, the 55 s `poll()` and the 55 s `k_sem_take()` race.
* Bluetooth connections end at every stage of being set up; publishing happens
  in a timer's interrupt; a counter decides whether scanning goes on.
* The UART interrupt cuts messages anywhere and signals by a binary semaphore.
* The table of application callbacks points into a heap that other threads use,
  and is read by the lowest thread of all.
* A reset may come between two transfers to a clock that keeps counting, in the
  middle of a decoded message, or while an image is on trial.
* The HCI line has no way to find the start of a packet again.

What makes the parts correct, and where it is stated:

| Part | Property | Definition |
|---|---|---|
| session | down exactly when a reconnect is on its way, never two | `ReconnectExactlyWhenDown`, `Reconnects` |
| session | a connection that is reported is served by the thread | `ConnectedIsServed` |
| boot | the handshake never stalls, the application starts only after the answer | `NeverStalled`, `AnsweredFirst`, `BootResolves` |
| boot | a running application is restarted only for an update or when offline | `RestartsForAReason` |
| update | the image changes only to a newer one; an upgrade ends; the whole is `FirmwareLifecycle` | `OnlyNewerImages`, `UpgradeEnds`, `Refines` |
| update | what is begun is an upgrade by the numbers of any size, and the URL is the announced one | `UpgradeIsReal`, `UrlIsAnnounced` |
| boot to boot | through resets and trials of an image the device is still `FirmwareLifecycle` | `Refines` of `Device` |
| callbacks | an event runs the callback of its own topic, and finds it | `RightCallback`, `SubscriberIsFound` |
| clock | an alarm that was set comes in time and not before | `AlarmIsKept` |
| BLE, both roles | a peer receives what was published for it, in order and once (`Delivery`) | `Refines` |
| BLE central | one slot per connection, no setup forgotten, no message stranded, scanning goes on | `EveryConnectionHasItsSlot`, `SetupGoesOn`, `QueuedIsSent`, `LooksForPeripherals` |
| BLE manager | the subscription table acts like a map; no event is stranded | `EventsReachTheirHandler`, `EventsAreDispatched` |
| BLE peripheral | the ready bit means a secured connection, no message stranded, the device can be found | `ReadyExactlyWhenSecured`, `QueuedIsSent`, `CanBeFound` |
| UART | messages whole and in order, no signal lost, no stalled transmitter | `DeliveredInOrder`, `NothingForgotten`, `TxNeverStalls`, `SentWhole` |
| HCI UART | packets whole and in order, buffers and credits come back | `PacketsAreWhole`, `FlowControlSuffices`, `BuffersComeBack`, `CreditsReturn` |

`PROJECT.json` lists the hazards one by one, each at its line.

## 2. The modules

| Module | Models | Uses |
|---|---|---|
| `VersionCompare` | `ver_comp()`, with a lexicographic reference order | |
| `WorkQueue` | a Zephyr work queue as a value: submit, cancel | |
| `FirmwareLifecycle` | the abstract specification of updates: checking, running, upgrading | `VersionCompare` |
| `PyrinasCloud` | session, boot, updates, watchdog | `VersionCompare`, `WorkQueue`; refines `FirmwareLifecycle` |
| `AppCallbacks` | the application callbacks of `pyrinas_cloud.c` and the heap they live in | |
| `OtaCodec` | `decode_ota_data()`: what a message leaves in `ota_data`, whole or not | `VersionCompare` |
| `Pcf85063a` | the clock's alarm, transfer by transfer | |
| `Device` | from boot to boot: `main()`, the clock, OTA messages, MCUboot's trial | extends `OtaCodec`, `Pcf85063a`; refines `FirmwareLifecycle` |
| `Delivery` | the abstract specification of publishing over Bluetooth | |
| `BleCentral` | the Bluetooth central | refines `Delivery` |
| `BleManager` | event queue, subscriptions, dispatch | `WorkQueue` |
| `BlePeripheral` | the Bluetooth peripheral, composed with the manager on one work queue | extends `BleManager`; refines `Delivery` |
| `Comms` | UART framing and transmission | |
| `HciUart` | the controller's firmware between UART and link layer | |
| `SharedProofs` | lemmas several proofs need: work queues, queues of messages, the order of versions | `WorkQueue`, `VersionCompare` |
| `*Proofs` | the theorems of the module they are named after | |
| `MC*` | values of the constants for TLC | |

A definition called "wrong variant" is a plausible slip in the code, written next to
the definition it replaces. It belongs to no specification; `PROJECT.json`
("mutants") names the run and the property that reject it.

### PyrinasCloud

Variables carry the names of the source. `main_pc` is where `main()` is, `pc`
where the cloud thread is in its loop (`wait`, `check`, `poll`, `live`,
`input`, `decide`, `errors`), `result` and `revents` its locals. `queue` is
`main_tasks_q`, `armed` the delayed works waiting for their timeout,
`connecting` the work queue inside `mqtt_connect()`. `client`, `link`, `subs`
and `down` are the library's client, the TCP connection, the broker's
subscriptions of this session, and what is on its way to the device. `image`,
`slot` and `download` are flash and the download.

Grain of atomicity. The application's work queue and the system work queue are
cooperative: an item runs to its end unless it blocks, and is one action; only
`mqtt_connect()`, which blocks, is split (`Reconnect`, then `ReconnectSucceeds`
or `ReconnectFails`). The cloud thread has the lowest priority and is split
where another thread may run between reading shared state and using it:
after the semaphore, at the loop's test, around `poll()`, `mqtt_live()` and
`mqtt_input()`, and inside `publish_evt_handler()` between decoding the message
into `ota_data` and deciding on it. `StartUpgrade` and `NoUpdate` are the two
decisions.

Abstractions. A version is its four numbers and a hash. An OTA message is what
`decode_ota_data()` leaves behind: complete, cut short after the address was
copied, or unreadable; an error that copied only the host counts as cut
short. A SUBACK the library cannot decode is a failing `mqtt_input()` (`InputFails`); one by
which the broker refuses the subscription looks like any other to the code, and the
broker that sends it is one that does not answer (`mute`). The broker's answers are in `down` at once; an answer that is slow is a
thread that has not read it yet, except for the CONNACK later than a keepalive
(`silent`). A reboot clears everything but flash and what the server is about
to answer. The watchdog is one flag, `fed`: it is set at every feed and
`PollTakesTime` may clear it, because a `k_sem_take()` of 55 s that begins more
than 5 s after the last feed outlasts the 60 s of the watchdog unless a
connection comes first. The numbers are those of `applications/sample`
(`CONFIG_MQTT_KEEPALIVE=55`); so are `CONFIG_ASSERT` and the reset on a fatal
error, which make a failed `__ASSERT` a reboot.

`Environment` says what the outside may do. Each run chooses a part of it, and a
property is claimed exactly for the runs that list it.

### BleCentral

`conns` is `m_conns`; `send_work` and `scan_work` say that the works are
submitted; `sending` is the slot the send work looks at. `leaving` is the slot
`disconnected()` has purged but not yet marked: between the two an interrupt
may publish. `link`, `dm`, `pending` and `scanning` belong to the stack: the
stage of each connection, the one discovery instance (`locked` when it was never
released), the writes under way. `published`, `received`, `joined` and `faults`
only record history for the properties.

As committed, `bt_start_scan_work_handler()` calls `bt_start_scan()`, which no
file defines, and the work is submitted by value; the model retries
`ble_central_scan_start()`, the only function it can mean.

### BleManager and BlePeripheral

`BleManager` has the manager's queue and table, and the system work queue:
`work` is its FIFO, `running` the handler that has begun. `subscribing` is the
entry that `ble_subscribe()` has written and not yet counted. `BlePeripheral`
extends it with the device of `applications/client`: the callbacks of the stack, the
send work, and the timer that publishes. `leaving` is the statement of
`disconnected()` that comes next, since the timer's interrupt may come before
it; `payload` is the message the send work waits to notify the hub of. `boot` has
the two ends of `ble_stack_init()`, which come in any order: the stack is ready,
and the handler is attached. `arrived`, `called`, `current`, `published`,
`received`, `joined` and `faults` are history. A publish or event that finds no
room, and an event before the handler is attached, are dropped.

As committed, `ble_m.c` uses the types of an older codec (`protobuf_event_t`)
than its header (`pyrinas_event_t`); the model needs only the name of an event.

### Delivery

Both roles send to whoever is connected and drop what they cannot send.
`Delivery` says what remains of a promise: a peer becomes a member, receives only
messages published since, each at most once and in order, and leaves. The members
of the central are the peripherals with a ready slot, the one peer of the peripheral is
the hub. A message left in a purged queue, sent twice, or overtaken by a later one
is a step `Delivery` does not have.

### AppCallbacks

`callbacks` is the table, `owner` and `memory` the blocks of the kernel heap that
an entry fits into, and other users allocate and free blocks at any time. The
dispatch of an event is split between the tests of two entries, and between
the test and the call, because the cloud thread has the lowest priority. `k_free()` may
overwrite the start of a block. A name is a model value with the set of names it is a
prefix of; whether `strcmp()` stops behind a name that fills its field is a choice
made when the entry is written, since it depends on what the block held. What faults
restarts the device.

### OtaCodec, Pcf85063a and Device

`OtaCodec` says for each item of a message that may be unreadable what
`decode_ota_data()` leaves behind: QCBOR keeps its first error, the numbers are
cut to a byte, and a text is copied over the old one without its end. `Pcf85063a`
is the chip's registers and the transfers a call still has to make; the chip counts
between any two of them. `Device` goes through `main()`, with a reset possible at every
step; what the chip and flash hold survives it. `previous` is the image MCUboot
goes back to until `boot_write_img_confirmed()`, whose result `main()` ignores: when it
fails the image stays on trial while the application runs, and it may be taken back at the
next reset or replaced by the next image, which is the step `ReplaceTrial` of
`FirmwareLifecycle`. The connection itself, the delay
and the work queue are `PyrinasCloud`'s; `Device` has what a message does to
`ota_data` and what a boot does to the image.

### Comms

The two directions share nothing but the UART and the thread that initialises both
rings (`RxInits`, one step); both are in `Next`. That thread has the lowest priority: what the
UART receives before it has run is lost (`RxReadyEarly`), a write before it is refused. A
ring buffer is the
sequence of its bytes, the number claimed and the place of the first byte in
memory, since a claim ends where the memory does. Each direction is split at
every call of the ring buffer or the UART, because the interrupt may come in between. One
thread writes at a time. A byte of a received message is its
length or the message's number; a byte written is its place in the order of
writing. `excused`, `cut`, `aborted` and `overlapped` are history for the
properties.

### HciUart

One iteration of the loop of `bt_uart_isr()` is a step: a type byte, a header
(for which it waits while nothing else runs), payload, or discarded payload. A
byte read in the wrong place counts as whatever it may be. `free` counts the
buffers of each pool; a buffer is taken by the interrupt, queued, handed to the
controller by `tx_thread()` and given back. The first event, which gives the host its first
credit, is there because `boards/particle_xenon.conf` sets `CONFIG_BT_WAIT_NOP`; `prj.conf`
alone does not. The host sends when it has a credit, or
without one (`flood`). `FairSpec` is weak fairness of the interrupt, of each thread and of a
host that has begun a packet.

## 3. The runs

Times are for two workers.

| Run | Checks | Bounds | States |
|---|---|---|---|
| `cloud_session` | type, `ReconnectExactlyWhenDown`, `ConnectedIsServed`, `NeverStalled`, `AnsweredFirst`, `RestartsForAReason`, `Refines` | three versions, four messages (two upgrades, one cut short, one unreadable), message ids 0 and 1 | 1.3 M, 30 s |
| `cloud_updates` | `OnlyNewerImages` over two upgrades with unasked pushes | three versions, one push on its way | 3.1 M, 55 s |
| `cloud_live` | `Reconnects`, `BootResolves`, `UpgradeEnds` | two versions, two messages | 0.3 M, 150 s |
| `ble_central` | type, the four invariants of `BleCentral`, `Refines` | 3 peripherals, 2 slots, 2 messages, queue of 2 | 0.4 M, 20 s |
| `ble_peripheral` | type, `EventsReachTheirHandler`, `EventsAreDispatched`, the three invariants of `BlePeripheral`, `Refines` | 3 names, 2 handlers, table of 2, 3 events into a queue of 2, 2 messages | 3.6 M, 45 s |
| `comms` | the four properties of `Comms` | 3 messages of 0 to 2 bytes, rings of 5 and 3 bytes, claims of up to 4 | 1.2 M, 14 s |
| `app_callbacks` | type, `RightCallback`, `SubscriberIsFound` | 3 topics (a prefix, a full field), 2 callbacks, 3 slots, 4 blocks | 0.5 M, 20 s |
| `hci_uart` | type, the four properties of `HciUart` | 3 packets of 0, 2 and 3 bytes, room for 2, two buffers of each kind | 0.5 M, 50 s |
| `device` | `UpgradeIsReal`, `UrlIsAnnounced`, `AlarmIsKept`, `Refines` | 3 packages, alarms of 2 and of 257 seconds | 0.4 M, 120 s |

Three runs look for a disagreement between the code and what the repository says
of it, and find it:

* `cloud_overwrite`: `ota_data` is overwritten by a second announcement in the
  five seconds before the download starts, also by one that is no upgrade.
* `cloud_apptopic`: the application topic is subscribed after the first OTA
  answer only; a reconnect starts a clean session without it.
* `ble_isr`: `disconnected()` purges the queue before it resets the ready flag.
  A message published from a timer in between waits in the purged queue for
  the slot's next peripheral.

Why the bounds are enough. Two versions give equal, newer and older; three give
two upgrades in a row and an older image between them. One packet on its way
besides the answers suffices to meet each step of the five-second delay and of
the download. Two slots are the least with a full and a partly full table, and a
third peripheral asks for a slot when there is none; a queue of two holds a second
message behind the one that is taken, and the theorems of section 4 cover every
other size. Three names overfill a table of two, three events a queue of two. A
receive ring of five bytes wraps inside a message of three, overflows, and holds more
than a claim of four takes; a
transmit ring of three wraps inside a write of two, and a second write does not
fit. Four blocks for three slots leave one that was freed while the table still points to
it. A packet of three bytes does not fit and takes two calls of `h4_discard()`; three
packets empty a pool of two. The packages of `device` are an older image, an upgrade, and one
whose minor number 257 is 1 when cut to a byte; its URLs are shorter and longer than
each other; an alarm of 257 seconds does not fit into the chip and is promised to nobody.
`MaxInFlight`, `MaxPublish`, `MaxDrift`, `MaxEvents`, `MaxMessages`, `MaxPackets`
and `MaxBytes` are the bounds in guards.

Deadlock is checked in `cloud_session`, `cloud_updates`, `cloud_live`,
`app_callbacks` and `device`, which cannot stop. It is not in the violation runs,
where the defect can leave the device with nothing to do; in `ble_central`, where a
refused connection ends scanning for good (`ble_central.c:153`, "TODO: restart
scan"); in `ble_peripheral`, where a failed start of advertising does the same; in
`hci_uart`, where the controller's assertion handler loops for ever; and in
`comms`, which ends with its messages.

What the properties excuse. `ConnectedIsServed` holds in an environment without
`pollerr` and `silent`: when `poll()` fails, or the keepalive passes before the CONNACK,
the cloud thread leaves its loop without closing the connection, and only the
watchdog, if it was fed long enough ago, ends it. `NeverStalled` is not claimed after a
subscription under message id 0, which the MQTT library rejects.
`LooksForPeripherals` is not claimed after a refused `bt_conn_le_create()`, a
peripheral without a usable service or a second change of security: each can
leave the hub not scanning with a slot free. `SetupGoesOn` leaves out the peripherals
whose discovery was refused or found no service. `QueuedIsSent` is not claimed
after a refused write or notification, `CanBeFound` after a failed start of
advertising, nor that the ready bit is set for a hub that was connected before
`ble_stack_init()` ended. `RightCallback` and `SubscriberIsFound` leave out a topic
somebody unsubscribed from and one that is a prefix of another.
`UrlIsAnnounced` leaves out a URL that a longer text or a later message left
part of itself in; a URL names one image, no mixture of two URLs
names an older one, and a device that upgrades hears only of newer images (the
other case is `cloud_overwrite`). `AlarmIsKept` allows an alarm to be early when the timer ran already
as it was set. `PacketsAreWhole` is not claimed after a packet that found no buffer.
`DeliveredInOrder` is not
claimed after a ring overflow or bytes that came before the rings were initialised, nor after
a claim with the ends of two messages or an
empty message: `comms_rx_thread()` copies what follows a message without looking for
its end. `NothingForgotten` allows bytes to wait for the next signal in two cases, since the
thread claims once per signal: the last claim took the most a claim asks for
(`UART_RINGBUF_SIZE`, 512, of a ring of 2048 bytes), or it ended at the end of the ring's
memory. Without either of the two the run finds a counterexample. `SentWhole` is not claimed once a write overlapped a transmission. In each
case the code does not keep the property, the hazard list says so, and
the excuse is history set by exactly that step or named in the constants.

### Fairness

`FairSpec` of `PyrinasCloud`: weak fairness of each thread, timeout, the download
and the server's answer, because the kernel runs every ready thread and the
queues are first in, first out. `ReconnectSucceeds` is strongly fair: a device
that keeps trying connects in the end, and no liveness could hold without it.
`ThreadPingFails` on a dead link is strongly fair: TCP gives up and a ping
fails, although each single ping may still be buffered. `WatchdogFires` is weakly
fair. Nothing is assumed about the link staying up, and with `mute` in the
environment the server may answer no request. Refinement is checked of the safety
part of `FirmwareLifecycle`.

`FairSpec` of `HciUart` has the interrupt and the threads, as above; nothing is
assumed of a host that is between packets.

The Bluetooth modules, `Comms`, `AppCallbacks` and `Device` have safety properties
only. "Never stranded", "goes on" and "never stalls" are stated as invariants:
what is to be done always has somebody who will do it.

## 4. The theorems

Each is about every value of the constants that meets the module's `ASSUME`.

| Module | Theorem | Says |
|---|---|---|
| `SharedProofs` | `VerCompDecides` | `ver_comp()` agrees with the lexicographic order for all versions |
| `PyrinasCloudProofs` | `TypeCorrect` | the type invariant, for every environment |
| | `RetriesExactlyWhenDown` | `ReconnectExactlyWhenDown`, for every environment |
| | `SetupIsAnswered` | `AnsweredFirst`, for every environment |
| | `ConnectionsAreServed`, `RestartsAreJustified` | `ConnectedIsServed`, `RestartsForAReason`, without `silent` and `pollerr` |
| | `NothingStalls` | `NeverStalled`, without `pollerr` |
| | `LifecycleTypes`, `ComparisonCorrect` | whatever image runs, its comparison with any other is the lexicographic order |
| | `ImagesOnlyGetNewer`, `LifecycleImplemented` | `OnlyNewerImages`, and that it implements `FirmwareLifecycle` (`Refines`), without `older` |
| | `NoDowngrade` | the version numbers never go down, without `older` |
| `AppCallbacksProofs` | `TablesAreTyped`, `OnlyTheRightCallback`, `EverySubscriberIsFound` | the three properties of `AppCallbacks` |
| `DeviceProofs` | `TypesHold`, `UpgradesAreReal`, `UrlsAreAnnounced`, `AlarmsAreKept` | types, `UpgradeIsReal`, `UrlIsAnnounced`, `AlarmIsKept` |
| | `DeviceLifecycle` | it implements `FirmwareLifecycle` (`Refines`), when the hosts or the files of the packages tell them apart (`UrlsDiffer`) |
| `BleCentralProofs` | `SlotsAreTyped`, `EverySetupGoesOn` | type, `SetupGoesOn`, for every environment |
| | `EveryConnectionServed`, `HubKeepsLooking` | `EveryConnectionHasItsSlot`, `LooksForPeripherals`, for every environment |
| | `NothingIsStranded` | `QueuedIsSent`, without `isr` |
| | `DeliveryImplemented` | the central implements `Delivery`, without `isr` |
| `BlePeripheralProofs` | `PeripheralTyped`, `EventsNotStranded`, `HandlersAreFound` | the manager's properties and the types |
| | `PeripheralQueuedIsSent`, `ReadyWhenSecured`, `FoundAgain` | the three invariants of the peripheral |
| | `PeripheralDelivers` | the peripheral implements `Delivery` |
| `CommsProofs` | `ReceivingInOrder`, `ReceivingForgetsNothing` | `DeliveredInOrder`, `NothingForgotten` |
| | `SendingGoesOn`, `SendingIsWhole` | `TxNeverStalls`, `SentWhole` |
| `HciUartProofs` | `TypeCorrect`, `CreditsSuffice`, `FramingKept` | `TypeOK`, `FlowControlSuffices`, `PacketsAreWhole` |

`VerCompDecides` takes the least position in which two arrays differ and splits
on which of them is larger there. `ComparisonCorrect` is that fact about the running
image, and `NoDowngrade` follows from it and from `ImagesOnlyGetNewer`: an image that
is newer for `ver_comp()` has no lower numbers.

`TypeCorrect` proves `Typed`: the type invariant, and that no work is twice in
the queue. The second is needed for the first, because cancelling a work
removes one place of it: only with unique entries is it then gone. The facts
about submitting, cancelling and taking from the queue are lemmas of
`SharedProofs`, which the peripheral's proofs use for the system work queue.

`RetriesExactlyWhenDown` is not inductive by itself. `LinkInv` adds that
a client that is open belongs to a state that is connected, that the telemetry
timer runs only with a connection, that nothing connects while a reconnect is
also armed or pending, that a reconnect is not both, and that a device which has
not yet connected has no work at all. The proof has one step per action; those
that change the connection go through one lemma each for the lost connection, the
failing send and the reboot, the others through a frame lemma. `SetupIsAnswered`
adds that works and a download of an upgrade exist only once the answer came.

`ConnectionsAreServed` adds `ServedInv`: a connection that came up while the cloud
thread was elsewhere has given the semaphore, and a thread in `poll()` without it
watches the open socket. It assumes that CONNACK comes within a keepalive and that
`poll()` does not fail: either takes the thread away from a connection that stays.
With it the watchdog of a connected device does not fire, which is half of
`RestartsAreJustified`. The other half is `BusyInv`: a download about to start, running or
finished, and the restart it causes, exist only while `ota_state_s` is not ready.

`NothingStalls` is the handshake taken apart: `ConnackInv` says that an open client
that is not connected yet has its answer first among the packets on their way,
`HandshakeInv` that a connected one whose boot was not answered has the subscription,
its SUBACK or the boot check (which restarts a device without an answer) still to
come, or was subscribed under message id 0, and
`UpgradeInv` that an upgrade has its delayed work, its download or its restart ahead.
The lemma `WaitsStep` carries them: work that was submitted stays armed or pending
until it runs or the device restarts, whatever else is cancelled on the way.
It needs that `poll()` does not fail: a connection that the thread has left for that
reason is one nobody reads, with nothing left to happen. That CONNACK is in time it
does not need: a thread that gave up waiting leaves the client open with CONNACK
unread, so `ServedInv` speaks only of connected clients where `silent` is possible.

`ImagesOnlyGetNewer` adds `AheadInv`: when the server announces nothing older than the
running image, nothing older is in `ota_data`, on its way, being downloaded or in the
second slot. A payload may overwrite `ota_data` between the comparison and the
download: what is downloaded need not be what was compared, only not older.
`LifecycleImplemented` takes each step that changes the phase or the image and names the
step of `FirmwareLifecycle` it is; it assumes the same, because a server that
announces an older image can make such a device downgrade (`cloud_overwrite`).

`OnlyTheRightCallback` needs to know what the heap holds: a block whose topic can
still be read is the entry of a subscription, or a freed one whose topic was
cancelled. `EverySubscriberIsFound` adds that each subscription not cancelled is
reached from the first slot, and, during the loop, from the slot it has come to.

`UpgradesAreReal` rests on `TruncationIsSafe`: when `ver_comp()` finds the truncated
numbers newer than those of an image, the numbers before truncation are as well.
`AlarmsAreKept` relates what is left of the chip's count to the seconds that have
passed, for each number of transfers a call still has to make.

`DeviceLifecycle` adds `TrialInv` (an image on trial, in the second slot or being
downloaded is an upgrade of the one before it, confirmed or not) and `AheadInv`: what `ota_data` names during the five seconds is
newer than the running image. Messages that cannot be decoded may leave in `ota_data`
the host of one and the file of another, one text over the end of a longer one, or
what was in memory. `UrlsDiffer` is what keeps such a mixture from naming an
older package: the hosts, or else the files, of two packages differ before one of them ends,
and no text that was never read begins one. It is a condition on the server's
names, not something the code sees to: `decode_ota_data()` writes no terminator, and
where `update.bin` and `update.bin2` are both packages the second can be
downloaded after the first was announced. TLC checks that the packages of the run meet it.

`DeliveryImplemented` and `PeripheralDelivers` share the invariant `Fresh`: what waits
for a peer is newer than what it received and than its connection, and waits in
order. It survives a lost connection because the slot is purged: for the
peripheral even while publishing interrupts `disconnected()`, since it drops the
connection first; for the central only without `isr` in the environment. With it, a
message put into a purged queue (`ble_isr`) is sent to the next peripheral, or waits
there with nobody to send it, so `DeliveryImplemented` and `NothingIsStranded`
exclude it; that part of the invariant is conditional (`Quiet`), and the
other four theorems of the central hold with `isr` as well. The message the peripheral's send
work has taken is covered by the same invariant with that message appended.
`NothingIsStranded` and `PeripheralQueuedIsSent` need that whoever finds a queue not empty
leaves the send work pending, a step of it to come, or a completion on its way.
`SlotsAreTyped` needs how far the count of connections is from the number of ready
slots.

`EveryConnectionServed` is a counting argument: the stack has at most as many
connections as there are slots, one that is being established has none, and a slot
belongs to one connection, so an injection of the slots into the other connections
would be too large; `connected()` therefore finds a free slot. `HubKeepsLooking` counts
the other way round: with a free slot and every connection in a slot of its own, the
stack still accepts one, so a match of the scan filter leads to a connection. That
`discovery_completed()` does not stop scanning too early needs `CleanInv`: as long as
no service was missing and no security changed again, nobody ready is discovered a
second time, and `m_num_connected` is never above the number of ready slots.

`HandlersAreFound` proves that the subscription table is a map: one entry for each
subscribed name, with the handler subscribed last; the entry that is written and
not yet counted has a name no counted one has. The events in the queue are in the
order of arrival and newer than the last one dispatched. `PeripheralTyped` bounds
the notifications under way by counting: what was published on the connection is
waiting, taken, under way or completed.

The proofs of `Comms` treat the two directions apart, as no step changes both.
For `SendingGoesOn`, `StallInv` follows the bytes that are claimed: whenever the block being
transmitted is released, something is left to claim or the ring is empty (`Leaves`), also
when a write in between dropped a claim that was not its own, so that the release fails.
`WholeInv` says that without an overlap the block is the front of the ring. For
`ReceivingInOrder` the invariant has to say of every byte in the ring and on the line
which message it belongs to: `Lie` places each message that is not delivered at a
position, the next one behind it, the first before the start of the ring when
part of it was already copied (`Framed`). A byte that is taken from the front
moves all positions by one, what arrives extends the last, and `Parse` hands on exactly the
first. `ReceivingForgetsNothing` adds `WakeInv`: from the claim to the wait,
either the claim took all there was, or the signal is given, or the claim was cut: it took the
most a claim asks for, or ended at the end of the ring's memory. That a claim stops for no other
reason is a conjunct of `Claims`, proved of `Claimable` in `ClaimFacts`.

`HciUartProofs` has one invariant. `PoolInv` counts: the free buffers of a type, the one
being filled and the queued ones are as many as the pool has, which also gives the
type invariant its bound. `Reads(d)` says that `d` packets were begun and, as in
`Comms`, where each of the packets not yet read lies on the line (`Framed`), what is
in the buffer (`Filling`), which packets were passed on (`Ordered`: those that fit, by
counting them with `Fitting`) and, of a host that keeps to its credits, that credits, unread
packets, buffers in use and events on the way are together no more than the
credits given (`FlowInv`). As the credits are at most the buffers, a
type byte that is read then finds one, which is `CreditsSuffice`. The framing and the flow
control need each other: that the byte read is the type of a packet is the first, that there is a
buffer for it the second.

With these, every safety property of the passing runs is a theorem. Only
model-checked are the liveness properties (`Reconnects`, `BootResolves`,
`UpgradeEnds`, `CreditsReturn`, `BuffersComeBack`), which this prover cannot
treat. Where a theorem excludes `silent`, `pollerr`, `older` or `isr`, the
code does not keep the property with it (section 3).

## 5. Not modelled

* `cellular`: modem commands in a row, each checked and returned. Its state is the
  last signal strength, which a callback writes; `cellular_info_get()` never sets its
  out parameter from it.
* The encoders of the telemetry and of the OTA request: they keep no state.
* The applications: they are the environment of the modules (a timer that publishes,
  subscriptions from the main thread, the use of the clock).
* The manifest generator, a build script; the mount of the flash file system, which
  nothing reads or writes.
* The manager under the central, where it queues and dispatches as it does under the
  peripheral; its status LED, the encoding of an event and the raw handler.
* The UART's receive buffers (a memory slab of twelve, of which the driver holds two).
* Stack sizes, memory other than the callbacks' heap, timing other than the order
  of events, the watchdog race and the clock's seconds.

## 6. Plan

Written, in this order: `VersionCompare`, `WorkQueue`, `FirmwareLifecycle`,
`PyrinasCloud` with its proofs, `BleCentral`, `Comms`, `BleManager`,
`BlePeripheral`, `AppCallbacks`, `HciUart`, `OtaCodec`, `Pcf85063a`, `Device`,
`Delivery`, and the proofs of each of them.

Left:

1. A hub and a client over one link: `BleCentral` and `BlePeripheral` composed,
   with `Delivery` chained into the manager's dispatch.
2. Proofs: the invariants on which the liveness properties rest, for the environments
   that `NothingStalls` leaves out (what is then still guaranteed: the watchdog).
