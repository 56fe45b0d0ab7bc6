---------------------------- MODULE PyrinasCloud ----------------------------
(***************************************************************************)
(* The cloud connection of the firmware: subsys/pyrinas_cloud and the part *)
(* of lib/app/main.c that boots, connects, reconnects and gates the        *)
(* application on the OTA check.                                           *)
(*                                                                         *)
(* Threads: main(); the application's work queue main_tasks_q; the cloud   *)
(* thread pyrinas_cloud_process(); the system work queue (reboot only);    *)
(* the download client of the FOTA library.  MQTT callbacks run inline, on *)
(* whichever thread called the MQTT library: a write that fails on the     *)
(* work queue runs the DISCONNECT handler there, while the cloud thread is *)
(* anywhere in its loop.  The work queue is cooperative, so an item is one *)
(* step unless it blocks; only mqtt_connect() is split in two.  The cloud  *)
(* thread has the lowest priority and is split wherever it may be          *)
(* preempted between reading state and acting on it.                       *)
(***************************************************************************)
EXTENDS VersionCompare, WorkQueue, FiniteSets

CONSTANTS
  Versions,        \* versions of the images that exist
  InitialImage,    \* the image the device first boots
  OtaMessages,     \* payloads the server may publish on the OTA topic
  Ids,             \* the values sys_rand32_get() may return as a message id
  Environment,     \* which of EnvironmentEvents may happen
  MaxInFlight,     \* bound: packets on the way to the device when the server pushes
  None

(* What the outside world may do beyond answering:                         *)
(*   drop: the link dies           refuse: the broker refuses a session    *)
(*   noconnect: connect fails      silent: CONNACK later than a keepalive  *)
(*   pollerr: poll() fails         oversize: a payload cannot be read      *)
(*   dlfail: the download fails    push: the server publishes unasked      *)
(*   older: it announces an older version than the one running             *)
(*   mute: it leaves a request unanswered                                  *)
(*   leave: the application calls pyrinas_cloud_disconnect()               *)
EnvironmentEvents ==
  {"drop", "refuse", "noconnect", "silent", "pollerr", "oversize", "dlfail",
   "push", "older", "mute", "leave"}

(* A payload as decode_ota_data() leaves it: the version, whether the host *)
(* and file were written to ota_data, whether decoding succeeded.  The     *)
(* host and file name the image of that same version.                      *)
OtaMessage ==
  {m \in [version : Versions, url : BOOLEAN, ok : BOOLEAN] : m.ok => m.url}

ASSUME CloudAssumption ==
  /\ Versions \subseteq Version
  /\ InitialImage \in Versions
  /\ OtaMessages \subseteq OtaMessage
  /\ Ids \subseteq Nat
  /\ Environment \subseteq EnvironmentEvents
  /\ MaxInFlight \in Nat
  /\ None \notin Versions

VARIABLES
  \* main.c
  main_pc,             \* "connect", "wait" (k_sem_take) or "app" (setup() was called)
  proceed,             \* main_thread_proceed_sem
  \* pyrinas_cloud.c, shared by the threads
  cloud_state_s, ota_state_s, initial_ota_check,
  ota_sub_message_id,
  ota_data,            \* the version of the image ota_data.host and .file name
  telemetry_timer,     \* TRUE while the k_timer runs
  \* the cloud thread
  pc,                  \* where pyrinas_cloud_process() is
  thread_sem,          \* pyrinas_cloud_thread_sem
  revents,             \* what poll() returned in fds.revents
  polled,              \* the socket poll() watches is the client's open one
  result,              \* publish_evt_handler: ver_comp() found a newer version
  fed,                 \* wdt_feed() is recent enough to outlast a k_sem_take()
  \* work
  queue,               \* main_tasks_q: the pending items, oldest first
  armed,               \* delayed items whose timeout is running
  connecting,          \* the work queue is inside mqtt_connect()
  reboot_work,         \* ota_reboot_work is pending on the system work queue
  \* the MQTT client and the broker
  client,              \* "idle", "tcp" (CONNECT sent) or "connected"
  link,                \* "up" or "dead", of the client's open connection
  subs,                \* topics the broker has a subscription for
  down,                \* packets on their way to the device
  asked,               \* the server has a check request it has not answered
  \* flash and the download client
  image,               \* version of the image that executes
  slot,                \* image MCUboot will swap in at the next boot
  download             \* image being downloaded

mainVars    == <<main_pc, proceed>>
otaVars     == <<ota_state_s, initial_ota_check, ota_sub_message_id, ota_data>>
localVars   == <<thread_sem, revents, result, fed>>
threadVars  == <<pc, localVars>>
workVars    == <<queue, armed>>
clientVars  == <<cloud_state_s, telemetry_timer, client, link>>
sessionVars == <<clientVars, polled, subs, down>>
flashVars   == <<image, slot, download>>
elsewhere   == <<mainVars, connecting, reboot_work, asked, flashVars>>

vars == <<otaVars, threadVars, workVars, sessionVars, elsewhere>>

DelayedWorks == {"reconnect", "ota_check", "fota"}
Works == DelayedWorks \cup {"on_connect", "ota_request", "ota_done", "telemetry"}

Packets ==
  [type : {"connack", "refused"}] \cup [type : {"suback"}, id : Ids]
    \cup [type : {"publish"}, message : OtaMessages]

OtaTypes ==
  /\ ota_state_s \in {"ready", "started", "downloading", "done", "error"}
  /\ initial_ota_check \in BOOLEAN
  /\ ota_sub_message_id \in Nat
  /\ ota_data \in Versions \cup {None}

ThreadTypes ==
  /\ pc \in {"wait", "check", "poll", "live", "input", "publish", "errors"}
  /\ thread_sem \in BOOLEAN
  /\ revents \subseteq {"in", "err"}
  /\ result \in BOOLEAN /\ fed \in BOOLEAN

WorkTypes == queue \in Seq(Works) /\ armed \subseteq DelayedWorks

SessionTypes ==
  /\ cloud_state_s \in {"disconnected", "connected"}
  /\ telemetry_timer \in BOOLEAN /\ polled \in BOOLEAN
  /\ client \in {"idle", "tcp", "connected"} /\ link \in {"up", "dead"}
  /\ subs \subseteq {"ota", "app"} /\ down \in Seq(Packets)

ElsewhereTypes ==
  /\ main_pc \in {"connect", "wait", "app"} /\ proceed \in BOOLEAN
  /\ connecting \in BOOLEAN /\ reboot_work \in BOOLEAN /\ asked \in BOOLEAN
  /\ image \in Versions
  /\ slot \in Versions \cup {None} /\ download \in Versions \cup {None}

(* The values the firmware's, the broker's and the flash's state may have. *)
TypeOK == OtaTypes /\ ThreadTypes /\ WorkTypes /\ SessionTypes /\ ElsewhereTypes
-----------------------------------------------------------------------------
(* Every variable in RAM as it is after a reset; main() has run up to its  *)
(* call of pyrinas_cloud_connect(), which blocks.                          *)
Init ==
  /\ main_pc = "connect" /\ proceed = FALSE
  /\ cloud_state_s = "disconnected" /\ telemetry_timer = FALSE /\ polled = FALSE
  /\ ota_state_s = "ready" /\ initial_ota_check = FALSE
  /\ ota_sub_message_id = 0 /\ ota_data = None
  /\ pc = "wait" /\ thread_sem = FALSE /\ revents = {} /\ result = FALSE
  /\ fed = TRUE
  /\ queue = <<>> /\ armed = {} /\ connecting = FALSE /\ reboot_work = FALSE
  /\ client = "idle" /\ link = "up" /\ subs = {} /\ down = <<>> /\ asked = FALSE
  /\ image = InitialImage /\ slot = None /\ download = None

(* What MCUboot boots: the image that was downloaded, if there is one.  Two *)
(* wrong variants: a swap that is not asked for, and main() not confirming *)
(* the image it runs, so that MCUboot reverts it.                          *)
SwapAlways  == slot
SwapReverts == IF slot # None THEN slot ELSE InitialImage
BootImage   == IF slot # None THEN slot ELSE image

(* sys_reboot(), or a failed __ASSERT under CONFIG_RESET_ON_FATAL_ERROR:   *)
(* RAM is lost and the socket with it.                                     *)
Reboot ==
  /\ main_pc' = "connect" /\ proceed' = FALSE
  /\ cloud_state_s' = "disconnected" /\ telemetry_timer' = FALSE /\ polled' = FALSE
  /\ ota_state_s' = "ready" /\ initial_ota_check' = FALSE
  /\ ota_sub_message_id' = 0 /\ ota_data' = None
  /\ pc' = "wait" /\ thread_sem' = FALSE /\ revents' = {} /\ result' = FALSE
  /\ fed' = TRUE
  /\ queue' = <<>> /\ armed' = {} /\ connecting' = FALSE /\ reboot_work' = FALSE
  /\ client' = "idle" /\ link' = "up" /\ subs' = {} /\ down' = <<>>
  /\ image' = BootImage
  /\ slot' = None /\ download' = None
  /\ UNCHANGED asked

(* The reconnect work is (re)started.  q and a are the FIFO and the armed  *)
(* items the rest of the step leaves.  Wrong variant: nobody does.         *)
RetryNever(q, a) == queue' = q /\ armed' = a

RetryLater(q, a) ==
  /\ queue' = Cancel(q, "reconnect")
  /\ armed' = a \cup {"reconnect"}

(* The client as client_init() makes it and as the library resets it.      *)
ClientIdle ==
  client' = "idle" /\ link' = "up" /\ subs' = {} /\ down' = <<>> /\ polled' = FALSE

(* The MQTT library closes the connection, resets the client and notifies  *)
(* MQTT_EVT_DISCONNECT, whose handler stops the telemetry timer and calls  *)
(* cloud_state_callback.                                                   *)
ConnectionLost(q, a) ==
  /\ ClientIdle
  /\ telemetry_timer' = FALSE
  /\ cloud_state_s' = "disconnected"
  /\ RetryLater(q, a)

(* mqtt_publish(), mqtt_subscribe(), acknowledgments.  On a live session   *)
(* the broker gets the packet: it then has the subscriptions s and owes    *)
(* the packets p.  Otherwise the call returns an error before it writes,   *)
(* the write is swallowed by a dead link, or it fails and the library      *)
(* closes the connection.                                                  *)
Delivered == client = "connected" /\ link = "up"

Send(q, a, s, p) ==
  \/ /\ Delivered
     /\ subs' = subs \cup s
     /\ down' = down \o p
     /\ queue' = q /\ armed' = a
     /\ UNCHANGED <<clientVars, polled>>
  \/ /\ ~ Delivered
     /\ queue' = q /\ armed' = a
     /\ UNCHANGED sessionVars
  \/ /\ client = "connected" /\ link = "dead"
     /\ ConnectionLost(q, a)

(* subscribe(): the library rejects message id 0.                          *)
Subscribe(q, a, topic, id) ==
  IF id = 0 THEN Send(q, a, {}, <<>>)
            ELSE Send(q, a, {topic}, <<[type |-> "suback", id |-> id]>>)
-----------------------------------------------------------------------------
(* main()                                                                  *)

(* k_sem_give(&pyrinas_cloud_thread_sem): the thread serves the connection *)
(* when it gets back to k_sem_take().  Wrong variant: a notification that  *)
(* only a thread already waiting receives.                                 *)
WokenIfWaiting == thread_sem' = (pc = "wait")
Woken          == thread_sem' = TRUE

(* mqtt_connect() succeeded: CONNECT is sent and the broker will answer.   *)
ConnectSucceeds ==
  /\ cloud_state_s' = "connected"
  /\ Woken
  /\ client' = "tcp" /\ link' = "up"
  /\ \/ down' = <<[type |-> "connack"]>>
     \/ "refuse" \in Environment /\ down' = <<[type |-> "refused"]>>
  /\ UNCHANGED <<telemetry_timer, polled, subs>>

MainConnected ==
  /\ main_pc = "connect"
  /\ ConnectSucceeds
  /\ main_pc' = "wait"
  /\ UNCHANGED <<proceed, otaVars, pc, revents, result, fed, workVars,
                 connecting, reboot_work, asked, flashVars>>

(* The __ASSERT around the first connect.                                  *)
MainConnectFails ==
  /\ main_pc = "connect"
  /\ "noconnect" \in Environment
  /\ Reboot

(* k_sem_take(&main_thread_proceed_sem, K_FOREVER); setup().  Wrong        *)
(* variant: the wait has a timeout.                                        *)
MainProceedsAnyway ==
  /\ main_pc = "wait"
  /\ main_pc' = "app" /\ proceed' = FALSE
  /\ UNCHANGED <<otaVars, threadVars, workVars, connecting, reboot_work,
                 sessionVars, asked, flashVars>>

MainProceeds ==
  /\ main_pc = "wait" /\ proceed
  /\ main_pc' = "app" /\ proceed' = FALSE
  /\ UNCHANGED <<otaVars, threadVars, workVars, connecting, reboot_work,
                 sessionVars, asked, flashVars>>

(* The application publishes: pyrinas_cloud_publish() on its thread.       *)
AppPublishes ==
  /\ main_pc = "app"
  /\ Send(queue, armed, {}, <<>>)
  /\ UNCHANGED <<otaVars, threadVars, elsewhere>>

(* pyrinas_cloud_disconnect(): the callback reconnects all the same.       *)
AppDisconnects ==
  /\ main_pc = "app" /\ "leave" \in Environment
  /\ client = "connected"
  /\ ConnectionLost(queue, armed)
  /\ UNCHANGED <<otaVars, threadVars, elsewhere>>
-----------------------------------------------------------------------------
(* The work queue main_tasks_q: k_work items run one after the other.      *)

Runs(w) == ~ connecting /\ queue # <<>> /\ Head(queue) = w

(* on_connect_fn(): telemetry, then the OTA topic unless an update is in   *)
(* progress.                                                               *)
OnConnect ==
  /\ Runs("on_connect")
  /\ \/ /\ ota_state_s = "ready"
        /\ \E id \in Ids :
             /\ ota_sub_message_id' = id
             /\ Subscribe(Tail(queue), armed, "ota", id)
     \/ /\ ota_state_s # "ready"
        /\ Send(Tail(queue), armed, {}, <<>>)
        /\ UNCHANGED ota_sub_message_id
  /\ UNCHANGED <<ota_state_s, initial_ota_check, ota_data, threadVars,
                 elsewhere>>

(* ota_request_work_fn(): publish_ota_check().                             *)
OtaRequest ==
  /\ Runs("ota_request")
  /\ Send(Tail(queue), armed, {}, <<>>)
  /\ asked' = (asked \/ Delivered)
  /\ UNCHANGED <<mainVars, otaVars, threadVars, connecting, reboot_work,
                 flashVars>>

(* ota_done_work_fn() and publish_telemetry_work_fn() only publish.        *)
PublishOnly ==
  /\ Runs("ota_done") \/ Runs("telemetry")
  /\ Send(Tail(queue), armed, {}, <<>>)
  /\ UNCHANGED <<otaVars, threadVars, elsewhere>>

(* ota_check_subscribed_work_fn(): no answer yet is a failed __ASSERT.     *)
(* Wrong variant: assertions compiled out.                                 *)
AssertDisabled == TRUE
AssertAnswered == initial_ota_check

OtaCheckSubscribed ==
  /\ Runs("ota_check")
  /\ \/ ~ AssertAnswered /\ Reboot
     \/ /\ AssertAnswered
        /\ queue' = Tail(queue)
        /\ UNCHANGED <<otaVars, threadVars, armed, sessionVars, elsewhere>>

(* reconnect_work_fn(): client_init() resets the client and mqtt_connect() *)
(* blocks until it succeeds or fails.  When the state is connected already *)
(* the result -EINPROGRESS differs from EINPROGRESS: it is resubmitted.    *)
Reconnect ==
  /\ Runs("reconnect")
  /\ IF cloud_state_s = "connected"
       THEN /\ RetryLater(Tail(queue), armed)
            /\ UNCHANGED <<connecting, sessionVars>>
       ELSE /\ queue' = Tail(queue)
            /\ connecting' = TRUE
            /\ ClientIdle
            /\ UNCHANGED <<armed, cloud_state_s, telemetry_timer>>
  /\ UNCHANGED <<mainVars, otaVars, threadVars, reboot_work, asked, flashVars>>

ReconnectSucceeds ==
  /\ connecting
  /\ ConnectSucceeds
  /\ connecting' = FALSE
  /\ UNCHANGED <<mainVars, otaVars, pc, revents, result, fed, workVars, reboot_work,
                 asked, flashVars>>

ReconnectFails ==
  /\ connecting /\ "noconnect" \in Environment
  /\ connecting' = FALSE
  /\ RetryLater(queue, armed)
  /\ UNCHANGED <<mainVars, otaVars, threadVars, reboot_work, sessionVars, asked,
                 flashVars>>

(* fota_start_fn(): the download client is given whatever ota_data names   *)
(* now.  A second start while a download runs is the library's to decide.  *)
FotaStarts ==
  /\ Runs("fota")
  /\ queue' = Tail(queue)
  /\ ota_state_s' = "downloading"
  /\ \/ download' = ota_data
     \/ download # None /\ UNCHANGED download
  /\ UNCHANGED <<mainVars, initial_ota_check, ota_sub_message_id, ota_data,
                 threadVars, armed, connecting, reboot_work, sessionVars, asked,
                 image, slot>>

FotaStartFails ==
  /\ Runs("fota")
  /\ "dlfail" \in Environment \/ download # None
  /\ Reboot
-----------------------------------------------------------------------------
(* The cloud thread: pyrinas_cloud_process().  It feeds the watchdog before *)
(* it polls, and when k_sem_take() times out.  Between two feeds of the    *)
(* second kind 55 of the watchdog's 60 seconds pass, so a k_sem_take()     *)
(* that comes more than 5 seconds after the last feed must succeed early.  *)

ThreadWakes ==
  /\ pc = "wait" /\ thread_sem
  /\ thread_sem' = FALSE
  /\ pc' = "check"
  /\ UNCHANGED <<otaVars, revents, result, fed, workVars, sessionVars, elsewhere>>

(* The watchdog resets the device while the thread waits for a connection. *)
WatchdogFires ==
  /\ pc = "wait" /\ ~ thread_sem /\ ~ fed
  /\ Reboot

(* while (cloud_state_s == cloud_state_connected) poll(...)                *)
ThreadChecks ==
  /\ pc = "check"
  /\ \/ cloud_state_s = "connected" /\ pc' = "poll" /\ polled' = TRUE /\ fed' = TRUE
     \/ cloud_state_s = "disconnected" /\ pc' = "wait" /\ UNCHANGED <<polled, fed>>
  /\ UNCHANGED <<otaVars, thread_sem, revents, result, workVars, clientVars, subs,
                 down, elsewhere>>

(* What poll() may report of the socket it watches.  When that socket was  *)
(* closed under it, or the keepalive elapses, it need not report anything. *)
PollResults ==
  {r \in SUBSET {"in", "err"} :
    CASE ~ polled -> r \in {{}, {"err"}}
      [] polled /\ link = "dead" ->
           r # {} \/ client = "connected" \/ "silent" \in Environment
      [] polled /\ link = "up" ->
           \/ r = {"in"} /\ down # <<>>
           \/ r = {} /\ client = "connected" /\ down = <<>>
           \/ r = {} /\ client = "tcp" /\ "silent" \in Environment}

(* poll() lasts any time up to the keepalive, 55 seconds.                  *)
PollTakesTime == fed' \in BOOLEAN

PollReturns ==
  /\ pc = "poll"
  /\ revents' \in PollResults
  /\ PollTakesTime
  /\ pc' = "live"
  /\ polled' = FALSE
  /\ UNCHANGED <<otaVars, thread_sem, result, workVars, clientVars, subs, down,
                 elsewhere>>

(* poll() < 0 leaves the loop without closing the connection.              *)
PollFails ==
  /\ pc = "poll"
  /\ ~ polled \/ "pollerr" \in Environment
  /\ pc' = "wait"
  /\ PollTakesTime
  /\ polled' = FALSE
  /\ UNCHANGED <<otaVars, thread_sem, revents, result, workVars, clientVars, subs,
                 down, elsewhere>>

AfterLive(r) == IF "in" \in r THEN "input" ELSE IF "err" \in r THEN "errors" ELSE "check"
AfterInput   == IF "err" \in revents THEN "errors" ELSE "check"

(* mqtt_live(): -EAGAIN while the keepalive time has not passed ...        *)
ThreadLive ==
  /\ pc = "live"
  /\ pc' = AfterLive(revents)
  /\ UNCHANGED <<otaVars, localVars, workVars, sessionVars, elsewhere>>

(* ... otherwise a ping.  If it cannot be sent the loop is left: with the  *)
(* connection closed by the library when the write failed, but untouched   *)
(* when the client was not (yet) connected.                                *)
ThreadPingFails ==
  /\ pc = "live"
  /\ pc' = "wait"
  /\ \/ client = "connected" /\ link = "dead" /\ ConnectionLost(queue, armed)
     \/ /\ client = "idle" \/ (client = "tcp" /\ "silent" \in Environment)
        /\ UNCHANGED <<workVars, sessionVars>>
  /\ UNCHANGED <<otaVars, localVars, elsewhere>>

(* mqtt_input() on a closed client or a broken connection: the library has *)
(* closed it when mqtt_abort() is called, which then does nothing.         *)
InputFails ==
  /\ pc = "input"
  /\ pc' = "wait"
  /\ \/ client = "idle" /\ UNCHANGED <<workVars, sessionVars>>
     \/ client # "idle" /\ link = "dead" /\ ConnectionLost(queue, armed)
  /\ UNCHANGED <<otaVars, localVars, elsewhere>>

Receives(type) ==
  /\ pc = "input"
  /\ client # "idle" /\ link = "up" /\ down # <<>>
  /\ Head(down).type = type

(* MQTT_EVT_CONNACK, accepted.                                             *)
ReceiveConnack ==
  /\ Receives("connack")
  /\ client' = "connected"
  /\ queue' = Submit(queue, "on_connect")
  /\ telemetry_timer' = TRUE
  /\ down' = Tail(down)
  /\ pc' = AfterInput
  /\ UNCHANGED <<otaVars, localVars, armed, cloud_state_s, link, polled, subs,
                 elsewhere>>

(* MQTT_EVT_CONNACK with an error, which the library follows with a        *)
(* MQTT_EVT_DISCONNECT and an error from mqtt_input(); or a PUBLISH whose  *)
(* payload cannot be read, answered by mqtt_disconnect().                  *)
ReceiveRefused ==
  /\ Receives("refused")
  /\ ConnectionLost(queue, armed)
  /\ pc' = "wait"
  /\ UNCHANGED <<otaVars, localVars, elsewhere>>

ReceiveUnreadable ==
  /\ Receives("publish") /\ "oversize" \in Environment
  /\ ConnectionLost(queue, armed)
  /\ pc' = AfterInput
  /\ UNCHANGED <<otaVars, localVars, elsewhere>>

(* MQTT_EVT_SUBACK: the one for the OTA topic asks for an update and arms  *)
(* the check that the answer came, unless it came.  (Its result is an      *)
(* error only when the library cannot decode it, and mqtt_input() then     *)
(* fails: InputFails.  A code by which the broker refuses is not read.)    *)
(* Wrong variant: the flag tested the wrong way round.                     *)
AwaitedInverted(id) == id = ota_sub_message_id /\ initial_ota_check
Awaited(id)         == id = ota_sub_message_id /\ ~ initial_ota_check

ReceiveSuback ==
  /\ Receives("suback")
  /\ IF Awaited(Head(down).id)
       THEN /\ queue' = Cancel(Submit(queue, "ota_request"), "ota_check")
            /\ armed' = armed \cup {"ota_check"}
       ELSE UNCHANGED workVars
  /\ down' = Tail(down)
  /\ pc' = AfterInput
  /\ UNCHANGED <<otaVars, localVars, clientVars, polled, subs, elsewhere>>

(* MQTT_EVT_PUBLISH on the OTA topic, first half of publish_evt_handler(): *)
(* the payload is decoded into the global ota_data, and compared.          *)
ReceiveOta ==
  /\ Receives("publish")
  /\ LET m == Head(down).message IN
       /\ initial_ota_check' = TRUE
       /\ ota_data' = IF m.url THEN m.version ELSE ota_data
       /\ result' = (m.ok /\ ver_comp(image, m.version) = 1)
  /\ down' = Tail(down)
  /\ pc' = "publish"
  /\ UNCHANGED <<ota_state_s, ota_sub_message_id, thread_sem, revents, fed,
                 workVars, clientVars, polled, subs, elsewhere>>

(* Second half.  A newer version: the download is scheduled; the           *)
(* acknowledgment is sent when the handler returns.                        *)
StartUpgrade ==
  /\ pc = "publish" /\ result
  /\ ota_state_s' = "started"
  /\ Send(Cancel(queue, "fota"), armed \cup {"fota"}, {}, <<>>)
  /\ result' = FALSE
  /\ pc' = AfterInput
  /\ UNCHANGED <<initial_ota_check, ota_sub_message_id, ota_data, thread_sem,
                 revents, fed, elsewhere>>

(* pyrinas_cloud_ota_evt_handler(), told that the state is ota_state_ready. *)
LetMainGo == proceed' = TRUE

(* No newer version: tell the server, subscribe to the application's       *)
(* topic, and let main() go on; nothing while an update is in progress.    *)
NoUpdate ==
  /\ pc = "publish" /\ ~ result
  /\ \/ /\ ota_state_s = "ready"
        /\ \E id \in Ids : Subscribe(Submit(queue, "ota_done"), armed, "app", id)
        /\ LetMainGo
     \/ /\ ota_state_s # "ready"
        /\ Send(queue, armed, {}, <<>>)
        /\ UNCHANGED proceed
  /\ pc' = AfterInput
  /\ UNCHANGED <<main_pc, otaVars, localVars, connecting, reboot_work, asked,
                 flashVars>>

(* POLLERR, POLLNVAL: mqtt_abort() closes whatever connection the client   *)
(* has by now.                                                             *)
ThreadAborts ==
  /\ pc = "errors"
  /\ pc' = "wait"
  /\ \/ client = "idle" /\ UNCHANGED <<workVars, sessionVars>>
     \/ client # "idle" /\ ConnectionLost(queue, armed)
  /\ UNCHANGED <<otaVars, localVars, elsewhere>>
-----------------------------------------------------------------------------
(* Timeouts, the system work queue and the download client.                *)

(* A delayed item's timeout expires: it becomes pending.                   *)
Expires(w) ==
  /\ w \in armed
  /\ armed' = armed \ {w}
  /\ queue' = Submit(queue, w)
  /\ UNCHANGED <<otaVars, threadVars, sessionVars, elsewhere>>

(* telemetry_check_event(), which also restarts its own timer.             *)
TelemetryTick ==
  /\ telemetry_timer
  /\ queue' = Submit(queue, "telemetry")
  /\ UNCHANGED <<otaVars, threadVars, armed, sessionVars, elsewhere>>

(* reboot_work_fn(): what follows sys_reboot() never runs.                 *)
RebootWork == reboot_work /\ Reboot

(* k_work_submit(&ota_reboot_work).  Wrong variant: nobody does.           *)
RebootNever == reboot_work' = reboot_work
RebootSoon  == reboot_work' = TRUE

(* fota_evt(), FOTA_DOWNLOAD_EVT_FINISHED: the image is in the second slot. *)
DownloadFinished ==
  /\ download # None
  /\ slot' = download /\ download' = None
  /\ ota_state_s' = "done"
  /\ RebootSoon
  /\ UNCHANGED <<mainVars, initial_ota_check, ota_sub_message_id, ota_data,
                 threadVars, workVars, connecting, sessionVars, asked, image>>

(* fota_evt(), FOTA_DOWNLOAD_EVT_ERROR.  Wrong variants: the device gives  *)
(* the update up and goes on, or restarts with the state back to ready.    *)
DownloadEnds(state) ==
  /\ download # None /\ "dlfail" \in Environment
  /\ download' = None
  /\ ota_state_s' = state
  /\ UNCHANGED <<mainVars, initial_ota_check, ota_sub_message_id, ota_data,
                 threadVars, workVars, connecting, sessionVars, asked, image, slot>>

DownloadGivenUp     == DownloadEnds("ready") /\ UNCHANGED reboot_work
DownloadFailedReady == DownloadEnds("ready") /\ RebootSoon
DownloadFailed      == DownloadEnds("error") /\ RebootSoon
-----------------------------------------------------------------------------
(* The broker, the server behind it, and the radio link.                   *)

MayPublish(m) == ver_comp(image, m.version) # -1 \/ "older" \in Environment

ToDevice(m) ==
  /\ MayPublish(m)
  /\ down' = IF "ota" \in subs /\ link = "up"
               THEN Append(down, [type |-> "publish", message |-> m]) ELSE down

(* The answer to a check request; it is lost when nobody is subscribed.    *)
ServerAnswers ==
  /\ asked
  /\ asked' = FALSE
  /\ \/ \E m \in OtaMessages : ToDevice(m)
     \/ "mute" \in Environment /\ UNCHANGED down
  /\ UNCHANGED <<mainVars, otaVars, threadVars, workVars, connecting,
                 reboot_work, clientVars, polled, subs, flashVars>>

(* The server announces an image on its own account.                       *)
ServerPushes ==
  /\ "push" \in Environment /\ Len(down) < MaxInFlight
  /\ \E m \in OtaMessages : ToDevice(m)
  /\ UNCHANGED <<otaVars, threadVars, workVars, clientVars, polled, subs,
                 elsewhere>>

(* The connection breaks; what was on its way is lost.                     *)
LinkDies ==
  /\ "drop" \in Environment
  /\ client # "idle" /\ link = "up"
  /\ link' = "dead" /\ down' = <<>>
  /\ UNCHANGED <<otaVars, threadVars, workVars, cloud_state_s, telemetry_timer,
                 client, polled, subs, elsewhere>>
-----------------------------------------------------------------------------
MainThread == MainConnected \/ MainConnectFails \/ MainProceeds

App == AppPublishes \/ AppDisconnects

WorkItem ==
  \/ OnConnect \/ OtaRequest \/ PublishOnly \/ OtaCheckSubscribed
  \/ Reconnect \/ FotaStarts \/ FotaStartFails

CloudThread ==
  \/ ThreadWakes \/ ThreadChecks \/ PollReturns \/ PollFails
  \/ ThreadLive \/ ThreadPingFails
  \/ InputFails
  \/ ReceiveConnack \/ ReceiveRefused \/ ReceiveUnreadable
  \/ ReceiveSuback \/ ReceiveOta \/ StartUpgrade \/ NoUpdate
  \/ ThreadAborts

Download == DownloadFinished \/ DownloadFailed

System ==
  \/ MainThread \/ WorkItem \/ ReconnectSucceeds \/ ReconnectFails
  \/ CloudThread \/ WatchdogFires \/ RebootWork \/ TelemetryTick
  \/ \E w \in DelayedWorks : Expires(w)

Outside == App \/ Download \/ ServerAnswers \/ ServerPushes \/ LinkDies

Next == System \/ Outside

Spec == Init /\ [][Next]_vars

(* The kernel runs every ready thread and expires every timeout; a         *)
(* download ends; the server answers; a device that keeps trying connects; *)
(* pings on a dead link fail in the end, when TCP gives up.                *)
Fairness ==
  /\ WF_vars(MainThread)
  /\ WF_vars(WorkItem)
  /\ SF_vars(ReconnectSucceeds)
  /\ WF_vars(CloudThread)
  /\ SF_vars(ThreadPingFails /\ link = "dead")
  /\ WF_vars(WatchdogFires)
  /\ WF_vars(RebootWork)
  /\ \A w \in DelayedWorks : WF_vars(Expires(w))
  /\ WF_vars(Download)
  /\ WF_vars(ServerAnswers)

FairSpec == Spec /\ Fairness

(* The device is never left without a connection and without a reconnect   *)
(* on its way (on main_tasks_q, waiting for its timeout, or inside         *)
(* mqtt_connect()), and never has both: pyrinas_cloud_connect() is not     *)
(* called on an open connection, whose client it would wipe.               *)
ReconnectComing == "reconnect" \in armed \cup Pending(queue) \/ connecting

ReconnectExactlyWhenDown ==
  main_pc # "connect" => (ReconnectComing <=> cloud_state_s = "disconnected")

(* A connection pyrinas_cloud_is_connected() reports is one whose client   *)
(* is open and which the cloud thread serves or has been woken to serve:   *)
(* a session that came up while the thread was still in poll() on the      *)
(* previous socket is not forgotten.                                       *)
ConnectedIsServed ==
  cloud_state_s = "connected" =>
    /\ client # "idle"
    /\ pc # "wait" \/ thread_sem

(* Nothing is running, pending or on its way any more.                     *)
Quiescent ==
  /\ main_pc # "connect" /\ ~ proceed
  /\ queue = <<>> /\ armed = {} /\ ~ connecting /\ ~ reboot_work
  /\ pc = "poll" \/ (pc = "wait" /\ ~ thread_sem /\ fed)
  /\ down = <<>> /\ link = "up"
  /\ ~ asked /\ download = None

(* The boot handshake (CONNACK, subscription, SUBACK, request, answer) and *)
(* an upgrade that was begun never stall: a device in which nothing is     *)
(* left to happen is connected, has run setup() and is not upgrading.  The *)
(* exception: a subscription under message id 0 is rejected by the library *)
(* and not repeated, and the boot waits until the connection is lost.      *)
NeverStalled ==
  Quiescent =>
    /\ client = "connected" /\ cloud_state_s = "connected" /\ pc = "poll"
    /\ main_pc = "app" \/ ota_sub_message_id = 0
    /\ ota_state_s = "ready"

(* setup() runs only after the server answered the OTA check of this boot, *)
(* and a device that has not been answered is not downloading either.      *)
AnsweredFirst ==
  ~ initial_ota_check =>
    /\ main_pc # "app" /\ ~ proceed
    /\ ota_state_s = "ready"

(* A running application is restarted by an upgrade, or by the watchdog    *)
(* while the device is offline: never by a boot check left over from       *)
(* before, a late failure, or the watchdog of a connected device.          *)
RestartsForAReason ==
  [][main_pc = "app" /\ main_pc' = "connect" =>
       ota_state_s # "ready" \/ cloud_state_s = "disconnected"]_vars

(* publish_evt_handler, "If incoming is greater or hash is not equal": the *)
(* device changes its image only to one that ver_comp() found newer.       *)
OnlyNewerImages == [][image' # image => ver_comp(image, image') = 1]_vars

(* "Subscribe to Application topic": a device at rest whose application    *)
(* runs gets the application's events.                                     *)
ApplicationIsSubscribed == Quiescent /\ main_pc = "app" => "app" \in subs

(* The update lifecycle is what FirmwareLifecycle describes.               *)
Phase ==
  CASE ota_state_s # "ready" -> "upgrading"
    [] ota_state_s = "ready" /\ main_pc = "app" -> "running"
    [] ota_state_s = "ready" /\ main_pc # "app" -> "checking"

Lifecycle == INSTANCE FirmwareLifecycle WITH phase <- Phase

Refines == Lifecycle!Spec

(* A lost connection is reestablished.                                     *)
Reconnects == cloud_state_s = "disconnected" ~> cloud_state_s = "connected"

(* While the connection lasts the handshake gets on: main() is let go on,  *)
(* or the device restarts (to try again, or into a new image).             *)
BootResolves ==
  main_pc = "wait" /\ cloud_state_s = "connected" ~>
    main_pc # "wait" \/ cloud_state_s = "disconnected"

(* An upgrade that was begun ends in a reboot.                             *)
UpgradeEnds == ota_state_s # "ready" ~> main_pc = "connect"
=============================================================================
