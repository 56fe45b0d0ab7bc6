------------------------------- MODULE Device -------------------------------
(***************************************************************************)
(* A device from boot to boot: main() with the clock it starts, the OTA    *)
(* messages that are decoded once the cloud is connected, the download     *)
(* they begin, and MCUboot, which swaps a downloaded image in on trial and *)
(* takes it back unless main() confirms it.  The connection itself is      *)
(* PyrinasCloud; here only what survives, or does not survive, a restart.  *)
(***************************************************************************)
EXTENDS OtaCodec, Pcf85063a

CONSTANTS
  Packages,        \* the images the server has, with the URLs they are at
  InitialImage,    \* version of the image the device left the factory with
  None

(* What the server knows of an image; the numbers have any size.           *)
Package == [raw : [1 .. VER_ENTIRES -> Nat], hash : Hash, host : Texts, file : Texts]

(* A URL names one image.                                                  *)
ASSUME DeviceAssumption ==
  /\ Packages \subseteq Package
  /\ \A p, q \in Packages : p.host = q.host /\ p.file = q.file => p = q
  /\ InitialImage \in Version
  /\ None \notin Version \cup Package

VARIABLES
  main_pc,         \* where main() is
  update,          \* "none", "started" (the five seconds) or "downloading"
  ota_data,
  announced,       \* the package whose message began the upgrade (history)
  whole,           \* nothing else was copied over its URL (history)
  fetched,         \* the package being downloaded, or None
  image,           \* version of the image that executes
  previous,        \* the image MCUboot goes back to, None once confirmed
  slot             \* image MCUboot swaps in at the next boot, or None

otaVars   == <<update, ota_data, announced, whole, fetched>>
flashVars == <<image, previous, slot>>
vars == <<main_pc, otaVars, flashVars, rtcVars>>

Versions == {InitialImage} \cup {AsVersion(p) : p \in Packages}

TypeOK ==
  /\ main_pc \in {"bsdlib", "confirm", "rtc", "alarm", "modem", "connect", "wait", "app", "halted"}
  /\ update \in {"none", "started", "downloading"}
  /\ announced \in Packages \cup {None} /\ whole \in BOOLEAN
  /\ fetched \in Packages \cup {None}
  /\ image \in Versions
  /\ previous \in Versions \cup {None} /\ slot \in Versions \cup {None}
  /\ RtcTypes

RamInit ==
  /\ main_pc = "bsdlib"
  /\ update = "none" /\ ota_data = NoData
  /\ announced = None /\ whole = FALSE /\ fetched = None

Init ==
  /\ RamInit /\ RtcInit
  /\ image = InitialImage /\ previous = None /\ slot = None
-----------------------------------------------------------------------------
(* A reset, for whatever reason and at any time: sys_reboot(), a failed    *)
(* __ASSERT, the watchdog, the power.  MCUboot swaps the downloaded image  *)
(* in, or takes the last one back if it was not confirmed: unless the      *)
(* download of the next has overwritten that.                              *)
Reset ==
  /\ main_pc' = "bsdlib"
  /\ update' = "none" /\ ota_data' = NoData
  /\ announced' = None /\ whole' = FALSE /\ fetched' = None
  /\ \/ /\ slot # None
        /\ image' = slot /\ previous' = image
     \/ /\ slot = None /\ previous # None
        /\ image' = previous /\ previous' = None
     \/ /\ slot = None /\ (previous = None \/ update = "downloading")
        /\ previous' = None /\ UNCHANGED image
  /\ slot' = None
  /\ RtcReset

(* main(): with an update of the modem installed, or without the modem's   *)
(* library, it does nothing more.                                          *)
Bsdlib ==
  /\ main_pc = "bsdlib"
  /\ main_pc' \in {"confirm", "halted"}
  /\ UNCHANGED <<otaVars, flashVars, rtcVars>>

(* boot_write_img_confirmed(); whether it failed is not looked at, and the *)
(* image then stays on trial.                                              *)
Confirm ==
  /\ main_pc = "confirm"
  /\ previous' \in {None, previous}
  /\ main_pc' = "rtc"
  /\ UNCHANGED <<otaVars, image, slot, rtcVars>>

(* rtc_init() sets an alarm; an error is only logged.                      *)
RtcInitialised ==
  /\ main_pc = "rtc"
  /\ \E t \in Ticks : SetAlarm(t)
  /\ main_pc' = "alarm"
  /\ UNCHANGED <<otaVars, flashVars>>

(* The clock did not answer pcf85063a_init() when the kernel started: the  *)
(* device cannot be bound, and no alarm is set.                            *)
RtcMissing ==
  /\ main_pc = "rtc"
  /\ main_pc' = "modem"
  /\ UNCHANGED <<otaVars, flashVars, rtcVars>>

RtcReturns ==
  /\ main_pc = "alarm" /\ transfers = <<>>
  /\ main_pc' = "modem"
  /\ UNCHANGED <<otaVars, flashVars, rtcVars>>

(* cellular_configure() and pyrinas_cloud_connect() return; that they fail *)
(* and assert is one of the reasons for Reset.                             *)
Connect ==
  /\ \/ main_pc = "modem" /\ main_pc' = "connect"
     \/ main_pc = "connect" /\ main_pc' = "wait"
  /\ UNCHANGED <<otaVars, flashVars, rtcVars>>

(* The application has the clock to itself.                                *)
AppUsesClock ==
  /\ main_pc = "app"
  /\ \/ \E t \in Ticks : SetAlarm(t)
     \/ CancelAlarm \/ StartStop("start") \/ StartStop("stop")
  /\ UNCHANGED <<main_pc, otaVars, flashVars>>

Clock ==
  /\ Transfer \/ TransferFails \/ Second
  /\ UNCHANGED <<main_pc, otaVars, flashVars>>
-----------------------------------------------------------------------------
(* publish_evt_handler() on the OTA topic.                                 *)

(* Wrong variant: the arguments of ver_comp() the other way round.         *)
OlderThanImage(v) == ver_comp(v, image) = 1
NewerThanImage(v) == ver_comp(image, v) = 1

(* The texts that were there are no longer than the ones copied over them. *)
Covered(p) ==
  Len(ota_data.host) <= Len(p.host) /\ Len(ota_data.file) <= Len(p.file)

Online == main_pc \in {"wait", "app"}

(* A message about package p of which the item bad cannot be read.         *)
Announces(p, bad) ==
  /\ Online /\ update \in {"none", "started"}
  /\ ota_data' \in decode_ota_data(ota_data, p, bad)
  /\ ~ Error(bad) /\ NewerThanImage(ota_data'.version)
  /\ update' = "started"
  /\ announced' = p /\ whole' = Covered(p)
  /\ UNCHANGED <<main_pc, fetched, flashVars, rtcVars>>

(* To a device that upgrades the server announces only newer images: what  *)
(* another message does to ota_data then is the subject of PyrinasCloud's  *)
(* OnlyNewerImages.                                                        *)
SaysNothingNew(p, bad) ==
  /\ Online /\ update \in {"none", "started"}
  /\ update = "started" => NewerThanImage(AsVersion(p)) \/ bad \in {"map", "version"}
  /\ ota_data' \in decode_ota_data(ota_data, p, bad)
  /\ Error(bad) \/ ~ NewerThanImage(ota_data'.version)
  /\ main_pc' = IF update = "none" THEN "app" ELSE main_pc
  /\ whole' = (whole /\ bad \in {"map", "version"})
  /\ UNCHANGED <<update, announced, fetched, flashVars, rtcVars>>

(* fota_start_fn(), five seconds later: the download of whatever ota_data  *)
(* now names.  When that is nothing, the download fails (Reset).           *)
StartDownload ==
  /\ update = "started"
  /\ \E p \in Packages :
       /\ p.host = ota_data.host /\ p.file = ota_data.file
       /\ fetched' = p
  /\ update' = "downloading"
  /\ UNCHANGED <<main_pc, ota_data, announced, whole, flashVars, rtcVars>>

(* The image is in the second slot; the reboot is a matter of seconds.     *)
Downloaded ==
  /\ update = "downloading" /\ slot = None
  /\ slot' = AsVersion(fetched)
  /\ UNCHANGED <<main_pc, otaVars, image, previous, rtcVars>>
-----------------------------------------------------------------------------
Bad == {"none", "map", "version", "host", "file", "force", "tail"}

Next ==
  \/ Reset \/ Bsdlib \/ Confirm \/ RtcInitialised \/ RtcMissing \/ RtcReturns \/ Connect
  \/ AppUsesClock \/ Clock
  \/ \E p \in Packages, bad \in Bad : Announces(p, bad) \/ SaysNothingNew(p, bad)
  \/ StartDownload \/ Downloaded

Spec == Init /\ [][Next]_vars

(* An announcement starts an upgrade only if its numbers are higher than   *)
(* those of the running image, or are the same with another hash, before   *)
(* they are truncated to bytes; and no message that could not be decoded   *)
(* starts one.                                                             *)
UpgradeIsReal == update # "none" => Upgrade(image, announced)

(* What is downloaded is the package that was announced, also after        *)
(* messages that could not be decoded: unless an earlier message left a    *)
(* longer text in ota_data, or a later one got as far as its URL.          *)
UrlIsAnnounced == update = "downloading" /\ whole => fetched = announced

(* The update lifecycle.  An image on trial is the last step of an upgrade *)
(* that has not been completed: until main() confirms it, or the one       *)
(* before is overwritten, the device may go back to that.                  *)
Lifecycle == INSTANCE FirmwareLifecycle
  WITH image <- IF previous # None THEN previous ELSE image,
       phase <- IF previous # None \/ update # "none" THEN "upgrading"
                ELSE IF main_pc = "app" THEN "running" ELSE "checking"

(* What keeps the download of a mixture of two URLs from being that of an  *)
(* older image: the hosts, or the files, of the packages differ before     *)
(* either of them ends, and no text that was never read begins one.        *)
Part(x, part) == IF part = "host" THEN x.host ELSE x.file
Begins(start, text) ==
  Len(start) <= Len(text) /\ \A i \in 1 .. Len(start) : start[i] = text[i]

UrlsDiffer ==
  \E part \in {"host", "file"} :
    /\ \A p, q \in Packages : Begins(Part(p, part), Part(q, part)) => p = q
    /\ \A j \in Junk, q \in Packages : Begins(j, Part(q, part)) => j = <<>>

(* Through every reset at any step of the boot, of the decoding and of the *)
(* download, the device goes through the update lifecycle.                 *)
Refines == Lifecycle!Spec
=============================================================================
