-------------------------- MODULE FirmwareLifecycle --------------------------
(***************************************************************************)
(* What the firmware promises about updates, whatever the network does: it *)
(* asks for an update before the application is set up, and from the       *)
(* moment an update was found it either reboots into an image that is an   *)
(* upgrade of the running one or reboots into the running one.  Any other  *)
(* restart, by the watchdog, leaves the image alone.  An image counts as   *)
(* the device's own once it is confirmed, or once the one before it was    *)
(* overwritten by the next.                                                *)
(***************************************************************************)
EXTENDS VersionCompare

CONSTANTS Versions,      \* the versions of the images that exist
          InitialImage   \* the one the device leaves the factory with

VARIABLES image,   \* the version of the image that is executing
          phase    \* what the device is doing

vars == <<image, phase>>

Init == image = InitialImage /\ phase = "checking"

(* The server knows of no newer image: the application is set up.          *)
Proceed ==
  /\ phase = "checking"
  /\ phase' = "running"
  /\ UNCHANGED image

(* A newer image was announced, while checking or at any time later.       *)
BeginUpgrade ==
  /\ phase # "upgrading"
  /\ \E v \in Versions : ver_comp(image, v) = 1
  /\ phase' = "upgrading"
  /\ UNCHANGED image

(* The device reboots: into the new image, or into the old one after an    *)
(* error.                                                                  *)
Restart ==
  /\ phase = "upgrading"
  /\ phase' = "checking"
  /\ image' \in {image} \cup {v \in Versions : ver_comp(image, v) = 1}

(* An image that is on trial, since it could not be confirmed, is replaced *)
(* by the next: now it is the one to go back to.                           *)
ReplaceTrial ==
  /\ phase = "upgrading"
  /\ image' \in {v \in Versions : ver_comp(image, v) = 1}
  /\ UNCHANGED phase

(* The watchdog resets a device whose application runs.                    *)
Reset ==
  /\ phase = "running"
  /\ phase' = "checking"
  /\ UNCHANGED image

Next == Proceed \/ BeginUpgrade \/ Restart \/ ReplaceTrial \/ Reset

Spec == Init /\ [][Next]_vars

(* Once an upgrade was begun the device restarts.                          *)
FairSpec == Spec /\ WF_vars(Restart)
-----------------------------------------------------------------------------
TypeOK == image \in Versions /\ phase \in {"checking", "running", "upgrading"}

(* The source's comparison (first difference decides) is the lexicographic *)
(* order: for the running image and every image that exists, ver_comp says *)
(* 1 exactly for an upgrade, -1 exactly for an older number and 0 exactly  *)
(* for the same build.                                                     *)
ComparisonIsLexicographic ==
  \A v \in Versions :
    /\ ver_comp(image, v) = 1 <=> Upgrade(image, v)
    /\ ver_comp(image, v) = -1 <=> NumLess(v, image)
    /\ ver_comp(image, v) = 0 <=> v = image

(* Over any number of upgrades the version numbers never go down (the hash *)
(* may change in both directions: ver_comp calls any other hash newer).    *)
NumbersNeverDecrease == [][~ NumLess(image', image)]_vars
=============================================================================
