--------------------------- MODULE VersionCompare ---------------------------
(***************************************************************************)
(* ver_comp() of pyrinas_cloud_helper.c: the comparison of the firmware's  *)
(* own version with the one an OTA message announces, which alone decides  *)
(* whether a new image is downloaded.                                      *)
(***************************************************************************)
EXTENDS Integers

CONSTANT Hash            \* the git hashes, compared byte by byte by memcmp

VER_ENTIRES == 4         \* major, minor, patch, commit
Byte == 0 .. 255         \* uint8_t

(* union pyrinas_cloud_ota_version *)
Version == [raw : [1 .. VER_ENTIRES -> Byte], hash : Hash]

(* Wrong variant: the loop goes on after the first entry that differs.     *)
ver_comp_last(first, second) ==
  LET differ == {i \in 1 .. VER_ENTIRES : first.raw[i] # second.raw[i]}
      i == CHOOSE i \in differ : \A j \in differ : i >= j
  IN  CASE differ # {} /\ first.raw[i] > second.raw[i] -> -1
        [] differ # {} /\ first.raw[i] < second.raw[i] -> 1
        [] differ = {} /\ first.hash # second.hash -> 1
        [] differ = {} /\ first.hash = second.hash -> 0

(* -1 if first is greater, 0 if they are equal, 1 if second is greater or  *)
(* has the same numbers and another hash.  The loop of the source returns  *)
(* at the first entry that differs.                                        *)
ver_comp(first, second) ==
  LET differ == {i \in 1 .. VER_ENTIRES : first.raw[i] # second.raw[i]}
      i == CHOOSE i \in differ : \A j \in differ : i <= j
  IN  CASE differ # {} /\ first.raw[i] > second.raw[i] -> -1
        [] differ # {} /\ first.raw[i] < second.raw[i] -> 1
        [] differ = {} /\ first.hash # second.hash -> 1
        [] differ = {} /\ first.hash = second.hash -> 0
-----------------------------------------------------------------------------
(* Reference definitions: the lexicographic order on the four numbers.     *)
NumLess(v, w) ==
  \E i \in 1 .. VER_ENTIRES :
    /\ \A j \in 1 .. i - 1 : v.raw[j] = w.raw[j]
    /\ v.raw[i] < w.raw[i]

SameNumbers(v, w) == \A i \in 1 .. VER_ENTIRES : v.raw[i] = w.raw[i]

(* What an upgrade is: higher numbers, or another build of the same ones.  *)
Upgrade(v, w) == NumLess(v, w) \/ (SameNumbers(v, w) /\ v.hash # w.hash)
=============================================================================
