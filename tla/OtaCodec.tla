------------------------------ MODULE OtaCodec ------------------------------
(***************************************************************************)
(* decode_ota_data() of pyrinas_cloud_codec.c: what an OTA message leaves  *)
(* in the ota_data it is decoded into, whole or not.  QCBOR keeps the      *)
(* first error and returns nothing more after it, but ota_data is written  *)
(* while the message is read, and a text is copied before the error is     *)
(* looked at.                                                              *)
(***************************************************************************)
EXTENDS VersionCompare, Sequences

CONSTANTS Texts,         \* hosts and files, sequences of characters
          Junk           \* what a text that was never read may look like

ASSUME CodecAssumption == Texts \subseteq Seq(STRING) /\ Junk \subseteq Seq(STRING)

(* struct pyrinas_cloud_ota_data, without force, which nobody reads.  A    *)
(* text is the part of its buffer before the first zero.                   *)
NoData ==
  [version |-> [raw |-> [i \in 1 .. VER_ENTIRES |-> 0], hash |-> "zero"],
   host |-> <<>>, file |-> <<>>]

(* The items of a message in the order they are read; tail stands for      *)
(* QCBORDecode_Finish().  Wrong variant: the version is read last.         *)
ItemsVersionLast == <<"map", "host", "file", "version", "force", "tail">>
Items            == <<"map", "version", "host", "file", "force", "tail">>

(* The items that are read before the one that cannot be.                  *)
Got(bad) == {Items[i] : i \in {j \in 1 .. Len(Items) : \A k \in 1 .. j : Items[k] # bad}}

(* decode_ota_version(): the numbers are announced with 64 bits and kept   *)
(* in uint8_t.                                                             *)
AsVersion(p) == [raw |-> [i \in 1 .. VER_ENTIRES |-> p.raw[i] % 256], hash |-> p.hash]

(* memcpy() of a text over an older one, without a terminator.             *)
Overlay(old, text) == text \o SubSeq(old, Len(text) + 1, Len(old))

(* What the texts may be after a message with the given bad item.          *)
Copied(item, old, text, bad) ==
  IF item \in Got(bad) THEN {Overlay(old, text)}
  ELSE IF item = bad THEN {Overlay(old, j) : j \in Junk}
  ELSE {old}

(* A version that is cut short is partly the old one.                      *)
decode_ota_data(old, p, bad) ==
  [version : {AsVersion(p)} \cup IF "version" \in Got(bad) THEN {} ELSE {old.version},
   host : Copied("host", old.host, p.host, bad),
   file : Copied("file", old.file, p.file, bad)]

(* The error decode_ota_data() returns.  Wrong variant: that of the last   *)
(* call instead of the first.                                              *)
ErrorOfTail(bad) == bad = "tail"
Error(bad)       == bad # "none"
=============================================================================
