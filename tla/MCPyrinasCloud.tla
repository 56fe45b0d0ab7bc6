--------------------------- MODULE MCPyrinasCloud ---------------------------
(* Instances of PyrinasCloud for TLC: a few versions and OTA messages. *)
EXTENDS PyrinasCloud

V(major, h) == [raw |-> <<major, 0, 0, 0>>, hash |-> h]
h0 == "h0"
h1 == "h1"
MCHash == {h0, h1}

Old == V(1, h0)
New == V(2, h0)
Newer == V(3, h0)
Rebuilt == V(2, h1)

Good(v) == [version |-> v, url |-> TRUE, ok |-> TRUE]
Truncated(v) == [version |-> v, url |-> TRUE, ok |-> FALSE]
Garbage(v) == [version |-> v, url |-> FALSE, ok |-> FALSE]

TwoVersions == {Old, New}
ThreeVersions == {Old, New, Newer}

SameAndNew == {Good(Old), Good(New)}
OldAndNewer == {Good(Old), Good(Newer)}
TwoUpgrades == {Good(New), Good(Newer), Garbage(Old)}
AllMessages == TwoUpgrades \cup {Truncated(Newer)}
=============================================================================
