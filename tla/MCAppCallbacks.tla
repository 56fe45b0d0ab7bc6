--------------------------- MODULE MCAppCallbacks ---------------------------
(* Three topics, one of them a prefix of another, and a third that fills   *)
(* its field.                                                              *)
EXTENDS AppCallbacks, TLC

MCTopics == {"cfg", "cfgs", "sixteen-chars-xx"}
MCFullLength == {"sixteen-chars-xx"}
MCPrefix == [t \in MCTopics |-> IF t = "cfg" THEN {"cfg", "cfgs"} ELSE {t}]

(* No definition tells one block or one callback from another. *)
Symmetry == Permutations(Blocks) \cup Permutations(Callbacks)
=============================================================================
