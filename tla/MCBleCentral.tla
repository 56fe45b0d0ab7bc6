---------------------------- MODULE MCBleCentral ----------------------------
(* Instances of BleCentral for TLC. *)
EXTENDS BleCentral, TLC

Alike == Permutations(Peripherals)
=============================================================================
