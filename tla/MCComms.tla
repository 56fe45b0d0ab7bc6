------------------------------ MODULE MCComms ------------------------------
(* Comms for TLC: rings of a few bytes, so that claims end with the        *)
(* memory, writes do not fit and the receive ring overflows.               *)
EXTENDS Comms
=============================================================================
