-------------------------- MODULE MCBlePeripheral --------------------------
(* Instances of BlePeripheral for TLC. *)
EXTENDS BlePeripheral, TLC

Alike == Permutations(Handlers)
=============================================================================
