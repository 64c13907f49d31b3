------------------------------ MODULE MCPairing ------------------------------
(* An instance of Pairing for TLC: the devices are interchangeable.         *)
EXTENDS Pairing, TLC

DeviceSymmetry == Permutations(Devices)
=============================================================================
