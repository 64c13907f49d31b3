---------------------------- MODULE MCStateStream ----------------------------
(* Instances of StateStream for TLC.                                       *)
EXTENDS StateStream, TLC

CONSTANTS u1, u2

UnitOrder == <<u1, u2>>
ClientSymmetry == Permutations(Clients)
=============================================================================
