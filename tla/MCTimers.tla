------------------------------ MODULE MCTimers ------------------------------
(* Instances of Timers for TLC.                                            *)
EXTENDS Timers, TLC

UnitSymmetry == Permutations(Units)
NamedOrAll   == SUBSET Units
=============================================================================
