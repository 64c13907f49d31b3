---------------------------- MODULE MCUnitManager ----------------------------
(* Instances of UnitManager for TLC: the runs differ in who does what.      *)
EXTENDS UnitManager, TLC

CONSTANTS Power, Temp

On(p, t) == [f \in Fields |-> IF f = Power THEN p ELSE t]

\* One change is enough where values do not matter.
OneChange == {On(1, 1)}

CallerSymmetry == Permutations(Callers)
=============================================================================
