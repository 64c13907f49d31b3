------------------------ MODULE MCUnitManagerContract ------------------------
(* Instances of UnitManagerContract for TLC.                               *)
EXTENDS UnitManagerContract, TLC

CONSTANTS Power, Temp

On(p, t) == [f \in Fields |-> IF f = Power THEN p ELSE t]

\* Off; on and warm.
MCChanges == {On(0, Absent), On(1, 1)}

CallerSymmetry == Permutations(Callers)
=============================================================================
