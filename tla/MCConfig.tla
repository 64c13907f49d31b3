------------------------------ MODULE MCConfig ------------------------------
(* An instance of Config for TLC: threads, units and addresses are each       *)
(* interchangeable.                                                        *)
EXTENDS Config, TLC

Alike == Permutations(Workers) \cup Permutations(Units) \cup Permutations(Addresses)
=============================================================================
