-------------------------------- MODULE MCFetch --------------------------------
(***************************************************************************)
(* Two units in two of Meiju's homes: neither has a token, or one has, or    *)
(* both have; and both are named, to fetch theirs again.                     *)
(***************************************************************************)
EXTENDS Fetch

MCHomeOf  == [u \in Units |-> IF u = "u1" THEN "home1" ELSE "home2"]
MCHomes   == <<"home1", "home2">>
MCUnitSeq == <<"u1", "u2">>
MCStarts  == {[stored |-> [u \in Units |-> None], asked |-> <<>>],
              [stored |-> [u \in Units |-> IF u = "u1" THEN "old" ELSE None], asked |-> <<>>],
              [stored |-> [u \in Units |-> "old"], asked |-> <<>>],
              [stored |-> [u \in Units |-> "old"], asked |-> <<"u2", "u1">>]}
=============================================================================
