------------------------------ MODULE MCServer ------------------------------
(* Instances of Server for TLC.                                            *)
EXTENDS Server

AllBackground == {"runner", "scheduler", "poller", "warm"}
=============================================================================
