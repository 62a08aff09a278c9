------------------------------ MODULE MCVdecCore ------------------------------
(* Small instances of VdecCore for TLC. *)
EXTENDS VdecCore, TLC

CONSTANTS a, b, m, s

DualMaster == s :> m
NoMaster   == [v \in {} |-> a]
=============================================================================
