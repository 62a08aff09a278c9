------------------------------ MODULE MCVdecSwap ------------------------------
(* A small instance of VdecSwap for TLC. *)
EXTENDS VdecSwap, TLC

CONSTANTS a, m, s

DualMaster == s :> m
=============================================================================
