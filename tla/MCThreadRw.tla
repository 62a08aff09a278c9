----------------------------- MODULE MCThreadRw -----------------------------
(* Small instances of ThreadRw for TLC. *)
EXTENDS ThreadRw, TLC

CONSTANTS w1, w2

OneWriter  == {w1}
TwoWriters == {w1, w2}
Symmetry   == Permutations(Writers)
ShortAndLong == {1, 5}
OneOrThree   == {1, 3}
=============================================================================
