----------------------------- MODULE ByteStream -----------------------------
(***************************************************************************)
(* What a buffered writer promises, whatever its buffers: the consumer     *)
(* gets the accepted bytes in the order in which they were accepted, each  *)
(* once, never ahead of their acceptance, and nothing after the close.     *)
(* Bytes are numbered from 1 in the order of acceptance.                   *)
(***************************************************************************)
EXTENDS Integers, Sequences

VARIABLES accepted,  \* how many bytes have been accepted
          played,    \* numbers of the bytes delivered, in order of delivery
          closed

Init == accepted = 0 /\ played = <<>> /\ closed = FALSE

Accept ==
  /\ ~closed
  /\ accepted' \in Nat /\ accepted' > accepted
  /\ UNCHANGED <<played, closed>>

Play ==
  /\ ~closed
  /\ \E n \in 1..(accepted - Len(played)) :
       played' = played \o [i \in 1..n |-> Len(played) + i]
  /\ UNCHANGED <<accepted, closed>>

Close ==
  /\ closed' = TRUE
  /\ UNCHANGED <<accepted, played>>

Next == Accept \/ Play \/ Close

Spec == Init /\ [][Next]_<<accepted, played, closed>>
=============================================================================
