------------------------------ MODULE DecoderHw ------------------------------
(***************************************************************************)
(* What the core of the video decoders promises the files and the drivers: *)
(* the hardware belongs to one decoder at most, to one of a connected      *)
(* file, and is not taken away from it; a file that is disconnected gives  *)
(* it back first.                                                          *)
(***************************************************************************)
CONSTANTS
  Files,
  Decoders,
  FileOf(_)    \* the file of a decoder

VARIABLES
  owners,      \* the decoders that have the hardware
  attached     \* the files connected to the core

vars == <<owners, attached>>

Init == owners = {} /\ attached = {}

Attach(f) ==
  /\ attached' = attached \cup {f}
  /\ UNCHANGED owners

Take(v) ==
  /\ owners = {} /\ FileOf(v) \in attached
  /\ owners' = {v}
  /\ UNCHANGED attached

GiveBack(v) ==
  /\ v \in owners
  /\ owners' = owners \ {v}
  /\ UNCHANGED attached

Detach(f) ==
  /\ \A v \in owners : FileOf(v) # f
  /\ attached' = attached \ {f}
  /\ UNCHANGED owners

Next ==
  \/ \E f \in Files : Attach(f) \/ Detach(f)
  \/ \E v \in Decoders : Take(v) \/ GiveBack(v)

Spec == Init /\ [][Next]_vars
=============================================================================
