------------------------------ MODULE MCPtsServ ------------------------------
(* Small instances of PtsServ for TLC. *)
EXTENDS PtsServ

VideoAndAudio == {"video", "audio"}
JustVideo     == {"video"}
ZeroAndTwo    == {0, 2}
JustOne       == {1}
=============================================================================
