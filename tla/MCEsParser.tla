----------------------------- MODULE MCEsParser -----------------------------
(* Small instances of EsParser for TLC. *)
EXTENDS EsParser

CONSTANTS v, a, s,        \* a video, an audio and a subtitle port
          wv, uv, ua, us  \* video's work item, and users that write to each

VideoAndAudio == {v, a}
VideoAndSub   == {v, s}
Video         == {v}
None          == {}

KindOf == [p \in Ports |->
             CASE p = v -> "video" [] p = a -> "audio" [] OTHER -> "sub"]
PortOfThread == [t \in Threads |->
                   CASE t \in {wv, uv} -> v [] t = ua -> a [] OTHER -> s]

WorkerAndAudioUser == {wv, ua}
VideoAndSubUser    == {uv, us}
OnlyWorker    == {wv}
OnlyVideoUser == {uv}
OnlyAudioUser == {ua}

Five  == [p \in Ports |-> 5]
Two   == [p \in Ports |-> 2]

OneOrFour == {1, 4}
JustThree == {3}
=============================================================================
