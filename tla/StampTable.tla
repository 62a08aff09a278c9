------------------------------ MODULE StampTable ------------------------------
(***************************************************************************)
(* What a table of presentation time stamps promises to those who fill it  *)
(* and to the decoders.  There are no counters that wrap: a place in the   *)
(* stream is the number of bytes it is behind the write position.  A       *)
(* decoder gets the time stamp nearest before its place; that one is taken *)
(* out, none after its place ever is, and of those before only what the    *)
(* kind of the table allows is forgotten.                                  *)
(***************************************************************************)
EXTENDS Integers, Sequences

CONSTANTS
  Size,      \* the number of stamps a table holds
  Reach,     \* places further behind are not looked at
  Hit,       \* a stamp less than this behind a place is found,
  Limit,     \* and one at least this far behind is not
  Keep,      \* video forgets stamps that are more than this behind
  Close,     \* audio answers in between stamps closer than this
  Stamps,    \* the time stamps explored
  Wrap       \* time stamps are counted modulo this

VARIABLES
  kind,      \* "video" or "audio"
  open,
  table,     \* back and val of each stamp, oldest first
  answer     \* the time stamp handed out last since the table was opened

vars == <<kind, open, table, answer>>

NoAnswer == -1

Init ==
  kind \in {"video", "audio"} /\ open = FALSE /\ table = <<>> /\ answer = NoAnswer

Open ==
  /\ ~open /\ open' = TRUE
  /\ UNCHANGED <<kind, table, answer>>

Shut ==
  /\ open' = FALSE /\ table' = <<>> /\ answer' = NoAnswer
  /\ UNCHANGED kind

\* The stream gets longer.
Write ==
  /\ table' = [i \in 1..Len(table) |->
                 [back |-> table[i].back + 1, val |-> table[i].val]]
  /\ UNCHANGED <<kind, open, answer>>

\* Stamps are put in the stream's order.  A full table forgets the oldest.
Put(b, t) ==
  /\ open /\ \A i \in 1..Len(table) : b <= table[i].back
  /\ table' = Append(IF Len(table) < Size THEN table ELSE Tail(table),
                     [back |-> b, val |-> t])
  /\ UNCHANGED <<kind, open, answer>>

-----------------------------------------------------------------------------
(* Looking up *)

Before(b) == {i \in 1..Len(table) : table[i].back >= b}

\* How far the place is behind the stamp before it.
Gap(i, b) == table[i].back - b

\* What may go when a decoder is at b: video forgets the first stamps if they
\* are far behind, audio those that have one after them that is before b.
Forgets(d, b) ==
  /\ 1..d \subseteq Before(b)
  /\ kind = "video" => \A i \in 1..d : Gap(i, b) > Keep
  /\ kind = "audio" => d = 0 \/ d + 1 \in Before(b)

HandOut(i, b, t) ==
  /\ open /\ i \in Before(b) /\ \A j \in Before(b) : Gap(i, b) <= Gap(j, b)
  /\ \E d \in 0..i - 1 :
       /\ Forgets(d, b)
       /\ table' = SubSeq(table, d + 1, i - 1) \o SubSeq(table, i + 1, Len(table))
  /\ answer' = t
  /\ UNCHANGED <<kind, open>>

\* 0 means no time stamp to the drivers.
Find(b) ==
  \E i \in 1..Len(table) :
    /\ Gap(i, b) < Limit
    /\ HandOut(i, b, IF table[i].val = 0 THEN 1 ELSE table[i].val)

Interpolate(b) ==
  \E i \in 1..Len(table) - 1, g \in 0..Close - 1 :
    /\ kind = "audio" /\ Gap(i, b) >= Hit
    /\ (table[i].val + g) % Wrap = table[i + 1].val
    /\ \E t \in 0..g : HandOut(i, b, (table[i].val + t) % Wrap)

Miss(b) ==
  /\ open /\ \A i \in Before(b) : Gap(i, b) >= Hit
  /\ \E d \in 0..Len(table) :
       Forgets(d, b) /\ table' = SubSeq(table, d + 1, Len(table))
  /\ UNCHANGED <<kind, open, answer>>

Next ==
  \/ Open \/ Shut \/ Write
  \/ \E b \in 0..Reach, t \in Stamps : Put(b, t)
  \/ \E b \in 0..Reach : Find(b) \/ Interpolate(b) \/ Miss(b)

Spec == Init /\ [][Next]_vars
=============================================================================
