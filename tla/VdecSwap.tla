------------------------------ MODULE VdecSwap ------------------------------
(***************************************************************************)
(* Where stream-based decoders go on (amports/amports/vdec.c).  After a    *)
(* run the hardware's place in the stream is saved into the swap_page of   *)
(* the decoder that ran, vdec_save_input_context(), and a start restores a *)
(* page, vdec_prepare_input().  The two decoders of a file opened for dual *)
(* decoding read one stream: normally a start restores the page saved      *)
(* last, whoever's it is; with VDEC_FLAG_SELF_INPUT_CONTEXT each goes on   *)
(* from its own, and the page of the one that is passed over is moved on   *)
(* by swapping the pages, vdec_borrow_input_context().                     *)
(*                                                                         *)
(* Who runs next is VdecCore's choice and any decoder's turn here; so is   *)
(* whether the clean-up that saves the place is done, since a run may end  *)
(* after the core thread looked for one that ended.  A place is told by    *)
(* the results, decoded frames, of the file's decoders since:              *)
(*   "last"   where the last result was reached,                           *)
(*   "ahead"  beyond that: a run read on and had no result,                *)
(*   "prev"   where the result before the last was,                        *)
(*   "older"  further back,                                                *)
(*   "begin"  the start of the buffer, or little beyond.                   *)
(***************************************************************************)
EXTENDS Naturals

CONSTANTS
  Mains,       \* decoders of files, one each: priv->vdec
  Slaves,      \* second decoders, of the files opened for dual decoding
  Master,      \* the master of each slave
  None,        \* the null pointer
  SelfContext  \* the values of VDEC_FLAG_SELF_INPUT_CONTEXT explored

ASSUME VdecSwapAssumption ==
  /\ Mains \cap Slaves = {} /\ None \notin Mains \cup Slaves
  /\ Master \in [Slaves -> Mains]
  /\ \A s, t \in Slaves : Master[s] = Master[t] => s = t
  /\ SelfContext \subseteq BOOLEAN

Vdecs     == Mains \cup Slaves
Mates(v)  == {s \in Slaves : v = Master[s]}
               \cup {m \in Mains : v \in Slaves /\ m = Master[v]}
FileOf(v) == IF v \in Slaves THEN Master[v] ELSE v
Dual(v)   == Mates(v) # {}
Mate(v)   == CHOOSE u \in Vdecs : u \in Mates(v)   \* vdec_get_associate()

\* A definition that comes right before another and shares the beginning of
\* its name is a faulty variant of it.
VARIABLES
  self,            \* VDEC_FLAG_SELF_INPUT_CONTEXT
  runner,          \* the decoder that has the hardware
  ended,           \* the one whose run ended and was not cleaned up
  hw,              \* the hardware's place in the stream
  page,            \* the place in each decoder's swap_page
  swap_valid,
  swap_needed,
  dirty_count,
  last_swap_slave, \* of each file
  results,         \* of each file's decoders since it began; 3 is many
  spoilt           \* a clean-up was missed, or a reset left a slave's page

swap == <<page, swap_valid, swap_needed, dirty_count, last_swap_slave>>
vars == <<self, runner, ended, hw, swap, results, spoilt>>

Places == {"last", "ahead", "prev", "older", "begin"}

Init ==
  /\ self \in SelfContext
  /\ runner = None /\ ended = None /\ hw = "begin"
  /\ page = [v \in Vdecs |-> "begin"]
  /\ swap_valid = [v \in Vdecs |-> FALSE]
  /\ swap_needed = [v \in Vdecs |-> FALSE]
  /\ dirty_count = [v \in Vdecs |-> 0]
  /\ last_swap_slave = [f \in Mains |-> FALSE]
  /\ results = [f \in Mains |-> 0]
  /\ spoilt = [f \in Mains |-> FALSE]

-----------------------------------------------------------------------------

\* vdec_prepare_input(): the decoder whose page a start of v restores
SourceOwn(v) == v

Source(v) ==
  IF ~Dual(v) \/ self THEN v
  ELSE IF last_swap_slave[FileOf(v)] = (v \in Slaves) THEN v ELSE Mate(v)

Place(v) == IF swap_valid[Source(v)] THEN page[Source(v)] ELSE "begin"

Start(v) ==
  /\ runner = None
  /\ runner' = v /\ ended' = None
  /\ hw' = Place(v)
  /\ spoilt' = [f \in Mains |->
       spoilt[f] \/ (ended # None /\ swap_needed[ended] /\ f = FileOf(ended))]
  /\ UNCHANGED <<self, swap, results>>

\* A result makes the places in the file's pages older by one.
Older(place) ==
  IF place \in {"last", "ahead"} THEN "prev"
  ELSE IF place = "prev" THEN "older" ELSE place

Aged(f) == [v \in Vdecs |-> IF FileOf(v) = f THEN Older(page[v]) ELSE page[v]]

\* vdec_vframe_dirty(): results in a row, at most one is counted
DirtyUncapped(v) == dirty_count' = [dirty_count EXCEPT ![Mate(v)] = 0, ![v] = @ + 1]

Dirty(v) == dirty_count' = [dirty_count EXCEPT ![Mate(v)] = 0, ![v] = 1]

\* vdec_borrow_input_context(), for the second time in a row by one decoder of two:
\* the pages are exchanged, the other one gets the place saved last.
BorrowTheFlag(v, places) ==
  /\ page' = places
  /\ swap_valid' = [swap_valid EXCEPT ![Mate(v)] = swap_valid[v]]

Borrow(v, places) ==
  /\ page' = [places EXCEPT ![v] = places[Mate(v)], ![Mate(v)] = places[v]]
  /\ swap_valid' = [swap_valid EXCEPT ![Mate(v)] = swap_valid[v]]

Keep(places) == page' = places /\ UNCHANGED swap_valid

\* A run ends with a result.
Result(v) ==
  /\ runner = v
  /\ runner' = None /\ ended' = v /\ hw' = "last"
  /\ swap_needed' = [swap_needed EXCEPT ![v] = TRUE]
  /\ \/ ~Dual(v) /\ UNCHANGED dirty_count /\ Keep(Aged(FileOf(v)))
     \/ /\ Dual(v)
        /\ Dirty(v)
        /\ \/ dirty_count[v] = 0 /\ Keep(Aged(FileOf(v)))
           \/ dirty_count[v] = 1 /\ Borrow(v, Aged(FileOf(v)))
  /\ results' = [results EXCEPT ![FileOf(v)] = IF @ = 3 THEN 3 ELSE @ + 1]
  /\ UNCHANGED <<self, last_swap_slave, spoilt>>

\* A run ends without a result, DEC_RESULT_AGAIN: the stream ran empty.
NoResult(v) ==
  /\ runner = v
  /\ runner' = None /\ ended' = v
  /\ hw' = IF hw = "last" THEN "ahead" ELSE hw
  /\ UNCHANGED <<self, swap, results, spoilt>>

\* vdec_save_input_context(); nothing clears swap_needed.
CleanUp(v) ==
  /\ runner = None /\ ended = v
  /\ ended' = None
  /\ \/ /\ swap_needed[v]
        /\ page' = [page EXCEPT ![v] = hw]
        /\ swap_valid' = [swap_valid EXCEPT ![v] = TRUE]
        /\ last_swap_slave' = [last_swap_slave EXCEPT ![FileOf(v)] = v \in Slaves]
        /\ UNCHANGED <<swap_needed, dirty_count>>
     \/ ~swap_needed[v] /\ UNCHANGED swap
  /\ UNCHANGED <<self, runner, hw, results, spoilt>>

\* vdec_reset(), of a disconnected file: vdec_input_release() of the master
Reset(f) ==
  /\ runner = None \/ FileOf(runner) # f
  /\ page' = [page EXCEPT ![f] = "begin"]
  /\ swap_valid' = [swap_valid EXCEPT ![f] = FALSE]
  /\ results' = [results EXCEPT ![f] = 0]
  /\ spoilt' = [spoilt EXCEPT ![f] = \E s \in Mates(f) : swap_valid[s]]
  /\ ended' = IF ended # None /\ FileOf(ended) = f THEN None ELSE ended
  /\ UNCHANGED <<self, runner, hw, swap_needed, dirty_count, last_swap_slave>>

Next ==
  \/ \E v \in Vdecs : Start(v) \/ Result(v) \/ NoResult(v) \/ CleanUp(v)
  \/ \E f \in Mains : Reset(f)

Spec == Init /\ [][Next]_vars

-----------------------------------------------------------------------------
(* Properties *)

TypeOK ==
  /\ self \in BOOLEAN /\ hw \in Places
  /\ runner \in Vdecs \cup {None} /\ ended \in Vdecs \cup {None}
  /\ page \in [Vdecs -> Places]
  /\ {swap_valid, swap_needed} \subseteq [Vdecs -> BOOLEAN]
  /\ dirty_count \in [Vdecs -> 0..1]
  /\ last_swap_slave \in [Mains -> BOOLEAN]
  /\ results \in [Mains -> 0..3]
  /\ spoilt \in [Mains -> BOOLEAN]

Tidy(f) == ~spoilt[f] /\ (ended = None \/ FileOf(ended) # f)
                      /\ (runner = None \/ FileOf(runner) # f)

\* Between runs, a decoder that takes up a place from whoever ran last goes on
\* where the last result was or beyond, and nothing is decoded twice - as long
\* as no clean-up was missed and no reset left the page of a slave.
NeverBack ==
  \A v \in Vdecs : Tidy(FileOf(v)) /\ (~Dual(v) \/ ~self) =>
    Place(v) \in IF results[FileOf(v)] = 0 THEN {"begin"} ELSE {"last", "ahead"}

\* The table on vdec_borrow_input_context(): of two decoders with places of
\* their own one is at the last result or beyond, and the other one result
\* behind it at most, unless it has had no turn since the beginning.
AtMostOneBehind ==
  \A f \in Mains : Dual(f) /\ self /\ Tidy(f) =>
    /\ \A v \in {f, Mate(f)} :
         \/ Place(v) \in {"last", "ahead", "prev"}
         \/ Place(v) = "begin" /\ results[f] <= 1
    /\ results[f] > 0 => \E v \in {f, Mate(f)} : Place(v) \in {"last", "ahead"}
=============================================================================
