--------------------------- MODULE VdecSwapProofs ---------------------------
(***************************************************************************)
(* Proofs about VdecSwap, for any number of files, with and without a      *)
(* second decoder.                                                         *)
(***************************************************************************)
EXTENDS VdecSwap, TLAPS

-----------------------------------------------------------------------------
(* The inductive invariant *)

Of(v, f) == v # None /\ FileOf(v) = f

\* Where a run that begins now may go on: at the last result or beyond
Right(f) == IF results[f] = 0 THEN {"begin"} ELSE {"last", "ahead"}

\* A decoder's place when the run that ended last has been cleaned up
Saved(v) == IF ended = v /\ swap_needed[v] THEN hw ELSE Place(v)

\* The decoders of a file go on from one place, where the last run ended.
OnePlace(f) ==
  /\ IF Of(ended, f) /\ swap_needed[ended] THEN hw \in Right(f) ELSE Place(f) \in Right(f)
  /\ Of(runner, f) => hw \in Right(f)

\* Each of the two has its place: one had the last result, and the other one
\* is one result behind, or at the beginning.
TwoPlaces(f) ==
  /\ results[f] = 0 => Saved(f) = "begin" /\ Saved(Mate(f)) = "begin"
  /\ results[f] > 0 => \E v \in {f, Mate(f)} :
       /\ dirty_count[v] = 1 /\ dirty_count[Mate(v)] = 0
       /\ Saved(v) \in {"last", "ahead"}
       /\ Saved(Mate(v)) = IF results[f] = 1 THEN "begin" ELSE "prev"
  /\ Of(runner, f) => hw = Place(runner)

Placed(f) == ~spoilt[f] => IF Dual(f) /\ self THEN TwoPlaces(f) ELSE OnePlace(f)

IInv ==
  /\ TypeOK
  /\ runner = None \/ ended = None
  /\ \A v \in Vdecs : Dual(v) => dirty_count[v] = 0 \/ dirty_count[Mate(v)] = 0
  /\ \A f \in Mains : Placed(f)

-----------------------------------------------------------------------------
(* Decoders and their files *)

\* A file's decoders are its first one and, with dual decoding, the mate.
LEMMA MateFacts ==
  ASSUME NEW v \in Vdecs, Dual(v)
  PROVE  /\ Mate(v) \in Vdecs /\ Mate(v) # v /\ Dual(Mate(v))
         /\ Mate(Mate(v)) = v /\ FileOf(Mate(v)) = FileOf(v)
         /\ \A u \in Vdecs : FileOf(u) = FileOf(v) <=> u = v \/ u = Mate(v)
         /\ v \in Slaves <=> Mate(v) \notin Slaves
<1>. USE VdecSwapAssumption DEF Vdecs
<1>1. CASE v \in Slaves
  <2>1. Mates(v) = {Master[v]} /\ Master[v] \in Mains /\ Master[v] \notin Slaves
    BY <1>1 DEF Mates
  <2>2. Mate(v) = Master[v]
    BY <2>1 DEF Mate
  <2>3. Mates(Mate(v)) = {v}
    BY <1>1, <2>1, <2>2 DEF Mates
  <2>4. Mate(Mate(v)) = v
    BY <2>3 DEF Mate
  <2>. QED
    BY <1>1, <2>1, <2>2, <2>3, <2>4 DEF Dual, FileOf
<1>2. CASE v \in Mains
  <2>1. PICK s \in Slaves : Master[s] = v
    BY <1>2 DEF Dual, Mates
  <2>2. Mates(v) = {s} /\ s \notin Mains
    BY <1>2, <2>1 DEF Mates
  <2>3. Mate(v) = s
    BY <2>2 DEF Mate
  <2>4. Mates(s) = {v}
    BY <1>2, <2>1, <2>2 DEF Mates
  <2>5. Mate(s) = v
    BY <1>2, <2>4 DEF Mate
  <2>. QED
    BY <1>2, <2>1, <2>2, <2>3, <2>4, <2>5 DEF Dual, FileOf
<1>. QED
  BY <1>1, <1>2

\* A decoder is its file's, alone or with its mate.
LEMMA FileFacts ==
  ASSUME NEW v \in Vdecs
  PROVE  /\ FileOf(v) \in Mains /\ FileOf(v) \in Vdecs /\ FileOf(FileOf(v)) = FileOf(v)
         /\ v # None
         /\ Dual(FileOf(v)) <=> Dual(v)
         /\ ~Dual(v) => FileOf(v) = v /\ v \notin Slaves
                        /\ \A u \in Vdecs : FileOf(u) = v <=> u = v
         /\ Dual(v) => v = FileOf(v) \/ v = Mate(FileOf(v))
<1>. USE VdecSwapAssumption DEF Vdecs, FileOf, Dual, Mates
<1>1. CASE v \in Slaves
  <2>1. Dual(v) /\ Dual(FileOf(v))
    BY <1>1
  <2>2. Mate(FileOf(v)) = v
    BY <1>1, <2>1, MateFacts
  <2>. QED
    BY <1>1, <2>1, <2>2
<1>2. CASE v \in Mains
  BY <1>2
<1>. QED
  BY <1>1, <1>2

-----------------------------------------------------------------------------
(* Type correctness *)

Flags == [Vdecs -> BOOLEAN]

\* The types, one by one, for the proofs.
LEMMA TypeParts ==
  TypeOK <=>
    /\ self \in BOOLEAN /\ hw \in Places
    /\ runner \in Vdecs \cup {None} /\ ended \in Vdecs \cup {None}
    /\ page \in [Vdecs -> Places] /\ swap_valid \in Flags /\ swap_needed \in Flags
    /\ dirty_count \in [Vdecs -> 0..1]
    /\ last_swap_slave \in [Mains -> BOOLEAN]
    /\ results \in [Mains -> 0..3] /\ spoilt \in [Mains -> BOOLEAN]
BY DEF TypeOK, Flags

\* A place restored is a place.
LEMMA PlaceType == ASSUME TypeOK, NEW v \in Vdecs PROVE Place(v) \in Places
<1>1. Source(v) \in Vdecs
  BY MateFacts DEF Source
<1>. QED
  BY <1>1, TypeParts DEF Place, Places

\* What a result does to the pages, and to those of other files: nothing
LEMMA ResultPages ==
  ASSUME TypeOK, NEW v \in Vdecs, Result(v)
  PROVE  /\ page' \in [Vdecs -> Places] /\ swap_valid' \in Flags
         /\ dirty_count' \in [Vdecs -> 0..1]
         /\ \A u \in Vdecs : FileOf(u) # FileOf(v) =>
              /\ page'[u] = page[u] /\ swap_valid'[u] = swap_valid[u]
              /\ dirty_count'[u] = dirty_count[u]
<1>1. /\ page \in [Vdecs -> Places] /\ swap_valid \in Flags
      /\ dirty_count \in [Vdecs -> 0..1]
  BY TypeParts
<1>2. /\ Aged(FileOf(v)) \in [Vdecs -> Places]
      /\ \A u \in Vdecs : FileOf(u) # FileOf(v) => Aged(FileOf(v))[u] = page[u]
  BY <1>1 DEF Aged, Older, Places
<1>3. CASE ~Dual(v)
  BY <1>1, <1>2, <1>3 DEF Result, Keep
<1>4. CASE Dual(v)
  <2>1. Mate(v) \in Vdecs /\ FileOf(Mate(v)) = FileOf(v) /\ Mate(v) # v
    BY <1>4, MateFacts
  <2>2. /\ dirty_count' \in [Vdecs -> 0..1]
        /\ \A u \in Vdecs : FileOf(u) # FileOf(v) => dirty_count'[u] = dirty_count[u]
    BY <1>1, <1>4, <2>1 DEF Result, Dirty
  <2>3. Keep(Aged(FileOf(v))) \/ Borrow(v, Aged(FileOf(v)))
    BY <1>4 DEF Result
  <2>4. CASE Keep(Aged(FileOf(v)))
    BY <1>1, <1>2, <2>2, <2>4 DEF Keep
  <2>5. CASE Borrow(v, Aged(FileOf(v)))
    BY <1>1, <1>2, <2>1, <2>2, <2>5 DEF Borrow, Flags
  <2>. QED
    BY <2>3, <2>4, <2>5
<1>. QED
  BY <1>3, <1>4

\* Every step keeps them.
LEMMA TypeStep == TypeOK /\ [Next]_vars => TypeOK'
<1> SUFFICES ASSUME TypeOK, [Next]_vars PROVE TypeOK'
  OBVIOUS
<1>. USE DEF Flags, Places
<1>1. /\ self \in BOOLEAN /\ hw \in Places
      /\ runner \in Vdecs \cup {None} /\ ended \in Vdecs \cup {None}
      /\ page \in [Vdecs -> Places] /\ swap_valid \in Flags /\ swap_needed \in Flags
      /\ dirty_count \in [Vdecs -> 0..1]
      /\ last_swap_slave \in [Mains -> BOOLEAN]
      /\ results \in [Mains -> 0..3] /\ spoilt \in [Mains -> BOOLEAN]
  BY TypeParts
<1>2. ASSUME NEW v \in Vdecs, Start(v)
      PROVE  TypeOK'
  <2>1. spoilt' \in [Mains -> BOOLEAN]
    BY <1>1, <1>2 DEF Start
  <2>2. hw' \in Places
    BY <1>2, PlaceType DEF Start
  <2>. QED
    BY <1>1, <1>2, <2>1, <2>2, TypeParts DEF Start, swap, TypeOK
<1>3. ASSUME NEW v \in Vdecs, Result(v)
      PROVE  TypeOK'
  <2>1. /\ page' \in [Vdecs -> Places] /\ swap_valid' \in Flags
        /\ dirty_count' \in [Vdecs -> 0..1]
    BY <1>3, ResultPages
  <2>2. results' \in [Mains -> 0..3]
    <3>1. \A n \in 0..3 : (IF n = 3 THEN 3 ELSE n + 1) \in 0..3
      OBVIOUS
    <3>. QED
      BY <1>1, <1>3, <3>1, FileFacts DEF Result
  <2>3. /\ runner' = None /\ ended' = v /\ hw' = "last"
        /\ swap_needed' \in Flags /\ UNCHANGED <<self, last_swap_slave, spoilt>>
    BY <1>1, <1>3 DEF Result
  <2>. QED
    BY <1>1, <2>1, <2>2, <2>3 DEF TypeOK
<1>4. ASSUME NEW v \in Vdecs, NoResult(v)
      PROVE  TypeOK'
  BY <1>1, <1>4 DEF NoResult, swap, TypeOK
<1>5. ASSUME NEW v \in Vdecs, CleanUp(v)
      PROVE  TypeOK'
  <2>1. /\ page' \in [Vdecs -> Places] /\ swap_valid' \in Flags
        /\ last_swap_slave' \in [Mains -> BOOLEAN]
    <3>1. FileOf(v) \in Mains /\ (v \in Slaves) \in BOOLEAN
      BY FileFacts
    <3>2. CASE swap_needed[v]
      <4>1. /\ page' = [page EXCEPT ![v] = hw] /\ swap_valid' = [swap_valid EXCEPT ![v] = TRUE]
            /\ last_swap_slave' = [last_swap_slave EXCEPT ![FileOf(v)] = v \in Slaves]
        BY <1>5, <3>2 DEF CleanUp
      <4>2. page' \in [Vdecs -> Places]
        BY <1>1, <4>1
      <4>3. swap_valid' \in Flags
        BY <1>1, <4>1
      <4>4. last_swap_slave' \in [Mains -> BOOLEAN]
        BY <1>1, <3>1, <4>1
      <4>. QED
        BY <4>2, <4>3, <4>4
    <3>3. CASE ~swap_needed[v]
      BY <1>1, <1>5, <3>3 DEF CleanUp, swap
    <3>. QED
      BY <3>2, <3>3
  <2>2. ended' = None /\ UNCHANGED <<swap_needed, dirty_count, self, runner, hw, results, spoilt>>
    BY <1>5 DEF CleanUp, swap
  <2>. QED
    BY <1>1, <2>1, <2>2 DEF TypeOK
<1>6. ASSUME NEW f \in Mains, Reset(f)
      PROVE  TypeOK'
  <2>1. /\ page' = [page EXCEPT ![f] = "begin"] /\ swap_valid' = [swap_valid EXCEPT ![f] = FALSE]
        /\ results' = [results EXCEPT ![f] = 0] /\ ended' \in {None, ended}
        /\ UNCHANGED <<self, runner, hw, swap_needed, dirty_count, last_swap_slave>>
    BY <1>6 DEF Reset
  <2>. DEFINE left == \E s \in Mates(f) : swap_valid[s]
  <2>2. spoilt' = [spoilt EXCEPT ![f] = left]
    BY <1>6 DEF Reset
  <2>3. left = TRUE \/ left = FALSE
    OBVIOUS
  <2>. HIDE DEF left
  <2>4. spoilt' \in [Mains -> BOOLEAN]
    <3>1. spoilt' = [spoilt EXCEPT ![f] = TRUE] \/ spoilt' = [spoilt EXCEPT ![f] = FALSE]
      BY <2>2, <2>3, Zenon
    <3>. QED
      BY <1>1, <3>1
  <2>5. /\ page' \in [Vdecs -> Places] /\ swap_valid' \in Flags
        /\ results' \in [Mains -> 0..3]
    <3>1. page' \in [Vdecs -> Places]
      BY <1>1, <2>1
    <3>2. swap_valid' \in Flags
      BY <1>1, <2>1
    <3>3. results' \in [Mains -> 0..3]
      <4>1. 0 \in 0..3
        OBVIOUS
      <4>. QED
        BY <1>1, <2>1, <4>1
    <3>. QED
      BY <3>1, <3>2, <3>3
  <2>6. ended' \in Vdecs \cup {None}
    BY <1>1, <2>1
  <2>. QED
    BY <1>1, <2>1, <2>4, <2>5, <2>6 DEF TypeOK
<1>7. CASE UNCHANGED vars
  BY <1>1, <1>7 DEF vars, swap, TypeOK
<1>. QED
  BY <1>2, <1>3, <1>4, <1>5, <1>6, <1>7 DEF Next

-----------------------------------------------------------------------------
(* Where a start goes on *)

\* Of two decoders that read one place: from the page of the one saved last
LEMMA SourceIs ==
  ASSUME TypeOK, NEW v \in Vdecs, Dual(v), ~self
  PROVE  Source(v) = IF last_swap_slave[FileOf(v)] THEN Mate(FileOf(v)) ELSE FileOf(v)
<1>1. last_swap_slave[FileOf(v)] = TRUE \/ last_swap_slave[FileOf(v)] = FALSE
  BY FileFacts, TypeParts
<1>2. /\ v = FileOf(v) \/ v = Mate(FileOf(v))
      /\ Dual(FileOf(v)) /\ FileOf(v) \in Vdecs /\ FileOf(v) \in Mains
  BY FileFacts
<1>3. FileOf(v) \notin Slaves /\ Mate(FileOf(v)) \in Slaves
  BY <1>2, MateFacts, VdecSwapAssumption
<1>4. CASE v = FileOf(v)
  <2>1. v \notin Slaves
    BY <1>3, <1>4
  <2>2. (last_swap_slave[FileOf(v)] = (v \in Slaves)) <=> ~last_swap_slave[FileOf(v)]
    <3>1. (v \in Slaves) = FALSE
      BY <2>1
    <3>2. CASE last_swap_slave[FileOf(v)] = TRUE
      BY <3>1, <3>2
    <3>3. CASE last_swap_slave[FileOf(v)] = FALSE
      BY <3>1, <3>3
    <3>. QED
      BY <1>1, <3>2, <3>3
  <2>. QED
    BY <1>4, <2>2 DEF Source
<1>5. CASE v = Mate(FileOf(v))
  <2>1. v \in Slaves
    BY <1>3, <1>5
  <2>2. (last_swap_slave[FileOf(v)] = (v \in Slaves)) <=> last_swap_slave[FileOf(v)]
    BY <1>1, <2>1, Zenon
  <2>3. Mate(v) = FileOf(v)
    BY <1>2, <1>5, MateFacts
  <2>. QED
    BY <1>5, <2>2, <2>3 DEF Source
<1>. QED
  BY <1>2, <1>4, <1>5

\* From a page of the file; with a place of its own, from its own
LEMMA SourceFacts ==
  ASSUME TypeOK, NEW v \in Vdecs
  PROVE  /\ Source(v) \in Vdecs /\ FileOf(Source(v)) = FileOf(v)
         /\ ~(Dual(v) /\ self) => Source(v) = Source(FileOf(v))
         /\ Dual(v) /\ self => Source(v) = v
<1>1. CASE ~Dual(v)
  BY <1>1, FileFacts DEF Source
<1>2. CASE Dual(v)
  <2>1. /\ Dual(FileOf(v)) /\ FileOf(v) \in Vdecs /\ FileOf(FileOf(v)) = FileOf(v)
        /\ Mate(FileOf(v)) \in Vdecs /\ FileOf(Mate(FileOf(v))) = FileOf(v)
    BY <1>2, FileFacts, MateFacts
  <2>2. CASE self
    BY <1>2, <2>2 DEF Source
  <2>3. CASE ~self
    BY <1>2, <2>1, <2>3, SourceIs
  <2>. QED
    BY <2>2, <2>3
<1>. QED
  BY <1>1, <1>2

\* A step that leaves the pages of a file leaves its decoders' places.
LEMMA SamePlace ==
  ASSUME TypeOK, NEW v \in Vdecs, self' = self,
         \A u \in Vdecs : FileOf(u) = FileOf(v) =>
           page'[u] = page[u] /\ swap_valid'[u] = swap_valid[u],
         last_swap_slave'[FileOf(v)] = last_swap_slave[FileOf(v)]
  PROVE  Place(v)' = Place(v)
<1>1. Source(v)' = Source(v)
  BY DEF Source
<1>2. Source(v) \in Vdecs /\ FileOf(Source(v)) = FileOf(v)
  BY SourceFacts
<1>. QED
  BY <1>1, <1>2 DEF Place

-----------------------------------------------------------------------------
(* Each step keeps a file's decoders in place *)

\* A run of the file has ended, and its place is still to be saved.
Pending(f) == Of(ended, f) /\ swap_needed[ended]

\* The run that goes on began where the file's decoders were.
Running(f) == Of(runner, f) =>
  IF Dual(f) /\ self THEN hw = Place(runner) ELSE hw \in Right(f)

\* What the invariant says of a file, by whether a clean-up is to come.
LEMMA PlacedParts ==
  ASSUME NEW f \in Mains, ~spoilt[f], Placed(f)
  PROVE  /\ Running(f)
         /\ ~(Dual(f) /\ self) => IF Pending(f) THEN hw \in Right(f) ELSE Place(f) \in Right(f)
BY DEF Placed, OnePlace, TwoPlaces, Running, Pending

\* A step that leaves the pages of a file alone, and what is to be saved
LEMMA Kept ==
  ASSUME TypeOK, NEW f \in Mains, Placed(f), spoilt'[f] = spoilt[f] \/ ~spoilt[f],
         self' = self, results'[f] = results[f],
         last_swap_slave'[f] = last_swap_slave[f],
         \A u \in Vdecs : FileOf(u) = f =>
           /\ page'[u] = page[u] /\ swap_valid'[u] = swap_valid[u]
           /\ dirty_count'[u] = dirty_count[u],
         Pending(f)' => Pending(f) /\ ended' = ended /\ hw' = hw,
         Pending(f) => Pending(f)',
         Running(f)'
  PROVE  Placed(f)'
<1> SUFFICES ASSUME ~spoilt'[f] PROVE IF Dual(f) /\ self THEN TwoPlaces(f)' ELSE OnePlace(f)'
  BY DEF Placed
<1>1. f \in Vdecs /\ FileOf(f) = f
  BY VdecSwapAssumption DEF Vdecs, FileOf
<1>2. \A u \in Vdecs : FileOf(u) = f => Place(u)' = Place(u)
  BY SamePlace
<1>3. Right(f)' = Right(f)
  BY DEF Right
<1>4. CASE Dual(f) /\ self
  <2>1. TwoPlaces(f)
    BY <1>4 DEF Placed
  <2>2. Mate(f) \in Vdecs /\ FileOf(Mate(f)) = f /\ Mate(Mate(f)) = f /\ f # None /\ Mate(f) # None
    BY <1>1, <1>4, MateFacts, FileFacts
  <2>3. \A u \in Vdecs : FileOf(u) = f => Saved(u)' = Saved(u)
    <3>1. ASSUME NEW u \in Vdecs, FileOf(u) = f
          PROVE  Saved(u)' = Saved(u)
      <4>1. u # None /\ Place(u)' = Place(u)
        BY <1>2, <3>1, FileFacts
      <4>2. CASE Pending(f)
        BY <3>1, <4>1, <4>2 DEF Pending, Saved, Of
      <4>3. CASE ~Pending(f)
        BY <3>1, <4>1, <4>3 DEF Pending, Saved, Of
      <4>. QED
        BY <4>2, <4>3
    <3>. QED
      BY <3>1
  <2>4. Saved(f)' = Saved(f) /\ Saved(Mate(f))' = Saved(Mate(f))
    BY <1>1, <2>2, <2>3
  <2>5. /\ dirty_count'[f] = dirty_count[f] /\ dirty_count'[Mate(f)] = dirty_count[Mate(f)]
    BY <1>1, <2>2
  <2>6. Of(runner, f)' => (hw = Place(runner))'
    BY <1>4 DEF Running
  <2>7. TwoPlaces(f)'
    BY <2>1, <2>2, <2>4, <2>5, <2>6 DEF TwoPlaces
  <2>. QED
    BY <1>4, <2>7
<1>5. CASE ~(Dual(f) /\ self)
  BY <1>1, <1>2, <1>3, <1>5, PlacedParts DEF OnePlace, Running, Pending, Placed
<1>. QED
  BY <1>4, <1>5

Parts(f) == TypeOK /\ (runner = None \/ ended = None) /\ Placed(f)

\* A start restores a page that is right.
LEMMA PlacedStart ==
  ASSUME NEW f \in Mains, Parts(f), NEW v \in Vdecs, Start(v)
  PROVE  Placed(f)'
<1> SUFFICES ASSUME ~spoilt'[f] PROVE Placed(f)'
  BY DEF Placed
<1>1. /\ ended' = None /\ runner' = v /\ hw' = Place(v)
      /\ self' = self /\ results' = results /\ UNCHANGED swap
  BY DEF Start
<1>2. ~spoilt[f] /\ ~Pending(f)
  <2>1. spoilt \in [Mains -> BOOLEAN]
    BY TypeParts DEF Parts
  <2>. QED
    BY <2>1 DEF Start, Pending, Of
<1>3. ~Pending(f)'
  BY <1>1 DEF Pending, Of
<1>4. Place(v)' = Place(v)
  BY <1>1 DEF Place, Source, swap
<1>5. Running(f)'
  <2> SUFFICES ASSUME FileOf(v) = f, ~(Dual(f) /\ self) PROVE (hw \in Right(f))'
    BY <1>1, <1>4 DEF Running, Of
  <2>1. Dual(v) <=> Dual(f)
    BY FileFacts
  <2>2. Source(v) = Source(f)
    BY <2>1, SourceFacts DEF Parts
  <2>3. Place(f) \in Right(f)
    BY <1>2, PlacedParts DEF Parts
  <2>4. Right(f)' = Right(f)
    BY <1>1 DEF Right
  <2>. QED
    BY <1>1, <2>2, <2>3, <2>4 DEF Place
<1>. QED
  BY <1>1, <1>2, <1>3, <1>5, Kept DEF Parts, swap

\* Another file's decoder ends its run.
LEMMA PlacedElsewhere ==
  ASSUME NEW f \in Mains, Parts(f), NEW v \in Vdecs, FileOf(v) # f,
         Result(v) \/ NoResult(v) \/ CleanUp(v)
  PROVE  Placed(f)'
<1>1. /\ self' = self /\ spoilt' = spoilt
      /\ runner' = None /\ (runner = v \/ ended = v) /\ (ended' = v \/ ended' = None)
  BY DEF Result, NoResult, CleanUp, Parts
<1>2. /\ results'[f] = results[f] /\ last_swap_slave'[f] = last_swap_slave[f]
      /\ \A u \in Vdecs : FileOf(u) = f =>
           /\ page'[u] = page[u] /\ swap_valid'[u] = swap_valid[u]
           /\ dirty_count'[u] = dirty_count[u]
  <2>1. /\ results \in [Mains -> 0..3] /\ last_swap_slave \in [Mains -> BOOLEAN]
        /\ page \in [Vdecs -> Places] /\ swap_valid \in Flags
    BY TypeParts DEF Parts
  <2>2. CASE Result(v)
    <3>1. results'[f] = results[f] /\ last_swap_slave'[f] = last_swap_slave[f]
      BY <2>1, <2>2, FileFacts DEF Result
    <3>. QED
      BY <2>2, <3>1, ResultPages DEF Parts
  <2>3. CASE NoResult(v)
    BY <2>3 DEF NoResult, swap
  <2>4. CASE CleanUp(v) /\ swap_needed[v]
    <3>1. /\ page' = [page EXCEPT ![v] = hw] /\ swap_valid' = [swap_valid EXCEPT ![v] = TRUE]
          /\ last_swap_slave' = [last_swap_slave EXCEPT ![FileOf(v)] = v \in Slaves]
          /\ dirty_count' = dirty_count /\ results' = results
      BY <2>4 DEF CleanUp
    <3>2. page'[v] = hw /\ \A u \in Vdecs : u # v =>
            page'[u] = page[u] /\ swap_valid'[u] = swap_valid[u]
      BY <2>1, <3>1 DEF Flags
    <3>3. last_swap_slave'[f] = last_swap_slave[f]
      BY <2>1, <3>1
    <3>. QED
      BY <3>1, <3>2, <3>3
  <2>5. CASE CleanUp(v) /\ ~swap_needed[v]
    BY <2>5 DEF CleanUp, swap
  <2>. QED
    BY <2>2, <2>3, <2>4, <2>5
<1>3. ~Pending(f) /\ ~Pending(f)'
  BY <1>1, FileFacts DEF Pending, Of, Parts
<1>4. Running(f)'
  BY <1>1 DEF Running, Of
<1>. QED
  BY <1>1, <1>2, <1>3, <1>4, Kept DEF Parts

\* A run without a result goes on, but not beyond the next result.
LEMMA PlacedNoResult ==
  ASSUME NEW v \in Vdecs, Parts(FileOf(v)), NoResult(v)
  PROVE  Placed(FileOf(v))'
<1>. DEFINE f == FileOf(v)
<1> SUFFICES ASSUME ~spoilt'[f] PROVE Placed(f)'
  BY DEF Placed
<1>1. /\ f \in Mains /\ f \in Vdecs /\ FileOf(f) = f /\ v # None
      /\ (Dual(f) <=> Dual(v)) /\ (~Dual(v) => f = v)
  BY FileFacts
<1>2. /\ self' = self /\ results' = results /\ spoilt' = spoilt /\ UNCHANGED swap
      /\ runner = v /\ runner' = None /\ ended' = v
      /\ hw' = IF hw = "last" THEN "ahead" ELSE hw
  BY DEF NoResult
<1>3. ended = None /\ Of(runner, f) /\ ~Of(runner, f)'
  BY <1>1, <1>2 DEF Parts, Of
<1>4. \A u \in Vdecs : Place(u)' = Place(u)
  BY <1>2 DEF Place, Source, swap
<1>5. Right(f)' = Right(f)
  BY <1>2 DEF Right
<1>6. CASE Dual(f) /\ self
  <2>1. TwoPlaces(f) /\ hw = Place(v)
    BY <1>2, <1>3, <1>6 DEF Parts, Placed, TwoPlaces
  <2>2. Mate(f) \in Vdecs /\ f # None /\ Mate(f) # None /\ Mate(Mate(f)) = f
    BY <1>1, <1>6, MateFacts, FileFacts
  <2>3. ASSUME NEW u \in Vdecs
        PROVE  /\ Saved(u) \in {"begin", "prev"} => Saved(u)' = Saved(u)
               /\ Saved(u) \in {"last", "ahead"} => Saved(u)' \in {"last", "ahead"}
    <3>1. u # None /\ Saved(u) = Place(u) /\ Place(u)' = Place(u)
      BY <1>3, <1>4, FileFacts DEF Saved
    <3>2. CASE u = v
      BY <1>2, <2>1, <3>1, <3>2 DEF Saved
    <3>3. CASE u # v
      BY <1>2, <3>1, <3>3 DEF Saved
    <3>. QED
      BY <3>2, <3>3
  <2>4. TwoPlaces(f)'
    BY <1>1, <1>2, <1>3, <2>1, <2>2, <2>3 DEF TwoPlaces, swap
  <2>. QED
    BY <1>2, <1>6, <2>4 DEF Placed
<1>7. CASE ~(Dual(f) /\ self)
  <2>1. hw \in Right(f) /\ Place(f) \in Right(f)
    BY <1>1, <1>2, <1>3, <1>7, PlacedParts DEF Parts, Running, Pending, Of
  <2>2. hw' \in Right(f)
    BY <1>2, <2>1 DEF Right
  <2>3. OnePlace(f)'
    BY <1>1, <1>3, <1>4, <1>5, <2>1, <2>2 DEF OnePlace
  <2>. QED
    BY <1>2, <1>7, <2>3 DEF Placed
<1>. QED
  BY <1>6, <1>7

\* The clean-up saves the place the run ended at.
LEMMA PlacedCleanUp ==
  ASSUME NEW v \in Vdecs, Parts(FileOf(v)), CleanUp(v)
  PROVE  Placed(FileOf(v))'
<1>. DEFINE f == FileOf(v)
<1> SUFFICES ASSUME ~spoilt'[f] PROVE Placed(f)'
  BY DEF Placed
<1>1. /\ f \in Mains /\ f \in Vdecs /\ FileOf(f) = f /\ v # None
      /\ (Dual(f) <=> Dual(v)) /\ (~Dual(v) => f = v)
  BY FileFacts
<1>2. /\ self' = self /\ results' = results /\ spoilt' = spoilt /\ hw' = hw
      /\ dirty_count' = dirty_count
      /\ runner = None /\ runner' = None /\ ended = v /\ ended' = None
  BY DEF CleanUp, swap
<1>3. TypeOK
  BY DEF Parts
<1>4. TypeOK'
  BY <1>3, TypeStep DEF Next
<1>5. Running(f)' /\ ~Pending(f)'
  BY <1>2 DEF Running, Pending, Of
<1>6. CASE ~swap_needed[v]
  <2>1. UNCHANGED swap /\ ~Pending(f)
    BY <1>2, <1>6 DEF CleanUp, Pending
  <2>. QED
    BY <1>1, <1>2, <1>3, <1>5, <2>1, Kept DEF Parts, swap
<1>7. CASE swap_needed[v]
  <2>1. /\ page' = [page EXCEPT ![v] = hw] /\ swap_valid' = [swap_valid EXCEPT ![v] = TRUE]
        /\ last_swap_slave' = [last_swap_slave EXCEPT ![f] = v \in Slaves]
    BY <1>7 DEF CleanUp
  <2>2. page'[v] = hw /\ swap_valid'[v]
    BY <1>3, <2>1, TypeParts DEF Flags
  <2>3. Pending(f)
    BY <1>1, <1>2, <1>7 DEF Pending, Of
  <2>4. CASE Dual(f) /\ self
    <3>1. TwoPlaces(f)
      BY <1>2, <2>4 DEF Parts, Placed
    <3>2. /\ Mate(f) \in Vdecs /\ f # None /\ Mate(f) # None /\ Mate(Mate(f)) = f
          /\ FileOf(Mate(f)) = f
      BY <1>1, <2>4, MateFacts, FileFacts
    <3>3. ASSUME NEW u \in Vdecs, FileOf(u) = f
          PROVE  Saved(u)' = Saved(u)
      <4>1. /\ Source(u) = u /\ Source(u)' = u /\ u # None
        BY <1>1, <1>2, <1>3, <2>4, <3>3, FileFacts DEF Source
      <4>2. CASE u = v
        BY <1>2, <1>7, <2>2, <4>1, <4>2 DEF Saved, Place
      <4>3. CASE u # v
        <5>1. page'[u] = page[u] /\ swap_valid'[u] = swap_valid[u]
          BY <1>3, <2>1, <4>3, TypeParts DEF Flags
        <5>. QED
          BY <1>2, <4>1, <4>3, <5>1 DEF Saved, Place
      <4>. QED
        BY <4>2, <4>3
    <3>4. Saved(f)' = Saved(f) /\ Saved(Mate(f))' = Saved(Mate(f))
      BY <1>1, <3>2, <3>3
    <3>5. ~Of(runner, f)'
      BY <1>2 DEF Of
    <3>6. TwoPlaces(f)'
      BY <1>2, <3>1, <3>2, <3>4, <3>5 DEF TwoPlaces
    <3>. QED
      BY <1>2, <2>4, <3>6 DEF Placed
  <2>5. CASE ~(Dual(f) /\ self)
    <3>1. hw \in Right(f)
      BY <1>1, <1>2, <2>3, <2>5, PlacedParts DEF Parts
    <3>2. Source(f)' = v
      <4>1. CASE ~Dual(f)
        BY <1>1, <4>1 DEF Source
      <4>2. CASE Dual(f) /\ ~self
        <5>1. Source(f)' = IF last_swap_slave'[f] = (f \in Slaves) THEN f ELSE Mate(f)
          BY <1>1, <1>2, <4>2 DEF Source
        <5>2. f \notin Slaves
          BY <1>1, VdecSwapAssumption
        <5>3. v = f \/ (v = Mate(f) /\ v \in Slaves)
          <6>1. v = f \/ v = Mate(f)
            BY <1>1, <4>2, FileFacts
          <6>2. Mate(f) \in Slaves
            BY <1>1, <4>2, <5>2, MateFacts
          <6>. QED
            BY <6>1, <6>2
        <5>4. CASE v = f
          <6>1. (v \in Slaves) = FALSE /\ (f \in Slaves) = FALSE
            BY <5>2, <5>4
          <6>2. last_swap_slave' = [last_swap_slave EXCEPT ![f] = FALSE]
            BY <2>1, <6>1, Zenon
          <6>3. last_swap_slave'[f] = FALSE
            BY <1>1, <1>3, <6>2, TypeParts
          <6>. QED
            BY <5>1, <5>4, <6>1, <6>3
        <5>5. CASE v = Mate(f) /\ v \in Slaves
          <6>1. (v \in Slaves) = TRUE /\ (f \in Slaves) = FALSE
            BY <5>2, <5>5
          <6>2. last_swap_slave' = [last_swap_slave EXCEPT ![f] = TRUE]
            BY <2>1, <6>1, Zenon
          <6>3. last_swap_slave'[f] = TRUE
            BY <1>1, <1>3, <6>2, TypeParts
          <6>. QED
            BY <5>1, <5>5, <6>1, <6>3
        <5>. QED
          BY <5>3, <5>4, <5>5
      <4>. QED
        BY <2>5, <4>1, <4>2
    <3>3. Place(f)' = hw
      BY <2>2, <3>2 DEF Place
    <3>4. OnePlace(f)'
      BY <1>2, <3>1, <3>3 DEF OnePlace, Of, Right
    <3>. QED
      BY <1>2, <2>5, <3>4 DEF Placed
  <2>. QED
    BY <2>4, <2>5
<1>. QED
  BY <1>6, <1>7

\* A reset begins anew.
LEMMA PlacedReset ==
  ASSUME NEW f \in Mains, Parts(f), NEW g \in Mains, Reset(g)
  PROVE  Placed(f)'
<1> SUFFICES ASSUME ~spoilt'[f] PROVE Placed(f)'
  BY DEF Placed
<1>1. /\ TypeOK /\ f \in Vdecs /\ g \in Vdecs /\ FileOf(f) = f /\ FileOf(g) = g
      /\ f # None /\ f \notin Slaves
  BY VdecSwapAssumption DEF Parts, Vdecs, FileOf
<1>2. /\ page' = [page EXCEPT ![g] = "begin"] /\ swap_valid' = [swap_valid EXCEPT ![g] = FALSE]
      /\ results' = [results EXCEPT ![g] = 0]
      /\ ended' = IF ended # None /\ FileOf(ended) = g THEN None ELSE ended
      /\ UNCHANGED <<self, runner, hw, swap_needed, dirty_count, last_swap_slave>>
  BY DEF Reset
<1>3. runner = None \/ FileOf(runner) # g
  BY DEF Reset
<1>4. /\ page \in [Vdecs -> Places] /\ swap_valid \in Flags /\ results \in [Mains -> 0..3]
      /\ spoilt \in [Mains -> BOOLEAN]
  BY <1>1, TypeParts
<1>5. CASE f # g
  <2>1. spoilt'[f] = spoilt[f] /\ results'[f] = results[f]
    BY <1>2, <1>4, <1>5 DEF Reset
  <2>2. \A u \in Vdecs : u # g => page'[u] = page[u] /\ swap_valid'[u] = swap_valid[u]
    BY <1>2, <1>4 DEF Flags
  <2>3. \A u \in Vdecs : FileOf(u) = f =>
          /\ page'[u] = page[u] /\ swap_valid'[u] = swap_valid[u]
          /\ dirty_count'[u] = dirty_count[u]
    BY <1>1, <1>2, <1>5, <2>2
  <2>4. /\ Pending(f)' => Pending(f) /\ ended' = ended /\ hw' = hw
        /\ Pending(f) => Pending(f)'
    BY <1>2, <1>5 DEF Pending, Of
  <2>5. Running(f)'
    <3>1. CASE Of(runner, f)
      <4>1. runner \in Vdecs /\ FileOf(runner) = f
        BY <1>1, <3>1, TypeParts DEF Of
      <4>2. Place(runner)' = Place(runner)
        BY <1>1, <1>2, <2>3, <4>1, SamePlace
      <4>3. Running(f)
        BY <2>1, PlacedParts DEF Parts
      <4>4. Right(f)' = Right(f)
        BY <2>1 DEF Right
      <4>. QED
        BY <1>2, <3>1, <4>2, <4>3, <4>4 DEF Running, Of
    <3>2. CASE ~Of(runner, f)
      BY <1>2, <3>2 DEF Running, Of
    <3>. QED
      BY <3>1, <3>2
  <2>. QED
    BY <1>1, <1>2, <2>1, <2>3, <2>4, <2>5, Kept DEF Parts
<1>6. CASE f = g
  <2>1. results'[f] = 0 /\ ~swap_valid'[f] /\ ~Of(runner, f)' /\ ~Of(ended, f)'
    BY <1>1, <1>2, <1>3, <1>4, <1>6 DEF Flags, Of
  <2>2. Dual(f) => Mate(f) \in Mates(f)
    <3> SUFFICES ASSUME Dual(f) PROVE Mate(f) \in Mates(f)
      OBVIOUS
    <3>1. PICK s \in Slaves : Mates(f) = {s}
      BY VdecSwapAssumption DEF Mates, Dual
    <3>. QED
      BY <3>1 DEF Mate, Vdecs
  <2>3. Dual(f) => ~swap_valid[Mate(f)]
    <3>1. spoilt'[f] = \E s \in Mates(f) : swap_valid[s]
      <4>. DEFINE left == \E s \in Mates(f) : swap_valid[s]
      <4>1. spoilt' = [spoilt EXCEPT ![f] = left]
        BY <1>6 DEF Reset
      <4>2. left = TRUE \/ left = FALSE
        OBVIOUS
      <4>. HIDE DEF left
      <4>3. CASE left = TRUE
        <5>1. spoilt' = [spoilt EXCEPT ![f] = TRUE]
          BY <4>1, <4>3, Zenon
        <5>2. spoilt'[f] = TRUE
          BY <1>4, <5>1
        <5>. QED
          BY <5>2
      <4>4. CASE left = FALSE
        <5>1. spoilt' = [spoilt EXCEPT ![f] = FALSE]
          BY <4>1, <4>4, Zenon
        <5>2. spoilt'[f] = FALSE
          BY <1>4, <5>1
        <5>3. left = spoilt'[f]
          BY <4>4, <5>2
        <5>. QED
          BY <5>3 DEF left
      <4>. QED
        BY <4>2, <4>3, <4>4
    <3>. QED
      BY <2>2, <3>1
  <2>4. CASE Dual(f)
    <3>1. Mate(f) \in Vdecs /\ Mate(f) # f /\ Mate(f) # None /\ FileOf(Mate(f)) = f /\ Mate(Mate(f)) = f
      BY <1>1, <2>4, MateFacts, FileFacts
    <3>2. swap_valid'[Mate(f)] = swap_valid[Mate(f)]
      BY <1>2, <1>4, <1>6, <3>1 DEF Flags
    <3>3. \A u \in {f, Mate(f)} : ~swap_valid'[u]
      BY <2>1, <2>3, <2>4, <3>2
    <3>4. \A u \in {f, Mate(f)} : Source(u)' \in {f, Mate(f)}
      BY <1>1, <3>1 DEF Source
    <3>5. \A u \in {f, Mate(f)} : Place(u)' = "begin"
      BY <3>3, <3>4 DEF Place
    <3>6. \A u \in {f, Mate(f)} : Saved(u)' = "begin"
      BY <1>1, <2>1, <3>1, <3>5 DEF Saved, Of
    <3>7. TwoPlaces(f)'
      BY <2>1, <3>1, <3>6 DEF TwoPlaces
    <3>8. OnePlace(f)'
      BY <2>1, <3>5 DEF OnePlace, Right
    <3>. QED
      BY <3>7, <3>8 DEF Placed
  <2>5. CASE ~Dual(f)
    <3>1. Place(f)' = "begin"
      BY <2>1, <2>5 DEF Place, Source
    <3>2. OnePlace(f)'
      BY <2>1, <3>1 DEF OnePlace, Right
    <3>. QED
      BY <2>5, <3>2 DEF Placed
  <2>. QED
    BY <2>4, <2>5
<1>. QED
  BY <1>5, <1>6

\* Two decoders with a place of their own: after a result the one goes on
\* where the hardware stopped, and the other one gets the older of the two
\* places that are left, unless it has the newer one already.
LEMMA OtherPlace ==
  ASSUME TypeOK, NEW v \in Vdecs, Result(v), Dual(v), self
  PROVE  Place(Mate(v))' = Older(IF dirty_count[v] = 1 THEN Place(v) ELSE Place(Mate(v)))
<1>. DEFINE u == Mate(v)
<1>1. u \in Vdecs /\ u # v /\ FileOf(u) = FileOf(v) /\ Dual(u) /\ Mate(u) = v
  BY MateFacts
<1>2. Source(v) = v /\ Source(u) = u /\ Source(u)' = u
  BY <1>1 DEF Source, Result
<1>3. /\ page \in [Vdecs -> Places] /\ swap_valid \in Flags
      /\ dirty_count \in [Vdecs -> 0..1]
  BY TypeParts
<1>. DEFINE places == Aged(FileOf(v))
<1>4. places \in [Vdecs -> Places] /\ places[v] = Older(page[v]) /\ places[u] = Older(page[u])
  BY <1>1, <1>3 DEF Aged, Older, Places
<1>5. Older("begin") = "begin"
  BY DEF Older
<1>6. \/ dirty_count[v] = 0 /\ Keep(places)
      \/ dirty_count[v] = 1 /\ Borrow(v, places)
  BY DEF Result
<1>. HIDE DEF places
<1>7. CASE dirty_count[v] = 0 /\ Keep(places)
  BY <1>1, <1>2, <1>4, <1>5, <1>7 DEF Keep, Place
<1>8. CASE dirty_count[v] = 1 /\ Borrow(v, places)
  <2>1. page'[u] = places[v] /\ swap_valid'[u] = swap_valid[v]
    BY <1>1, <1>3, <1>4, <1>8 DEF Borrow, Flags
  <2>. QED
    BY <1>1, <1>2, <1>4, <1>5, <1>8, <2>1 DEF Place
<1>. QED
  BY <1>6, <1>7, <1>8

\* A result ages every place that was right before, and exchanges two pages if
\* they would get further apart.
LEMMA PlacedResult ==
  ASSUME NEW v \in Vdecs, Parts(FileOf(v)), Result(v),
         Dual(v) => dirty_count[v] = 0 \/ dirty_count[Mate(v)] = 0
  PROVE  Placed(FileOf(v))'
<1>. DEFINE f == FileOf(v)
            u == Mate(v)
<1> SUFFICES ASSUME ~spoilt'[f] PROVE Placed(f)'
  BY DEF Placed
<1>1. /\ f \in Mains /\ f \in Vdecs /\ FileOf(f) = f /\ v # None
      /\ (Dual(f) <=> Dual(v)) /\ (~Dual(v) => f = v)
  BY FileFacts
<1>2. /\ self' = self /\ spoilt' = spoilt /\ hw' = "last"
      /\ runner = v /\ runner' = None /\ ended' = v
      /\ results' = [results EXCEPT ![f] = IF @ = 3 THEN 3 ELSE @ + 1]
  BY DEF Result
<1>3. /\ TypeOK /\ ended = None /\ ~Of(runner, f)' /\ Of(ended, f)'
  BY <1>1, <1>2 DEF Parts, Of
<1>4. swap_needed'[v]
  BY <1>3, TypeParts DEF Result, Flags
<1>5. results[f] \in 0..3 /\ results'[f] = IF results[f] = 3 THEN 3 ELSE results[f] + 1
  BY <1>1, <1>2, <1>3, TypeParts
<1>6. results'[f] > 0 /\ (results'[f] = 1 <=> results[f] = 0)
  BY <1>5
<1>7. CASE ~(Dual(f) /\ self)
  <2>1. OnePlace(f)'
    BY <1>2, <1>3, <1>4, <1>6 DEF OnePlace, Right
  <2>. QED
    BY <1>2, <1>7, <2>1 DEF Placed
<1>8. CASE Dual(f) /\ self
  <2>1. TwoPlaces(f)
    BY <1>2, <1>8 DEF Parts, Placed
  <2>2. /\ u \in Vdecs /\ u # v /\ FileOf(u) = f /\ Dual(u) /\ Mate(u) = v
        /\ u # None /\ {f, Mate(f)} = {v, u}
    BY <1>1, <1>8, MateFacts, FileFacts
  <2>3. Saved(v) = Place(v) /\ Saved(u) = Place(u)
    BY <1>1, <1>3, <2>2 DEF Saved
  <2>4. Place(u)' = Older(IF dirty_count[v] = 1 THEN Place(v) ELSE Place(u))
    BY <1>1, <1>3, <1>8, OtherPlace
  <2>5. Saved(v)' = "last" /\ Saved(u)' = Place(u)'
    BY <1>2, <1>4, <2>2 DEF Saved
  <2>6. dirty_count'[v] = 1 /\ dirty_count'[u] = 0
    <3>1. dirty_count \in [Vdecs -> 0..1] /\ Dual(v)
      BY <1>1, <1>3, <1>8, TypeParts
    <3>. QED
      BY <2>2, <3>1 DEF Result, Dirty
  <2>7. Saved(u)' = IF results'[f] = 1 THEN "begin" ELSE "prev"
    <3>1. CASE results[f] = 0
      <4>1. Place(v) = "begin" /\ Place(u) = "begin"
        <5>1. Saved(f) = "begin" /\ Saved(Mate(f)) = "begin"
          BY <2>1, <3>1 DEF TwoPlaces
        <5>. QED
          BY <2>2, <2>3, <5>1
      <4>. QED
        BY <1>6, <2>4, <2>5, <3>1, <4>1 DEF Older
    <3>2. CASE results[f] > 0
      <4>1. PICK w \in {v, u} : /\ dirty_count[w] = 1 /\ dirty_count[Mate(w)] = 0
                                /\ Saved(w) \in {"last", "ahead"}
        BY <2>1, <2>2, <3>2 DEF TwoPlaces
      <4>2. CASE w = v
        BY <1>6, <2>3, <2>4, <2>5, <3>2, <4>1, <4>2 DEF Older
      <4>3. CASE w = u
        <5>1. dirty_count[v] = 0 /\ Place(u) \in {"last", "ahead"}
          BY <2>2, <2>3, <4>1, <4>3
        <5>. QED
          BY <1>6, <2>4, <2>5, <3>2, <5>1 DEF Older
      <4>. QED
        BY <4>1, <4>2, <4>3
    <3>. QED
      BY <1>5, <3>1, <3>2
  <2>8. TwoPlaces(f)'
    <3>1. \E w \in {f, Mate(f)} :
            (/\ dirty_count[w] = 1 /\ dirty_count[Mate(w)] = 0
             /\ Saved(w) \in {"last", "ahead"}
             /\ Saved(Mate(w)) = IF results[f] = 1 THEN "begin" ELSE "prev")'
      BY <2>2, <2>5, <2>6, <2>7
    <3>. QED
      BY <1>3, <1>6, <3>1 DEF TwoPlaces
  <2>. QED
    BY <1>2, <1>8, <2>8 DEF Placed
<1>. QED
  BY <1>7, <1>8

-----------------------------------------------------------------------------
(* The invariant is inductive *)

\* It holds before anything was decoded,
LEMMA InitInv == Init => IInv
<1> SUFFICES ASSUME Init PROVE IInv
  OBVIOUS
<1>1. TypeOK
  BY VdecSwapAssumption DEF Init, TypeOK, Places
<1>2. \A v \in Vdecs : Dual(v) => dirty_count[v] = 0
  BY DEF Init
<1>3. ASSUME NEW f \in Mains PROVE Placed(f)
  <2>1. \A v \in Vdecs : Saved(v) = "begin" /\ Place(v) = "begin"
    BY <1>1, SourceFacts, FileFacts DEF Init, Place, Saved
  <2>2. f \in Vdecs /\ (Dual(f) => Mate(f) \in Vdecs)
    BY MateFacts DEF Vdecs
  <2>3. runner = None /\ ended = None /\ results[f] = 0
    BY DEF Init
  <2>4. OnePlace(f)
    BY <2>1, <2>2, <2>3 DEF OnePlace, Right, Of
  <2>5. Dual(f) => TwoPlaces(f)
    BY <2>1, <2>2, <2>3 DEF TwoPlaces, Of
  <2>. QED
    BY <2>4, <2>5 DEF Placed
<1>. QED
  BY <1>1, <1>2, <1>3 DEF IInv, Init

\* Only a result counts, and it starts the mate's count anew.
Counted == \A v \in Vdecs : Dual(v) => dirty_count[v] = 0 \/ dirty_count[Mate(v)] = 0

\* A result of one decoder clears the count of the other.
LEMMA CountedStep ==
  ASSUME TypeOK, Counted, NEW v \in Vdecs, Result(v)
  PROVE  Counted'
<1>1. CASE ~Dual(v)
  BY <1>1 DEF Result, Counted
<1>2. CASE Dual(v)
  <2>1. /\ Mate(v) \in Vdecs /\ Mate(v) # v /\ Mate(Mate(v)) = v
    BY <1>2, MateFacts
  <2>2. /\ dirty_count'[Mate(v)] = 0
        /\ \A u \in Vdecs : u # v /\ u # Mate(v) => dirty_count'[u] = dirty_count[u]
    <3>1. dirty_count \in [Vdecs -> 0..1]
      BY TypeParts
    <3>. QED
      BY <1>2, <2>1, <3>1 DEF Result, Dirty
  <2>3. ASSUME NEW u \in Vdecs, Dual(u)
        PROVE  dirty_count'[u] = 0 \/ dirty_count'[Mate(u)] = 0
    <3>1. Mate(u) \in Vdecs /\ Mate(Mate(u)) = u
      BY <2>3, MateFacts
    <3>2. CASE u = v \/ u = Mate(v)
      BY <2>1, <2>2, <3>2
    <3>3. CASE u # v /\ u # Mate(v)
      <4>1. Mate(u) # v /\ Mate(u) # Mate(v)
        BY <2>1, <3>1, <3>3
      <4>. QED
        BY <2>2, <2>3, <3>1, <3>3, <4>1 DEF Counted
    <3>. QED
      BY <3>2, <3>3
  <2>. QED
    BY <2>3 DEF Counted
<1>. QED
  BY <1>1, <1>2

\* and every step keeps it.
LEMMA StepInv == IInv /\ [Next]_vars => IInv'
<1> SUFFICES ASSUME IInv, [Next]_vars PROVE IInv'
  OBVIOUS
<1>1. /\ TypeOK /\ Counted /\ (runner = None \/ ended = None)
      /\ \A f \in Mains : Parts(f)
  BY DEF IInv, Counted, Parts
<1>2. TypeOK'
  BY <1>1, TypeStep
<1>3. ASSUME NEW v \in Vdecs, Start(v) \/ Result(v) \/ NoResult(v) \/ CleanUp(v)
      PROVE  IInv'
  <2>1. FileOf(v) \in Mains
    BY FileFacts
  <2>2. runner' = None \/ ended' = None
    BY <1>3 DEF Start, Result, NoResult, CleanUp
  <2>3. Counted'
    <3>1. CASE Result(v)
      BY <1>1, <3>1, CountedStep
    <3>2. CASE Start(v) \/ NoResult(v) \/ CleanUp(v)
      <4>1. dirty_count' = dirty_count
        BY <3>2 DEF Start, NoResult, CleanUp, swap
      <4>. QED
        BY <1>1, <4>1 DEF Counted
    <3>. QED
      BY <1>3, <3>1, <3>2
  <2>4. ASSUME NEW f \in Mains PROVE Placed(f)'
    <3>1. CASE Start(v)
      BY <1>1, <3>1, PlacedStart
    <3>2. CASE FileOf(v) # f /\ ~Start(v)
      BY <1>1, <1>3, <3>2, PlacedElsewhere
    <3>3. CASE FileOf(v) = f /\ Result(v)
      BY <1>1, <3>3, PlacedResult DEF Counted
    <3>4. CASE FileOf(v) = f /\ NoResult(v)
      BY <1>1, <3>4, PlacedNoResult
    <3>5. CASE FileOf(v) = f /\ CleanUp(v)
      BY <1>1, <3>5, PlacedCleanUp
    <3>. QED
      BY <1>3, <3>1, <3>2, <3>3, <3>4, <3>5
  <2>. QED
    BY <1>2, <2>2, <2>3, <2>4 DEF IInv, Counted
<1>4. ASSUME NEW g \in Mains, Reset(g)
      PROVE  IInv'
  <2>1. /\ runner' = runner /\ ended' \in {ended, None} /\ dirty_count' = dirty_count
    BY <1>4 DEF Reset
  <2>2. Counted' /\ (runner' = None \/ ended' = None)
    BY <1>1, <2>1 DEF Counted
  <2>3. \A f \in Mains : Placed(f)'
    BY <1>1, <1>4, PlacedReset
  <2>. QED
    BY <1>2, <2>2, <2>3 DEF IInv, Counted
<1>5. CASE UNCHANGED vars
  BY <1>1, <1>2, <1>5 DEF IInv, Counted, Parts, Placed, OnePlace, TwoPlaces, Saved, Place,
    Source, Right, Of, vars, swap
<1>. QED
  BY <1>3, <1>4, <1>5 DEF Next

\* Every state a behaviour reaches satisfies the inductive invariant.
THEOREM Invariance == Spec => []IInv
<1>1. Init => IInv
  BY InitInv
<1>2. IInv /\ [Next]_vars => IInv'
  BY StepInv
<1>. QED
  BY <1>1, <1>2, PTL DEF Spec

-----------------------------------------------------------------------------
(* What it says of the code *)

\* The swap pages, flags and counters of vdec.c keep their types.
THEOREM TypeCorrect == Spec => []TypeOK
<1>1. IInv => TypeOK
  BY DEF IInv
<1>. QED
  BY <1>1, Invariance, PTL

\* vdec_prepare_input(): for any number of files, decoders that take up the place
\* saved last never go back behind a result.
THEOREM NothingTwice == Spec => []NeverBack
<1>1. IInv => NeverBack
  <2> SUFFICES ASSUME IInv, NEW v \in Vdecs, Tidy(FileOf(v)), ~Dual(v) \/ ~self
               PROVE  Place(v) \in Right(FileOf(v))
    BY DEF NeverBack, Right
  <2>. DEFINE f == FileOf(v)
  <2>1. TypeOK /\ Placed(f) /\ ~spoilt[f] /\ f \in Mains /\ (Dual(f) <=> Dual(v))
    BY FileFacts DEF IInv, Tidy
  <2>2. ~Of(ended, f)
    BY DEF Tidy, Of
  <2>3. Place(f) \in Right(f)
    BY <2>1, <2>2, PlacedParts DEF Pending
  <2>4. Source(v) = Source(f)
    BY <2>1, SourceFacts
  <2>. QED
    BY <2>3, <2>4 DEF Place
<1>. QED
  BY <1>1, Invariance, PTL

\* vdec_borrow_input_context(): for any number of files, the second decoder of a
\* file is never more than one result behind the first one, nor the first behind it.
THEOREM OneBehind == Spec => []AtMostOneBehind
<1>1. IInv => AtMostOneBehind
  <2> SUFFICES ASSUME IInv, NEW f \in Mains, Dual(f), self, Tidy(f)
               PROVE  /\ \A v \in {f, Mate(f)} :
                           \/ Place(v) \in {"last", "ahead", "prev"}
                           \/ Place(v) = "begin" /\ results[f] <= 1
                      /\ results[f] > 0 =>
                           \E v \in {f, Mate(f)} : Place(v) \in {"last", "ahead"}
    BY DEF AtMostOneBehind
  <2>1. TypeOK /\ TwoPlaces(f)
    BY DEF IInv, Placed, Tidy
  <2>2. /\ f \in Vdecs /\ Mate(f) \in Vdecs /\ Mate(Mate(f)) = f
        /\ FileOf(f) = f /\ FileOf(Mate(f)) = f /\ f # None /\ Mate(f) # None
    BY MateFacts, FileFacts, VdecSwapAssumption DEF Vdecs, FileOf
  <2>3. \A v \in {f, Mate(f)} : Saved(v) = Place(v)
    BY <2>2 DEF Saved, Tidy
  <2>4. results[f] \in 0..3
    BY <2>1, TypeParts
  <2>5. CASE results[f] = 0
    BY <2>1, <2>2, <2>3, <2>5 DEF TwoPlaces
  <2>6. CASE results[f] > 0
    <3>1. PICK v \in {f, Mate(f)} :
            /\ Saved(v) \in {"last", "ahead"}
            /\ Saved(Mate(v)) = IF results[f] = 1 THEN "begin" ELSE "prev"
      BY <2>1, <2>6 DEF TwoPlaces
    <3>2. Mate(v) \in {f, Mate(f)} /\ {v, Mate(v)} = {f, Mate(f)}
      BY <2>2
    <3>3. Place(v) \in {"last", "ahead"} /\ Place(Mate(v)) = IF results[f] = 1 THEN "begin" ELSE "prev"
      BY <2>3, <3>1, <3>2
    <3>. QED
      BY <2>4, <3>2, <3>3
  <2>. QED
    BY <2>4, <2>5, <2>6
<1>. QED
  BY <1>1, Invariance, PTL
=============================================================================
