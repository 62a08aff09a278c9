---------------------------- MODULE PtsServProofs ----------------------------
(***************************************************************************)
(* Proofs about PtsServ, for tables, buffers and integers of any size:     *)
(* what holds whatever calls overlap (Sound), and what holds as long as    *)
(* the table is not started or stopped during a check-in (IInv).           *)
(***************************************************************************)
EXTENDS PtsServ, SequenceTheorems, WellFoundedInduction, TLAPS

Rec == [offset : 0..M - 1, val : 0..M - 1]

-----------------------------------------------------------------------------
(* Arithmetic *)

\* A non-empty set of numbers up to a bound has a maximum.
LEMMA MaxExists ==
  ASSUME NEW n \in Nat, NEW S \in SUBSET (0..n), S # {}
  PROVE  Max(S) \in S /\ \A y \in S : Max(S) >= y
<1> DEFINE T == {n - x : x \in S}
           L == OpToRel(<, Nat)
           R == {ss \in Nat \X Nat : ss[1] < ss[2]}
<1>1. T \subseteq Nat /\ T # {}
  <2>1. \A x \in S : n - x \in Nat
    OBVIOUS
  <2>. QED
    BY <2>1
<1>2. IsWellFoundedOn(R, Nat)
  <2>1. L = R
    BY DEF OpToRel
  <2>2. IsWellFoundedOn(L, Nat)
    BY NatLessThanWellFounded
  <2> HIDE DEF L, R
  <2>. QED
    BY <2>1, <2>2
<1>3. PICK m \in T : \A t \in T : ~(<<t, m>> \in R)
  <2> HIDE DEF T, R
  <2>. QED
    BY <1>1, <1>2, WFMin
<1>4. \A t \in T : ~(t < m)
  BY <1>1, <1>3
<1>5. PICK x \in S : m = n - x
  OBVIOUS
<1>6. \A y \in S : x >= y
  <2>1. \A y \in S : ~(n - y < m)
    BY <1>4
  <2>. QED
    BY <1>5, <2>1
<1>. HIDE DEF T, L, R
<1>. QED
  BY <1>5, <1>6 DEF Max

\* u32 arithmetic.
LEMMA ModRange ==
  ASSUME NEW x \in Int, NEW m \in Nat \ {0}
  PROVE  x % m \in 0..m - 1
OBVIOUS

\* ... and the quotient a number.
LEMMA DivInt ==
  ASSUME NEW x \in Int, NEW m \in Nat \ {0}
  PROVE  x \div m \in Int
OBVIOUS

\* The difference of two positions is a number.
LEMMA DiffInt ==
  ASSUME NEW x \in Int, NEW y \in Int
  PROVE  Diff(x, y) \in Int
BY PtsServAssumption, ModRange DEF Diff

\* A position is not both later than another and not later than it.
LEMMA DiffFlip ==
  ASSUME NEW x \in Int, NEW y \in Int, Diff(x, y) > 0
  PROVE  Diff(y, x) < 0
<1> DEFINE a == x - y
           r == a % M
           q == a \div M
           s == (y - x) % M
           p == (y - x) \div M
<1>1. M \in Nat \ {0, 1}
  BY PtsServAssumption
<1>2. /\ a \in Int /\ r \in 0..M - 1 /\ q \in Int /\ a = M * q + r
      /\ s \in 0..M - 1 /\ p \in Int /\ -a = M * p + s
  BY <1>1
<1>3. r > 0 /\ 2 * r < M
  BY <1>1, <1>2 DEF Diff
<1> HIDE DEF a, r, q, s, p
<1>4. M * (p + q) = -(r + s)
  BY <1>1, <1>2
<1>5. p + q \in Int /\ r + s > 0 /\ r + s < 2 * M
  BY <1>1, <1>2, <1>3
<1>6. p + q = -1
  BY <1>1, <1>2, <1>4, <1>5
<1>7. s = M - r
  BY <1>1, <1>2, <1>4, <1>6
<1>. QED
  BY <1>1, <1>2, <1>3, <1>7 DEF Diff, s

\* The position of a place in the buffer is a u32.
LEMMA WrOffsetRange ==
  ASSUME NEW ptr \in Int, wpos \in Nat
  PROVE  WrOffset(ptr) \in 0..M - 1
<1>1. BufSize \in Nat \ {0} /\ M \in Nat \ {0}
  BY PtsServAssumption
<1>2. wpos \div BufSize \in Int /\ wpos % BufSize \in Int
  BY <1>1
<1> DEFINE page_no == IF ptr > wpos % BufSize THEN wpos \div BufSize - 1
                      ELSE wpos \div BufSize
<1>3. page_no \in Int
  BY <1>2
<1>4. BufSize * page_no + ptr \in Int
  BY <1>1, <1>3
<1>5. (BufSize * page_no + ptr) % M \in 0..M - 1
  BY <1>1, <1>4, ModRange
<1>. QED
  BY <1>5 DEF WrOffset

-----------------------------------------------------------------------------
(* What a look-up does to the list *)

\* The walk settles on a record of the list, or on none.
LEMMA CandidateRange ==
  ASSUME NEW v \in Seq(Rec), NEW s \in 1..Len(v), NEW o \in Int
  PROVE  Candidate(v, s, o) \in 0..Len(v)
<1>1. Len(v) \in Nat
  OBVIOUS
<1>2. CASE Later(o, v[s].offset)
  <2> DEFINE J == {j \in s..Len(v) :
                     \A k \in s + 1..j : ~Later(v[k].offset, o)}
  <2>1. s \in J
    OBVIOUS
  <2>2. J \in SUBSET (0..Len(v)) /\ J # {}
    BY <2>1
  <2>3. Max(J) \in 0..Len(v)
    <3> HIDE DEF J
    <3>. QED
      BY <1>1, <2>2, MaxExists
  <2>. QED
    BY <1>2, <2>3 DEF Candidate
<1>3. CASE ~Later(o, v[s].offset) /\ Later(v[s].offset, o)
  <2> DEFINE J == {0} \cup {j \in 1..s - 1 : EqLater(o, v[j].offset)}
  <2>1. J \in SUBSET (0..Len(v)) /\ J # {}
    BY <1>1
  <2>2. Max(J) \in 0..Len(v)
    <3> HIDE DEF J
    <3>. QED
      BY <1>1, <2>1, MaxExists
  <2>. QED
    BY <1>3, <2>2 DEF Candidate
<1>4. CASE ~Later(o, v[s].offset) /\ ~Later(v[s].offset, o)
  BY <1>4 DEF Candidate
<1>. QED
  BY <1>2, <1>3, <1>4

\* From the head of the list the walk goes forward only; what comes after the
\* record it settles on is later than the position.
LEMMA CandidateFromHead ==
  ASSUME NEW v \in Seq(Rec), 1 \in 1..Len(v), NEW o \in Int,
         NEW c, c = Candidate(v, 1, o), c # 0, c < Len(v)
  PROVE  \/ c = 1 /\ ~Later(o, v[1].offset)
         \/ Later(v[c + 1].offset, o)
<1>1. Len(v) \in Nat
  OBVIOUS
<1>2. CASE Later(o, v[1].offset)
  <2> DEFINE J == {j \in 1..Len(v) :
                     \A k \in 2..j : ~Later(v[k].offset, o)}
  <2>1. c = Max(J)
    BY <1>2 DEF Candidate
  <2>2. J \in SUBSET (0..Len(v)) /\ J # {}
    <3>1. 1 \in J
      OBVIOUS
    <3>. QED
      BY <3>1
  <2>3. c \in J /\ \A y \in J : c >= y
    <3> HIDE DEF J
    <3>. QED
      BY <1>1, <2>1, <2>2, MaxExists
  <2>4. c \in 1..Len(v) /\ \A k \in 2..c : ~Later(v[k].offset, o)
    BY <2>3
  <2>5. c + 1 \notin J
    BY <2>3, <2>4
  <2>6. Later(v[c + 1].offset, o)
    <3>1. SUFFICES ASSUME ~Later(v[c + 1].offset, o) PROVE FALSE
      OBVIOUS
    <3>2. \A k \in 2..c + 1 : ~Later(v[k].offset, o)
      BY <2>4, <3>1
    <3>3. c + 1 \in 1..Len(v)
      BY <1>1, <2>4
    <3>. QED
      BY <2>5, <3>2, <3>3
  <2>. QED
    BY <2>6
<1>3. CASE ~Later(o, v[1].offset) /\ Later(v[1].offset, o)
  <2>1. {0} \cup {j \in 1..0 : EqLater(o, v[j].offset)} = {0}
    OBVIOUS
  <2>2. c = Max({0})
    BY <1>3, <2>1 DEF Candidate
  <2>3. Max({0}) = 0
    BY DEF Max
  <2>. QED
    BY <2>2, <2>3
<1>4. CASE ~Later(o, v[1].offset) /\ ~Later(v[1].offset, o)
  BY <1>4 DEF Candidate
<1>. QED
  BY <1>2, <1>3, <1>4

\* Taking records out of the list.
LEMMA WithoutShape ==
  ASSUME NEW v \in Seq(Rec), NEW i \in 1..Len(v), NEW j \in i..Len(v)
  PROVE  /\ Without(v, i, j) \in Seq(Rec)
         /\ Len(Without(v, i, j)) = Len(v) - (j - i + 1)
         /\ i = 1 => \A k \in 1..Len(v) - j : Without(v, i, j)[k] = v[k + j]
<1> DEFINE a == SubSeq(v, 1, i - 1)
           b == SubSeq(v, j + 1, Len(v))
<1>1. Len(v) \in Nat /\ \A k \in 1..Len(v) : v[k] \in Rec
  OBVIOUS
<1>2. a \in Seq(Rec) /\ Len(a) = i - 1
  BY <1>1, SubSeqProperties
<1>3. /\ b \in Seq(Rec) /\ Len(b) = Len(v) - j
      /\ \A k \in 1..Len(v) - j : b[k] = v[j + 1 + k - 1]
  BY <1>1, SubSeqProperties
<1> HIDE DEF a, b
<1>4. /\ a \o b \in Seq(Rec) /\ Len(a \o b) = Len(a) + Len(b)
      /\ \A k \in 1..Len(a) + Len(b) :
           (a \o b)[k] = IF k <= Len(a) THEN a[k] ELSE b[k - Len(a)]
  BY <1>2, <1>3, ConcatProperties
<1>5. Without(v, i, j) = a \o b
  BY DEF Without, a, b
<1>6. Len(a) \in Int /\ Len(b) \in Int /\ i \in Int /\ j \in Int
      /\ i >= 1 /\ j >= i /\ j <= Len(v)
  BY <1>1, <1>2, <1>3
<1>7. Len(a) + Len(b) = Len(v) - (j - i + 1)
  BY <1>1, <1>2, <1>3, <1>6
<1>8. ASSUME i = 1, NEW k \in 1..Len(v) - j
      PROVE  (a \o b)[k] = v[k + j]
  <2>1. Len(a) = 0 /\ k \in 1..Len(a) + Len(b) /\ ~(k <= Len(a)) /\ k \in Int
    BY <1>1, <1>2, <1>3, <1>6, <1>8
  <2>2. (a \o b)[k] = b[k - Len(a)]
    BY <1>4, <2>1
  <2>3. k - Len(a) = k /\ j + 1 + k - 1 = k + j
    BY <1>6, <2>1
  <2>4. b[k] = v[j + 1 + k - 1]
    BY <1>3, <1>8
  <2>. QED
    BY <2>2, <2>3, <2>4
<1>. QED
  BY <1>4, <1>5, <1>7, <1>8

\* Video drops no more records than there are, audio none.
LEMMA DroppedOldRange ==
  ASSUME valid \in Seq(Rec), NEW o \in Int
  PROVE  /\ DroppedOld(o) \in 0..Len(valid)
         /\ type = "audio" => DroppedOld(o) = 0
<1> DEFINE K == {k \in 0..Len(valid) :
                   \A i \in 1..k : Diff(o, valid[i].offset) > KeepRange}
<1>1. Len(valid) \in Nat
  OBVIOUS
<1>2. K \in SUBSET (0..Len(valid)) /\ K # {}
  <2>1. 0 \in K
    BY <1>1
  <2>. QED
    BY <2>1
<1>3. Max(K) \in 0..Len(valid)
  <2> HIDE DEF K
  <2>. QED
    BY <1>1, <1>2, MaxExists
<1>4. DroppedOld(o) = IF type = "video" THEN Max(K) ELSE 0
  BY DEF DroppedOld
<1> HIDE DEF K
<1>. QED
  BY <1>1, <1>3, <1>4

\* Where the next walk may start.
SearchIn(v, search) ==
  search \in 0..Len(v) /\ (type = "audio" => search = 0)

\* Dropping and passing records keeps count of them and the search start in
\* the list; an audio table's walk settles on what is then its head.
LEMMA WalkedShape ==
  ASSUME type \in {"video", "audio"}, valid \in Seq(Rec),
         SearchIn(valid, pts_search), NEW o \in Int,
         NEW w, w = Walked(o)
  PROVE  /\ w.v \in Seq(Rec) /\ w.c \in 0..Len(w.v) /\ w.freed \in Nat
         /\ Len(w.v) + w.freed = Len(valid)
         /\ SearchIn(w.v, w.search)
         /\ type = "audio" /\ w.c # 0 /\ w.c < Len(w.v) =>
              /\ w.c = 1
              /\ ~Later(o, w.v[1].offset) \/ Later(w.v[2].offset, o)
         /\ type = "audio" => w.c \in 0..1
<1> DEFINE d == DroppedOld(o)
           v == SubSeq(valid, d + 1, Len(valid))
           search == SearchAfterDrop(d)
           s == IF search = 0 THEN 1 ELSE search
           c == IF v = <<>> THEN 0 ELSE Candidate(v, s, o)
           passed == IF type = "audio" /\ c > s THEN c - s ELSE 0
<1>1. Len(valid) \in Nat /\ \A k \in 1..Len(valid) : valid[k] \in Rec
  OBVIOUS
<1>2. d \in 0..Len(valid) /\ (type = "audio" => d = 0)
  BY DroppedOldRange
<1> HIDE DEF d
<1>3. v \in Seq(Rec) /\ Len(v) = Len(valid) - d
  BY <1>1, <1>2, SubSeqProperties
<1>4. SearchIn(v, search)
  <2> HIDE DEF v
  <2>. QED
    BY <1>1, <1>2, <1>3 DEF SearchIn, SearchAfterDrop
<1> HIDE DEF v, search
<1>5. v # <<>> => s \in 1..Len(v)
  BY <1>3, <1>4 DEF SearchIn
<1>6. c \in 0..Len(v)
  <2> HIDE DEF s
  <2>1. CASE v = <<>>
    BY <2>1, <1>3
  <2>2. CASE v # <<>>
    BY <2>2, <1>3, <1>5, CandidateRange
  <2>. QED
    BY <2>1, <2>2
<1>7. type = "audio" => search = 0 /\ s = 1
  BY <1>4 DEF SearchIn
<1>8. type = "audio" /\ c # 0 /\ c < Len(v) =>
        (c = 1 /\ ~Later(o, v[1].offset)) \/ Later(v[c + 1].offset, o)
  <2>1. SUFFICES ASSUME type = "audio", c # 0, c < Len(v)
                 PROVE  (c = 1 /\ ~Later(o, v[1].offset))
                           \/ Later(v[c + 1].offset, o)
    OBVIOUS
  <2>2. v # <<>> /\ c = Candidate(v, 1, o)
    BY <2>1, <1>7
  <2>3. 1 \in 1..Len(v)
    BY <1>3, <1>6, <2>1
  <2> HIDE DEF c
  <2>. QED
    BY <2>1, <2>2, <2>3, <1>3, CandidateFromHead
<1>9. w = [v |-> IF passed = 0 THEN v ELSE Without(v, s, s + passed - 1),
           c |-> c - passed,
           freed |-> d + passed,
           search |-> IF passed > 0 /\ search > 0 THEN Outside ELSE search]
  BY DEF Walked, d, v, search
<1>10. CASE type = "audio" /\ c > 1
  <2>1. s = 1 /\ passed = c - 1 /\ search = 0 /\ d = 0
    BY <1>10, <1>2, <1>7
  <2>2. /\ w.v = Without(v, 1, c - 1) /\ w.c = 1 /\ w.freed = c - 1
        /\ w.search = 0
    <3>1. c - (c - 1) = 1 /\ 1 + (c - 1) - 1 = c - 1 /\ c - 1 # 0
      BY <1>6, <1>10
    <3> HIDE DEF c, s, passed
    <3>. QED
      BY <1>6, <1>9, <2>1, <3>1
  <2> HIDE DEF c, s, passed
  <2>3. /\ w.v \in Seq(Rec) /\ Len(w.v) = Len(v) - (c - 1)
        /\ \A k \in 1..Len(v) - (c - 1) : w.v[k] = v[k + (c - 1)]
    <3> DEFINE j == c - 1
               u == Without(v, 1, j)
    <3>1. 1 \in 1..Len(v) /\ j \in 1..Len(v) /\ j - 1 + 1 = j
      BY <1>3, <1>6, <1>10
    <3> HIDE DEF j
    <3>2. /\ u \in Seq(Rec) /\ Len(u) = Len(v) - (j - 1 + 1)
          /\ \A k \in 1..Len(v) - j : u[k] = v[k + j]
      BY <1>3, <3>1, WithoutShape
    <3>3. w.v = u
      BY <2>2 DEF j
    <3> HIDE DEF u
    <3>4. /\ w.v \in Seq(Rec) /\ Len(w.v) = Len(v) - j
          /\ \A k \in 1..Len(v) - j : w.v[k] = v[k + j]
      BY <3>1, <3>2, <3>3
    <3>. QED
      BY <3>4 DEF j
  <2>4. Len(v) \in Nat
    BY <1>3
  <2>5. w.c < Len(w.v) => Later(w.v[2].offset, o)
    <3>1. SUFFICES ASSUME w.c < Len(w.v) PROVE Later(w.v[2].offset, o)
      OBVIOUS
    <3>2. c < Len(v) /\ w.v[2] = v[2 + (c - 1)]
      BY <1>6, <2>2, <2>3, <2>4, <3>1
    <3>3. 2 + (c - 1) = c + 1
      BY <1>6
    <3>. QED
      BY <1>6, <1>8, <1>10, <3>2, <3>3
  <2>. QED
    BY <1>2, <1>3, <1>6, <1>10, <2>1, <2>2, <2>3, <2>4, <2>5 DEF SearchIn
<1>11. CASE ~(type = "audio" /\ c > 1)
  <2>1. passed = 0
    BY <1>7, <1>11
  <2>2. w.v = v /\ w.c = c /\ w.freed = d /\ w.search = search
    <3> HIDE DEF c, s, passed
    <3>. QED
      BY <1>2, <1>6, <1>9, <2>1
  <2> HIDE DEF c, s, passed
  <2>3. type = "audio" => c \in 0..1
    BY <1>6, <1>11
  <2>. QED
    BY <1>2, <1>3, <1>4, <1>6, <1>8, <2>2, <2>3
<1>. QED
  BY <1>10, <1>11

-----------------------------------------------------------------------------
(* The records, whatever overlaps *)

\* The walk starts in the list while there are walks.  A check-in that has yet
\* to set PTS_RUNNING may do that to lists that were freed and set up again in
\* between; it does not find a search start of earlier walks there.
Searches ==
  /\ status = "RUNNING" => SearchIn(valid, pts_search)
  /\ status = "LOADING" \/ cpc = "run" => pts_search = 0
  /\ cpc = "run" => status # "RUNNING"

Sound == TypeOK /\ RecordsKept /\ Searches

\* It holds of a table that was never started.
LEMMA InitSound == Init => Sound
<1> SUFFICES ASSUME Init PROVE Sound
  OBVIOUS
<1>. USE PtsServAssumption
<1>1. valid \in Seq(Rec) /\ Len(valid) = 0
  BY DEF Init
<1>2. wpos \in 0..BufSize * Pages - 1
  <2>1. BufSize * Pages \in Nat \ {0}
    OBVIOUS
  <2>. QED
    BY <2>1 DEF Init
<1>3. cache \in [valid : BOOLEAN, offset : 0..M - 1, pts : 0..M - 1]
  BY DEF Init, NoCache
<1>4. /\ type \in Types /\ status = "IDLE" /\ pages = FALSE /\ nfree = 0
      /\ pts_search = 0 /\ first_lookup_ok = FALSE /\ opc = "idle"
      /\ cpc = "idle" /\ lost = FALSE
  BY DEF Init
<1>5. TypeOK
  BY <1>1, <1>2, <1>3, <1>4 DEF TypeOK, Rec
<1>. QED
  BY <1>4, <1>5 DEF Sound, RecordsKept, Searches

\* Steps that leave the lists alone.
LEMMA ControlSteps ==
  ASSUME Sound,
         \/ Start \/ StartFail \/ StartCache \/ Stop \/ StopFree
         \/ CheckinTest \/ CheckinRun \/ Write \/ UNCHANGED vars
  PROVE  Sound'
<1>. USE DEF Sound, TypeOK, RecordsKept, Searches, SearchIn
<1>1. CASE Start
  BY <1>1 DEF Start, lists, looks
<1>2. CASE StartFail
  BY <1>2 DEF StartFail, lists, looks
<1>3. CASE StartCache
  <2>1. NoCache \in [valid : BOOLEAN, offset : 0..M - 1, pts : 0..M - 1]
    BY PtsServAssumption DEF NoCache
  <2>. QED
    BY <1>3, <2>1 DEF StartCache, lists
<1>4. CASE Stop
  BY <1>4 DEF Stop, lists, looks
<1>5. CASE StopFree
  BY <1>5 DEF StopFree, looks
<1>6. CASE CheckinTest
  BY <1>6 DEF CheckinTest, lists, looks
<1>7. CASE CheckinRun
  BY <1>7 DEF CheckinRun, lists, looks
<1>8. CASE Write
  <2>1. wpos' \in 0..BufSize * Pages - 1
    <3>1. BufSize * Pages \in Nat \ {0}
      BY PtsServAssumption
    <3>2. wpos + 1 \in Int
      BY <3>1
    <3>. QED
      BY <1>8, <3>1, <3>2, ModRange DEF Write
  <2>. QED
    BY <1>8, <2>1 DEF Write, lists, looks
<1>9. CASE UNCHANGED vars
  BY <1>9 DEF vars, lists, looks
<1>. QED
  BY <1>1, <1>2, <1>3, <1>4, <1>5, <1>6, <1>7, <1>8, <1>9

\* Steps that set the lists up and throw them away.
LEMMA ListSteps ==
  ASSUME Sound, StartAlloc \/ StopDone
  PROVE  Sound'
<1>. USE PtsServAssumption DEF Sound
<1>1. ASSUME valid' = <<>> PROVE valid' \in Seq(Rec) /\ Len(valid') = 0
  BY <1>1
<1>2. CASE StartAlloc
  <2>1. valid' \in Seq(Rec) /\ Len(valid') = 0
    BY <1>1, <1>2 DEF StartAlloc
  <2>2. TypeOK'
    BY <1>2, <2>1 DEF StartAlloc, TypeOK, Rec
  <2>3. nfree' = RecNum /\ pts_search' = 0 /\ status' = "LOADING"
    BY <1>2 DEF StartAlloc
  <2>. QED
    BY <2>1, <2>2, <2>3 DEF RecordsKept, Searches
<1>3. CASE StopDone
  <2>1. valid' \in Seq(Rec) /\ Len(valid') = 0
    BY <1>1, <1>3 DEF StopDone
  <2>2. TypeOK'
    BY <1>3, <2>1 DEF StopDone, looks, TypeOK, Rec
  <2>. QED
    BY <1>3, <2>2 DEF StopDone, RecordsKept, Searches
<1>. QED
  BY <1>2, <1>3

\* A check-in takes a free record, or the oldest valid one.
LEMMA CheckinStep ==
  ASSUME Sound, NEW at \in Places, NEW val \in Vals, Checkin(at, val)
  PROVE  Sound'
<1> DEFINE r == [offset |-> WrOffset(at % BufSize), val |-> val]
<1>1. r \in Rec
  <2>1. at \in Int
    <3>1. BufSize * Pages \in Nat \ {0}
      BY PtsServAssumption
    <3>2. \A k \in 0..Window : (wpos - k) % (BufSize * Pages) \in Int
      BY <3>1, PtsServAssumption, ModRange DEF Sound, TypeOK
    <3>. QED
      BY <3>2 DEF Places
  <2>2. at % BufSize \in Int
    BY <2>1, PtsServAssumption, ModRange
  <2>3. wpos \in Nat
    BY PtsServAssumption DEF Sound, TypeOK
  <2>. QED
    BY <2>2, <2>3, WrOffsetRange, PtsServAssumption DEF Rec
<1>2. valid \in Seq(Rec) /\ nfree \in Nat /\ pts_search \in Nat \cup {Outside}
  BY DEF Sound, TypeOK, Rec
<1>3. Enlist(r)
  BY DEF Checkin
<1>4. /\ cpc' = "test" /\ lost' \in BOOLEAN
      /\ UNCHANGED <<type, status, pages, opc>>
      /\ UNCHANGED <<cache, first_lookup_ok, wpos>>
  <2>1. lost' = (lost \/ ~pages)
    BY DEF Checkin, Touch
  <2>. QED
    BY <2>1 DEF Checkin, looks
<1> HIDE DEF r
<1>5. /\ valid' \in Seq(Rec) /\ nfree' \in Nat /\ pts_search' \in Nat \cup {Outside}
      /\ Len(valid') + nfree' = Len(valid) + nfree
      /\ Len(valid') >= Len(valid)
      /\ pts_search = 0 => pts_search' = 0
      /\ pts_search \in 0..Len(valid) => pts_search' \in 0..Len(valid')
  <2>1. CASE nfree > 0
    <3>1. valid' = Append(valid, r) /\ nfree' = nfree - 1
             /\ pts_search' = pts_search
      BY <1>3, <2>1 DEF Enlist
    <3>2. Append(valid, r) \in Seq(Rec)
             /\ Len(Append(valid, r)) = Len(valid) + 1
      BY <1>1, <1>2, AppendProperties
    <3>. QED
      BY <1>2, <2>1, <3>1, <3>2
  <2>2. CASE ~(nfree > 0) /\ valid # <<>>
    <3>1. valid' = Append(Tail(valid), r) /\ nfree' = nfree
             /\ pts_search' = SearchAfterReuse
      BY <1>3, <2>2 DEF Enlist
    <3>2. Tail(valid) \in Seq(Rec) /\ Len(Tail(valid)) = Len(valid) - 1
      BY <1>2, <2>2, HeadTailProperties
    <3>3. Append(Tail(valid), r) \in Seq(Rec)
             /\ Len(Append(Tail(valid), r)) = Len(valid) - 1 + 1
      BY <1>1, <3>2, AppendProperties
    <3>4. Len(valid) \in Nat /\ Len(valid') = Len(valid)
      BY <1>2, <3>1, <3>3
    <3>. QED
      BY <1>2, <3>1, <3>3, <3>4 DEF SearchAfterReuse, Outside
  <2>3. CASE ~(nfree > 0) /\ valid = <<>>
    BY <1>2, <1>3, <2>3 DEF Enlist
  <2>. QED
    BY <2>1, <2>2, <2>3
<1>6. TypeOK'
  BY <1>4, <1>5 DEF Sound, TypeOK, Rec
<1>7. RecordsKept'
  BY <1>4, <1>5 DEF Sound, RecordsKept
<1>8. Searches'
  BY <1>4, <1>5 DEF Sound, Searches, SearchIn
<1>. QED
  BY <1>6, <1>7, <1>8 DEF Sound

\* What every look-up that walks finds.
LEMMA LookShape ==
  ASSUME Sound, NEW o \in Asked, Looks(o), NEW w, w = Walked(o)
  PROVE  /\ o \in 0..M - 1 /\ type \in {"video", "audio"}
         /\ status = "RUNNING" /\ lost' \in BOOLEAN /\ cpc # "run"
         /\ nfree \in Nat /\ valid \in Seq(Rec)
         /\ w.v \in Seq(Rec) /\ w.c \in 0..Len(w.v) /\ w.freed \in Nat
         /\ Len(w.v) + w.freed = Len(valid)
         /\ SearchIn(w.v, w.search)
         /\ type = "audio" => w.c \in 0..1
         /\ type = "audio" /\ w.c # 0 /\ w.c < Len(w.v) =>
              /\ w.c = 1
              /\ ~Later(o, w.v[1].offset) \/ Later(w.v[2].offset, o)
<1>1. o \in 0..M - 1
  <2>1. PICK k \in 0..Window : o = (wpos - k) % M
    BY DEF Asked
  <2>2. wpos \in Int /\ Window \in Nat /\ M \in Nat \ {0}
    BY PtsServAssumption DEF Sound, TypeOK
  <2>3. wpos - k \in Int
    BY <2>2
  <2>. QED
    BY <2>1, <2>2, <2>3, ModRange
<1>2. /\ type \in {"video", "audio"} /\ valid \in Seq(Rec) /\ nfree \in Nat
      /\ status = "RUNNING"
  BY PtsServAssumption DEF Sound, TypeOK, Rec, Looks
<1>3. lost' \in BOOLEAN
  <2>1. lost' = (lost \/ ~pages)
    BY DEF Looks, Touch
  <2>. QED
    BY <2>1
<1>4. SearchIn(valid, pts_search) /\ cpc # "run"
  BY <1>2 DEF Sound, Searches
<1>5. o \in Int
  BY <1>1, PtsServAssumption
<1>6. /\ w.v \in Seq(Rec) /\ w.c \in 0..Len(w.v) /\ w.freed \in Nat
      /\ Len(w.v) + w.freed = Len(valid)
      /\ SearchIn(w.v, w.search)
      /\ type = "audio" => w.c \in 0..1
      /\ type = "audio" /\ w.c # 0 /\ w.c < Len(w.v) =>
           /\ w.c = 1
           /\ ~Later(o, w.v[1].offset) \/ Later(w.v[2].offset, o)
  BY <1>2, <1>4, <1>5, WalkedShape
<1>. QED
  BY <1>1, <1>2, <1>3, <1>4, <1>6

\* Look-ups that hand nothing out.
LEMMA LeaveSteps ==
  ASSUME Sound, NEW o \in Asked, LookupUnset(o) \/ LookupMiss(o)
  PROVE  Sound'
<1> DEFINE w == Walked(o)
<1>1. Looks(o) /\ Leave(w)
  BY DEF LookupUnset, LookupMiss
<1>2. /\ first_lookup_ok' \in BOOLEAN
      /\ UNCHANGED <<type, status, pages, cache, wpos, opc, cpc>>
  BY DEF LookupUnset, LookupMiss, looks, Sound, TypeOK
<1> HIDE DEF w
<1>3. /\ status = "RUNNING" /\ lost' \in BOOLEAN /\ cpc # "run" /\ nfree \in Nat
      /\ w.v \in Seq(Rec) /\ w.freed \in Nat
      /\ Len(w.v) + w.freed = Len(valid)
      /\ SearchIn(w.v, w.search)
  BY <1>1, LookShape DEF w
<1>4. valid' = w.v /\ nfree' = nfree + w.freed /\ pts_search' = w.search
  BY <1>1 DEF Leave
<1>5. TypeOK'
  <2>1. valid' \in Seq(Rec) /\ nfree' \in Nat /\ pts_search' \in Nat
    BY <1>3, <1>4 DEF SearchIn
  <2>. QED
    BY <1>2, <1>3, <2>1 DEF Sound, TypeOK, Rec
<1>6. RecordsKept'
  <2>1. Len(valid') + nfree' = Len(valid) + nfree
    BY <1>3, <1>4
  <2>. QED
    BY <1>2, <2>1 DEF Sound, RecordsKept
<1>7. Searches'
  BY <1>2, <1>3, <1>4 DEF Searches, SearchIn
<1>. QED
  BY <1>5, <1>6, <1>7 DEF Sound

\* Look-ups that hand out a record.
LEMMA HandOutSteps ==
  ASSUME Sound, NEW o \in Asked, Looks(o), NEW w, w = Walked(o), w.c # 0,
         NEW pts \in 0..M - 1, HandOut(w, o, pts),
         UNCHANGED <<type, status, pages, wpos, opc, cpc>>
  PROVE  Sound'
<1>1. /\ o \in 0..M - 1 /\ status = "RUNNING" /\ lost' \in BOOLEAN
      /\ cpc # "run" /\ nfree \in Nat
      /\ w.v \in Seq(Rec) /\ w.c \in 0..Len(w.v) /\ w.freed \in Nat
      /\ Len(w.v) + w.freed = Len(valid)
      /\ type = "audio" => w.c \in 0..1
  BY LookShape
<1>2. w.c \in 1..Len(w.v) /\ w.c \in w.c..Len(w.v)
  BY <1>1
<1>3. valid' \in Seq(Rec) /\ Len(valid') = Len(w.v) - 1
  <2>1. /\ Without(w.v, w.c, w.c) \in Seq(Rec)
        /\ Len(Without(w.v, w.c, w.c)) = Len(w.v) - (w.c - w.c + 1)
    BY <1>1, <1>2, WithoutShape
  <2>2. w.c - w.c + 1 = 1
    BY <1>2
  <2>. QED
    BY <2>1, <2>2 DEF HandOut
<1>4. /\ nfree' = nfree + w.freed + 1 /\ pts_search' = w.c - 1
      /\ cache' = [valid |-> TRUE, offset |-> o, pts |-> pts]
      /\ first_lookup_ok' = TRUE
  BY DEF HandOut
<1>5. /\ nfree' \in Nat /\ Len(valid') + nfree' = Len(valid) + nfree
      /\ pts_search' \in 0..Len(valid')
      /\ type = "audio" => pts_search' = 0
  <2> DEFINE n == Len(w.v)
             m == Len(valid')
             c == w.c
             f == w.freed
             all == Len(valid)
  <2>1. n \in Nat
    BY <1>1
  <2>2. /\ c \in 1..n /\ f \in Nat /\ nfree \in Nat /\ m = n - 1
        /\ n + f = all /\ (type = "audio" => c \in 0..1)
    BY <1>1, <1>2, <1>3
  <2>3. nfree' = nfree + f + 1 /\ pts_search' = c - 1
    BY <1>4
  <2> HIDE DEF n, m, c, f, all
  <2>4. nfree' \in Nat
    BY <2>2, <2>3
  <2>5. m + nfree' = all + nfree
    BY <2>1, <2>2, <2>3
  <2>6. pts_search' \in 0..m
    BY <2>1, <2>2, <2>3
  <2>7. type = "audio" => pts_search' = 0
    BY <2>1, <2>2, <2>3
  <2>. QED
    BY <2>4, <2>5, <2>6, <2>7 DEF m, all
<1>6. cache' \in [valid : BOOLEAN, offset : 0..M - 1, pts : 0..M - 1]
  BY <1>1, <1>4
<1>7. TypeOK'
  <2>1. pts_search' \in Nat /\ lost' \in BOOLEAN
           /\ first_lookup_ok' \in BOOLEAN
    BY <1>1, <1>4, <1>5
  <2>2. /\ type \in Types /\ pages \in BOOLEAN /\ wpos \in 0..BufSize * Pages - 1
        /\ status \in {"IDLE", "INIT", "LOADING", "RUNNING", "DEINIT"}
        /\ opc \in {"idle", "alloc", "cache", "free"}
        /\ cpc \in {"idle", "test", "run"}
    BY DEF Sound, TypeOK
  <2>3. valid' \in Seq(Rec) /\ nfree' \in Nat
    BY <1>3, <1>5
  <2>4. /\ type' \in Types /\ pages' \in BOOLEAN
        /\ wpos' \in 0..BufSize * Pages - 1
        /\ status' \in {"IDLE", "INIT", "LOADING", "RUNNING", "DEINIT"}
        /\ opc' \in {"idle", "alloc", "cache", "free"}
        /\ cpc' \in {"idle", "test", "run"}
    BY <2>2
  <2>. QED
    BY <1>6, <2>1, <2>3, <2>4 DEF TypeOK, Rec
<1>8. RecordsKept'
  BY <1>5 DEF Sound, RecordsKept
<1>9. Searches'
  BY <1>1, <1>5 DEF Searches, SearchIn
<1>. QED
  BY <1>7, <1>8, <1>9 DEF Sound

\* A record that is found goes from the list to the free ones.
LEMMA FoundStep ==
  ASSUME Sound, NEW o \in Asked, LookupFound(o)
  PROVE  Sound'
<1> DEFINE w == Walked(o)
           pts == IF w.v[w.c].val = 0 THEN 1 ELSE w.v[w.c].val
<1>1. /\ Looks(o) /\ w.c # 0 /\ HandOut(w, o, pts)
      /\ UNCHANGED <<type, status, pages, wpos, opc, cpc>>
  BY DEF LookupFound, Near
<1>2. pts \in 0..M - 1
  <2> HIDE DEF w
  <2>1. w.v \in Seq(Rec) /\ w.c \in 1..Len(w.v)
    BY <1>1, LookShape DEF w
  <2>2. w.v[w.c] \in Rec
    BY <2>1
  <2>. QED
    BY <2>2, PtsServAssumption DEF Rec
<1>. HIDE DEF w, pts
<1>. QED
  BY <1>1, <1>2, HandOutSteps DEF w

\* The interpolation is between records at different positions.
LEMMA NextIsApart ==
  ASSUME Sound, NEW o \in Asked, Looks(o), NEW w, w = Walked(o),
         ~Near(w, o), HasNext(w)
  PROVE  /\ w.c = 1 /\ w.v[1] \in Rec /\ w.v[2] \in Rec
         /\ w.v[2].offset # w.v[1].offset
<1>1. type = "audio" /\ w.c # 0 /\ w.c < Len(w.v)
  BY DEF HasNext
<1>2. /\ o \in Int /\ w.v \in Seq(Rec) /\ w.c = 1
      /\ ~Later(o, w.v[1].offset) \/ Later(w.v[2].offset, o)
  BY <1>1, LookShape, PtsServAssumption
<1>3. w.v[1] \in Rec /\ w.v[2] \in Rec
  BY <1>1, <1>2
<1>4. w.v[1].offset \in Int /\ w.v[2].offset \in Int
  BY <1>3, PtsServAssumption DEF Rec
<1>5. Diff(o, w.v[1].offset) > 0
  <2>1. ~(Diff(o, w.v[1].offset) < Margin)
    BY <1>1, <1>2 DEF Near
  <2>2. Margin \in Nat \ {0}
    BY PtsServAssumption DEF Margin
  <2>3. Diff(o, w.v[1].offset) \in Int
    BY <1>2, <1>4, DiffInt
  <2>. QED
    BY <2>1, <2>2, <2>3
<1>6. Diff(w.v[2].offset, o) > 0
  BY <1>2, <1>5 DEF Later
<1>7. Diff(o, w.v[2].offset) < 0
  BY <1>2, <1>4, <1>6, DiffFlip
<1>8. Diff(o, w.v[1].offset) \in Int
  BY <1>2, <1>4, DiffInt
<1>. QED
  BY <1>2, <1>3, <1>5, <1>7, <1>8

\* ... so it divides by a positive number.
LEMMA Interpolation ==
  ASSUME NEW o1 \in 0..M - 1, NEW o2 \in 0..M - 1, o1 # o2, NEW o \in Int,
         NEW v1 \in 0..M - 1, NEW v2 \in 0..M - 1
  PROVE  ((((v2 - v1) * ((o - o1) % M)) % M) \div ((o2 - o1) % M) + v1) % M
           \in 0..M - 1
<1> DEFINE e == (o - o1) % M
           n == (v2 - v1) * e
           a == n % M
           b == (o2 - o1) % M
           q == a \div b
<1>1. M \in Nat \ {0}
  BY PtsServAssumption
<1>2. o - o1 \in Int /\ v2 - v1 \in Int /\ v1 \in Int
  BY <1>1
<1>3. e \in Int
  BY <1>1, <1>2
<1> HIDE DEF e
<1>4. n \in Int
  BY <1>2, <1>3
<1> HIDE DEF n
<1>5. a \in Int
  BY <1>1, <1>4
<1>6. b \in Nat \ {0}
  <2>1. CASE o2 > o1
    BY <1>1, <2>1
  <2>2. CASE o2 < o1
    <3>1. o2 - o1 + M \in 1..M - 1
      BY <1>1, <2>2
    <3>2. b = o2 - o1 + M
      BY <1>1, <2>2
    <3>. QED
      BY <1>1, <3>1, <3>2
  <2>. QED
    BY <1>1, <2>1, <2>2
<1> HIDE DEF a, b
<1>7. q \in Int
  BY <1>5, <1>6, DivInt
<1> HIDE DEF q
<1>8. (q + v1) % M \in 0..M - 1
  BY <1>1, <1>2, <1>7
<1>. QED
  BY <1>8 DEF q, a, b, n, e

\* An interpolated time stamp fits in u32.
LEMMA BetweenRange ==
  ASSUME NEW w, w.c = 1, w.v[1] \in Rec, w.v[2] \in Rec,
         w.v[2].offset # w.v[1].offset, NEW o \in Int
  PROVE  Between(w, o) \in 0..M - 1
<1>1. /\ w.v[1].val \in 0..M - 1 /\ w.v[2].val \in 0..M - 1
      /\ w.v[1].offset \in 0..M - 1 /\ w.v[2].offset \in 0..M - 1
  BY DEF Rec
<1>2. w.c + 1 = 2
  OBVIOUS
<1>. QED
  BY <1>1, <1>2, Interpolation DEF Between

\* An interpolation hands out the earlier of its records.
LEMMA BetweenStep ==
  ASSUME Sound, NEW o \in Asked, LookupBetween(o)
  PROVE  Sound'
<1> DEFINE w == Walked(o)
           pts == Between(w, o)
<1>1. /\ Looks(o) /\ ~Near(w, o) /\ HasNext(w) /\ HandOut(w, o, pts)
      /\ UNCHANGED <<type, status, pages, wpos, opc, cpc>>
  BY DEF LookupBetween
<1> HIDE DEF w, pts
<1>2. w.c = 1 /\ pts \in 0..M - 1
  <2>1. /\ w.c = 1 /\ w.v[1] \in Rec /\ w.v[2] \in Rec
        /\ w.v[2].offset # w.v[1].offset
    BY <1>1, NextIsApart DEF w
  <2>2. o \in Int
    BY <1>1, LookShape, PtsServAssumption DEF w
  <2>. QED
    BY <2>1, <2>2, BetweenRange DEF pts
<1>. QED
  BY <1>1, <1>2, HandOutSteps DEF w

-----------------------------------------------------------------------------
(* The stages of the table, when nothing overlaps *)

Working == status \in {"LOADING", "RUNNING"}

\* Which calls may be in progress in which status, and when there are records.
Stages ==
  /\ opc = "alloc" => status = "INIT"
  /\ opc = "cache" => status = "LOADING"
  /\ opc = "free" => status = "DEINIT"
  /\ opc = "idle" => status \in {"IDLE", "INIT", "LOADING", "RUNNING"}
  /\ Working => pages
  /\ pages => Working \/ status = "DEINIT"
  /\ cpc # "idle" => opc = "idle" /\ Working
  /\ cpc = "run" => status = "LOADING"
  /\ ~lost

\* What is cached was found since the table was started.
Fresh == Working /\ opc = "idle" /\ cache.valid => first_lookup_ok

IInv == Sound /\ Stages /\ Fresh

\* Starting and stopping wait for check-ins, and these for them.
LEMMA ControlStages ==
  ASSUME IInv, Overlaps = FALSE,
         \/ Start \/ StartAlloc \/ StartFail \/ StartCache
         \/ Stop \/ StopFree \/ StopDone
         \/ CheckinTest \/ CheckinRun \/ Write \/ UNCHANGED vars
  PROVE  Stages' /\ Fresh'
<1>. USE DEF IInv, Sound, TypeOK, Working, Stages, Fresh
<1>1. CASE Start
  BY <1>1 DEF Start, Free, lists, looks
<1>2. CASE StartAlloc
  BY <1>2 DEF StartAlloc
<1>3. CASE StartFail
  BY <1>3 DEF StartFail, lists, looks
<1>4. CASE StartCache
  BY <1>4 DEF StartCache, NoCache, lists
<1>5. CASE Stop
  BY <1>5 DEF Stop, Free, lists, looks
<1>6. CASE StopFree
  BY <1>6 DEF StopFree, looks
<1>7. CASE StopDone
  BY <1>7 DEF StopDone, looks
<1>8. CASE CheckinTest
  BY <1>8 DEF CheckinTest, lists, looks
<1>9. CASE CheckinRun
  BY <1>9 DEF CheckinRun, lists, looks
<1>10. CASE Write
  BY <1>10 DEF Write, lists, looks
<1>11. CASE UNCHANGED vars
  BY <1>11 DEF vars, lists, looks
<1>. QED
  BY <1>1, <1>2, <1>3, <1>4, <1>5, <1>6, <1>7, <1>8, <1>9, <1>10, <1>11

\* A table that works has its records.
LEMMA CheckinStages ==
  ASSUME IInv, Overlaps = FALSE,
         NEW at \in Places, NEW val \in Vals, Checkin(at, val)
  PROVE  Stages' /\ Fresh'
<1>1. Working /\ pages /\ ~lost /\ opc = "idle"
  BY DEF IInv, Checkin, Free, Working, Stages
<1>2. lost' = lost
  <2>1. lost = FALSE /\ pages = TRUE
    BY <1>1 DEF IInv, Sound, TypeOK
  <2>2. lost' = (lost \/ ~pages)
    BY DEF Checkin, Touch
  <2>. QED
    BY <2>1, <2>2
<1>3. cpc' = "test" /\ UNCHANGED <<type, status, pages, looks, wpos, opc>>
  BY DEF Checkin
<1>. QED
  BY <1>1, <1>2, <1>3 DEF IInv, Stages, Fresh, Working, looks

\* A look-up that answers has been the first to do so, or comes after it.
LEMMA LookupStages ==
  ASSUME IInv, NEW o \in Asked,
         \/ LookupFound(o) \/ LookupBetween(o)
         \/ LookupUnset(o) \/ LookupMiss(o)
  PROVE  Stages' /\ Fresh'
<1>1. Looks(o) /\ UNCHANGED <<type, status, pages, wpos, opc, cpc>>
  BY DEF LookupFound, LookupBetween, LookupUnset, LookupMiss
<1>2. status = "RUNNING" /\ pages /\ ~lost /\ opc = "idle"
  BY <1>1 DEF Looks, IInv, Sound, TypeOK, Stages, Working
<1>3. lost' = lost
  <2>1. lost = FALSE /\ pages = TRUE
    BY <1>2 DEF IInv, Sound, TypeOK
  <2>2. lost' = (lost \/ ~pages)
    BY <1>1 DEF Looks, Touch
  <2>. QED
    BY <2>1, <2>2
<1>4. \/ first_lookup_ok'
      \/ cache' = cache /\ (first_lookup_ok => first_lookup_ok')
  BY DEF LookupFound, LookupBetween, LookupUnset, LookupMiss, HandOut, looks
<1>. QED
  BY <1>1, <1>2, <1>3, <1>4 DEF IInv, Stages, Fresh, Working

-----------------------------------------------------------------------------
(* Theorems *)

\* The lists' invariant holds in every behaviour, also when the table is
\* stopped and started during a check-in and runs without memory.
THEOREM Soundness == Spec => []Sound
<1>1. Sound /\ [Next]_vars => Sound'
  <2>1. SUFFICES ASSUME Sound, [Next]_vars PROVE Sound'
    OBVIOUS
  <2>2. CASE StartAlloc \/ StopDone
    BY <2>1, <2>2, ListSteps
  <2>3. CASE \/ Start \/ StartFail \/ StartCache \/ Stop \/ StopFree
             \/ CheckinTest \/ CheckinRun \/ Write \/ UNCHANGED vars
    BY <2>1, <2>3, ControlSteps
  <2>4. ASSUME NEW at \in Places, NEW val \in Vals, Checkin(at, val)
        PROVE  Sound'
    BY <2>1, <2>4, CheckinStep
  <2>5. ASSUME NEW o \in Asked,
               \/ LookupFound(o) \/ LookupBetween(o)
               \/ LookupUnset(o) \/ LookupMiss(o)
        PROVE  Sound'
    BY <2>1, <2>5, FoundStep, BetweenStep, LeaveSteps
  <2>. QED
    BY <2>1, <2>2, <2>3, <2>4, <2>5 DEF Next
<1>. QED
  BY <1>1, InitSound, PTL DEF Spec

\* As long as the table is not started or stopped during a check-in, the
\* calls in progress and the cache fit the status of the table.
THEOREM Invariance ==
  ASSUME Overlaps = FALSE
  PROVE  Spec => []IInv
<1>1. Init => Stages /\ Fresh
  BY DEF Init, Stages, Fresh, Working
<1>2. IInv /\ [Next]_vars => Stages' /\ Fresh'
  <2>1. SUFFICES ASSUME IInv, [Next]_vars PROVE Stages' /\ Fresh'
    OBVIOUS
  <2>2. CASE \/ Start \/ StartAlloc \/ StartFail \/ StartCache
             \/ Stop \/ StopFree \/ StopDone
             \/ CheckinTest \/ CheckinRun \/ Write \/ UNCHANGED vars
    BY <2>1, <2>2, ControlStages
  <2>3. ASSUME NEW at \in Places, NEW val \in Vals, Checkin(at, val)
        PROVE  Stages' /\ Fresh'
    BY <2>1, <2>3, CheckinStages
  <2>4. ASSUME NEW o \in Asked,
               \/ LookupFound(o) \/ LookupBetween(o)
               \/ LookupUnset(o) \/ LookupMiss(o)
        PROVE  Stages' /\ Fresh'
    BY <2>1, <2>4, LookupStages
  <2>. QED
    BY <2>1, <2>2, <2>3, <2>4 DEF Next
<1>3. IInv <=> Sound /\ Stages /\ Fresh
  BY DEF IInv
<1>. QED
  BY <1>1, <1>2, <1>3, Soundness, PTL DEF Spec

\* Every variable holds a value of its kind; in particular no look-up divides
\* by the distance of two records at one position.
THEOREM TypeCorrect == Spec => []TypeOK
<1>1. Sound => TypeOK
  BY DEF Sound
<1>. QED
  BY <1>1, Soundness, PTL

\* pts_start(), pts_checkin_offset_inline() and the look-ups lose no record and
\* list none twice, for tables of any size.
THEOREM RecordsKeptAlways == Spec => []RecordsKept
<1>1. Sound => RecordsKept
  BY DEF Sound
<1>. QED
  BY <1>1, Soundness, PTL

\* The walks of the look-up start from a record in valid_list or its head,
\* for audio always from its head.
THEOREM SearchStartAlways == Spec => []SearchStart
<1>1. Sound => SearchStart
  BY DEF Sound, Searches, SearchStart, SearchIn
<1>. QED
  BY <1>1, Soundness, PTL

\* Although pts_stop() frees the records without the lock, no check-in and no
\* look-up works on freed records.
THEOREM NeverLostAlways ==
  ASSUME Overlaps = FALSE
  PROVE  Spec => []NeverLost
<1>1. IInv => NeverLost
  BY DEF IInv, Stages, NeverLost
<1>. QED
  BY <1>1, Invariance, PTL

\* A look-up is not answered from what was cached before the table was
\* started again.
NoOldCache == status = "RUNNING" /\ cache.valid => first_lookup_ok

\* No look-up is answered from before the table was started.
THEOREM NoOldCacheAlways ==
  ASSUME Overlaps = FALSE
  PROVE  Spec => []NoOldCache
<1>1. IInv => NoOldCache
  <2>1. SUFFICES ASSUME IInv, status = "RUNNING", cache.valid
                 PROVE  first_lookup_ok
    BY DEF NoOldCache
  <2>2. Working /\ opc = "idle"
    BY <2>1 DEF IInv, Sound, Stages, TypeOK, Working
  <2>. QED
    BY <2>1, <2>2 DEF IInv, Fresh
<1>. QED
  BY <1>1, Invariance, PTL
=============================================================================
