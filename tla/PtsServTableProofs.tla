-------------------------- MODULE PtsServTableProofs --------------------------
(***************************************************************************)
(* Proof that PtsServ implements StampTable: to its users a table of       *)
(* records whose positions wrap, with walks that start in the middle, is a *)
(* list of stamps so and so far behind the stream.                         *)
(***************************************************************************)
EXTENDS PtsServOrderProofs

-----------------------------------------------------------------------------
(* What a walk leaves *)

\* The walk takes records away from the head of the list only: video the a
\* dropped ones, audio those before the c-th, on which it settles.
Frees(w, a, v, c, o) ==
  /\ v = SubSeq(valid, a + 1, Len(valid)) /\ Len(v) = Len(valid) - a
  /\ IF v = <<>> THEN c = 0 ELSE \E s \in 1..Len(v) : c = Candidate(v, s, o)
  /\ c \in 0..Len(v)
  /\ w.freed \in 0..Len(valid)
  /\ w.freed + w.c = a + c /\ (w.c # 0 <=> c # 0) /\ w.c \in Nat
  /\ w.v \in Seq(Rec) /\ Len(w.v) = Len(valid) - w.freed
  /\ \A k \in 1..Len(w.v) : w.v[k] = valid[k + w.freed]
  /\ type = "video" =>
       \A i \in 1..w.freed : Diff(o, valid[i].offset) > KeepRange
  /\ type = "audio" /\ w.freed # 0 => w.c = 1

\* Every walk does so, whatever it starts from.
LEMMA WalkFrees ==
  ASSUME type \in {"video", "audio"}, valid \in Seq(Rec),
         SearchIn(valid, pts_search), NEW o \in Int,
         NEW w, w = Walked(o)
  PROVE  \E a \in 0..Len(valid), v \in Seq(Rec), c \in Nat :
           Frees(w, a, v, c, o)
<1> DEFINE a == DroppedOld(o)
           v == SubSeq(valid, a + 1, Len(valid))
           search == SearchAfterDrop(a)
           s == IF search = 0 THEN 1 ELSE search
           c == IF v = <<>> THEN 0 ELSE Candidate(v, s, o)
           passed == IF type = "audio" /\ c > s THEN c - s ELSE 0
<1>1. Len(valid) \in Nat /\ \A k \in 1..Len(valid) : valid[k] \in Rec
  OBVIOUS
<1>2. /\ a \in 0..Len(valid) /\ (type = "audio" => a = 0)
      /\ \A i \in 1..a : Diff(o, valid[i].offset) > KeepRange
  BY DroppedOldRange, DroppedAreOld
<1> HIDE DEF a
<1>3. /\ v \in Seq(Rec) /\ Len(v) = Len(valid) - a
      /\ \A k \in 1..Len(valid) - a : v[k] = valid[a + 1 + k - 1]
  BY <1>1, <1>2, SubSeqProperties
<1>4. v = SubSeq(valid, a + 1, Len(valid))
  OBVIOUS
<1>5. SearchIn(v, search)
  <2> HIDE DEF v
  <2>. QED
    BY <1>1, <1>2, <1>3 DEF SearchIn, SearchAfterDrop
<1>6. w = [v |-> IF passed = 0 THEN v ELSE Without(v, s, s + passed - 1),
           c |-> c - passed,
           freed |-> a + passed,
           search |-> IF passed > 0 /\ search > 0 THEN Outside ELSE search]
  BY DEF Walked, a
<1> HIDE DEF v, search
<1>7. v # <<>> => s \in 1..Len(v)
  BY <1>3, <1>5 DEF SearchIn
<1>8. type = "audio" => s = 1
  BY <1>5 DEF SearchIn
<1> HIDE DEF s
<1>9. /\ c \in 0..Len(v) /\ c \in Nat
      /\ IF v = <<>> THEN c = 0 ELSE \E i \in 1..Len(v) : c = Candidate(v, i, o)
  <2>1. CASE v = <<>>
    BY <2>1, <1>3
  <2>2. CASE v # <<>>
    BY <2>2, <1>3, <1>7, CandidateRange
  <2>. QED
    BY <2>1, <2>2
<1> HIDE DEF c
<1>10. \A k \in 1..Len(v) : v[k] = valid[k + a]
  <2>1. ASSUME NEW k \in 1..Len(v)
        PROVE  v[k] = valid[k + a]
    <3>1. k \in 1..Len(valid) - a /\ a + 1 + k - 1 = k + a
      BY <1>1, <1>2, <1>3
    <3>. QED
      BY <1>3, <3>1
  <2>. QED
    BY <2>1
<1>11. CASE type = "audio" /\ c > 1
  <2> DEFINE j == c - 1
  <2>1. /\ s = 1 /\ passed = j /\ s + passed - 1 = j /\ passed # 0
        /\ c - passed = 1 /\ j \in 1..Len(v) /\ j \in Nat /\ j + 1 = c
        /\ a = 0 /\ a + passed = j
    BY <1>2, <1>8, <1>9, <1>11
  <2> HIDE DEF j, passed
  <2>2. w.v = Without(v, 1, j) /\ w.c = 1 /\ w.freed = j
    BY <1>6, <2>1
  <2>3. 1 \in 1..Len(v) /\ j \in 1..Len(v) /\ 1 <= j /\ Len(v) = Len(valid)
    BY <1>1, <1>3, <2>1
  <2>4. /\ w.v \in Seq(Rec) /\ Len(w.v) = Len(valid) - j
        /\ \A k \in 1..Len(v) - j : w.v[k] = v[k + j]
    <3> DEFINE u == Without(v, 1, j)
    <3>1. /\ u \in Seq(Rec) /\ Len(u) = Len(v) - (j - 1 + 1)
          /\ \A k \in 1..Len(v) - j : u[k] = v[k + j]
      BY <1>3, <2>3, WithoutShape
    <3>2. w.v = u /\ Len(v) - (j - 1 + 1) = Len(valid) - j
      BY <1>1, <2>2, <2>3
    <3> HIDE DEF u
    <3>. QED
      BY <3>1, <3>2
  <2>5. \A k \in 1..Len(w.v) : w.v[k] = valid[k + j]
    <3>1. ASSUME NEW k \in 1..Len(w.v)
          PROVE  w.v[k] = valid[k + j]
      <4>1. /\ k \in 1..Len(v) - j /\ k + j \in 1..Len(v)
            /\ k + j + a = k + j
        BY <1>1, <2>1, <2>3, <2>4
      <4>. QED
        BY <1>10, <2>4, <4>1
    <3>. QED
      BY <3>1
  <2>6. /\ j \in 0..Len(valid) /\ j + 1 = a + c /\ c # 0 /\ type # "video"
    BY <1>1, <1>9, <1>11, <2>1, <2>3
  <2>7. Frees(w, a, v, c, o)
    BY <1>3, <1>4, <1>9, <2>2, <2>4, <2>5, <2>6 DEF Frees
  <2>. QED
    BY <1>2, <1>3, <1>9, <2>7
<1>12. CASE ~(type = "audio" /\ c > 1)
  <2>1. passed = 0
    BY <1>8, <1>12
  <2>2. w.v = v /\ w.c = c /\ w.freed = a
    <3> HIDE DEF passed
    <3>. QED
      BY <1>2, <1>6, <1>9, <2>1
  <2>3. type = "audio" => w.freed = 0
    BY <1>2, <2>2
  <2>4. Frees(w, a, v, c, o)
    BY <1>2, <1>3, <1>4, <1>9, <1>10, <2>2, <2>3 DEF Frees
  <2>. QED
    BY <1>2, <1>3, <1>9, <2>4
<1>. QED
  BY <1>11, <1>12

\* Of the records that are not later than o, wherever in the list they were,
\* the one the walk settles on is nearest to it.
LEMMA WalkNearest ==
  ASSUME Sound, Ordered, status = "RUNNING", NEW o \in Asked,
         NEW w, w = Walked(o), w.c # 0,
         NEW i, i = w.freed + w.c
  PROVE  /\ i \in 1..Len(valid)
         /\ Behind(wpos, o) <= Behind(wpos, valid[i].offset)
         /\ \A k \in 1..Len(valid) :
              Behind(wpos, o) <= Behind(wpos, valid[k].offset) =>
                Behind(wpos, valid[i].offset) <= Behind(wpos, valid[k].offset)
<1> DEFINE e == Behind(wpos, o)
           b(k) == Behind(wpos, valid[k].offset)
<1>1. /\ type \in {"video", "audio"} /\ valid \in Seq(Rec)
      /\ SearchIn(valid, pts_search) /\ wpos \in Int /\ o \in Int
      /\ Behind(wpos, o) <= Window
  BY LookKnows, Sizes
<1>2. PICK a \in 0..Len(valid), v \in Seq(Rec), c \in Nat :
        Frees(w, a, v, c, o)
  BY <1>1, WalkFrees
<1>3. /\ Len(v) = Len(valid) - a /\ Len(valid) \in Nat
      /\ c \in 1..Len(v) /\ i = a + c /\ i \in 1..Len(valid)
  <2>1. /\ Len(v) = Len(valid) - a /\ Len(valid) \in Nat /\ Len(v) \in Nat
        /\ c \in 0..Len(v) /\ c # 0 /\ i = a + c
    BY <1>1, <1>2 DEF Frees
  <2>. QED
    BY <2>1
<1>4. PICK s \in 1..Len(v) : c = Candidate(v, s, o)
  BY <1>2, <1>3 DEF Frees
<1>5. /\ InOrder(v, wpos)
      /\ \A k \in 1..Len(v) : v[k] = valid[k + a]
  <2>1. v = SubSeq(valid, a + 1, Len(valid)) /\ InOrder(valid, wpos)
    BY <1>2 DEF Frees, Ordered
  <2>2. InOrder(v, wpos)
    BY <1>1, <2>1, SuffixInOrder
  <2>3. \A k \in 1..Len(v) : v[k] = valid[k + a]
    BY <1>1, <2>1, SuffixInOrder
  <2>. QED
    BY <2>2, <2>3
<1>6. v[c] = valid[i]
  <2>1. c + a = i
    BY <1>3
  <2>. QED
    BY <1>3, <1>5, <2>1
<1> HIDE DEF b
<1>7. e <= Behind(wpos, v[c].offset)
  <2>1. InOrder(v, wpos) /\ Behind(wpos, o) <= Window
    BY <1>1, <1>5
  <2>2. c # 0 => e <= Behind(wpos, v[c].offset)
    BY <1>1, <1>4, <2>1, CandidateBest
  <2>. QED
    BY <1>3, <2>2
<1>8. \A k \in 1..Len(v) :
        e <= Behind(wpos, v[k].offset) =>
          Behind(wpos, v[c].offset) <= Behind(wpos, v[k].offset)
  BY <1>1, <1>4, <1>5, CandidateBest
<1> USE DEF b
<1>9. ASSUME NEW k \in 1..Len(valid), e <= b(k)
      PROVE  b(i) <= b(k)
  <2>1. CASE k <= i
    BY <1>3, <2>1 DEF Ordered, InOrder
  <2>2. CASE k > i
    <3> DEFINE m == k - a
    <3>1. m \in 1..Len(v) /\ m + a = k
      BY <1>3, <2>2
    <3> HIDE DEF m
    <3>2. v[m] = valid[k]
      BY <1>5, <3>1
    <3>. QED
      BY <1>6, <1>8, <1>9, <3>1, <3>2
  <2>. QED
    BY <1>3, <2>1, <2>2
<1>. QED
  BY <1>3, <1>6, <1>7, <1>9

-----------------------------------------------------------------------------
(* Records as stamps *)

StampOf(p, r) == [back |-> Behind(p, r.offset), val |-> r.val]
Stamp == [back : Int, val : Int]

\* The stamps of v, seen from position p.
StampsOf(v, p) == [i \in 1..Len(v) |-> StampOf(p, v[i])]

\* One stamp for each record.
LEMMA StampsAre ==
  ASSUME NEW v \in Seq(Rec), NEW p \in Int, NEW t, t = StampsOf(v, p)
  PROVE  /\ t \in Seq(Stamp) /\ Len(t) = Len(v)
         /\ \A i \in 1..Len(v) : t[i] = StampOf(p, v[i])
<1>1. Len(v) \in Nat /\ t = [i \in 1..Len(v) |-> StampOf(p, v[i])]
  BY DEF StampsOf
<1>2. ASSUME NEW i \in 1..Len(v)
      PROVE  StampOf(p, v[i]) \in Stamp
  <2>1. v[i] \in Rec /\ v[i].offset \in Int
    BY Offsets
  <2>2. v[i].val \in Int
    BY <2>1, Sizes DEF Rec
  <2>3. Behind(p, v[i].offset) \in Int
    BY <2>1, BehindInt
  <2>. QED
    BY <2>2, <2>3 DEF StampOf, Stamp
<1> HIDE DEF StampOf
<1>3. t \in [1..Len(v) -> Stamp]
  BY <1>1, <1>2
<1>4. t \in Seq(Stamp) /\ Len(t) = Len(v)
  BY <1>1, <1>3
<1>. QED
  BY <1>1, <1>4

\* An open table holds the stamps of its records.
LEMMA ContentIs ==
  /\ Opened => Content = StampsOf(valid, wpos)
  /\ ~Opened => Content = <<>> /\ Answer = -1
  /\ Opened' => Content' = StampsOf(valid', wpos')
  /\ ~Opened' => Content' = <<>> /\ Answer' = -1
BY DEF Content, Records, StampsOf, StampOf, Behind, Answer

\* A list without its first d elements ...
LEMMA Shortened ==
  ASSUME NEW S, NEW s \in Seq(S), NEW t \in Seq(S), NEW d \in 0..Len(s),
         Len(t) = Len(s) - d, \A k \in 1..Len(t) : t[k] = s[k + d]
  PROVE  t = SubSeq(s, d + 1, Len(s))
<1> DEFINE u == SubSeq(s, d + 1, Len(s))
<1>1. Len(s) \in Nat /\ \A k \in 1..Len(s) : s[k] \in S
  OBVIOUS
<1>2. /\ u \in Seq(S) /\ Len(u) = Len(s) - d
      /\ \A k \in 1..Len(s) - d : u[k] = s[d + 1 + k - 1]
  BY <1>1, SubSeqProperties
<1> HIDE DEF u
<1>3. \A k \in 1..Len(t) : d + 1 + k - 1 = k + d
  BY <1>1
<1>4. \A k \in 1..Len(t) : t[k] = u[k]
  BY <1>2, <1>3
<1>. QED
  BY <1>2, <1>4, SeqEqual DEF u

\* ... and without those and the i-th: where its k-th element was.
PlaceBefore(i, d, k) == IF k < i - d THEN k + d ELSE k + d + 1

\* What is left, t, when the first d elements of s and the i-th are taken out.
LeftOf(t, s, i, d) ==
  /\ i \in 1..Len(s) /\ d \in 0..i - 1 /\ Len(t) = Len(s) - d - 1
  /\ \A k \in 1..Len(t) : t[k] = s[PlaceBefore(i, d, k)]

\* There is one such sequence: what is before the i-th and what is after it.
LEMMA TakenOut ==
  ASSUME NEW S, NEW s \in Seq(S), NEW t \in Seq(S), NEW i, NEW d, LeftOf(t, s, i, d)
  PROVE  t = SubSeq(s, d + 1, i - 1) \o SubSeq(s, i + 1, Len(s))
<1>0. /\ i \in 1..Len(s) /\ d \in 0..i - 1 /\ Len(t) = Len(s) - d - 1
      /\ \A k \in 1..Len(t) : t[k] = s[PlaceBefore(i, d, k)]
  BY DEF LeftOf
<1> DEFINE a == SubSeq(s, d + 1, i - 1)
           b == SubSeq(s, i + 1, Len(s))
           n == i - 1 - d
<1>1. /\ Len(s) \in Nat /\ i \in Int /\ d \in Int /\ n \in Nat
      /\ 1 <= i /\ i <= Len(s) /\ 0 <= d /\ d <= i - 1
      /\ \A k \in 1..Len(s) : s[k] \in S
  BY <1>0
<1>2. /\ a \in Seq(S) /\ Len(a) = n
      /\ \A k \in 1..n : a[k] = s[d + 1 + k - 1]
  <2>1. /\ d + 1 \in Int /\ i - 1 \in Int
        /\ \A k \in d + 1..i - 1 : s[k] \in S
        /\ IF d + 1 <= i - 1 THEN i - 1 - (d + 1) + 1 = n ELSE 0 = n
    BY <1>1
  <2>. QED
    BY <2>1, SubSeqProperties
<1>3. /\ b \in Seq(S) /\ Len(b) = Len(s) - i
      /\ \A k \in 1..Len(s) - i : b[k] = s[i + 1 + k - 1]
  <2>1. /\ i + 1 \in Int /\ Len(s) \in Int
        /\ \A k \in i + 1..Len(s) : s[k] \in S
        /\ IF i + 1 <= Len(s) THEN Len(s) - (i + 1) + 1 = Len(s) - i
           ELSE 0 = Len(s) - i
    BY <1>1
  <2>. QED
    BY <2>1, SubSeqProperties
<1> HIDE DEF a, b
<1>4. /\ a \o b \in Seq(S) /\ Len(a \o b) = Len(a) + Len(b)
      /\ \A k \in 1..Len(a) + Len(b) :
           (a \o b)[k] = IF k <= Len(a) THEN a[k] ELSE b[k - Len(a)]
  BY <1>2, <1>3, ConcatProperties
<1>5. Len(a \o b) = Len(t)
  BY <1>0, <1>1, <1>2, <1>3, <1>4
<1>6. ASSUME NEW k \in 1..Len(t)
      PROVE  t[k] = (a \o b)[k]
  <2>1. CASE k < i - d
    <3>1. /\ k <= Len(a) /\ k \in 1..n /\ d + 1 + k - 1 = k + d
          /\ k \in 1..Len(a) + Len(b)
      BY <1>1, <1>2, <1>3, <1>5, <1>4, <2>1
    <3>2. (a \o b)[k] = a[k]
      BY <1>4, <3>1
    <3>. QED
      BY <1>0, <1>2, <2>1, <3>1, <3>2 DEF PlaceBefore
  <2>2. CASE ~(k < i - d)
    <3> DEFINE m == k - Len(a)
    <3>1. /\ ~(k <= Len(a)) /\ m \in 1..Len(s) - i /\ i + 1 + m - 1 = k + d + 1
          /\ k \in 1..Len(a) + Len(b)
      BY <1>1, <1>2, <1>3, <1>5, <1>4, <2>2
    <3>2. (a \o b)[k] = b[m]
      BY <1>4, <3>1
    <3> HIDE DEF m
    <3>. QED
      BY <1>0, <1>3, <2>2, <3>1, <3>2 DEF PlaceBefore
  <2>. QED
    BY <2>1, <2>2
<1>. QED
  BY <1>4, <1>5, <1>6, SeqEqual DEF a, b

-----------------------------------------------------------------------------
(* Look-ups *)

\* What is known when a look-up has walked.
LEMMA LookedUp ==
  ASSUME IInv, Ordered, NEW o \in Asked, Looks(o), NEW w, w = Walked(o),
         NEW b, b = Behind(wpos, o)
  PROVE  /\ status = "RUNNING" /\ opc = "idle" /\ Opened
         /\ type \in {"video", "audio"} /\ b \in 0..Window /\ b \in Int
         /\ wpos \in Int /\ valid \in Seq(Rec) /\ Len(valid) \in Nat
         /\ Content \in Seq(Stamp) /\ Len(Content) = Len(valid)
         /\ \A k \in 1..Len(valid) :
              /\ Content[k] = StampOf(wpos, valid[k])
              /\ Content[k].back = Behind(wpos, valid[k].offset)
              /\ Content[k].back \in Int
              /\ Diff(o, valid[k].offset) = Content[k].back - b
         /\ w.freed \in 0..Len(valid)
         /\ w.v \in Seq(Rec) /\ Len(w.v) = Len(valid) - w.freed
         /\ \A k \in 1..Len(w.v) : w.v[k] = valid[k + w.freed]
         /\ type = "video" =>
              \A k \in 1..w.freed : Content[k].back - b > KeepRange
         /\ type = "audio" /\ w.freed # 0 => w.c = 1
<1>0. Sound
  BY DEF IInv
<1>1. status = "RUNNING" /\ opc = "idle"
  BY DEF Looks, IInv, Sound, TypeOK, Stages, Working
<1>2. /\ type \in {"video", "audio"} /\ valid \in Seq(Rec)
      /\ SearchIn(valid, pts_search) /\ wpos \in Int /\ o \in Int
      /\ b \in 0..Window
  BY <1>0, <1>1, LookKnows
<1>3. Opened /\ Content = StampsOf(valid, wpos)
  BY <1>1, ContentIs DEF Opened
<1>4. /\ Content \in Seq(Stamp) /\ Len(Content) = Len(valid)
      /\ \A k \in 1..Len(valid) : Content[k] = StampOf(wpos, valid[k])
  BY <1>2, <1>3, StampsAre
<1>5. ASSUME NEW k \in 1..Len(valid)
      PROVE  /\ Content[k].back = Behind(wpos, valid[k].offset)
             /\ Content[k].back \in Int
             /\ Diff(o, valid[k].offset) = Content[k].back - b
  <2> DEFINE x == valid[k].offset
  <2>1. x \in Int /\ Behind(wpos, x) <= Window
    BY <1>2, Offsets DEF Ordered, InOrder
  <2>2. Content[k].back = Behind(wpos, x)
    <3>1. Content[k] = StampOf(wpos, valid[k])
      BY <1>4
    <3>. QED
      BY <3>1 DEF StampOf
  <2> HIDE DEF x
  <2>3. Behind(wpos, o) <= Window
    BY <1>2, Sizes
  <2>4. Behind(wpos, x) \in Int
    BY <1>2, <2>1, BehindInt
  <2>5. Diff(o, x) = Behind(wpos, x) - Behind(wpos, o)
    BY <1>2, <2>1, <2>3, DiffBehind
  <2>. QED
    BY <2>2, <2>4, <2>5 DEF x
<1>6. PICK a \in 0..Len(valid), v \in Seq(Rec), c \in Nat :
        Frees(w, a, v, c, o)
  BY <1>2, WalkFrees
<1>7. /\ w.freed \in 0..Len(valid)
      /\ w.v \in Seq(Rec) /\ Len(w.v) = Len(valid) - w.freed
      /\ \A k \in 1..Len(w.v) : w.v[k] = valid[k + w.freed]
      /\ type = "audio" /\ w.freed # 0 => w.c = 1
  BY <1>6 DEF Frees
<1>8. type = "video" => \A k \in 1..w.freed : Content[k].back - b > KeepRange
  <2>1. ASSUME type = "video", NEW k \in 1..w.freed
        PROVE  Content[k].back - b > KeepRange
    <3>1. Diff(o, valid[k].offset) > KeepRange
      BY <1>6, <2>1 DEF Frees
    <3>2. k \in 1..Len(valid)
      BY <1>2, <1>7
    <3>. QED
      BY <1>5, <3>1, <3>2
  <2>. QED
    BY <2>1
<1>9. b \in Int /\ Len(valid) \in Nat
  BY <1>2, Sizes
<1>. QED
  BY <1>1, <1>2, <1>3, <1>4, <1>5, <1>7, <1>8, <1>9

\* The record the walk settles on is the nearest stamp before the place asked.
LEMMA SettlesNearest ==
  ASSUME IInv, Ordered, NEW o \in Asked, Looks(o), NEW w, w = Walked(o),
         NEW b, b = Behind(wpos, o), w.c # 0, NEW i, i = w.freed + w.c
  PROVE  /\ i \in 1..Len(valid) /\ i \in Table!Before(b)
         /\ \A k \in Table!Before(b) : Table!Gap(i, b) <= Table!Gap(k, b)
         /\ w.c \in 1..Len(w.v) /\ w.v[w.c] = valid[i]
<1>0. Sound
  BY DEF IInv
<1>1. /\ status = "RUNNING" /\ b \in Int /\ Len(valid) \in Nat
      /\ Len(Content) = Len(valid)
      /\ \A k \in 1..Len(valid) : /\ Content[k].back = Behind(wpos, valid[k].offset)
                                  /\ Content[k].back \in Int
      /\ w.freed \in 0..Len(valid)
      /\ w.v \in Seq(Rec) /\ Len(w.v) = Len(valid) - w.freed
      /\ \A k \in 1..Len(w.v) : w.v[k] = valid[k + w.freed]
  BY LookedUp
<1>2. /\ i \in 1..Len(valid)
      /\ b <= Behind(wpos, valid[i].offset)
      /\ \A k \in 1..Len(valid) :
           b <= Behind(wpos, valid[k].offset) =>
             Behind(wpos, valid[i].offset) <= Behind(wpos, valid[k].offset)
  BY <1>0, <1>1, WalkNearest
<1>3. i \in 1..Len(Content) /\ Content[i].back >= b
  BY <1>1, <1>2
<1>4. ASSUME NEW k \in 1..Len(Content), Content[k].back >= b
      PROVE  Content[i].back - b <= Content[k].back - b
  <2>1. /\ b <= Behind(wpos, valid[k].offset)
        /\ Content[k].back = Behind(wpos, valid[k].offset)
        /\ Content[i].back = Behind(wpos, valid[i].offset)
        /\ Content[k].back \in Int /\ Content[i].back \in Int
    BY <1>1, <1>2, <1>4
  <2>2. Content[i].back <= Content[k].back
    BY <1>1, <1>2, <1>4, <2>1
  <2>. QED
    BY <1>1, <2>1, <2>2
<1>5. w.c \in 1..Len(w.v) /\ w.v[w.c] = valid[i]
  <2>1. w.c \in 0..Len(w.v)
    BY <1>0, <1>1, LookKnows
  <2>2. w.c \in 1..Len(w.v) /\ w.c + w.freed = i
    BY <1>1, <2>1
  <2>. QED
    BY <1>1, <2>2
<1>. QED
  BY <1>2, <1>3, <1>4, <1>5 DEF Table!Before, Table!Gap

\* The records a walk frees may be forgotten.
LEMMA FreedForgotten ==
  ASSUME IInv, Ordered, NEW o \in Asked, Looks(o), NEW w, w = Walked(o),
         NEW b, b = Behind(wpos, o)
  PROVE  Table!Forgets(w.freed, b)
<1> DEFINE d == w.freed
<1>1. /\ type \in {"video", "audio"} /\ status = "RUNNING" /\ b \in Int
      /\ Len(valid) \in Nat /\ Len(Content) = Len(valid)
      /\ \A k \in 1..Len(valid) : /\ Content[k].back = Behind(wpos, valid[k].offset)
                                  /\ Content[k].back \in Int
      /\ d \in 0..Len(valid) /\ Len(w.v) = Len(valid) - d
      /\ type = "video" => \A k \in 1..d : Content[k].back - b > KeepRange
      /\ type = "audio" /\ d # 0 => w.c = 1
  BY LookedUp
<1> HIDE DEF d
<1>2. type = "audio" /\ d # 0 => d + 1 \in Table!Before(b)
  BY <1>1, SettlesNearest DEF d
<1>3. ASSUME NEW k \in 1..d
      PROVE  k \in 1..Len(Content) /\ Content[k].back >= b
  <2>1. k \in 1..Len(valid) /\ Content[k].back \in Int /\ d # 0 /\ k <= d + 1
    BY <1>1
  <2>2. CASE type = "video"
    <3>1. Content[k].back - b > KeepRange /\ KeepRange \in Nat
      BY <1>1, <2>2, PtsServAssumption
    <3>. QED
      BY <1>1, <2>1, <3>1
  <2>3. CASE type = "audio"
    <3>1. d + 1 \in 1..Len(valid) /\ Content[d + 1].back >= b
      BY <1>1, <1>2, <2>1, <2>3 DEF Table!Before
    <3>2. Behind(wpos, valid[d + 1].offset) <= Behind(wpos, valid[k].offset)
      BY <2>1, <3>1 DEF Ordered, InOrder
    <3>3. /\ Content[k].back = Behind(wpos, valid[k].offset)
          /\ Content[d + 1].back = Behind(wpos, valid[d + 1].offset)
          /\ Content[d + 1].back \in Int
      BY <1>1, <2>1, <3>1
    <3>. QED
      BY <1>1, <2>1, <3>1, <3>2, <3>3
  <2>. QED
    BY <1>1, <2>2, <2>3
<1>4. 1..d \subseteq Table!Before(b)
  BY <1>3 DEF Table!Before
<1>. QED
  BY <1>1, <1>2, <1>4 DEF Table!Forgets, Table!Gap, d

\* A list without one of its elements.
LEMMA WithoutOne ==
  ASSUME NEW v \in Seq(Rec), NEW c \in 1..Len(v), NEW p, InOrder(v, p),
         NEW u, u = Without(v, c, c)
  PROVE  /\ u \in Seq(Rec) /\ Len(u) = Len(v) - 1
         /\ \A k \in 1..Len(u) : u[k] = v[IF k < c THEN k ELSE k + 1]
<1>1. c \in c..Len(v) /\ c - c + 1 = 1 /\ c \in Int
  OBVIOUS
<1>2. u \in Seq(Rec)
  BY <1>1, WithoutInOrder
<1>3. Len(u) = Len(v) - (c - c + 1)
  BY <1>1, WithoutInOrder
<1>4. \A k \in 1..Len(u) : u[k] = v[IF k < c THEN k ELSE k + (c - c + 1)]
  BY <1>1, WithoutInOrder
<1>. QED
  BY <1>1, <1>2, <1>3, <1>4

\* Handing out takes that stamp out of the table, and the forgotten ones.
LEMMA HandOutImplements ==
  ASSUME IInv, Ordered, NEW o \in Asked, Looks(o), NEW w, w = Walked(o),
         NEW b, b = Behind(wpos, o), w.c # 0, NEW i, i = w.freed + w.c,
         NEW pts, HandOut(w, o, pts),
         UNCHANGED <<type, status, pages, wpos, opc, cpc>>
  PROVE  Table!HandOut(i, b, pts)
<1> DEFINE d == w.freed
           c == w.c
           at(k) == PlaceBefore(i, d, k)
<1>0. Sound
  BY DEF IInv
<1>1. /\ Opened /\ status = "RUNNING" /\ wpos \in Int /\ valid \in Seq(Rec)
      /\ Len(valid) \in Nat
      /\ Content \in Seq(Stamp) /\ Len(Content) = Len(valid)
      /\ \A k \in 1..Len(valid) : Content[k] = StampOf(wpos, valid[k])
      /\ d \in 0..Len(valid)
      /\ w.v \in Seq(Rec) /\ Len(w.v) = Len(valid) - d
      /\ \A k \in 1..Len(w.v) : w.v[k] = valid[k + d]
  BY LookedUp
<1>2. /\ i \in 1..Len(valid) /\ i \in Table!Before(b)
      /\ \A k \in Table!Before(b) : Table!Gap(i, b) <= Table!Gap(k, b)
      /\ c \in 1..Len(w.v)
  BY SettlesNearest
<1>3. InOrder(w.v, wpos) /\ c \in c..Len(w.v) /\ valid' = Without(w.v, c, c)
  BY <1>0, <1>1, <1>2, LookKnows DEF HandOut
<1>4. i = d + c
  OBVIOUS
<1> HIDE DEF c, d
<1>5. /\ valid' \in Seq(Rec) /\ Len(valid') = Len(w.v) - 1
      /\ \A k \in 1..Len(valid') :
           valid'[k] = w.v[IF k < c THEN k ELSE k + 1]
  <2>1. w.v \in Seq(Rec)
    BY <1>1
  <2>. QED
    BY <1>2, <1>3, <2>1, WithoutOne
<1>6. Len(valid') = Len(valid) - d - 1
  BY <1>1, <1>2, <1>5
<1>7. ASSUME NEW k \in 1..Len(valid')
      PROVE  at(k) \in 1..Len(valid) /\ valid'[k] = valid[at(k)]
  <2>0. /\ k \in Int /\ d \in Int /\ c \in Int /\ i - d = c
        /\ at(k) = IF k < c THEN k + d ELSE k + d + 1
    <3>1. d \in Int /\ c \in Int /\ k \in Int
      BY <1>1, <1>2, <1>6
    <3>2. i - d = c
      BY <1>4, <3>1
    <3>. QED
      BY <3>1, <3>2 DEF PlaceBefore
  <2> HIDE DEF at
  <2>1. CASE k < c
    <3>1. at(k) = k + d
      BY <2>0, <2>1
    <3>2. k \in 1..Len(w.v) /\ k + d \in 1..Len(valid)
      <4>1. k \in Nat /\ k >= 1 /\ c <= Len(w.v) /\ Len(w.v) = Len(valid) - d
        BY <1>1, <1>2, <1>6
      <4>2. d \in Nat /\ Len(valid) \in Nat /\ c \in Int
        BY <1>1, <1>2
      <4>. QED
        BY <2>1, <4>1, <4>2
    <3>. QED
      BY <1>1, <1>5, <2>1, <3>1, <3>2
  <2>2. CASE ~(k < c)
    <3> DEFINE m == k + 1
    <3>1. m \in 1..Len(w.v) /\ at(k) = m + d /\ at(k) \in 1..Len(valid)
      <4>1. /\ k >= 1 /\ k <= Len(w.v) - 1 /\ Len(w.v) = Len(valid) - d
            /\ Len(w.v) \in Int /\ Len(valid) \in Int /\ d >= 0
        BY <1>1, <1>5
      <4>2. at(k) = k + d + 1
        BY <2>0, <2>2
      <4>. QED
        BY <2>0, <4>1, <4>2
    <3>2. valid'[k] = w.v[m]
      BY <1>5, <2>2
    <3> HIDE DEF m
    <3>. QED
      BY <1>1, <3>1, <3>2
  <2>. QED
    BY <2>1, <2>2
<1>8. Opened' /\ wpos' = wpos /\ type' = type
  BY <1>1 DEF Opened
<1>9. /\ Content' \in Seq(Stamp) /\ Len(Content') = Len(valid')
      /\ \A k \in 1..Len(valid') : Content'[k] = StampOf(wpos, valid'[k])
  <2> DEFINE v == valid'
             t == Content'
  <2>1. v \in Seq(Rec) /\ wpos \in Int
    BY <1>1, <1>5
  <2>2. t = StampsOf(v, wpos)
    BY <1>8, ContentIs
  <2> HIDE DEF v, t
  <2>3. /\ t \in Seq(Stamp) /\ Len(t) = Len(v)
        /\ \A k \in 1..Len(v) : t[k] = StampOf(wpos, v[k])
    BY <2>1, <2>2, StampsAre
  <2>. QED
    BY <2>3 DEF v, t
<1>10. \A k \in 1..Len(Content') : Content'[k] = Content[PlaceBefore(i, d, k)]
  <2>1. ASSUME NEW k \in 1..Len(Content')
        PROVE  Content'[k] = Content[PlaceBefore(i, d, k)]
    <3>1. k \in 1..Len(valid')
      BY <1>9
    <3>2. at(k) \in 1..Len(valid) /\ valid'[k] = valid[at(k)]
      BY <1>7, <3>1
    <3> DEFINE m == at(k)
    <3>3. PlaceBefore(i, d, k) = m
      OBVIOUS
    <3> HIDE DEF m
    <3>. QED
      BY <1>1, <1>9, <3>1, <3>2, <3>3
  <2>. QED
    BY <2>1
<1>11. /\ i \in 1..Len(Content) /\ d \in 0..i - 1
       /\ Len(Content') = Len(Content) - d - 1
  BY <1>1, <1>2, <1>4, <1>6, <1>9
<1>12. Content' = SubSeq(Content, d + 1, i - 1) \o SubSeq(Content, i + 1, Len(Content))
  <2> DEFINE t == Content'
             r == Content
  <2>1. r \in Seq(Stamp) /\ t \in Seq(Stamp)
    BY <1>1, <1>9
  <2>2. LeftOf(t, r, i, d)
    BY <1>10, <1>11 DEF LeftOf
  <2> HIDE DEF t, r
  <2>3. t = SubSeq(r, d + 1, i - 1) \o SubSeq(r, i + 1, Len(r))
    BY <2>1, <2>2, TakenOut
  <2>. QED
    BY <2>3 DEF t, r
<1>13. Answer' = pts
  BY <1>8 DEF Answer, HandOut
<1>14. Table!Forgets(d, b)
  BY FreedForgotten DEF d
<1>. QED
  BY <1>1, <1>2, <1>8, <1>11, <1>12, <1>13, <1>14 DEF Table!HandOut

\* A near record: the code's margin is the table's, or twice that the first
\* time.
LEMMA FoundImplements ==
  ASSUME IInv, Ordered, NEW o \in Asked, LookupFound(o)
  PROVE  \E b \in 0..Window : Table!Find(b)
<1> DEFINE w == Walked(o)
           b == Behind(wpos, o)
           i == w.freed + w.c
           t == IF w.v[w.c].val = 0 THEN 1 ELSE w.v[w.c].val
<1>1. /\ Looks(o) /\ w.c # 0 /\ Diff(o, w.v[w.c].offset) < Margin
      /\ HandOut(w, o, t)
      /\ UNCHANGED <<type, status, pages, wpos, opc, cpc>>
  BY DEF LookupFound, Near
<1> HIDE DEF w
<1>2. /\ b \in 0..Window /\ Len(Content) = Len(valid)
      /\ \A k \in 1..Len(valid) :
           /\ Content[k] = StampOf(wpos, valid[k])
           /\ Diff(o, valid[k].offset) = Content[k].back - b
  BY <1>1, LookedUp DEF w
<1>3. i \in 1..Len(valid) /\ w.v[w.c] = valid[i]
  BY <1>1, SettlesNearest DEF w
<1>4. Table!HandOut(i, b, t)
  <2> HIDE DEF t
  <2>. QED
    BY <1>1, HandOutImplements DEF w
<1>5. t = IF Content[i].val = 0 THEN 1 ELSE Content[i].val
  <2> HIDE DEF i
  <2>1. Content[i] = StampOf(wpos, valid[i])
    BY <1>2, <1>3
  <2>2. Content[i].val = valid[i].val
    BY <2>1 DEF StampOf
  <2>. QED
    BY <1>3, <2>2
<1>6. Content[i].back - b < 2 * Threshold
  <2>1. Content[i].back - b < Margin
    BY <1>1, <1>2, <1>3
  <2>2. /\ Margin = Threshold \/ Margin = 2 * Threshold
        /\ Threshold \in Nat
    BY PtsServAssumption DEF Margin
  <2>3. Content[i].back - b \in Int
    BY <1>1, <1>3, LookedUp DEF w
  <2>. QED
    BY <2>1, <2>2, <2>3
<1> HIDE DEF b, t, i
<1>. QED
  BY <1>2, <1>3, <1>4, <1>5, <1>6 DEF Table!Find, Table!Gap

\* The distance of two time stamps leads from one to the other.
LEMMA DiffBack ==
  ASSUME NEW x \in 0..M - 1, NEW y \in 0..M - 1
  PROVE  (y + Diff(x, y)) % M = x
<1> DEFINE e == (x - y) % M
           z == y + Diff(x, y)
<1>1. /\ M \in Nat \ {0} /\ x \in Int /\ y \in Int /\ x - y \in Int
      /\ 0 <= x /\ x < M /\ 0 <= y /\ y < M
  BY Sizes
<1>2. x - y \in 0..M - 1 => e = x - y
  BY <1>1, SmallRemainder
<1>3. x - y < 0 => e = x - y + M
  <2>1. SUFFICES ASSUME x - y < 0 PROVE e = x - y + M
    OBVIOUS
  <2> DEFINE a == x - y + M
  <2>2. a \in 0..M - 1 /\ a \in Int /\ x - y = a + (-1) * M /\ -1 \in Int
    BY <1>1, <2>1
  <2> HIDE DEF a
  <2>3. a % M = a
    BY <1>1, <2>2, SmallRemainder
  <2>4. (a + (-1) * M) % M = a % M
    BY <1>1, <2>2, SameRemainder
  <2>. QED
    BY <2>2, <2>3, <2>4 DEF a
<1>4. e \in Int /\ (Diff(x, y) = e \/ Diff(x, y) = e - M)
  BY <1>1, <1>2, <1>3 DEF Diff
<1> HIDE DEF e
<1>5. z = x \/ z = x + M \/ z = x - M
  BY <1>1, <1>2, <1>3, <1>4
<1> HIDE DEF z
<1>6. x % M = x
  BY <1>1, SmallRemainder
<1>7. (x + 1 * M) % M = x % M /\ (x + (-1) * M) % M = x % M
  <2>1. 1 \in Int /\ -1 \in Int
    OBVIOUS
  <2>2. (x + 1 * M) % M = x % M
    BY <1>1, <2>1, SameRemainder
  <2>3. (x + (-1) * M) % M = x % M
    BY <1>1, <2>1, SameRemainder
  <2>. QED
    BY <2>2, <2>3
<1>8. x + M = x + 1 * M /\ x - M = x + (-1) * M
  BY <1>1
<1>9. z % M = x
  BY <1>5, <1>6, <1>7, <1>8
<1>. QED
  BY <1>9 DEF z

\* In between two close time stamps.
LEMMA BetweenImplements ==
  ASSUME IInv, Ordered, NEW o \in Asked, LookupBetween(o)
  PROVE  \E b \in 0..Window : Table!Interpolate(b)
<1> DEFINE w == Walked(o)
           b == Behind(wpos, o)
           i == w.freed + w.c
           g == Gap(w)
           v1 == w.v[w.c].val
           v2 == w.v[w.c + 1].val
           x == Between(w, o)
           t == Diff(x, v1)
<1>0. Sound
  BY DEF IInv
<1>1. /\ Looks(o) /\ ~Near(w, o) /\ HasNext(w) /\ g \in 0..AudioRes - 1
      /\ HandOut(w, o, x)
      /\ UNCHANGED <<type, status, pages, wpos, opc, cpc>>
  BY DEF LookupBetween
<1>2. type = "audio" /\ w.c # 0 /\ w.c < Len(w.v)
  BY <1>1 DEF HasNext
<1> HIDE DEF w
<1>3. /\ status = "RUNNING" /\ b \in 0..Window /\ b \in Int
      /\ Len(valid) \in Nat /\ Len(Content) = Len(valid)
      /\ \A k \in 1..Len(valid) :
           /\ Content[k] = StampOf(wpos, valid[k]) /\ Content[k].back \in Int
           /\ Diff(o, valid[k].offset) = Content[k].back - b
      /\ w.freed \in 0..Len(valid)
      /\ w.v \in Seq(Rec) /\ Len(w.v) = Len(valid) - w.freed
      /\ \A k \in 1..Len(w.v) : w.v[k] = valid[k + w.freed]
  BY <1>1, LookedUp DEF w
<1>4. i \in 1..Len(valid) /\ w.c \in 1..Len(w.v) /\ w.v[w.c] = valid[i]
  BY <1>1, <1>2, SettlesNearest DEF w
<1>5. /\ w.c = 1 /\ w.v[1] \in Rec /\ w.v[2] \in Rec
      /\ t \in 0..g
  BY <1>0, <1>1, <1>3, BetweenInGap DEF w
<1>6. i + 1 \in 1..Len(valid) /\ w.v[w.c + 1] = valid[i + 1]
  <2>1. /\ w.c = 1 /\ 1 < Len(w.v) /\ w.freed \in Nat /\ Len(w.v) \in Nat
        /\ Len(valid) \in Nat /\ Len(w.v) = Len(valid) - w.freed
    BY <1>2, <1>3, <1>5
  <2>2. /\ w.c + 1 \in 1..Len(w.v) /\ w.c + 1 + w.freed = i + 1
        /\ i + 1 \in 1..Len(valid)
    BY <2>1
  <2>. QED
    BY <1>3, <2>2
<1>7. Content[i].val = v1 /\ Content[i + 1].val = v2
  <2> HIDE DEF i
  <2>1. Content[i] = StampOf(wpos, valid[i]) /\ Content[i + 1] = StampOf(wpos, valid[i + 1])
    BY <1>3, <1>4, <1>6
  <2>2. Content[i].val = valid[i].val /\ Content[i + 1].val = valid[i + 1].val
    BY <2>1 DEF StampOf
  <2>. QED
    BY <1>4, <1>6, <2>2
<1>8. v1 \in 0..M - 1 /\ v2 \in 0..M - 1
  <2>1. w.c + 1 = 2 /\ w.v[w.c] \in Rec /\ w.v[w.c + 1] \in Rec
    BY <1>5
  <2>. QED
    BY <2>1 DEF Rec
<1>9. g = Diff(v2, v1)
  BY DEF Gap
<1>10. x \in 0..M - 1
  <2>1. w.v[2].offset # w.v[1].offset
    BY <1>0, <1>1, <1>3, BetweenIsBetween DEF w
  <2>2. o \in Int
    BY <1>0, <1>3, LookKnows
  <2>. QED
    BY <1>5, <2>1, <2>2, BetweenRange
<1> HIDE DEF g, v1, v2, x
<1>11. (v1 + g) % M = v2 /\ (v1 + t) % M = x
  BY <1>8, <1>9, <1>10, DiffBack
<1>12. Content[i].back - b >= Threshold
  <2>1. ~(Diff(o, valid[i].offset) < Margin)
    BY <1>1, <1>2, <1>4 DEF Near
  <2>2. /\ Margin \in Nat /\ Margin >= Threshold /\ Threshold \in Nat
    BY PtsServAssumption DEF Margin
  <2> DEFINE y == Content[i].back - b
  <2>3. Diff(o, valid[i].offset) = y /\ y \in Int
    BY <1>3, <1>4
  <2> HIDE DEF y
  <2>4. y >= Threshold
    BY <2>1, <2>2, <2>3
  <2>. QED
    BY <2>4 DEF y
<1>13. Table!HandOut(i, b, x)
  <2>1. HandOut(w, o, x)
    BY <1>1
  <2>. QED
    BY <1>1, <1>2, <2>1, HandOutImplements DEF w
<1>14. i \in 1..Len(Content) - 1
  BY <1>3, <1>4, <1>6
<1> HIDE DEF b, i, t
<1>. QED
  BY <1>1, <1>2, <1>3, <1>5, <1>7, <1>11, <1>12, <1>13, <1>14
     DEF Table!Interpolate, Table!Gap

\* Nothing near enough, so that nothing is handed out.
LEMMA LeaveImplements ==
  ASSUME IInv, Ordered, NEW o \in Asked, LookupUnset(o) \/ LookupMiss(o)
  PROVE  \E b \in 0..Window : Table!Miss(b)
<1> DEFINE w == Walked(o)
           b == Behind(wpos, o)
           d == w.freed
           near == {k \in 1..Len(valid) :
                      Diff(o, valid[k].offset) \in 0..Margin - 1}
<1>0. Sound
  BY DEF IInv
<1>1. /\ Looks(o) /\ ~Near(w, o) /\ valid' = w.v
      /\ UNCHANGED <<type, status, cache, wpos, opc>>
  BY DEF LookupUnset, LookupMiss, Leave, looks
<1> HIDE DEF w
<1>2. /\ status = "RUNNING" /\ Opened /\ b \in 0..Window /\ b \in Int
      /\ wpos \in Int /\ valid \in Seq(Rec) /\ Len(valid) \in Nat
      /\ Content \in Seq(Stamp) /\ Len(Content) = Len(valid)
      /\ \A k \in 1..Len(valid) :
           /\ Content[k] = StampOf(wpos, valid[k]) /\ Content[k].back \in Int
           /\ Diff(o, valid[k].offset) = Content[k].back - b
      /\ d \in 0..Len(valid)
      /\ w.v \in Seq(Rec) /\ Len(w.v) = Len(valid) - d
      /\ \A k \in 1..Len(w.v) : w.v[k] = valid[k + d]
  BY <1>1, LookedUp DEF w
<1>3. near = {}
  BY <1>0, <1>1, <1>2, WalkIsBest DEF w
<1>4. Margin \in Nat /\ Margin >= Threshold /\ Threshold \in Nat
  BY PtsServAssumption DEF Margin
<1>5. ASSUME NEW k \in 1..Len(Content), Content[k].back >= b
      PROVE  Content[k].back - b >= Threshold
  <2>1. ~(Content[k].back - b \in 0..Margin - 1) /\ Content[k].back \in Int
    BY <1>2, <1>3
  <2>. QED
    BY <1>2, <1>4, <1>5, <2>1
<1>6. Opened' /\ wpos' = wpos /\ type' = type /\ Answer' = Answer
  BY <1>1, <1>2 DEF Opened, Answer
<1> HIDE DEF d, near
<1>7. /\ Content' \in Seq(Stamp) /\ Len(Content') = Len(valid) - d
      /\ \A k \in 1..Len(Content') : Content'[k] = Content[k + d]
  <2>1. /\ Content' \in Seq(Stamp) /\ Len(Content') = Len(w.v)
        /\ \A k \in 1..Len(w.v) : Content'[k] = StampOf(wpos, w.v[k])
    BY <1>1, <1>2, <1>6, ContentIs, StampsAre
  <2>2. ASSUME NEW k \in 1..Len(w.v)
        PROVE  StampOf(wpos, w.v[k]) = Content[k + d]
    <3>1. k + d \in 1..Len(valid)
      BY <1>2
    <3>. QED
      BY <1>2, <3>1
  <2>. QED
    BY <1>2, <2>1, <2>2
<1>8. Content' = SubSeq(Content, d + 1, Len(Content))
  <2>1. Content \in Seq(Stamp) /\ Content' \in Seq(Stamp) /\ d \in 0..Len(Content)
    BY <1>2, <1>7
  <2>2. /\ Len(Content') = Len(Content) - d
        /\ \A k \in 1..Len(Content') : Content'[k] = Content[k + d]
    BY <1>2, <1>7
  <2>. QED
    BY <2>1, <2>2, Shortened
<1>9. Table!Forgets(d, b)
  BY <1>1, FreedForgotten DEF w, d
<1>. QED
  BY <1>2, <1>5, <1>6, <1>8, <1>9 DEF Table!Miss, Table!Before, Table!Gap

-----------------------------------------------------------------------------
(* Check-ins and the stream *)

\* A check-in puts a stamp behind the others; the oldest one makes room.
LEMMA CheckinImplements ==
  ASSUME Overlaps = FALSE, IInv, Ordered, NEW at \in Places, NEW val \in Vals,
         Checkin(at, val)
  PROVE  \E b \in 0..Window : Table!Put(b, val)
<1> DEFINE r == [offset |-> WrOffset(at % BufSize), val |-> val]
           b == Behind(wpos, r.offset)
           n == Len(valid)
           all == IF n < RecNum THEN valid ELSE Tail(valid)
           old == IF n < RecNum THEN Content ELSE Tail(Content)
<1>0. Sound
  BY DEF IInv
<1>1. /\ wpos \in Int /\ valid \in Seq(Rec) /\ nfree \in Nat
  <2>1. BufSize * Pages \in Nat
    BY Sizes
  <2>. QED
    BY <2>1 DEF IInv, Sound, TypeOK, Rec
<1>2. /\ Opened /\ Opened' /\ wpos' = wpos /\ type' = type /\ Enlist(r)
      /\ Answer' = Answer
  BY DEF Checkin, Free, Opened, Answer, looks
<1>3. n + nfree = RecNum /\ RecNum \in Nat \ {0} /\ n \in Nat
  BY <1>1, <1>2, PtsServAssumption
     DEF IInv, Sound, RecordsKept, Stages, Working, Opened
<1>4. /\ r \in Rec /\ b \in 0..Window /\ r.val = val
      /\ \A k \in 1..n : b <= Behind(wpos, valid[k].offset)
  BY <1>0, CheckinPlace
<1>5. StampOf(wpos, r) = [back |-> b, val |-> val]
  BY <1>4 DEF StampOf
<1> HIDE DEF r, b
<1>6. /\ Content \in Seq(Stamp) /\ Len(Content) = n
      /\ \A k \in 1..n : Content[k] = StampOf(wpos, valid[k])
  BY <1>1, <1>2, ContentIs, StampsAre
<1>7. valid' = Append(all, r)
  <2>1. CASE nfree > 0
    <3>1. n < RecNum
      BY <1>1, <1>3, <2>1
    <3>2. valid' = Append(valid, r)
      BY <1>2, <2>1 DEF Enlist
    <3>. QED
      BY <3>1, <3>2
  <2>2. CASE ~(nfree > 0)
    <3>1. valid # <<>> /\ ~(n < RecNum)
      BY <1>1, <1>3, <2>2
    <3>. QED
      BY <1>2, <2>2, <3>1 DEF Enlist
  <2>. QED
    BY <2>1, <2>2
<1>8. /\ all \in Seq(Rec) /\ old \in Seq(Stamp) /\ Len(old) = Len(all)
      /\ \A k \in 1..Len(all) : old[k] = StampOf(wpos, all[k])
  <2>1. CASE n < RecNum
    BY <1>1, <1>6, <2>1
  <2>2. CASE ~(n < RecNum)
    <3>1. valid # <<>> /\ Content # <<>>
      BY <1>1, <1>3, <1>6, <2>2
    <3>2. /\ Tail(valid) \in Seq(Rec) /\ Len(Tail(valid)) = n - 1
          /\ \A k \in 1..Len(Tail(valid)) : Tail(valid)[k] = valid[k + 1]
      BY <1>1, <3>1, HeadTailProperties
    <3>3. /\ Tail(Content) \in Seq(Stamp) /\ Len(Tail(Content)) = n - 1
          /\ \A k \in 1..Len(Tail(Content)) : Tail(Content)[k] = Content[k + 1]
      BY <1>6, <3>1, HeadTailProperties
    <3>4. ASSUME NEW k \in 1..Len(Tail(valid))
          PROVE  Tail(Content)[k] = StampOf(wpos, Tail(valid)[k])
      <4>1. k + 1 \in 1..n
        BY <1>3, <3>2
      <4>. QED
        BY <1>6, <3>2, <3>3, <4>1
    <3>. QED
      BY <2>2, <3>2, <3>3, <3>4
  <2>. QED
    BY <2>1, <2>2
<1> HIDE DEF all, old
<1>9. /\ valid' \in Seq(Rec) /\ Len(valid') = Len(all) + 1 /\ Len(all) \in Nat
      /\ \A k \in 1..Len(all) : valid'[k] = all[k]
      /\ valid'[Len(all) + 1] = r
  BY <1>4, <1>7, <1>8, AppendProperties
<1>10. /\ Content' \in Seq(Stamp) /\ Len(Content') = Len(valid')
       /\ \A k \in 1..Len(valid') : Content'[k] = StampOf(wpos, valid'[k])
  BY <1>1, <1>2, <1>9, ContentIs, StampsAre
<1> DEFINE s == [back |-> b, val |-> val]
<1>11. s \in Stamp
  <2>1. val \in Int /\ b \in Int
    BY <1>4, PtsServAssumption
  <2>. QED
    BY <2>1 DEF Stamp
<1> HIDE DEF s
<1>12. /\ Append(old, s) \in Seq(Stamp) /\ Len(Append(old, s)) = Len(all) + 1
       /\ \A k \in 1..Len(all) : Append(old, s)[k] = old[k]
       /\ Append(old, s)[Len(all) + 1] = s
  BY <1>8, <1>11, AppendProperties
<1>13. ASSUME NEW k \in 1..Len(valid')
       PROVE  Content'[k] = Append(old, s)[k]
  <2>1. CASE k \in 1..Len(all)
    BY <1>8, <1>9, <1>10, <1>12, <2>1
  <2>2. CASE k = Len(all) + 1
    BY <1>5, <1>9, <1>10, <1>12, <2>2 DEF s
  <2>3. k \in 1..Len(all) \/ k = Len(all) + 1
    <3>1. k \in 1..Len(all) + 1 /\ Len(all) \in Nat
      BY <1>9
    <3>. QED
      BY <3>1
  <2>. QED
    BY <2>1, <2>2, <2>3
<1>14. Content' = Append(old, s)
  BY <1>9, <1>10, <1>12, <1>13, SeqEqual
<1>15. ASSUME NEW k \in 1..Len(Content)
       PROVE  b <= Content[k].back
  <2>1. Content[k] = StampOf(wpos, valid[k]) /\ k \in 1..n
    BY <1>6
  <2>. QED
    BY <1>4, <2>1 DEF StampOf
<1>. QED
  BY <1>2, <1>4, <1>6, <1>14, <1>15 DEF Table!Put, old, s

\* When the stream gets longer, all stamps are one place further behind.
LEMMA WriteImplements ==
  ASSUME IInv, Ordered, Write
  PROVE  Table!Write \/ UNCHANGED Table!vars
<1>0. Sound
  BY DEF IInv
<1>1. /\ wpos \in Int /\ wpos' \in Int /\ valid \in Seq(Rec) /\ valid' = valid
      /\ Opened' = Opened /\ type' = type /\ Answer' = Answer
  <2>1. BufSize * Pages \in Nat \ {0} /\ wpos \in 0..BufSize * Pages - 1
    BY Sizes DEF IInv, Sound, TypeOK
  <2>2. wpos \in Int /\ (wpos + 1) % (BufSize * Pages) \in Int
    <3> DEFINE n == BufSize * Pages
    <3>1. n \in Nat \ {0} /\ wpos + 1 \in Int /\ wpos \in Int
      BY <2>1
    <3> HIDE DEF n
    <3>2. (wpos + 1) % n \in 0..n - 1
      BY <3>1, ModRange
    <3>. QED
      BY <3>1, <3>2 DEF n
  <2>. QED
    BY <2>2 DEF Write, lists, looks, Opened, Answer,
                     IInv, Sound, TypeOK, Rec
<1>2. CASE ~Opened
  <2>1. Content = <<>> /\ Content' = <<>>
    BY <1>1, <1>2, ContentIs
  <2>. QED
    BY <1>1, <2>1 DEF Table!vars
<1>3. CASE Opened
  <2> DEFINE s == [k \in 1..Len(Content) |->
                     [back |-> Content[k].back + 1, val |-> Content[k].val]]
  <2>1. /\ Content \in Seq(Stamp) /\ Len(Content) = Len(valid)
        /\ \A k \in 1..Len(valid) : Content[k] = StampOf(wpos, valid[k])
    BY <1>1, <1>3, ContentIs, StampsAre
  <2>2. Content' = StampsOf(valid, wpos')
    BY <1>1, <1>3, ContentIs
  <2>3. ASSUME NEW k \in 1..Len(valid)
        PROVE  StampOf(wpos', valid[k]) = [back |-> Content[k].back + 1,
                                           val |-> Content[k].val]
    <3>1. Behind(wpos', valid[k].offset) = Behind(wpos, valid[k].offset) + 1
      BY <1>0, WriteMoves
    <3>2. Content[k] = StampOf(wpos, valid[k])
      BY <2>1
    <3>3. /\ Content[k].back = Behind(wpos, valid[k].offset)
          /\ Content[k].val = valid[k].val
      BY <3>2 DEF StampOf
    <3>. QED
      BY <3>1, <3>3 DEF StampOf
  <2>4. Content' = s
    BY <2>1, <2>2, <2>3 DEF StampsOf
  <2>. QED
    BY <1>1, <2>4 DEF Table!Write
<1>. QED
  BY <1>2, <1>3

-----------------------------------------------------------------------------
(* Starting and stopping, and the theorem *)

\* A table that is opened is empty.
NewIsEmpty == opc = "cache" => valid = <<>>

\* Nothing is checked in before pts_start() is done.
LEMMA NewIsEmptyStep ==
  ASSUME Overlaps = FALSE, IInv, NewIsEmpty, [Next]_vars
  PROVE  NewIsEmpty'
<1>1. CASE StartAlloc
  BY <1>1 DEF StartAlloc, NewIsEmpty
<1>2. CASE \/ Start \/ StartFail \/ StartCache \/ Stop \/ StopFree \/ StopDone
  BY <1>2 DEF Start, StartFail, StartCache, Stop, StopFree, StopDone, NewIsEmpty
<1>3. CASE CheckinTest \/ CheckinRun \/ Write \/ UNCHANGED vars
  BY <1>3 DEF CheckinTest, CheckinRun, Write, vars, lists, NewIsEmpty
<1>4. ASSUME NEW at \in Places, NEW val \in Vals, Checkin(at, val)
      PROVE  NewIsEmpty'
  BY <1>4 DEF Checkin, Free, NewIsEmpty
<1>5. ASSUME NEW o \in Asked,
             \/ LookupFound(o) \/ LookupBetween(o)
             \/ LookupUnset(o) \/ LookupMiss(o)
      PROVE  NewIsEmpty'
  <2>1. Looks(o) /\ opc' = opc
    BY <1>5 DEF LookupFound, LookupBetween, LookupUnset, LookupMiss
  <2>2. opc = "idle"
    BY <2>1 DEF Looks, IInv, Sound, TypeOK, Stages, Working
  <2>. QED
    BY <2>1, <2>2 DEF NewIsEmpty
<1>. QED
  BY <1>1, <1>2, <1>3, <1>4, <1>5 DEF Next

\* The table as StampTable sees it
Image == <<type, Opened, Content, Answer>>

\* pts_start() opens an empty table with its last step, pts_stop() closes it
\* with its first; the others change nothing.
LEMMA ControlImplements ==
  ASSUME IInv, NewIsEmpty,
         \/ Start \/ StartAlloc \/ StartFail \/ StartCache
         \/ Stop \/ StopFree \/ StopDone
         \/ CheckinTest \/ CheckinRun \/ UNCHANGED vars
  PROVE  [Table!Next]_Image
<1>1. CASE Start \/ StartAlloc \/ StartFail \/ StopFree \/ StopDone
  <2>1. ~Opened /\ ~Opened' /\ type' = type
    BY <1>1 DEF Start, StartAlloc, StartFail, StopFree, StopDone, Opened,
                IInv, Stages
  <2>. QED
    BY <2>1, ContentIs DEF Image, Opened
<1>2. CASE StartCache
  <2>1. ~Opened /\ Opened' /\ type' = type
    BY <1>2 DEF StartCache, Opened, IInv, Stages
  <2>2. valid' = <<>>
    BY <1>2 DEF StartCache, NewIsEmpty, lists
  <2>3. Content = <<>> /\ Answer = -1
    BY <2>1, ContentIs
  <2>4. Content' = <<>>
    <3>1. Content' = [i \in 1..Len(valid') |-> StampOf(wpos', valid'[i])]
      BY <2>1, ContentIs DEF StampsOf
    <3>2. Len(valid') = 0
      BY <2>2
    <3>. QED
      BY <3>1, <3>2
  <2>5. Answer' = -1
    BY <1>2 DEF StartCache, Answer, NoCache
  <2>. QED
    BY <2>1, <2>3, <2>4, <2>5 DEF Table!Next, Table!Open
<1>3. CASE Stop
  <2>1. ~Opened' /\ type' = type
    BY <1>3 DEF Stop, Opened
  <2>2. Content' = <<>> /\ Answer' = -1
    BY <2>1, ContentIs
  <2>. QED
    BY <2>1, <2>2 DEF Table!Next, Table!Shut, Table!NoAnswer, Opened
<1>4. CASE CheckinTest \/ CheckinRun \/ UNCHANGED vars
  <2>1. type' = type /\ valid' = valid /\ wpos' = wpos /\ cache' = cache
    BY <1>4 DEF CheckinTest, CheckinRun, vars, lists, looks
  <2>2. Opened' = Opened
    BY <1>4 DEF CheckinTest, CheckinRun, vars, Opened, IInv, Stages
  <2>. QED
    BY <2>1, <2>2 DEF Image, Content, Records, Answer
<1>. QED
  BY <1>1, <1>2, <1>3, <1>4

\* As long as the table is not started or stopped during a check-in, ptsserv.c
\* keeps the promises of StampTable, for tables, buffers and integers of any
\* size: stamps are kept in the stream's order, a look-up answers with the one
\* nearest before the place asked for or with a time between two, and forgets
\* none that is after it.
THEOREM Implements ==
  ASSUME Overlaps = FALSE
  PROVE  Spec => TableSpec
<1>1. Init => Table!Init /\ NewIsEmpty
  <2>1. SUFFICES ASSUME Init PROVE Table!Init /\ NewIsEmpty
    OBVIOUS
  <2>2. ~Opened /\ type \in {"video", "audio"} /\ opc = "idle"
    BY <2>1, PtsServAssumption DEF Init, Opened
  <2>. QED
    BY <2>2, ContentIs DEF Table!Init, Table!NoAnswer, NewIsEmpty, Opened
<1>2. IInv /\ NewIsEmpty /\ [Next]_vars => NewIsEmpty'
  BY NewIsEmptyStep
<1>3. IInv /\ Ordered /\ NewIsEmpty /\ [Next]_vars => [Table!Next]_Image
  <2>1. SUFFICES ASSUME IInv, Ordered, NewIsEmpty, [Next]_vars
                 PROVE  [Table!Next]_Image
    OBVIOUS
  <2>2. ASSUME NEW at \in Places, NEW val \in Vals, Checkin(at, val)
        PROVE  Table!Next
    <3>1. \E b \in 0..Window : Table!Put(b, val)
      BY <2>1, <2>2, CheckinImplements
    <3>. QED
      BY <3>1 DEF Table!Next
  <2>3. ASSUME NEW o \in Asked,
               \/ LookupFound(o) \/ LookupBetween(o)
               \/ LookupUnset(o) \/ LookupMiss(o)
        PROVE  Table!Next
    <3>1. \E b \in 0..Window : Table!Find(b) \/ Table!Interpolate(b) \/ Table!Miss(b)
      BY <2>1, <2>3, FoundImplements, BetweenImplements, LeaveImplements
    <3>. QED
      BY <3>1 DEF Table!Next
  <2>4. CASE Write
    BY <2>1, <2>4, WriteImplements DEF Table!Next, Table!vars, Image
  <2>5. CASE \/ Start \/ StartAlloc \/ StartFail \/ StartCache
             \/ Stop \/ StopFree \/ StopDone
             \/ CheckinTest \/ CheckinRun \/ UNCHANGED vars
    BY <2>1, <2>5, ControlImplements
  <2>. QED
    BY <2>1, <2>2, <2>3, <2>4, <2>5 DEF Next
<1>. QED
  BY <1>1, <1>2, <1>3, Invariance, OrderInvariance,
     PTL DEF Spec, TableSpec, Table!Spec, Table!vars, Image
=============================================================================
