-------------------------- MODULE PtsServOrderProofs --------------------------
(***************************************************************************)
(* Proofs about the order of the records of PtsServ, and about what the    *)
(* look-up finds because of it: positions that wrap are measured by how    *)
(* far they are behind the write position, where they do not.              *)
(***************************************************************************)
EXTENDS PtsServProofs, ModularArithmetic

\* How far position x is behind position p.
Behind(p, x) == (p - x) % M

-----------------------------------------------------------------------------
(* Positions near the write position *)

\* The constants, for the provers.
LEMMA Sizes ==
  /\ M \in Nat \ {0} /\ M > 1 /\ BufSize \in Nat \ {0} /\ Pages \in Nat \ {0}
  /\ Window \in Nat /\ 2 * Window < M /\ Window < BufSize
BY PtsServAssumption

\* The difference of positions is the number that it is modulo M and that is
\* small enough.
LEMMA DiffIs ==
  ASSUME NEW x \in Int, NEW y \in Int, NEW d \in Int, 2 * d < M, -M <= 2 * d,
         (x - y) % M = d % M
  PROVE  Diff(x, y) = d
<1>1. M \in Nat \ {0}
  BY Sizes
<1>2. CASE d >= 0
  <2>1. d % M = d
    BY <1>1, <1>2, SmallRemainder
  <2>. QED
    BY <1>1, <1>2, <2>1 DEF Diff
<1>3. CASE d < 0
  <2>1. d % M = d + M
    <3>1. d + M \in 0..M - 1 /\ d = M * (-1) + (d + M)
      BY <1>1, <1>3
    <3> DEFINE e == d + M
    <3>2. e \in 0..M - 1 /\ d = M * (-1) + e
      BY <3>1
    <3> HIDE DEF e
    <3>3. d % M = e
      BY <1>1, <3>2, Unique
    <3>. QED
      BY <3>3 DEF e
  <2>. QED
    BY <1>1, <1>3, <2>1 DEF Diff
<1>. QED
  BY <1>2, <1>3

\* Of two positions that are not far behind p, the difference is how much
\* nearer to p the one is than the other.
LEMMA DiffBehind ==
  ASSUME NEW p \in Int, NEW x \in Int, NEW y \in Int,
         Behind(p, x) <= Window, Behind(p, y) <= Window
  PROVE  /\ Behind(p, x) \in 0..Window /\ Behind(p, y) \in 0..Window
         /\ Diff(x, y) = Behind(p, y) - Behind(p, x)
<1> DEFINE a == (p - x) % M
           b == (p - y) % M
           i == (p - x) \div M
           j == (p - y) \div M
           k == j - i
           d == b - a
           e == x - y
<1>1. M \in Nat \ {0} /\ Window \in Nat /\ 2 * Window < M
  BY Sizes
<1>2. /\ a \in 0..M - 1 /\ i \in Int /\ p - x = M * i + a
      /\ b \in 0..M - 1 /\ j \in Int /\ p - y = M * j + b
  <2>1. p - x \in Int /\ p - y \in Int
    OBVIOUS
  <2>. QED
    BY <1>1, <2>1, Division
<1>3. a <= Window /\ b <= Window
  BY DEF Behind
<1> HIDE DEF a, b, i, j
<1>4. k \in Int /\ M * k = M * j - M * i
  BY <1>1, <1>2
<1> HIDE DEF k
<1>5. e = d + M * k /\ d \in Int /\ e \in Int
  <2>1. M * i \in Int /\ M * j \in Int
    BY <1>1, <1>2
  <2> DEFINE mi == M * i
             mj == M * j
             mk == M * k
  <2>2. /\ mi \in Int /\ mj \in Int /\ mk = mj - mi
        /\ p - x = mi + a /\ p - y = mj + b
    BY <1>2, <1>4, <2>1
  <2> HIDE DEF mi, mj, mk
  <2>3. e = d + mk
    BY <1>1, <1>2, <2>2
  <2>. QED
    BY <1>1, <1>2, <2>3 DEF mk
<1>6. 2 * d < M /\ -M <= 2 * d
  BY <1>1, <1>2, <1>3
<1> HIDE DEF d, e
<1>7. e % M = d % M
  <2>1. (d + M * k) % M = d % M
    BY <1>1, <1>4, <1>5, SameRemainder, Zenon
  <2>. QED
    BY <1>5, <2>1
<1>8. Diff(x, y) = d
  BY <1>5, <1>6, <1>7, DiffIs DEF e
<1>. QED
  BY <1>2, <1>3, <1>8 DEF Behind, a, b, d

\* k bytes behind p is the position p - k.
LEMMA BehindOf ==
  ASSUME NEW p \in Int, NEW k \in 0..Window, NEW x \in Int,
         x % M = (p - k) % M
  PROVE  Behind(p, x) = k
<1>1. M \in Nat \ {0} /\ k \in 0..M - 1 /\ k \in Int
  BY Sizes
<1> DEFINE q == p - k
<1>2. q \in Int /\ p - q = k
  BY <1>1
<1> HIDE DEF q
<1>3. x % M = q % M
  BY DEF q
<1>4. (p - x) % M = (p - q) % M
  <2>1. M \in Nat \ {0} /\ q \in Int
    BY <1>1, <1>2
  <2>. QED
    BY <1>3, <2>1, RemainderOfRest, Zenon
<1>5. k % M = k
  BY <1>1, SmallRemainder
<1>. QED
  BY <1>2, <1>4, <1>5 DEF Behind

\* A position is itself modulo M.
LEMMA RemainderAgain ==
  ASSUME NEW x \in Int
  PROVE  x % M \in 0..M - 1 /\ (x % M) % M = x % M
<1>1. M \in Nat \ {0} /\ x % M \in 0..M - 1
  BY Sizes, ModRange
<1>. QED
  BY <1>1, SmallRemainder

\* The positions a look-up may ask for.
LEMMA AskedBehind ==
  ASSUME wpos \in Int, NEW o \in Asked
  PROVE  o \in 0..M - 1 /\ Behind(wpos, o) \in 0..Window
<1>1. PICK k \in 0..Window : o = (wpos - k) % M
  BY DEF Asked
<1> DEFINE q == wpos - k
<1>2. q \in Int /\ k \in Int
  BY Sizes
<1> HIDE DEF q
<1>3. o \in 0..M - 1 /\ o % M = q % M
  BY <1>1, <1>2, RemainderAgain DEF q
<1>4. o \in Int
  BY <1>3, Sizes
<1>5. Behind(wpos, o) = k
  BY <1>3, <1>4, BehindOf DEF q
<1>. QED
  BY <1>3, <1>5

\* pts_checkin_wrptr() finds the position of a place of the buffer, whichever
\* wraps lie between it and the write position.
LEMMA WrOffsetOfPlace ==
  ASSUME wpos \in Int, NEW at \in Places
  PROVE  /\ WrOffset(at % BufSize) = at % M
         /\ at % M \in 0..M - 1 /\ Behind(wpos, at % M) \in 0..Window
         /\ valid # <<>> => EqLater(at % M, valid[Len(valid)].offset)
<1>1. PICK k \in 0..Window : at = (wpos - k) % (BufSize * Pages)
  BY DEF Places
<1> DEFINE q    == wpos - k
           n    == BufSize * Pages
           page == wpos \div BufSize
           r    == wpos % BufSize
           ptr  == at % BufSize
           page_no == IF ptr > r THEN page - 1 ELSE page
<1>2. /\ M \in Nat \ {0} /\ BufSize \in Nat \ {0} /\ n \in Nat \ {0}
      /\ n % M = 0 /\ k \in Int /\ k \in 0..BufSize - 1 /\ q \in Int
  BY PtsServAssumption
<1>3. n % BufSize = 0
  <2>1. n = BufSize * Pages + 0 /\ 0 \in 0..BufSize - 1 /\ Pages \in Int
    BY Sizes
  <2> HIDE DEF n
  <2>. QED
    BY <1>2, <2>1, Unique
<1>4. page \in Int /\ r \in 0..BufSize - 1 /\ wpos = BufSize * page + r
  BY <1>2, Division
<1> HIDE DEF q, n, page, r
<1>5. at \in Int /\ at % M = q % M /\ ptr = q % BufSize
  <2>1. at = q % n
    BY <1>1 DEF q, n
  <2>2. at \in Int
    BY <1>2, <2>1, ModRange
  <2>3. (q % n) % M = q % M
    BY <1>2, NestedRemainder
  <2>4. (q % n) % BufSize = q % BufSize
    BY <1>2, <1>3, NestedRemainder
  <2>. QED
    BY <2>1, <2>2, <2>3, <2>4
<1>6. BufSize * page_no + ptr = q
  <2>1. CASE k <= r
    <3> DEFINE z == r - k
    <3>1. z \in 0..BufSize - 1 /\ q = BufSize * page + z /\ z <= r
      BY <1>2, <1>4, <2>1 DEF q
    <3> HIDE DEF z
    <3>2. q % BufSize = z
      BY <1>2, <1>4, <3>1, Unique
    <3>3. ptr = z
      BY <1>5, <3>2
    <3> HIDE DEF ptr
    <3>4. page_no = page
      BY <1>4, <3>1, <3>3
    <3>. QED
      BY <3>1, <3>3, <3>4
  <2>2. CASE k > r
    <3> DEFINE z == BufSize + r - k
               l == page - 1
    <3>1. /\ z \in 0..BufSize - 1 /\ l \in Int /\ z > r
          /\ BufSize * l = BufSize * page - BufSize
      BY <1>2, <1>4, <2>2
    <3>2. q = BufSize * l + z
      BY <1>2, <1>4, <3>1 DEF q
    <3> HIDE DEF z, l
    <3>3. q % BufSize = z
      BY <1>2, <3>1, <3>2, Unique
    <3>4. ptr = z
      BY <1>5, <3>3
    <3> HIDE DEF ptr
    <3>5. page_no = l
      BY <1>4, <3>1, <3>4 DEF l
    <3>. QED
      BY <3>2, <3>4, <3>5
  <2>. QED
    BY <1>2, <1>4, <2>1, <2>2
<1>7. WrOffset(at % BufSize) = q % M
  <2>1. WrOffset(at % BufSize) = (BufSize * page_no + ptr) % M
    BY DEF WrOffset, page, r
  <2> HIDE DEF ptr, page_no
  <2>. QED
    BY <1>6, <2>1
<1> DEFINE x == at % M
<1>8. x \in 0..M - 1 /\ x % M = q % M /\ x \in Int
  <2>1. x \in 0..M - 1 /\ x % M = x
    BY <1>5, RemainderAgain
  <2>. QED
    BY <1>2, <1>5, <2>1
<1> HIDE DEF x
<1>9. Behind(wpos, x) = k
  BY <1>8, BehindOf DEF q
<1>10. valid # <<>> => EqLater(at % M, valid[Len(valid)].offset)
  BY DEF Places
<1>. QED
  BY <1>5, <1>7, <1>8, <1>9, <1>10 DEF x

\* Writing one byte puts every position one byte further behind.
LEMMA BehindAfterWrite ==
  ASSUME NEW p \in Int, NEW x \in Int, Behind(p, x) < Window
  PROVE  Behind((p + 1) % (BufSize * Pages), x) = Behind(p, x) + 1
<1> DEFINE n == BufSize * Pages
           w == p + 1
           a == (p - x) % M
           u == w % n
<1>1. /\ M \in Nat \ {0} /\ n \in Nat \ {0} /\ n % M = 0
      /\ Window \in Nat /\ 2 * Window < M
  BY PtsServAssumption
<1>2. w \in Int /\ p - x \in Int /\ w - x = (p - x) + 1
  OBVIOUS
<1>3. a \in 0..M - 1 /\ a % M = a
  BY <1>2, RemainderAgain
<1> HIDE DEF n, w, a
<1>4. u \in Int /\ u % M = w % M
  <2>1. u \in Int
    BY <1>1, <1>2, ModRange
  <2>2. u % M = w % M
    BY <1>1, <1>2, NestedRemainder, Zenon
  <2>. QED
    BY <2>1, <2>2
<1> HIDE DEF u
<1>5. (u - x) % M = (w - x) % M
  <2>1. M \in Nat \ {0} /\ w \in Int
    BY <1>1, <1>2
  <2>. QED
    BY <1>4, <2>1, RemainderOfDifference, ZenonT(40)
<1> DEFINE z == p - x
<1>6. z \in Int /\ z % M = a % M /\ a \in Int
  BY <1>1, <1>2, <1>3 DEF a
<1> HIDE DEF z
<1>7. (z + 1) % M = (a + 1) % M
  <2> DEFINE l == z \div M
             b == a + 1
  <2>1. l \in Int /\ z = M * l + a
    BY <1>1, <1>6, Division DEF a, z
  <2>2. b \in Int /\ z + 1 = b + M * l
    BY <1>1, <1>6, <2>1
  <2> HIDE DEF l, b
  <2>3. (b + M * l) % M = b % M
    BY <1>1, <2>1, <2>2, SameRemainder, Zenon
  <2>. QED
    BY <2>2, <2>3 DEF b
<1>8. a < Window /\ a + 1 \in 0..M - 1
  BY <1>1, <1>3 DEF Behind, a
<1>9. (a + 1) % M = a + 1
  <2> DEFINE b == a + 1
  <2>1. b \in 0..M - 1
    BY <1>8
  <2> HIDE DEF b
  <2>2. b % M = b
    BY <1>1, <2>1, SmallRemainder
  <2>. QED
    BY <2>2 DEF b
<1>. QED
  BY <1>2, <1>5, <1>7, <1>9 DEF Behind, a, n, w, u, z

-----------------------------------------------------------------------------
(* Lists in order *)

\* The records of v are at most Window behind p, and none is further behind
\* than the ones before it.
InOrder(v, p) ==
  /\ \A i \in 1..Len(v) : Behind(p, v[i].offset) <= Window
  /\ \A i, j \in 1..Len(v) :
       i <= j => Behind(p, v[j].offset) <= Behind(p, v[i].offset)

\* The records are positions.
LEMMA Offsets ==
  ASSUME NEW v \in Seq(Rec), NEW i \in 1..Len(v)
  PROVE  v[i] \in Rec /\ v[i].offset \in Int /\ v[i].offset \in 0..M - 1
<1>1. v[i] \in Rec
  OBVIOUS
<1>. QED
  BY <1>1, Sizes DEF Rec

\* How far behind a position is, is a number.
LEMMA BehindInt ==
  ASSUME NEW p \in Int, NEW x \in Int
  PROVE  Behind(p, x) \in Int /\ Behind(p, x) \in 0..M - 1
<1>1. p - x \in Int /\ M \in Nat \ {0}
  BY Sizes
<1>2. (p - x) % M \in 0..M - 1
  BY <1>1, ModRange
<1>. QED
  BY <1>1, <1>2 DEF Behind

\* What is left of a list without its first records ...
LEMMA SuffixInOrder ==
  ASSUME NEW v \in Seq(Rec), NEW d \in 0..Len(v), NEW p, InOrder(v, p),
         NEW u, u = SubSeq(v, d + 1, Len(v))
  PROVE  /\ u \in Seq(Rec) /\ Len(u) = Len(v) - d
         /\ \A k \in 1..Len(u) : u[k] = v[k + d]
         /\ InOrder(u, p)
<1>1. Len(v) \in Nat /\ d \in Nat /\ d <= Len(v) /\ v \in Seq(Rec)
  OBVIOUS
<1>2. /\ u \in Seq(Rec) /\ Len(u) = Len(v) - d
      /\ \A k \in 1..Len(v) - d : u[k] = v[d + 1 + k - 1]
  <2>1. /\ d + 1 \in Int /\ \A k \in d + 1..Len(v) : v[k] \in Rec
        /\ IF d + 1 <= Len(v) THEN Len(v) - (d + 1) + 1 = Len(v) - d
                              ELSE Len(v) - d = 0
    BY <1>1
  <2>. QED
    BY <1>1, <2>1, SubSeqProperties
<1>3. \A k \in 1..Len(u) : u[k] = v[k + d] /\ k + d \in 1..Len(v)
  <2>1. ASSUME NEW k \in 1..Len(u)
        PROVE  u[k] = v[k + d] /\ k + d \in 1..Len(v)
    <3>1. k \in 1..Len(v) - d /\ d + 1 + k - 1 = k + d
      BY <1>1, <1>2
    <3>. QED
      BY <1>1, <1>2, <3>1
  <2>. QED
    BY <2>1
<1>4. Len(u) \in Nat
  BY <1>2
<1>5. InOrder(u, p)
  <2>1. ASSUME NEW i \in 1..Len(u)
        PROVE  Behind(p, u[i].offset) <= Window
    BY <1>3 DEF InOrder
  <2>2. ASSUME NEW i \in 1..Len(u), NEW j \in 1..Len(u), i <= j
        PROVE  Behind(p, u[j].offset) <= Behind(p, u[i].offset)
    <3>1. i + d <= j + d
      BY <1>1, <1>4, <2>2
    <3>. QED
      BY <1>3, <3>1 DEF InOrder
  <2>. QED
    BY <2>1, <2>2 DEF InOrder
<1>. QED
  BY <1>2, <1>3, <1>5

\* ... or without some in its middle ...
LEMMA WithoutInOrder ==
  ASSUME NEW v \in Seq(Rec), NEW i \in 1..Len(v), NEW j \in i..Len(v),
         NEW p, InOrder(v, p), NEW u, u = Without(v, i, j)
  PROVE  /\ u \in Seq(Rec) /\ Len(u) = Len(v) - (j - i + 1)
         /\ \A k \in 1..Len(u) :
              u[k] = v[IF k < i THEN k ELSE k + (j - i + 1)]
         /\ InOrder(u, p)
<1> DEFINE a == SubSeq(v, 1, i - 1)
           b == SubSeq(v, j + 1, Len(v))
           n == j - i + 1
           at(k) == IF k < i THEN k ELSE k + n
<1>1. Len(v) \in Nat /\ \A k \in 1..Len(v) : v[k] \in Rec
  OBVIOUS
<1>2. /\ a \in Seq(Rec) /\ Len(a) = i - 1
      /\ \A k \in 1..i - 1 : a[k] = v[1 + k - 1]
  BY <1>1, SubSeqProperties
<1>3. /\ b \in Seq(Rec) /\ Len(b) = Len(v) - j
      /\ \A k \in 1..Len(v) - j : b[k] = v[j + 1 + k - 1]
  BY <1>1, SubSeqProperties
<1> HIDE DEF a, b
<1>4. /\ a \o b \in Seq(Rec) /\ Len(a \o b) = Len(a) + Len(b)
      /\ \A k \in 1..Len(a) + Len(b) :
           (a \o b)[k] = IF k <= Len(a) THEN a[k] ELSE b[k - Len(a)]
  BY <1>2, <1>3, ConcatProperties
<1>5. u = a \o b
  BY DEF Without, a, b
<1>6. /\ i \in Int /\ j \in Int /\ n \in Nat /\ n = j - i + 1
      /\ i >= 1 /\ j >= i /\ j <= Len(v) /\ Len(a) = i - 1
      /\ Len(b) = Len(v) - j /\ Len(u) = Len(v) - n /\ Len(u) \in Nat
      /\ Len(u) = Len(a) + Len(b)
  BY <1>1, <1>2, <1>3, <1>4, <1>5
<1> HIDE DEF n
<1>7. ASSUME NEW k \in 1..Len(u)
      PROVE  u[k] = v[at(k)] /\ at(k) \in 1..Len(v) /\ at(k) \in Int
  <2>1. CASE k < i
    <3>1. k <= Len(a) /\ k \in 1..i - 1 /\ 1 + k - 1 = k /\ k \in 1..Len(v)
      BY <1>1, <1>6, <2>1
    <3>2. u[k] = a[k]
      BY <1>4, <1>5, <1>6, <3>1
    <3>3. a[k] = v[k]
      BY <1>2, <3>1
    <3>. QED
      BY <2>1, <3>1, <3>2, <3>3
  <2>2. CASE ~(k < i)
    <3> DEFINE l == k - Len(a)
    <3>1. /\ ~(k <= Len(a)) /\ l \in 1..Len(v) - j
          /\ j + 1 + l - 1 = k + n /\ k + n \in 1..Len(v)
      BY <1>1, <1>6, <2>2
    <3>2. u[k] = b[l]
      BY <1>4, <1>5, <1>6, <3>1
    <3> HIDE DEF l
    <3>3. b[l] = v[k + n]
      BY <1>3, <3>1
    <3>. QED
      BY <2>2, <3>1, <3>2, <3>3
  <2>. QED
    BY <2>1, <2>2
<1>8. ASSUME NEW k \in 1..Len(u), NEW l \in 1..Len(u), k <= l
      PROVE  at(k) <= at(l)
  BY <1>6, <1>8
<1> HIDE DEF at
<1>9. InOrder(u, p)
  <2>1. ASSUME NEW k \in 1..Len(u)
        PROVE  Behind(p, u[k].offset) <= Window
    BY <1>7 DEF InOrder
  <2>2. ASSUME NEW k \in 1..Len(u), NEW l \in 1..Len(u), k <= l
        PROVE  Behind(p, u[l].offset) <= Behind(p, u[k].offset)
    BY <1>7, <1>8, <2>2 DEF InOrder
  <2>. QED
    BY <2>1, <2>2 DEF InOrder
<1>. QED
  BY <1>4, <1>5, <1>6, <1>7, <1>9 DEF at, n

\* ... or with a later one at its end.
LEMMA AppendInOrder ==
  ASSUME NEW v \in Seq(Rec), NEW p, InOrder(v, p), NEW r \in Rec,
         Behind(p, r.offset) \in Int, Behind(p, r.offset) <= Window,
         v # <<>> => Behind(p, r.offset) <= Behind(p, v[Len(v)].offset),
         \A k \in 1..Len(v) : Behind(p, v[k].offset) \in Int
  PROVE  InOrder(Append(v, r), p)
<1> DEFINE u == Append(v, r)
           n == Len(v)
           g(k) == Behind(p, v[k].offset)
           h == Behind(p, r.offset)
<1>1. /\ n \in Nat /\ Len(u) = n + 1 /\ u[n + 1] = r
      /\ \A k \in 1..n : u[k] = v[k]
  BY AppendProperties
<1>2. v # <<>> <=> n # 0
  OBVIOUS
<1>3. /\ \A k \in 1..n : g(k) \in Int /\ g(k) <= Window
      /\ \A i, j \in 1..n : i <= j => g(j) <= g(i)
      /\ n # 0 => h <= g(n)
      /\ h \in Int /\ h <= Window
  BY <1>2 DEF InOrder
<1> HIDE DEF g, h, n
<1>4. \A k \in 1..n : h <= g(k)
  <2>1. ASSUME NEW k \in 1..n
        PROVE  h <= g(k)
    <3>1. n \in 1..n /\ k <= n /\ n # 0
      BY <1>1
    <3>2. g(n) <= g(k) /\ h <= g(n) /\ g(n) \in Int /\ g(k) \in Int
      BY <1>3, <3>1
    <3>. QED
      BY <1>3, <3>2
  <2>. QED
    BY <2>1
<1>5. \A k \in 1..n : Behind(p, u[k].offset) = g(k)
  BY <1>1 DEF g
<1>6. Behind(p, u[n + 1].offset) = h
  BY <1>1 DEF h
<1> HIDE DEF u
<1>7. \A k \in 1..Len(u) : k \in 1..n \/ k = n + 1
  BY <1>1
<1>8. ASSUME NEW k \in 1..Len(u)
      PROVE  Behind(p, u[k].offset) <= Window
  BY <1>3, <1>5, <1>6, <1>7
<1>9. ASSUME NEW i \in 1..Len(u), NEW j \in 1..Len(u), i <= j
      PROVE  Behind(p, u[j].offset) <= Behind(p, u[i].offset)
  <2>1. CASE j \in 1..n
    <3>1. i \in 1..n
      BY <1>1, <1>9, <2>1
    <3>. QED
      BY <1>3, <1>5, <1>9, <2>1, <3>1
  <2>2. CASE j = n + 1 /\ i \in 1..n
    BY <1>4, <1>5, <1>6, <2>2
  <2>3. CASE j = n + 1 /\ i = n + 1
    BY <1>3, <1>6, <2>3
  <2>. QED
    BY <1>7, <2>1, <2>2, <2>3
<1>. QED
  BY <1>8, <1>9 DEF InOrder, u

-----------------------------------------------------------------------------
(* What the walk of a look-up leaves *)

\* Nothing that is dropped is near the position.
LEMMA DroppedAreOld ==
  ASSUME valid \in Seq(Rec), NEW o \in Int
  PROVE  /\ DroppedOld(o) \in 0..Len(valid)
         /\ \A i \in 1..DroppedOld(o) : Diff(o, valid[i].offset) > KeepRange
<1> DEFINE K == {k \in 0..Len(valid) :
                   \A i \in 1..k : Diff(o, valid[i].offset) > KeepRange}
<1>1. Len(valid) \in Nat
  OBVIOUS
<1>2. K \in SUBSET (0..Len(valid)) /\ 0 \in K
  BY <1>1
<1>3. Max(K) \in K
  <2> HIDE DEF K
  <2>. QED
    BY <1>1, <1>2, MaxExists
<1>4. DroppedOld(o) \in K
  <2>1. DroppedOld(o) = IF type = "video" THEN Max(K) ELSE 0
    BY DEF DroppedOld
  <2> HIDE DEF K
  <2>. QED
    BY <1>2, <1>3, <2>1
<1>. QED
  BY <1>4

\* The list without the dropped records, the record the walk settles on, and
\* how both are found in what the walk leaves.
Settles(w, d, v, c, o) ==
  /\ \A i \in 1..d : Diff(o, valid[i].offset) > KeepRange
  /\ v = SubSeq(valid, d + 1, Len(valid))
  /\ IF v = <<>> THEN c = 0 ELSE \E s \in 1..Len(v) : c = Candidate(v, s, o)
  /\ c \in 0..Len(v)
  /\ w.v = v \/ \E i \in 1..Len(v), j \in 1..Len(v) :
                  i <= j /\ w.v = Without(v, i, j)
  /\ w.c # 0 <=> c # 0
  /\ w.c # 0 => w.v[w.c] = v[c]

\* Every walk leaves such a list.
LEMMA WalkSettles ==
  ASSUME type \in {"video", "audio"}, valid \in Seq(Rec),
         SearchIn(valid, pts_search), NEW o \in Int,
         NEW w, w = Walked(o)
  PROVE  \E d \in 0..Len(valid), v \in Seq(Rec), c \in Nat :
           Settles(w, d, v, c, o)
<1> DEFINE d == DroppedOld(o)
           v == SubSeq(valid, d + 1, Len(valid))
           search == SearchAfterDrop(d)
           s == IF search = 0 THEN 1 ELSE search
           c == IF v = <<>> THEN 0 ELSE Candidate(v, s, o)
           passed == IF type = "audio" /\ c > s THEN c - s ELSE 0
<1>1. Len(valid) \in Nat /\ \A k \in 1..Len(valid) : valid[k] \in Rec
  OBVIOUS
<1>2. /\ d \in 0..Len(valid) /\ (type = "audio" => d = 0)
      /\ \A i \in 1..d : Diff(o, valid[i].offset) > KeepRange
  BY DroppedOldRange, DroppedAreOld
<1> HIDE DEF d
<1>3. v \in Seq(Rec) /\ Len(v) = Len(valid) - d
  BY <1>1, <1>2, SubSeqProperties
<1>4. v = SubSeq(valid, d + 1, Len(valid))
  OBVIOUS
<1>5. SearchIn(v, search)
  <2> HIDE DEF v
  <2>. QED
    BY <1>1, <1>2, <1>3 DEF SearchIn, SearchAfterDrop
<1>6. w = [v |-> IF passed = 0 THEN v ELSE Without(v, s, s + passed - 1),
           c |-> c - passed,
           freed |-> d + passed,
           search |-> IF passed > 0 /\ search > 0 THEN Outside ELSE search]
  BY DEF Walked, d
<1> HIDE DEF v, search
<1>7. v # <<>> => s \in 1..Len(v)
  BY <1>3, <1>5 DEF SearchIn
<1>8. type = "audio" => s = 1
  BY <1>5 DEF SearchIn
<1> HIDE DEF s
<1>9. /\ c \in 0..Len(v) /\ c \in Nat
      /\ IF v = <<>> THEN c = 0 ELSE \E i \in 1..Len(v) : c = Candidate(v, i, o)
  <2>1. CASE v = <<>>
    BY <2>1, <1>3
  <2>2. CASE v # <<>>
    BY <2>2, <1>3, <1>7, CandidateRange
  <2>. QED
    BY <2>1, <2>2
<1> HIDE DEF c
<1>10. CASE type = "audio" /\ c > 1
  <2> DEFINE j == c - 1
  <2>1. /\ s = 1 /\ passed = j /\ s + passed - 1 = j /\ passed # 0
        /\ c - passed = 1 /\ j \in 1..Len(v) /\ j \in Nat /\ j + 1 = c
    BY <1>8, <1>9, <1>10
  <2> HIDE DEF j, passed
  <2>2. w.v = Without(v, 1, j) /\ w.c = 1
    BY <1>6, <2>1
  <2>3. 1 \in 1..Len(v) /\ j \in 1..Len(v) /\ 1 <= j
    BY <1>3, <2>1
  <2>4. w.v[1] = v[c]
    <3>1. \A k \in 1..Len(v) - j : Without(v, 1, j)[k] = v[k + j]
      BY <1>3, <2>3, WithoutShape
    <3>2. 1 \in 1..Len(v) - j /\ 1 + j = c
      BY <1>3, <1>9, <2>1
    <3>. QED
      BY <2>2, <3>1, <3>2
  <2>5. Settles(w, d, v, c, o)
    BY <1>2, <1>4, <1>9, <1>10, <2>2, <2>3, <2>4 DEF Settles
  <2>. QED
    BY <1>2, <1>3, <1>9, <2>5
<1>11. CASE ~(type = "audio" /\ c > 1)
  <2>1. passed = 0
    BY <1>8, <1>11
  <2>2. w.v = v /\ w.c = c
    <3> HIDE DEF passed
    <3>. QED
      BY <1>6, <1>9, <2>1
  <2>3. Settles(w, d, v, c, o)
    BY <1>2, <1>4, <1>9, <2>2 DEF Settles
  <2>. QED
    BY <1>2, <1>3, <1>9, <2>3
<1>. QED
  BY <1>10, <1>11

\* What the walk leaves is in order as the list was.
LEMMA WalkedInOrder ==
  ASSUME type \in {"video", "audio"}, valid \in Seq(Rec),
         SearchIn(valid, pts_search), NEW o \in Int,
         NEW w, w = Walked(o), NEW p, InOrder(valid, p)
  PROVE  w.v \in Seq(Rec) /\ InOrder(w.v, p)
<1>1. PICK d \in 0..Len(valid), v \in Seq(Rec), c \in Nat :
        Settles(w, d, v, c, o)
  BY WalkSettles
<1>2. v \in Seq(Rec) /\ InOrder(v, p)
  BY <1>1, SuffixInOrder DEF Settles
<1>3. CASE w.v = v
  BY <1>2, <1>3
<1>4. ASSUME NEW i \in 1..Len(v), NEW j \in 1..Len(v), i <= j,
             w.v = Without(v, i, j)
      PROVE  w.v \in Seq(Rec) /\ InOrder(w.v, p)
  <2>1. j \in i..Len(v)
    BY <1>2, <1>4
  <2>. QED
    BY <1>2, <1>4, <2>1, WithoutInOrder
<1>. QED
  BY <1>1, <1>3, <1>4 DEF Settles

-----------------------------------------------------------------------------
(* The order is kept *)

Ordered == InOrder(valid, wpos)

\* A check-in is for a place near the write position, and none of the records
\* is nearer to it.
LEMMA CheckinPlace ==
  ASSUME Sound, Ordered, NEW at \in Places, NEW val \in Vals,
         NEW r, r = [offset |-> WrOffset(at % BufSize), val |-> val]
  PROVE  /\ r \in Rec /\ r.offset = at % M /\ r.val = val
         /\ Behind(wpos, r.offset) \in 0..Window
         /\ \A k \in 1..Len(valid) :
              /\ Behind(wpos, valid[k].offset) \in Int
              /\ Behind(wpos, r.offset) <= Behind(wpos, valid[k].offset)
<1>1. /\ wpos \in Int /\ valid \in Seq(Rec)
      /\ val \in 0..M - 1
  <2>1. BufSize * Pages \in Nat
    BY Sizes
  <2>. QED
    BY <2>1, PtsServAssumption DEF Sound, TypeOK, Rec
<1>2. /\ r \in Rec /\ r.offset = at % M /\ r.offset \in Int
      /\ Behind(wpos, r.offset) \in 0..Window
      /\ valid # <<>> => EqLater(r.offset, valid[Len(valid)].offset)
  <2>1. /\ r.offset = at % M /\ at % M \in 0..M - 1
        /\ Behind(wpos, at % M) \in 0..Window
        /\ valid # <<>> => EqLater(at % M, valid[Len(valid)].offset)
    BY <1>1, WrOffsetOfPlace
  <2>2. at % M \in Int
    BY <2>1, Sizes
  <2>3. r \in Rec
    BY <1>1, <2>1 DEF Rec
  <2>. QED
    BY <2>1, <2>2, <2>3
<1>3. r.val = val
  OBVIOUS
<1>4. Behind(wpos, r.offset) \in Int /\ Behind(wpos, r.offset) <= Window
  BY <1>2, Sizes
<1>5. \A k \in 1..Len(valid) : Behind(wpos, valid[k].offset) \in Int
  BY <1>1, Offsets, BehindInt
<1>6. valid # <<>> =>
        Behind(wpos, r.offset) <= Behind(wpos, valid[Len(valid)].offset)
  <2>1. SUFFICES ASSUME valid # <<>>
                 PROVE  Behind(wpos, r.offset)
                          <= Behind(wpos, valid[Len(valid)].offset)
    OBVIOUS
  <2> DEFINE n == Len(valid)
             x == valid[n].offset
  <2>2. n \in 1..n
    BY <1>1, <2>1
  <2>3. x \in Int /\ Behind(wpos, x) <= Window /\ Behind(wpos, x) \in Int
    BY <1>1, <1>5, <2>2, Offsets DEF Ordered, InOrder
  <2>4. Diff(r.offset, x) >= 0
    BY <1>2, <2>1 DEF EqLater
  <2> HIDE DEF n, x
  <2>5. Diff(r.offset, x) = Behind(wpos, x) - Behind(wpos, r.offset)
    BY <1>1, <1>2, <1>4, <2>3, DiffBehind
  <2>6. Behind(wpos, r.offset) <= Behind(wpos, x)
    BY <1>4, <2>3, <2>4, <2>5
  <2>. QED
    BY <2>6 DEF x, n
<1>7. ASSUME NEW k \in 1..Len(valid)
      PROVE  Behind(wpos, r.offset) <= Behind(wpos, valid[k].offset)
  <2> DEFINE n == Len(valid)
             b(i) == Behind(wpos, valid[i].offset)
             e == Behind(wpos, r.offset)
  <2>1. valid # <<>> /\ n \in 1..n /\ k <= n
    BY <1>1
  <2>2. b(n) <= b(k) /\ e <= b(n)
    BY <1>6, <2>1 DEF Ordered, InOrder
  <2>3. b(n) \in Int /\ b(k) \in Int /\ e \in Int
    BY <1>4, <1>5, <2>1
  <2> HIDE DEF b, e, n
  <2>4. e <= b(k)
    BY <2>2, <2>3
  <2>. QED
    BY <2>4 DEF b, e
<1>. QED
  BY <1>2, <1>3, <1>5, <1>7

\* A check-in puts a record behind the last one that is not earlier.
LEMMA CheckinKeepsOrder ==
  ASSUME Sound, Ordered, NEW at \in Places, NEW val \in Vals, Checkin(at, val)
  PROVE  Ordered'
<1> DEFINE r == [offset |-> WrOffset(at % BufSize), val |-> val]
<1>1. valid \in Seq(Rec) /\ nfree \in Nat
  BY DEF Sound, TypeOK, Rec
<1>2. r \in Rec /\ Behind(wpos, r.offset) \in 0..Window
  BY CheckinPlace
<1>3. Enlist(r) /\ wpos' = wpos
  BY DEF Checkin
<1>4. Behind(wpos, r.offset) \in Int /\ Behind(wpos, r.offset) <= Window
  BY <1>2, Sizes
<1>5. /\ \A k \in 1..Len(valid) : Behind(wpos, valid[k].offset) \in Int
      /\ \A k \in 1..Len(valid) :
           Behind(wpos, r.offset) <= Behind(wpos, valid[k].offset)
  BY CheckinPlace
<1> HIDE DEF r
<1>6. valid # <<>> =>
        Behind(wpos, r.offset) <= Behind(wpos, valid[Len(valid)].offset)
  <2>1. valid # <<>> => Len(valid) \in 1..Len(valid)
    BY <1>1
  <2>. QED
    BY <1>5, <2>1
<1>7. CASE nfree > 0
  <2>1. valid' = Append(valid, r)
    BY <1>3, <1>7 DEF Enlist
  <2>2. InOrder(Append(valid, r), wpos)
    BY <1>1, <1>2, <1>4, <1>5, <1>6, AppendInOrder DEF Ordered
  <2>. QED
    BY <1>3, <2>1, <2>2 DEF Ordered
<1>8. CASE ~(nfree > 0) /\ valid # <<>>
  <2> DEFINE u == Tail(valid)
             n == Len(valid)
  <2>1. valid' = Append(u, r)
    BY <1>3, <1>8 DEF Enlist
  <2>2. /\ u \in Seq(Rec) /\ Len(u) = n - 1 /\ n \in Nat \ {0}
        /\ \A k \in 1..Len(u) : u[k] = valid[k + 1]
    BY <1>1, <1>8, HeadTailProperties
  <2> HIDE DEF u
  <2>3. \A k \in 1..Len(u) : k + 1 \in 1..n
    BY <2>2
  <2>4. InOrder(u, wpos)
    <3>1. \A i \in 1..Len(u) : Behind(wpos, u[i].offset) <= Window
      BY <2>2, <2>3 DEF Ordered, InOrder
    <3>2. ASSUME NEW i \in 1..Len(u), NEW j \in 1..Len(u), i <= j
          PROVE  Behind(wpos, u[j].offset) <= Behind(wpos, u[i].offset)
      <4>1. i + 1 <= j + 1
        BY <2>2, <3>2
      <4>. QED
        BY <2>2, <2>3, <4>1 DEF Ordered, InOrder
    <3>. QED
      BY <3>1, <3>2 DEF InOrder
  <2>5. \A k \in 1..Len(u) : Behind(wpos, u[k].offset) \in Int
    BY <1>5, <2>2, <2>3
  <2>6. u # <<>> => Behind(wpos, r.offset) <= Behind(wpos, u[Len(u)].offset)
    <3>1. SUFFICES ASSUME u # <<>>
                   PROVE  Behind(wpos, r.offset)
                            <= Behind(wpos, u[Len(u)].offset)
      OBVIOUS
    <3>2. Len(u) \in 1..Len(u) /\ Len(u) + 1 = n
      BY <2>2, <3>1
    <3>3. u[Len(u)] = valid[n]
      BY <2>2, <3>2
    <3>. QED
      BY <1>6, <1>8, <3>3
  <2>7. InOrder(Append(u, r), wpos)
    BY <1>2, <1>4, <2>2, <2>4, <2>5, <2>6, AppendInOrder
  <2>. QED
    BY <1>3, <2>1, <2>7 DEF Ordered
<1>9. CASE ~(nfree > 0) /\ valid = <<>>
  BY <1>3, <1>9 DEF Enlist, Ordered
<1>. QED
  BY <1>7, <1>8, <1>9

\* What the look-ups know of the list and of the position.
LEMMA LookKnows ==
  ASSUME Sound, Ordered, NEW o \in Asked, status = "RUNNING",
         NEW w, w = Walked(o)
  PROVE  /\ type \in {"video", "audio"} /\ valid \in Seq(Rec)
         /\ SearchIn(valid, pts_search)
         /\ wpos \in Int /\ o \in Int /\ Behind(wpos, o) \in 0..Window
         /\ w.v \in Seq(Rec) /\ w.c \in 0..Len(w.v) /\ InOrder(w.v, wpos)
<1>1. /\ type \in {"video", "audio"} /\ valid \in Seq(Rec)
      /\ SearchIn(valid, pts_search) /\ wpos \in Int
  <2>1. BufSize * Pages \in Nat
    BY Sizes
  <2>. QED
    BY <2>1, PtsServAssumption DEF Sound, TypeOK, Rec, Searches
<1>2. o \in Int /\ Behind(wpos, o) \in 0..Window
  BY <1>1, AskedBehind, Sizes
<1>3. w.v \in Seq(Rec) /\ InOrder(w.v, wpos)
  BY <1>1, <1>2, WalkedInOrder DEF Ordered
<1>4. w.c \in 0..Len(w.v)
  BY <1>1, <1>2, WalkedShape
<1>. QED
  BY <1>1, <1>2, <1>3, <1>4

\* Look-ups only take records out.
LEMMA LookupKeepsOrder ==
  ASSUME Sound, Ordered, NEW o \in Asked,
         \/ LookupFound(o) \/ LookupBetween(o)
         \/ LookupUnset(o) \/ LookupMiss(o)
  PROVE  Ordered'
<1> DEFINE w == Walked(o)
<1>1. wpos' = wpos /\ status = "RUNNING"
  BY DEF LookupFound, LookupBetween, LookupUnset, LookupMiss, Looks
<1>2. valid' = w.v \/ (w.c # 0 /\ valid' = Without(w.v, w.c, w.c))
  BY DEF LookupFound, LookupBetween, LookupUnset, LookupMiss, Leave, HandOut,
         Near, HasNext
<1> HIDE DEF w
<1>3. w.v \in Seq(Rec) /\ w.c \in 0..Len(w.v) /\ InOrder(w.v, wpos)
  BY <1>1, LookKnows DEF w
<1>4. CASE valid' = w.v
  BY <1>1, <1>3, <1>4 DEF Ordered
<1>5. CASE w.c # 0 /\ valid' = Without(w.v, w.c, w.c)
  <2>1. w.c \in 1..Len(w.v) /\ w.c \in w.c..Len(w.v)
    BY <1>3, <1>5
  <2>2. InOrder(Without(w.v, w.c, w.c), wpos)
    BY <1>3, <2>1, WithoutInOrder
  <2>. QED
    BY <1>1, <1>5, <2>2 DEF Ordered
<1>. QED
  BY <1>2, <1>4, <1>5

\* When the stream gets longer, every record is one place further behind it.
LEMMA WriteMoves ==
  ASSUME Sound, Ordered, Write
  PROVE  /\ valid' = valid
         /\ \A i \in 1..Len(valid) :
              /\ Behind(wpos, valid[i].offset) \in Int
              /\ Behind(wpos, valid[i].offset) < Window
              /\ Behind(wpos', valid[i].offset)
                   = Behind(wpos, valid[i].offset) + 1
<1> DEFINE n == Len(valid)
           x(i) == valid[i].offset
           w == (wpos + 1) % (BufSize * Pages)
           b(i) == Behind(wpos, x(i))
<1>1. wpos \in Int /\ valid \in Seq(Rec) /\ n \in Nat
  <2>1. BufSize * Pages \in Nat
    BY Sizes
  <2>. QED
    BY <2>1, PtsServAssumption DEF Sound, TypeOK, Rec
<1>2. wpos' = w /\ valid' = valid
  BY DEF Write, lists
<1>3. \A i \in 1..n : x(i) \in Int
  BY <1>1, Offsets
<1>4. /\ \A i \in 1..n : b(i) <= Window
      /\ \A i, j \in 1..n : i <= j => b(j) <= b(i)
  BY DEF Ordered, InOrder
<1> HIDE DEF x, n
<1>5. \A i \in 1..n : b(i) \in Int
  BY <1>1, <1>3, BehindInt
<1>6. n # 0 => b(1) < Window
  <2>1. SUFFICES ASSUME n # 0 PROVE b(1) < Window
    OBVIOUS
  <2> DEFINE y == x(1)
             z == wpos % M
  <2>2. y \in Int /\ Behind(wpos, y) <= Window
    BY <1>1, <1>3, <1>4, <2>1
  <2>3. z \in Int /\ z % M = (wpos - 0) % M
    <3>1. M \in Nat \ {0} /\ wpos - 0 = wpos
      BY <1>1, Sizes
    <3>2. z \in 0..M - 1 /\ z % M = z
      BY <1>1, RemainderAgain
    <3>. QED
      BY <3>1, <3>2
  <2>4. Diff(z, y) < Window
    BY <1>1, <2>1 DEF Write, x, n
  <2> HIDE DEF y, z
  <2>5. Behind(wpos, z) = 0
    <3>1. 0 \in 0..Window
      BY Sizes
    <3>. QED
      BY <1>1, <2>3, <3>1, BehindOf
  <2>6. Behind(wpos, z) <= Window
    BY <2>5, Sizes
  <2>7. Diff(z, y) = Behind(wpos, y) - Behind(wpos, z)
    BY <1>1, <2>2, <2>3, <2>6, DiffBehind
  <2>8. Behind(wpos, y) \in Int
    BY <1>1, <2>2, BehindInt
  <2>9. Behind(wpos, y) < Window
    BY <2>4, <2>5, <2>7, <2>8
  <2>. QED
    BY <2>9 DEF y
<1> HIDE DEF b
<1>7. \A i \in 1..n : b(i) < Window
  <2>1. ASSUME NEW i \in 1..n
        PROVE  b(i) < Window
    <3>1. 1 \in 1..n /\ 1 <= i /\ n # 0
      BY <1>1
    <3>. QED
      BY <1>4, <1>5, <1>6, <3>1, Sizes
  <2>. QED
    BY <2>1
<1>8. \A i \in 1..n : Behind(w, x(i)) = b(i) + 1
  BY <1>1, <1>3, <1>7, BehindAfterWrite DEF b
<1>. QED
  BY <1>2, <1>5, <1>7, <1>8 DEF b, n, x

\* The stream may get ahead of the records, but not too far.
LEMMA WriteKeepsOrder ==
  ASSUME Sound, Ordered, Write
  PROVE  Ordered'
<1> DEFINE n == Len(valid)
           b(i) == Behind(wpos, valid[i].offset)
<1>1. valid' = valid /\ Window \in Nat
  BY WriteMoves, Sizes
<1>2. \A i \in 1..n : /\ b(i) \in Int /\ b(i) < Window
                      /\ Behind(wpos', valid[i].offset) = b(i) + 1
  BY WriteMoves
<1>3. \A i, j \in 1..n : i <= j => b(j) <= b(i)
  BY DEF Ordered, InOrder
<1> HIDE DEF b
<1>4. \A i \in 1..n : b(i) + 1 <= Window
  BY <1>1, <1>2
<1>5. \A i, j \in 1..n : i <= j => b(j) + 1 <= b(i) + 1
  BY <1>2, <1>3
<1>. QED
  BY <1>1, <1>2, <1>4, <1>5 DEF Ordered, InOrder, n

\* An empty list is in order.
LEMMA EmptyInOrder ==
  ASSUME NEW p
  PROVE  InOrder(<<>>, p)
<1>1. Len(<<>>) = 0
  OBVIOUS
<1>. QED
  BY <1>1 DEF InOrder

-----------------------------------------------------------------------------
(* What the look-up finds *)

\* Near the write position, later is nearer to it.
LEMMA LaterBehind ==
  ASSUME NEW p \in Int, NEW x \in Int, NEW y \in Int,
         Behind(p, x) <= Window, Behind(p, y) <= Window
  PROVE  /\ Later(x, y) <=> Behind(p, x) < Behind(p, y)
         /\ EqLater(x, y) <=> Behind(p, x) <= Behind(p, y)
<1>1. /\ Behind(p, x) \in Int /\ Behind(p, y) \in Int
      /\ Diff(x, y) = Behind(p, y) - Behind(p, x)
  BY DiffBehind, BehindInt
<1>. QED
  BY <1>1 DEF Later, EqLater

\* Wherever the walk starts, it settles on a record that is not later than o,
\* and none of those is nearer to o.
LEMMA CandidateBest ==
  ASSUME NEW p \in Int, NEW v \in Seq(Rec), InOrder(v, p),
         NEW o \in Int, Behind(p, o) <= Window,
         NEW s \in 1..Len(v), NEW c, c = Candidate(v, s, o)
  PROVE  /\ c \in 0..Len(v)
         /\ c # 0 => Behind(p, o) <= Behind(p, v[c].offset)
         /\ \A i \in 1..Len(v) :
              Behind(p, o) <= Behind(p, v[i].offset) =>
                c # 0 /\ Behind(p, v[c].offset) <= Behind(p, v[i].offset)
<1> DEFINE n == Len(v)
           b(i) == Behind(p, v[i].offset)
           e == Behind(p, o)
           after(i) == Later(v[i].offset, o)
           before(i) == Later(o, v[i].offset)
           notAfter(i) == EqLater(o, v[i].offset)
           F == {j \in s..n : \A k \in s + 1..j : ~after(k)}
           B == {0} \cup {j \in 1..s - 1 : notAfter(j)}
<1>1. n \in Nat /\ s \in 1..n /\ e \in Int
  BY BehindInt
<1>2. \A i \in 1..n : /\ b(i) \in Int
                      /\ after(i) <=> b(i) < e
                      /\ before(i) <=> e < b(i)
                      /\ notAfter(i) <=> e <= b(i)
  <2>1. ASSUME NEW i \in 1..n
        PROVE  /\ b(i) \in Int
               /\ after(i) <=> b(i) < e
               /\ before(i) <=> e < b(i)
               /\ notAfter(i) <=> e <= b(i)
    <3> DEFINE x == v[i].offset
    <3>1. x \in Int /\ Behind(p, x) <= Window
      BY Offsets DEF InOrder
    <3> HIDE DEF x
    <3>2. /\ Behind(p, x) \in Int
          /\ Later(x, o) <=> Behind(p, x) < Behind(p, o)
          /\ Later(o, x) <=> Behind(p, o) < Behind(p, x)
          /\ EqLater(o, x) <=> Behind(p, o) <= Behind(p, x)
      BY <3>1, LaterBehind, BehindInt
    <3>. QED
      BY <3>2 DEF x
  <2>. QED
    BY <2>1
<1>3. \A i, j \in 1..n : i <= j => b(j) <= b(i)
  BY DEF InOrder
<1>4. c = IF before(s) THEN Max(F) ELSE IF after(s) THEN Max(B) ELSE s
  BY DEF Candidate
<1> HIDE DEF n, b, e, after, before, notAfter
<1>5. CASE before(s)
  <2>1. s \in F /\ F \in SUBSET (0..n)
    BY <1>1
  <2>2. c \in F /\ \A y \in F : c >= y
    <3> HIDE DEF F
    <3>. QED
      BY <1>1, <1>4, <1>5, <2>1, MaxExists
  <2>3. c \in s..n /\ \A k \in s + 1..c : ~after(k)
    BY <2>2
  <2>4. c \in 1..n /\ c # 0
    BY <1>1, <2>3
  <2>5. e <= b(c)
    <3>1. c = s \/ c \in s + 1..c
      BY <1>1, <2>3
    <3>. QED
      BY <1>1, <1>2, <1>5, <2>3, <2>4, <3>1
  <2>6. ASSUME NEW i \in 1..n, e <= b(i), ~(b(c) <= b(i))
        PROVE  FALSE
    <3>1. i > c /\ c + 1 \in 1..n /\ c + 1 <= i /\ c + 1 \in s..n
      BY <1>1, <1>3, <2>3, <2>4, <2>6
    <3>2. c + 1 \notin F
      BY <1>1, <2>2, <2>4
    <3>3. PICK k \in s + 1..c + 1 : after(k)
      BY <3>1, <3>2
    <3>4. k = c + 1
      BY <1>1, <2>3, <2>4, <3>3
    <3>5. b(c + 1) < e /\ b(i) <= b(c + 1)
      BY <1>2, <1>3, <3>1, <3>3, <3>4
    <3>. QED
      BY <1>1, <1>2, <2>6, <3>1, <3>5
  <2>. QED
    BY <2>4, <2>5, <2>6 DEF n, b, e
<1>6. CASE ~before(s) /\ after(s)
  <2>1. 0 \in B /\ B \in SUBSET (0..n)
    BY <1>1
  <2>2. c \in B /\ \A y \in B : c >= y
    <3> HIDE DEF B
    <3>. QED
      BY <1>1, <1>4, <1>6, <2>1, MaxExists
  <2>3. c \in 0..n
    BY <2>1, <2>2
  <2>4. c # 0 => c \in 1..n /\ notAfter(c)
    BY <2>2, <2>3
  <2>5. ASSUME NEW i \in 1..n, e <= b(i)
        PROVE  c # 0 /\ b(c) <= b(i)
    <3>1. i < s
      <4>1. SUFFICES ASSUME s <= i PROVE FALSE
        BY <1>1
      <4>2. b(i) <= b(s) /\ b(s) < e
        BY <1>1, <1>2, <1>3, <1>6, <4>1
      <4>. QED
        BY <1>1, <1>2, <2>5, <4>2
    <3>2. i \in B
      BY <1>1, <1>2, <2>5, <3>1
    <3>3. c >= i /\ c \in 1..n
      BY <1>1, <2>2, <2>3, <3>2
    <3>. QED
      BY <1>1, <1>3, <3>3
  <2>6. c # 0 => e <= b(c)
    BY <1>2, <2>4
  <2>. QED
    BY <2>3, <2>5, <2>6 DEF n, b, e
<1>7. CASE ~before(s) /\ ~after(s)
  <2>1. c = s /\ c \in 1..n /\ c # 0
    BY <1>1, <1>4, <1>7
  <2>2. b(c) = e
    BY <1>1, <1>2, <1>7, <2>1
  <2>. QED
    BY <1>1, <2>1, <2>2 DEF n, b, e
<1>. QED
  BY <1>5, <1>6, <1>7

\* So what the walk settles on is the nearest of all records, the ones that
\* video dropped included, that are near enough.
LEMMA WalkIsBest ==
  ASSUME Sound, Ordered, status = "RUNNING", NEW o \in Asked,
         NEW w, w = Walked(o),
         NEW near, near = {i \in 1..Len(valid) :
                             Diff(o, valid[i].offset) \in 0..Margin - 1}
  PROVE  /\ Near(w, o) <=> near # {}
         /\ Near(w, o) => /\ EqLater(o, w.v[w.c].offset)
                          /\ \A i \in near :
                               EqLater(w.v[w.c].offset, valid[i].offset)
<1> DEFINE e == Behind(wpos, o)
           b(i) == Behind(wpos, valid[i].offset)
<1>1. /\ type \in {"video", "audio"} /\ valid \in Seq(Rec)
      /\ SearchIn(valid, pts_search) /\ wpos \in Int /\ o \in Int
      /\ e \in Int /\ e <= Window
  BY LookKnows, Sizes
<1>2. PICK d \in 0..Len(valid), v \in Seq(Rec), c \in Nat :
        Settles(w, d, v, c, o)
  BY <1>1, WalkSettles
<1>3. /\ Len(v) = Len(valid) - d /\ InOrder(v, wpos)
      /\ \A k \in 1..Len(v) : v[k] = valid[k + d]
  <2>1. v = SubSeq(valid, d + 1, Len(valid)) /\ InOrder(valid, wpos)
    BY <1>2 DEF Settles, Ordered
  <2> HIDE DEF e, b
  <2>2. Len(v) = Len(valid) - d
    BY <1>1, <2>1, SuffixInOrder
  <2>3. InOrder(v, wpos)
    BY <1>1, <2>1, SuffixInOrder
  <2>4. \A k \in 1..Len(v) : v[k] = valid[k + d]
    BY <1>1, <2>1, SuffixInOrder
  <2>. QED
    BY <2>2, <2>3, <2>4
<1>4. /\ c \in 0..Len(v)
      /\ c # 0 => e <= Behind(wpos, v[c].offset)
      /\ \A i \in 1..Len(v) :
           e <= Behind(wpos, v[i].offset) =>
             c # 0 /\ Behind(wpos, v[c].offset) <= Behind(wpos, v[i].offset)
  <2>1. CASE v = <<>>
    <3>1. c = 0 /\ Len(v) = 0
      BY <1>2, <2>1 DEF Settles
    <3>. QED
      BY <3>1
  <2>2. CASE v # <<>>
    <3>1. PICK s \in 1..Len(v) : c = Candidate(v, s, o)
      BY <1>2, <2>2 DEF Settles
    <3>2. InOrder(v, wpos) /\ Behind(wpos, o) <= Window
      BY <1>1, <1>3
    <3> HIDE DEF b
    <3>3. c \in 0..Len(v) /\ (c # 0 => e <= Behind(wpos, v[c].offset))
      BY <1>1, <3>1, <3>2, CandidateBest
    <3>4. \A i \in 1..Len(v) :
            e <= Behind(wpos, v[i].offset) =>
              c # 0 /\ Behind(wpos, v[c].offset) <= Behind(wpos, v[i].offset)
      BY <1>1, <3>1, <3>2, CandidateBest
    <3>. QED
      BY <3>3, <3>4
  <2>. QED
    BY <2>1, <2>2
<1>5. \A i \in 1..Len(valid) : /\ b(i) \in Int /\ b(i) <= Window
                               /\ Diff(o, valid[i].offset) = b(i) - e
  <2>1. ASSUME NEW i \in 1..Len(valid)
        PROVE  /\ b(i) \in Int /\ b(i) <= Window
               /\ Diff(o, valid[i].offset) = b(i) - e
    <3> DEFINE x == valid[i].offset
    <3>1. x \in Int /\ Behind(wpos, x) <= Window
      BY <1>1, Offsets DEF Ordered, InOrder
    <3> HIDE DEF x
    <3>2. Behind(wpos, x) \in Int
      BY <1>1, <3>1, BehindInt
    <3>3. Diff(o, x) = Behind(wpos, x) - Behind(wpos, o)
      BY <1>1, <3>1, DiffBehind
    <3>. QED
      BY <3>1, <3>2, <3>3 DEF x
  <2>. QED
    BY <2>1
<1>6. Margin \in Nat /\ Margin - 1 <= KeepRange /\ KeepRange \in Nat
  BY PtsServAssumption DEF Margin
<1>7. Len(valid) \in Nat /\ d \in Nat /\ Len(v) \in Nat
  BY <1>1
<1> DEFINE m == c + d
<1>8. c # 0 => /\ m \in 1..Len(valid) /\ w.c # 0 /\ w.v[w.c] = valid[m]
               /\ b(m) = Behind(wpos, v[c].offset)
  <2>1. SUFFICES ASSUME c # 0
                 PROVE  /\ m \in 1..Len(valid) /\ w.c # 0
                        /\ w.v[w.c] = valid[m]
                        /\ b(m) = Behind(wpos, v[c].offset)
    OBVIOUS
  <2>2. c \in 1..Len(v) /\ m \in 1..Len(valid)
    BY <1>3, <1>4, <1>7, <2>1
  <2>. QED
    BY <1>2, <1>3, <2>1, <2>2 DEF Settles
<1>9. c = 0 => w.c = 0
  BY <1>2 DEF Settles
<1>10. c # 0 => e <= b(m)
  BY <1>4, <1>8
<1>11. ASSUME NEW i \in near
       PROVE  c # 0 /\ b(m) <= b(i) /\ i \in 1..Len(valid) /\ b(i) - e < Margin
  <2>1. /\ i \in 1..Len(valid) /\ b(i) - e \in 0..Margin - 1
    BY <1>5
  <2>2. i > d
    <3>1. SUFFICES ASSUME i <= d PROVE FALSE
      BY <1>7, <2>1
    <3>2. i \in 1..d
      BY <1>7, <2>1, <3>1
    <3>3. Diff(o, valid[i].offset) > KeepRange
      BY <1>2, <3>2 DEF Settles
    <3>4. b(i) - e > KeepRange
      BY <1>5, <2>1, <3>3
    <3>. QED
      BY <1>1, <1>5, <1>6, <2>1, <3>4
  <2> DEFINE k == i - d
  <2>3. k \in 1..Len(v) /\ k + d = i
    BY <1>3, <1>7, <2>1, <2>2
  <2> HIDE DEF k
  <2>4. Behind(wpos, v[k].offset) = b(i)
    BY <1>3, <2>3
  <2>5. e <= b(i)
    BY <1>1, <1>5, <1>6, <2>1
  <2>6. c # 0 /\ Behind(wpos, v[c].offset) <= b(i)
    BY <1>4, <2>3, <2>4, <2>5
  <2>. QED
    BY <1>1, <1>5, <1>6, <1>8, <2>1, <2>6
<1> HIDE DEF m
<1>12. c # 0 => (Near(w, o) <=> b(m) - e < Margin)
  BY <1>5, <1>8 DEF Near
<1>13. Near(w, o) => c # 0
  BY <1>9 DEF Near
<1>14. Near(w, o) => m \in near
  <2>1. SUFFICES ASSUME Near(w, o) PROVE m \in near
    OBVIOUS
  <2>2. /\ c # 0 /\ m \in 1..Len(valid) /\ b(m) - e < Margin /\ e <= b(m)
        /\ b(m) \in Int
    BY <1>5, <1>8, <1>10, <1>12, <1>13, <2>1
  <2>3. b(m) - e \in 0..Margin - 1
    BY <1>1, <1>6, <2>2
  <2>. QED
    BY <1>5, <2>2, <2>3
<1>15. near # {} => Near(w, o)
  <2>1. SUFFICES ASSUME NEW i \in near PROVE Near(w, o)
    OBVIOUS
  <2>2. c # 0 /\ b(m) <= b(i) /\ i \in 1..Len(valid) /\ b(i) - e < Margin
    BY <1>11
  <2>3. b(m) \in Int /\ b(i) \in Int
    BY <1>5, <1>8, <2>2
  <2>4. b(m) - e < Margin
    BY <1>1, <1>6, <2>2, <2>3
  <2>. QED
    BY <1>12, <2>2, <2>4
<1>16. ASSUME Near(w, o)
       PROVE  EqLater(o, w.v[w.c].offset)
  <2>1. /\ c # 0 /\ m \in 1..Len(valid) /\ e <= b(m) /\ b(m) \in Int
        /\ w.v[w.c] = valid[m] /\ Diff(o, valid[m].offset) = b(m) - e
    BY <1>5, <1>8, <1>10, <1>13, <1>16
  <2>2. b(m) - e >= 0
    BY <1>1, <2>1
  <2>. QED
    BY <2>1, <2>2 DEF EqLater
<1>17. ASSUME Near(w, o), NEW i \in near
       PROVE  EqLater(w.v[w.c].offset, valid[i].offset)
  <2> DEFINE x == valid[m].offset
             y == valid[i].offset
  <2>1. /\ m \in 1..Len(valid) /\ i \in 1..Len(valid) /\ b(m) <= b(i)
        /\ w.v[w.c] = valid[m]
    BY <1>8, <1>11
  <2>2. /\ x \in Int /\ y \in Int /\ b(m) = Behind(wpos, x)
        /\ b(i) = Behind(wpos, y)
        /\ Behind(wpos, x) <= Window /\ Behind(wpos, y) <= Window
    BY <1>1, <1>5, <2>1, Offsets
  <2> HIDE DEF x, y
  <2>3. EqLater(x, y)
    BY <1>1, <2>1, <2>2, LaterBehind
  <2>. QED
    BY <2>1, <2>3 DEF x, y
<1>. QED
  BY <1>14, <1>15, <1>16, <1>17

\* Close time stamps: u32 arithmetic on the way between them gives a share of
\* their distance.
LEMMA Share ==
  ASSUME NEW v1 \in 0..M - 1, NEW v2 \in 0..M - 1,
         NEW g \in 0..AudioRes - 1, (v2 - v1) % M = g, 2 * g < M,
         NEW e \in 1..Window, NEW f \in 0..e
  PROVE  Diff(((((v2 - v1) * f) % M) \div e + v1) % M, v1) \in 0..g
<1> DEFINE z == v2 - v1
           n == g * f
           q == n \div e
           x == q + v1
           y == x % M
<1>1. /\ M \in Nat \ {0} /\ Window \in Nat /\ AudioRes \in Nat
      /\ (AudioRes - 1) * Window < M
  BY PtsServAssumption
<1>2. /\ v1 \in Int /\ z \in Int /\ e \in Nat \ {0} /\ f \in Nat /\ f \in Int
      /\ e <= Window /\ f <= e /\ f <= Window
  BY <1>1
<1>3. g \in Nat /\ g \in Int /\ g <= AudioRes - 1 /\ AudioRes \in Nat \ {0}
  BY <1>1
<1>4. z % M = g
  OBVIOUS
<1> HIDE DEF z
<1>5. n \in Nat /\ n < M
  <2> DEFINE a == AudioRes - 1
             m == g * Window
             l == a * Window
  <2>1. a \in Nat /\ g <= a /\ l < M
    BY <1>1, <1>3
  <2>2. n \in Nat /\ n <= m
    BY <1>1, <1>2, <1>3
  <2>3. m \in Nat /\ l \in Nat /\ m <= l
    <3> HIDE DEF a
    <3>. QED
      BY <1>1, <1>3, <2>1
  <2> HIDE DEF a, m, l
  <2>. QED
    BY <1>1, <2>1, <2>2, <2>3
<1>6. (z * f) % M = n
  <2>1. g % M = g
    <3>1. g \in 0..M - 1
      BY <1>1, <1>3, <1>4
    <3>. QED
      BY <1>1, <3>1, SmallRemainder
  <2>2. z % M = g % M
    BY <1>4, <2>1
  <2>3. (z * f) % M = (g * f) % M
    <3>1. M \in Nat \ {0} /\ z \in Int /\ f \in Int /\ g \in Int
      BY <1>1, <1>2, <1>3
    <3>. QED
      BY <2>2, <3>1, RemainderOfProduct, ZenonT(40)
  <2> HIDE DEF n
  <2>4. n % M = n
    <3>1. n \in 0..M - 1
      BY <1>1, <1>5
    <3>. QED
      BY <1>1, <3>1, SmallRemainder
  <2>. QED
    BY <2>3, <2>4 DEF n
<1>7. q \in 0..g
  BY <1>2, <1>3, DivisionBounds
<1> HIDE DEF n, q
<1>8. q \in Int /\ x \in Int /\ 2 * q < M /\ -M <= 2 * q
  BY <1>1, <1>2, <1>3, <1>4, <1>7
<1>9. y \in Int /\ y % M = x % M
  <2> HIDE DEF x
  <2>1. y \in 0..M - 1 /\ y % M = x % M
    BY <1>8, RemainderAgain
  <2>. QED
    BY <1>1, <2>1
<1>10. (y - v1) % M = q % M
  <2>1. x - v1 = q
    BY <1>2, <1>8
  <2> HIDE DEF x, y
  <2>2. (y - v1) % M = (x - v1) % M
    <3>1. M \in Nat \ {0} /\ v1 \in Int /\ x \in Int /\ y \in Int
      BY <1>1, <1>2, <1>8, <1>9
    <3>2. y % M = x % M
      BY <1>9
    <3>. QED
      BY <3>1, <3>2, RemainderOfDifference, Zenon
  <2>. QED
    BY <2>1, <2>2
<1> HIDE DEF x, y
<1>11. Diff(y, v1) = q
  BY <1>2, <1>8, <1>9, <1>10, DiffIs
<1>. QED
  BY <1>6, <1>7, <1>11 DEF x, y, q, z

\* An audio walk ends between the two records it interpolates.
LEMMA BetweenIsBetween ==
  ASSUME Sound, Ordered, status = "RUNNING", NEW o \in Asked,
         NEW w, w = Walked(o), ~Near(w, o), HasNext(w)
  PROVE  /\ w.c = 1 /\ w.v[1] \in Rec /\ w.v[2] \in Rec
         /\ w.v[2].offset # w.v[1].offset
         /\ (w.v[2].offset - w.v[1].offset) % M \in 1..Window
         /\ (o - w.v[1].offset) % M \in 0..(w.v[2].offset - w.v[1].offset) % M
<1> DEFINE x == w.v[1].offset
           y == w.v[2].offset
           bx == Behind(wpos, x)
           by == Behind(wpos, y)
           bo == Behind(wpos, o)
<1>1. /\ type \in {"video", "audio"} /\ valid \in Seq(Rec)
      /\ SearchIn(valid, pts_search) /\ wpos \in Int /\ o \in Int
      /\ bo \in 0..Window /\ w.v \in Seq(Rec) /\ w.c \in 0..Len(w.v)
      /\ InOrder(w.v, wpos)
  BY LookKnows
<1>2. type = "audio" /\ w.c # 0 /\ w.c < Len(w.v)
  BY DEF HasNext
<1>3. w.c = 1 /\ (~Later(o, x) \/ Later(y, o))
  BY <1>1, <1>2, WalkedShape
<1>4. /\ 1 \in 1..Len(w.v) /\ 2 \in 1..Len(w.v)
      /\ w.v[1] \in Rec /\ w.v[2] \in Rec
  BY <1>1, <1>2, <1>3
<1>5. /\ x \in Int /\ y \in Int
      /\ Behind(wpos, x) <= Window /\ Behind(wpos, y) <= Window
  BY <1>1, <1>4, Offsets DEF InOrder
<1> HIDE DEF x, y
<1>6. /\ bx \in 0..Window /\ by \in 0..Window
      /\ Diff(o, x) = bx - bo /\ Diff(y, x) = bx - by
      /\ (Later(y, o) <=> by < bo) /\ (Later(o, x) <=> bo < bx)
  <2>1. Behind(wpos, o) <= Window
    BY <1>1, Sizes
  <2>. QED
    BY <1>1, <1>5, <2>1, DiffBehind, LaterBehind
<1> HIDE DEF bx, by, bo
<1>7. Window \in Nat /\ 2 * Window < M /\ M \in Nat \ {0}
  BY Sizes
<1>8. bo < bx
  <2>1. ~(Diff(o, x) < Margin)
    BY <1>2, <1>3 DEF Near, x
  <2>2. Margin \in Nat \ {0}
    BY PtsServAssumption DEF Margin
  <2>. QED
    BY <1>1, <1>6, <1>7, <2>1, <2>2
<1>9. by < bo
  BY <1>3, <1>6, <1>8
<1>10. (y - x) % M = bx - by
  <2>1. (y - x) % M \in 0..M - 1
    BY <1>5, <1>7, ModRange
  <2>. QED
    BY <1>1, <1>6, <1>7, <1>8, <1>9, <2>1 DEF Diff
<1>11. (o - x) % M = bx - bo
  <2>1. (o - x) % M \in 0..M - 1
    <3>1. o - x \in Int
      BY <1>1, <1>5
    <3>. QED
      BY <1>7, <3>1, ModRange
  <2>. QED
    BY <1>1, <1>6, <1>7, <1>8, <2>1 DEF Diff
<1>12. y # x
  <2>1. 0 % M = 0
    BY <1>7
  <2>2. y = x => (y - x) % M = 0
    BY <1>5, <1>7, <2>1
  <2>. QED
    BY <1>1, <1>6, <1>7, <1>8, <1>9, <1>10, <2>2
<1>13. /\ (y - x) % M \in 1..Window
       /\ (o - x) % M \in 0..(y - x) % M
  BY <1>1, <1>6, <1>7, <1>8, <1>9, <1>10, <1>11
<1>. QED
  BY <1>3, <1>4, <1>12, <1>13 DEF x, y

\* What it interpolates lies between their time stamps.
LEMMA BetweenInGap ==
  ASSUME Sound, Ordered, status = "RUNNING", NEW o \in Asked,
         NEW w, w = Walked(o), ~Near(w, o), HasNext(w),
         Gap(w) \in 0..AudioRes - 1
  PROVE  /\ w.c = 1 /\ w.v[1] \in Rec /\ w.v[2] \in Rec
         /\ w.v[w.c + 1].offset # w.v[w.c].offset
         /\ Diff(Between(w, o), w.v[w.c].val) \in 0..Gap(w)
<1> DEFINE v1 == w.v[1].val
           v2 == w.v[2].val
           e == (w.v[2].offset - w.v[1].offset) % M
           f == (o - w.v[1].offset) % M
           g == Gap(w)
<1>1. /\ w.c = 1 /\ w.v[1] \in Rec /\ w.v[2] \in Rec
      /\ w.v[2].offset # w.v[1].offset
      /\ e \in 1..Window /\ f \in 0..e
  BY BetweenIsBetween
<1>2. w.c + 1 = 2 /\ v1 \in 0..M - 1 /\ v2 \in 0..M - 1
  BY <1>1 DEF Rec
<1>3. g = Diff(v2, v1)
  BY <1>1, <1>2 DEF Gap
<1>4. (v2 - v1) % M = g /\ 2 * g < M
  <2>1. M \in Nat \ {0} /\ v2 - v1 \in Int
    BY <1>2, Sizes
  <2>2. (v2 - v1) % M \in 0..M - 1
    BY <2>1, ModRange
  <2>3. g >= 0
    OBVIOUS
  <2>. QED
    BY <1>3, <2>1, <2>2, <2>3 DEF Diff
<1>5. Between(w, o) = ((((v2 - v1) * f) % M) \div e + v1) % M
  BY <1>1, <1>2 DEF Between
<1> HIDE DEF v1, v2, e, f, g
<1>6. g \in 0..AudioRes - 1
  BY DEF g
<1>7. Diff(((((v2 - v1) * f) % M) \div e + v1) % M, v1) \in 0..g
  BY <1>1, <1>2, <1>4, <1>6, Share
<1>8. Diff(Between(w, o), w.v[w.c].val) \in 0..g
  BY <1>1, <1>5, <1>7 DEF v1
<1>. QED
  BY <1>1, <1>2, <1>8 DEF g

-----------------------------------------------------------------------------
(* Theorems *)

\* The records are in the order of their positions, and none is further behind
\* the stream than the bound, across every wrap of positions and whatever
\* overlaps.
THEOREM OrderInvariance == Spec => [](Sound /\ Ordered)
<1>1. Init => Ordered
  BY EmptyInOrder DEF Init, Ordered
<1>2. Sound /\ Ordered /\ [Next]_vars => Ordered'
  <2>1. SUFFICES ASSUME Sound, Ordered, [Next]_vars PROVE Ordered'
    OBVIOUS
  <2>2. CASE StartAlloc \/ StopDone
    <3>1. valid' = <<>>
      BY <2>2 DEF StartAlloc, StopDone
    <3>. QED
      BY <3>1, EmptyInOrder DEF Ordered
  <2>3. CASE \/ Start \/ StartFail \/ StartCache \/ Stop \/ StopFree
             \/ CheckinTest \/ CheckinRun \/ UNCHANGED vars
    <3>1. valid' = valid /\ wpos' = wpos
      BY <2>3 DEF Start, StartFail, StartCache, Stop, StopFree, CheckinTest,
                  CheckinRun, vars, lists
    <3>. QED
      BY <2>1, <3>1 DEF Ordered
  <2>4. CASE Write
    BY <2>1, <2>4, WriteKeepsOrder
  <2>5. ASSUME NEW at \in Places, NEW val \in Vals, Checkin(at, val)
        PROVE  Ordered'
    BY <2>1, <2>5, CheckinKeepsOrder
  <2>6. ASSUME NEW o \in Asked,
               \/ LookupFound(o) \/ LookupBetween(o)
               \/ LookupUnset(o) \/ LookupMiss(o)
        PROVE  Ordered'
    BY <2>1, <2>6, LookupKeepsOrder
  <2>. QED
    BY <2>1, <2>2, <2>3, <2>4, <2>5, <2>6 DEF Next
<1>. QED
  BY <1>1, <1>2, Soundness, PTL DEF Spec

\* Each record is at the position of the one before it or later, by the u32
\* comparison of the code.
THEOREM SortedAlways == Spec => []Sorted
<1>1. Sound /\ Ordered => Sorted
  <2>1. SUFFICES ASSUME Sound, Ordered, NEW i \in 1..Len(valid) - 1
                 PROVE  Diff(valid[i + 1].offset, valid[i].offset) >= 0
    BY DEF Sorted, EqLater
  <2> DEFINE x == valid[i].offset
             y == valid[i + 1].offset
  <2>2. wpos \in Int /\ valid \in Seq(Rec)
    <3>1. BufSize * Pages \in Nat
      BY Sizes
    <3>. QED
      BY <2>1, <3>1, PtsServAssumption DEF Sound, TypeOK, Rec
  <2>3. i \in 1..Len(valid) /\ i + 1 \in 1..Len(valid) /\ i <= i + 1
    BY <2>2
  <2>4. /\ x \in Int /\ y \in Int
        /\ Behind(wpos, x) <= Window /\ Behind(wpos, y) <= Window
        /\ Behind(wpos, y) <= Behind(wpos, x)
    BY <2>1, <2>2, <2>3, Offsets DEF Ordered, InOrder
  <2> HIDE DEF x, y
  <2>5. /\ Behind(wpos, x) \in Int /\ Behind(wpos, y) \in Int
        /\ Diff(y, x) = Behind(wpos, x) - Behind(wpos, y)
    BY <2>2, <2>4, DiffBehind, BehindInt
  <2>6. Diff(y, x) >= 0
    BY <2>4, <2>5
  <2>. QED
    BY <2>6 DEF x, y
<1>. QED
  BY <1>1, OrderInvariance, PTL

\* The look-up finds the latest record that is not later than the position
\* and near enough, if there is one, wherever the last look-up left off: what
\* video drops on the way, and what audio passes, is never that record.
THEOREM LookupBestAlways == Spec => []LookupBest
<1>1. Sound /\ Ordered => LookupBest
  BY WalkIsBest DEF LookupBest
<1>. QED
  BY <1>1, OrderInvariance, PTL

\* Between two close audio time stamps the answer lies between them, for
\* integers of any width: nothing wraps on the way, and the answer itself only
\* where the time stamps do.
THEOREM InterpolatedAlways == Spec => []Interpolated
<1>1. Sound /\ Ordered => Interpolated
  BY BetweenInGap DEF Interpolated
<1>. QED
  BY <1>1, OrderInvariance, PTL
=============================================================================
