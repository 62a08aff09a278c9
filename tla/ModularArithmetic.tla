-------------------------- MODULE ModularArithmetic --------------------------
(***************************************************************************)
(* Facts about % and \div that the proofs about positions need: byte       *)
(* positions that wrap at the size of a ring, at the number of wraps the   *)
(* hardware counts, and at the width of an integer.                        *)
(***************************************************************************)
EXTENDS Integers, TLAPS

\* Remainder and quotient are what they are called.
LEMMA Division ==
  ASSUME NEW x \in Int, NEW m \in Nat \ {0}
  PROVE  /\ x \div m \in Int /\ x % m \in 0..m - 1
         /\ x = m * (x \div m) + (x % m)
OBVIOUS

\* Only one pair of numbers is quotient and remainder.
LEMMA Unique ==
  ASSUME NEW m \in Nat \ {0}, NEW q \in Int, NEW r \in 0..m - 1
  PROVE  (m * q + r) % m = r /\ (m * q + r) \div m = q
<1> DEFINE x == m * q + r
           p == x \div m
           s == x % m
<1>1. m * q \in Int /\ r \in Int
  OBVIOUS
<1>2. x \in Int
  BY <1>1
<1>3. p \in Int /\ s \in 0..m - 1 /\ x = m * p + s
  BY <1>2, Division
<1> HIDE DEF p, s
<1> DEFINE d == p - q
<1>4. d \in Int /\ m * d = r - s
  BY <1>3
<1> HIDE DEF d
<1>5. r - s < m /\ -m < r - s /\ r - s \in Int
  BY <1>3
<1>6. d = 0
  <2>1. CASE d >= 1
    <3>1. m * d >= m
      BY <1>4, <2>1
    <3>. QED
      BY <1>4, <1>5, <3>1
  <2>2. CASE d <= -1
    <3>1. m * d <= -m
      BY <1>4, <2>2
    <3>. QED
      BY <1>4, <1>5, <3>1
  <2>. QED
    BY <1>4, <2>1, <2>2
<1>7. p = q
  BY <1>3, <1>6 DEF d
<1>8. s = r
  <2>1. m * d = 0
    BY <1>6
  <2>. QED
    BY <1>3, <1>4, <2>1
<1>. QED
  BY <1>7, <1>8 DEF p, s

\* Numbers that differ by a multiple of m have the same remainder ...
LEMMA SameRemainder ==
  ASSUME NEW x \in Int, NEW m \in Nat \ {0}, NEW k \in Int
  PROVE  (x + m * k) % m = x % m
<1> DEFINE q == x \div m
           r == x % m
           l == q + k
<1>1. q \in Int /\ r \in 0..m - 1 /\ x = m * q + r
  BY Division
<1> HIDE DEF q, r
<1>2. m * l = m * q + m * k
  BY <1>1
<1>3. x + m * k = m * l + r /\ l \in Int
  BY <1>1, <1>2
<1> HIDE DEF l
<1>4. (m * l + r) % m = r
  BY <1>1, <1>3, Unique
<1>. QED
  BY <1>3, <1>4 DEF r

\* ... and only they.
LEMMA SameMeansMultiple ==
  ASSUME NEW x \in Int, NEW y \in Int, NEW m \in Nat \ {0}, x % m = y % m
  PROVE  \E k \in Int : y = x + m * k
<1> DEFINE p == x \div m
           q == y \div m
           r == x % m
<1>1. p \in Int /\ q \in Int /\ r \in 0..m - 1
      /\ x = m * p + r /\ y = m * q + r
  BY Division
<1> HIDE DEF p, q, r
<1>2. m * (q - p) = m * q - m * p
  BY <1>1
<1>3. y = x + m * (q - p) /\ q - p \in Int
  BY <1>1, <1>2
<1>. QED
  BY <1>3

\* A number in range is its own remainder.
LEMMA SmallRemainder ==
  ASSUME NEW m \in Nat \ {0}, NEW r \in 0..m - 1
  PROVE  r % m = r
<1>1. m * 0 + r = r
  OBVIOUS
<1>. QED
  BY <1>1, Unique

\* Adding goes through remainders ...
LEMMA RemainderOfSum ==
  ASSUME NEW x \in Int, NEW y \in Int, NEW z \in Int, NEW m \in Nat \ {0},
         x % m = y % m
  PROVE  (x + z) % m = (y + z) % m
<1>1. PICK k \in Int : y = x + m * k
  BY SameMeansMultiple
<1> DEFINE a == x + z
           b == y + z
           l == k
<1>2. a \in Int /\ l \in Int /\ b = a + m * l
  BY <1>1
<1> HIDE DEF a, b, l
<1>3. (a + m * l) % m = a % m
  BY <1>2, SameRemainder, Zenon
<1>. QED
  BY <1>2, <1>3 DEF a, b

\* ... and so does subtracting, from either side ...
LEMMA RemainderOfDifference ==
  ASSUME NEW x \in Int, NEW y \in Int, NEW z \in Int, NEW m \in Nat \ {0},
         x % m = y % m
  PROVE  (x - z) % m = (y - z) % m
<1>1. PICK k \in Int : y = x + m * k
  BY SameMeansMultiple
<1> DEFINE a == x - z
           b == y - z
           l == k
<1>2. a \in Int /\ l \in Int /\ b = a + m * l
  BY <1>1
<1> HIDE DEF a, b, l
<1>3. (a + m * l) % m = a % m
  BY <1>2, SameRemainder, Zenon
<1>. QED
  BY <1>2, <1>3 DEF a, b

\* ... or the other ...
LEMMA RemainderOfRest ==
  ASSUME NEW x \in Int, NEW y \in Int, NEW z \in Int, NEW m \in Nat \ {0},
         x % m = y % m
  PROVE  (z - x) % m = (z - y) % m
<1>1. PICK k \in Int : y = x + m * k
  BY SameMeansMultiple
<1> DEFINE a == z - x
           b == z - y
           l == -k
<1>2. a \in Int /\ l \in Int /\ b = a + m * l
  BY <1>1
<1> HIDE DEF a, b, l
<1>3. (a + m * l) % m = a % m
  BY <1>2, SameRemainder, Zenon
<1>. QED
  BY <1>2, <1>3 DEF a, b

\* ... and multiplying.
LEMMA RemainderOfProduct ==
  ASSUME NEW x \in Int, NEW y \in Int, NEW z \in Int, NEW m \in Nat \ {0},
         x % m = y % m
  PROVE  (x * z) % m = (y * z) % m
<1>1. PICK k \in Int : y = x + m * k
  BY SameMeansMultiple
<1> DEFINE n == m * k
<1>2. n \in Int /\ y = x + n
  BY <1>1
<1> HIDE DEF n
<1>3. y * z = x * z + n * z
  BY <1>2
<1>4. n * z = m * (k * z)
  BY <1>1 DEF n
<1> DEFINE a == x * z
           b == y * z
           l == k * z
<1>5. a \in Int /\ b \in Int /\ l \in Int /\ b = a + m * l
  BY <1>1, <1>3, <1>4
<1> HIDE DEF a, b, l
<1>6. (a + m * l) % m = a % m
  BY <1>5, SameRemainder, Zenon
<1>. QED
  BY <1>5, <1>6 DEF a, b

\* A remainder of a remainder, when one modulus is a multiple of the other.
LEMMA NestedRemainder ==
  ASSUME NEW x \in Int, NEW m \in Nat \ {0}, NEW n \in Nat \ {0}, n % m = 0
  PROVE  (x % n) % m = x % m
<1> DEFINE q == x \div n
           r == x % n
           k == n \div m
<1>1. q \in Int /\ r \in Int /\ x = n * q + r
  BY Division
<1>2. k \in Int /\ n = m * k
  <2>1. n \in Int /\ n = m * k + (n % m) /\ k \in Int
    BY Division
  <2>. QED
    BY <2>1
<1> HIDE DEF q, r, k
<1> DEFINE l == k * q
<1>3. n * q = m * l /\ l \in Int
  BY <1>1, <1>2
<1> HIDE DEF l
<1>4. x = r + m * l
  BY <1>1, <1>3
<1>5. (r + m * l) % m = r % m
  BY <1>1, <1>3, SameRemainder, Zenon
<1>. QED
  BY <1>4, <1>5 DEF r

\* A division does not grow faster than what it divides.
LEMMA DivisionBounds ==
  ASSUME NEW g \in Nat, NEW f \in Nat, NEW e \in Nat \ {0}, f <= e
  PROVE  (g * f) \div e \in 0..g
<1> DEFINE x == g * f
           q == x \div e
           r == x % e
<1>1. x \in Nat /\ x <= g * e
  OBVIOUS
<1> HIDE DEF x
<1>2. q \in Int /\ r \in 0..e - 1 /\ x = e * q + r
  BY <1>1, Division
<1> HIDE DEF q, r
<1>3. q >= 0
  <2>1. CASE q <= -1
    <3>1. e * q <= -e
      BY <1>2, <2>1
    <3>. QED
      BY <1>1, <1>2, <3>1
  <2>. QED
    BY <1>2, <2>1
<1>4. q <= g
  <2>1. CASE q >= g + 1
    <3>1. e * q >= e * (g + 1)
      BY <1>2, <2>1
    <3>2. e * (g + 1) = g * e + e
      OBVIOUS
    <3>. QED
      BY <1>1, <1>2, <3>1, <3>2
  <2>. QED
    BY <1>2, <2>1
<1>. QED
  BY <1>2, <1>3, <1>4 DEF q, x
=============================================================================
