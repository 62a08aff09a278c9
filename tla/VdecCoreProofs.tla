--------------------------- MODULE VdecCoreProofs ---------------------------
(***************************************************************************)
(* Proofs about VdecCore, for any number of files, with and without a      *)
(* second decoder.                                                         *)
(***************************************************************************)
EXTENDS VdecCore, TLAPS

-----------------------------------------------------------------------------
(* Decoders and their files *)

\* The decoders of a file are those it is the file of; both are each other's.
LEMMA FileFacts ==
  /\ \A v \in Vdecs : FileOf(v) \in Mains /\ v \in Both(FileOf(v))
  /\ \A f \in Mains : FileOf(f) = f /\ f \in Both(f)
  /\ \A f \in Mains : Both(f) = {v \in Vdecs : FileOf(v) = f}
  /\ \A v \in Vdecs : Both(v) = Both(FileOf(v)) /\ Mates(v) \subseteq Both(v)
BY VdecCoreAssumption DEF Vdecs, FileOf, Both, Mates

\* A file with a mate has one slave.
LEMMA SlaveFacts ==
  ASSUME NEW f \in Mains, Mates(f) # {}
  PROVE  /\ SlaveOf(f) \in Slaves /\ SlaveOf(f) # f /\ SlaveOf(f) \in Vdecs
         /\ Both(f) = {f, SlaveOf(f)}
<1>1. PICK s \in Slaves : Master[s] = f
  BY VdecCoreAssumption DEF Mates, Vdecs
<1>2. SlaveOf(f) \in Slaves /\ Master[SlaveOf(f)] = f
  BY <1>1 DEF SlaveOf
<1>3. Mates(f) = {SlaveOf(f)}
  BY <1>2, VdecCoreAssumption DEF Mates
<1>. QED
  BY <1>2, <1>3, VdecCoreAssumption DEF Both, Vdecs

-----------------------------------------------------------------------------
(* Lists *)

\* No entry twice
Once(s) == \A i, j \in 1..Len(s) : s[i] = s[j] => i = j

\* The entries of a list are its values at 1 to its length.
LEMMA RangeFacts ==
  ASSUME NEW S, NEW s \in Seq(S)
  PROVE  /\ Len(s) \in Nat
         /\ \A x : x \in Range(s) <=> \E i \in 1..Len(s) : s[i] = x
         /\ Range(s) \subseteq S
BY DEF Range

\* Where the entries of two lists put together are
LEMMA ConcatShape ==
  ASSUME NEW S, NEW s \in Seq(S), NEW t \in Seq(S)
  PROVE  /\ s \o t \in Seq(S) /\ Len(s \o t) = Len(s) + Len(t)
         /\ Len(s) \in Nat /\ Len(t) \in Nat
         /\ \A i \in 1..Len(s) : (s \o t)[i] = s[i]
         /\ \A i \in Len(s) + 1 .. Len(s) + Len(t) : (s \o t)[i] = t[i - Len(s)]
OBVIOUS

\* Where the entries of a part of a list are
LEMMA PartShape ==
  ASSUME NEW S, NEW s \in Seq(S), NEW i \in Nat, NEW j \in Int,
         1 <= i, i <= j + 1, j <= Len(s)
  PROVE  /\ SubSeq(s, i, j) \in Seq(S) /\ Len(SubSeq(s, i, j)) = j - i + 1
         /\ \A k \in 1..j - i + 1 : SubSeq(s, i, j)[k] = s[i + k - 1]
OBVIOUS

\* Where the entries of a list without its first are
LEMMA TailShape ==
  ASSUME NEW S, NEW s \in Seq(S), s # <<>>
  PROVE  /\ Head(s) = s[1] /\ Len(s) \in Nat \ {0}
         /\ Tail(s) \in Seq(S) /\ Len(Tail(s)) = Len(s) - 1
         /\ \A i \in 1..Len(s) - 1 : Tail(s)[i] = s[i + 1]
OBVIOUS

\* An entry taken off a list without duplicates is gone, the others stay.
LEMMA RemoveFacts ==
  ASSUME NEW S, NEW s \in Seq(S), Once(s), NEW i \in 1..Len(s)
  PROVE  /\ RemoveAt(s, i) \in Seq(S) /\ Once(RemoveAt(s, i))
         /\ Range(RemoveAt(s, i)) = Range(s) \ {s[i]}
<1>. DEFINE t == RemoveAt(s, i)
            n == Len(s)
<1>1. n \in Nat
  OBVIOUS
<1>2. /\ t \in Seq(S) /\ Len(t) = n - 1
      /\ \A j \in 1..n - 1 : t[j] = IF j < i THEN s[j] ELSE s[j + 1]
  <2>. DEFINE p == SubSeq(s, 1, i - 1)
              q == SubSeq(s, i + 1, n)
  <2>1. /\ p \in Seq(S) /\ Len(p) = i - 1
        /\ \A j \in 1..i - 1 : p[j] = s[j]
    <3>1. /\ i - 1 \in Int /\ i - 1 <= n
          /\ (i - 1) - 1 + 1 = i - 1
          /\ \A j \in 1..i - 1 : 1 + j - 1 = j
      BY <1>1
    <3>. QED
      BY <1>1, <3>1, PartShape
  <2>2. /\ q \in Seq(S) /\ Len(q) = n - i
        /\ \A j \in 1..n - i : q[j] = s[i + j]
    <3>. DEFINE k == i + 1
    <3>1. k \in Nat /\ n \in Int /\ 1 <= k /\ k <= n + 1 /\ n <= Len(s)
      BY <1>1
    <3>2. n - k + 1 = n - i /\ \A j \in 1..n - i : k + j - 1 = i + j
      BY <1>1
    <3>. HIDE DEF k, n
    <3>3. /\ SubSeq(s, k, n) \in Seq(S) /\ Len(SubSeq(s, k, n)) = n - k + 1
          /\ \A j \in 1..n - k + 1 : SubSeq(s, k, n)[j] = s[k + j - 1]
      BY <3>1, PartShape
    <3>. QED
      BY <3>2, <3>3 DEF k, q
  <2>3. t = p \o q
    BY DEF RemoveAt
  <2>. HIDE DEF p, q, t
  <2>4. /\ t \in Seq(S) /\ Len(t) = Len(p) + Len(q)
        /\ \A j \in 1..Len(p) : t[j] = p[j]
        /\ \A j \in Len(p) + 1 .. Len(p) + Len(q) : t[j] = q[j - Len(p)]
    <3>1. p \in Seq(S) /\ q \in Seq(S)
      BY <2>1, <2>2
    <3>. QED
      BY <2>3, <3>1, ConcatShape
  <2>5. ASSUME NEW j \in 1..n - 1, ~(j < i)
        PROVE  t[j] = s[j + 1]
    <3>1. /\ j \in (i - 1) + 1 .. (i - 1) + (n - i)
          /\ j - (i - 1) \in 1..n - i /\ i + (j - (i - 1)) = j + 1
      BY <1>1, <2>5
    <3>2. t[j] = q[j - (i - 1)]
      BY <2>1, <2>2, <2>4, <3>1
    <3>. QED
      BY <2>2, <3>1, <3>2
  <2>6. ASSUME NEW j \in 1..n - 1, j < i
        PROVE  t[j] = s[j]
    <3>1. j \in 1..i - 1
      BY <1>1, <2>6
    <3>. QED
      BY <2>1, <2>4, <3>1
  <2>7. Len(p) + Len(q) = n - 1
    BY <1>1, <2>1, <2>2
  <2>8. \A j \in 1..n - 1 : t[j] = IF j < i THEN s[j] ELSE s[j + 1]
    BY <2>5, <2>6
  <2>. QED
    BY <2>4, <2>7, <2>8
<1>. HIDE DEF t
<1>3. Once(t)
  <2> SUFFICES ASSUME NEW j \in 1..n - 1, NEW k \in 1..n - 1, t[j] = t[k] PROVE j = k
    BY <1>2 DEF Once
  <2>. DEFINE At(x) == IF x < i THEN x ELSE x + 1
  <2>1. t[j] = s[At(j)] /\ t[k] = s[At(k)]
    BY <1>2
  <2>2. At(j) \in 1..n /\ At(k) \in 1..n
    BY <1>1
  <2>3. At(j) = At(k)
    <3>. HIDE DEF At
    <3>. QED
      BY <2>1, <2>2 DEF Once
  <2>. QED
    BY <1>1, <2>3
<1>4. ASSUME NEW x, x \in Range(t)
      PROVE  x \in Range(s) /\ x # s[i]
  <2>1. PICK j \in 1..n - 1 : t[j] = x
    BY <1>2, <1>4, RangeFacts
  <2>2. PICK k \in 1..n : s[k] = x /\ k # i
    BY <1>1, <1>2, <2>1
  <2>. QED
    BY <2>2, RangeFacts DEF Once
<1>5. ASSUME NEW x, x \in Range(s), x # s[i]
      PROVE  x \in Range(t)
  <2>1. PICK k \in 1..n : s[k] = x /\ k # i
    BY <1>5, RangeFacts
  <2>2. PICK j \in 1..n - 1 : t[j] = x
    <3>1. CASE k < i
      BY <1>1, <1>2, <2>1, <3>1
    <3>2. CASE k > i
      <4>1. k - 1 \in 1..n - 1 /\ ~(k - 1 < i) /\ (k - 1) + 1 = k
        BY <1>1, <2>1, <3>2
      <4>. QED
        BY <1>2, <2>1, <4>1
    <3>. QED
      BY <1>1, <2>1, <3>1, <3>2
  <2>. QED
    BY <1>2, <2>2, RangeFacts
<1>. QED
  BY <1>2, <1>3, <1>4, <1>5 DEF t

\* Lists of different entries put together
LEMMA ConcatFacts ==
  ASSUME NEW S, NEW s \in Seq(S), NEW t \in Seq(S), Once(s), Once(t),
         Range(s) \cap Range(t) = {}
  PROVE  /\ s \o t \in Seq(S) /\ Once(s \o t)
         /\ Range(s \o t) = Range(s) \cup Range(t)
<1>. DEFINE u == s \o t
            m == Len(s)
            n == Len(t)
<1>1. /\ m \in Nat /\ n \in Nat
      /\ u \in Seq(S) /\ Len(u) = m + n
      /\ \A i \in 1..m : u[i] = s[i]
      /\ \A i \in m + 1..m + n : u[i] = t[i - m]
  BY ConcatShape
<1>2. \A i \in 1..m, j \in 1..n : s[i] # t[j]
  BY RangeFacts
<1>. HIDE DEF u
<1>3. \A j \in 1..n : j + m \in m + 1..m + n /\ u[j + m] = t[j]
  <2>1. \A j \in 1..n : j + m \in m + 1..m + n /\ (j + m) - m = j
    BY <1>1
  <2>. QED
    BY <1>1, <2>1
<1>4. Once(u)
  <2>1. \A i \in 1..m + n : i \in 1..m \/ (i - m \in 1..n /\ u[i] = t[i - m])
    <3>1. \A i \in 1..m + n :
            i \in 1..m \/ (i - m \in 1..n /\ i \in m + 1..m + n)
      BY <1>1
    <3>. QED
      BY <1>1, <3>1
  <2>2. SUFFICES ASSUME NEW i \in 1..m + n, NEW j \in 1..m + n, u[i] = u[j]
                 PROVE  i = j
    BY <1>1 DEF Once
  <2>3. CASE i \in 1..m /\ j \in 1..m
    BY <1>1, <2>2, <2>3 DEF Once
  <2>4. CASE i \notin 1..m /\ j \notin 1..m
    <3>1. i - m = j - m
      BY <2>1, <2>2, <2>4 DEF Once
    <3>. QED
      BY <1>1, <3>1
  <2>5. CASE i \in 1..m /\ j \notin 1..m
    BY <1>1, <1>2, <2>1, <2>2, <2>5
  <2>6. CASE i \notin 1..m /\ j \in 1..m
    BY <1>1, <1>2, <2>1, <2>2, <2>6
  <2>. QED
    BY <2>3, <2>4, <2>5, <2>6
<1>5. \A x : x \in Range(u) <=> x \in Range(s) \/ x \in Range(t)
  <2>1. ASSUME NEW x, x \in Range(u)
        PROVE  x \in Range(s) \/ x \in Range(t)
    <3>1. PICK i \in 1..m + n : u[i] = x
      BY <1>1, <2>1, RangeFacts
    <3>2. i \in 1..m \/ (i \in m + 1..m + n /\ i - m \in 1..n)
      BY <1>1
    <3>. QED
      BY <1>1, <3>1, <3>2, RangeFacts
  <2>2. ASSUME NEW x, x \in Range(s)
        PROVE  x \in Range(u)
    <3>1. PICK i \in 1..m : s[i] = x
      BY <2>2, RangeFacts
    <3>2. i \in 1..m + n /\ u[i] = x
      BY <1>1, <3>1
    <3>. QED
      BY <1>1, <3>2, RangeFacts
  <2>3. ASSUME NEW x, x \in Range(t)
        PROVE  x \in Range(u)
    <3>1. PICK j \in 1..n : t[j] = x
      BY <2>3, RangeFacts
    <3>2. j + m \in 1..m + n /\ u[j + m] = x
      BY <1>1, <1>3, <3>1
    <3>. QED
      BY <1>1, <3>2, RangeFacts
  <2>. QED
    BY <2>1, <2>2, <2>3
<1>. QED
  BY <1>1, <1>4, <1>5 DEF u

\* A list of one, and of two
LEMMA ShortFacts ==
  ASSUME NEW S, NEW x \in S, NEW y \in S, x # y
  PROVE  /\ <<x>> \in Seq(S) /\ Once(<<x>>) /\ Range(<<x>>) = {x}
         /\ <<x, y>> \in Seq(S) /\ Once(<<x, y>>) /\ Range(<<x, y>>) = {x, y}
BY DEF Once, Range

\* A list of one
LEMMA SingleFacts ==
  ASSUME NEW S, NEW x \in S
  PROVE  <<x>> \in Seq(S) /\ Once(<<x>>) /\ Range(<<x>>) = {x}
BY DEF Once, Range

\* A list without its first entry
LEMMA TailFacts ==
  ASSUME NEW S, NEW s \in Seq(S), Once(s), s # <<>>
  PROVE  /\ Head(s) \in Range(s) /\ Tail(s) \in Seq(S) /\ Once(Tail(s))
         /\ Range(Tail(s)) = Range(s) \ {Head(s)}
<1>. DEFINE t == Tail(s)
            n == Len(s)
<1>1. /\ n \in Nat /\ n > 0 /\ Head(s) = s[1]
      /\ t \in Seq(S) /\ Len(t) = n - 1
      /\ \A j \in 1..n - 1 : t[j] = s[j + 1]
  BY TailShape
<1>. HIDE DEF t
<1>2. Once(t)
  BY <1>1 DEF Once
<1>3. ASSUME NEW x, x \in Range(t)
      PROVE  x \in Range(s) /\ x # s[1]
  <2>1. PICK j \in 1..n - 1 : t[j] = x
    BY <1>1, <1>3, RangeFacts
  <2>2. PICK k \in 1..n : s[k] = x /\ k # 1
    <3>1. j + 1 \in 1..n /\ j + 1 # 1
      BY <1>1
    <3>. QED
      BY <1>1, <2>1, <3>1
  <2>. QED
    BY <1>1, <2>2, RangeFacts DEF Once
<1>4. ASSUME NEW x, x \in Range(s), x # s[1]
      PROVE  x \in Range(t)
  <2>1. PICK k \in 1..n : s[k] = x /\ k # 1
    BY <1>4, RangeFacts
  <2>2. k - 1 \in 1..n - 1 /\ (k - 1) + 1 = k
    BY <1>1, <2>1
  <2>3. t[k - 1] = x
    BY <1>1, <2>1, <2>2
  <2>. QED
    BY <1>1, <2>2, <2>3, RangeFacts
<1>5. s[1] \in Range(s)
  BY <1>1, RangeFacts
<1>. QED
  BY <1>1, <1>2, <1>3, <1>4, <1>5 DEF t
-----------------------------------------------------------------------------
(* The inductive invariant *)

\* vdec_disconnect() has asked for the file's decoders.
Asked(f) == upc[f] \in {"ask", "wait"}

\* On which list: none twice, and those managed that were linked
OnOneList ==
  /\ Once(connected) /\ Once(disconnecting)
  /\ Range(connected) \cap Range(disconnecting) = {}
  /\ \A v \in Vdecs : v \in Range(connected) \cup Range(disconnecting)
                        <=> Managed(v) /\ upc[FileOf(v)] # "link"

\* Who leaves was asked for, is not active, and has not been waited for.
Leaving ==
  /\ \A v \in Range(disconnecting) :
       status[v] = "CONNECTED" /\ next_status[v] = "DISCONNECTED"
  /\ \A v \in Vdecs : Managed(v) => ~inactive_done[v]
  /\ \A v \in Vdecs : Managed(v) /\ next_status[v] = "DISCONNECTED" => Asked(FileOf(v))

\* The decoders of a file come and go as one.
Together ==
  \A f \in Mains :
    /\ ~Asked(f) => \A v \in Both(f) : Managed(v) <=> Managed(f)
    /\ upc[f] = "link" => Managed(f)
    /\ upc[f] \in {"disconnected", "closed", "opened"} => ~Managed(f)
    /\ uvdec[f] \in Both(f)

\* Who has the hardware, and whom the core thread is about to give it to
Owner ==
  /\ \A v \in Vdecs : running[v] <=> status[v] = "ACTIVE"
  /\ \A v \in Vdecs : running[v] => active_vdec = v
  /\ active_vdec # None => Listed(active_vdec)
  /\ kvdec # None => /\ kpc = "start" /\ Listed(kvdec)
                     /\ \A v \in Vdecs : running[v] => v = kvdec
  /\ kpc = "scan" => ki >= 1

\* Unless someone wakes the thread up, it does so itself.
Wakes ==
  /\ kpc \in {"start", "remove", "down"} /\ active_vdec # None =>
       running[active_vdec] \/ tail[active_vdec] \/ sem > 0
  /\ kpc = "down" => active_vdec # None \/ sem > 0

IInv == TypeOK /\ OnOneList /\ Leaving /\ Together /\ Owner /\ Wakes

-----------------------------------------------------------------------------
(* Type correctness *)

Flags == [Vdecs -> BOOLEAN]
Statuses == {"FREED", "UNINITIALIZED", "DISCONNECTED", "CONNECTED", "ACTIVE"}
Steps == {"closed", "opened", "connect", "link", "hwinit", "playing",
          "disconnect", "ask", "wait", "disconnected"}
Calls == {"none", "init", "inited", "reset", "release"}

\* TypeOK, part by part
LEMMA TypeParts ==
  TypeOK <=>
    /\ status \in [Vdecs -> Statuses] /\ next_status \in [Vdecs -> {"DISCONNECTED", "CONNECTED"}]
    /\ sched \in Flags /\ inactive_done \in Flags
    /\ running \in Flags /\ tail \in Flags /\ ready \in Flags
    /\ connected \in Seq(Vdecs) /\ disconnecting \in Seq(Vdecs)
    /\ active_vdec \in Vdecs \cup {None} /\ kvdec \in Vdecs \cup {None}
    /\ sem \in Nat /\ ki \in Nat
    /\ kpc \in {"down", "clean", "scan", "start", "remove"}
    /\ upc \in [Mains -> Steps] /\ uop \in [Mains -> Calls] /\ uvdec \in [Mains -> Vdecs]
BY DEF TypeOK, Flags, Statuses, Steps, Calls

\* The parts of the state the core thread, the drivers and the users change
CoreType ==
  /\ status \in [Vdecs -> Statuses] /\ next_status \in [Vdecs -> {"DISCONNECTED", "CONNECTED"}]
  /\ sched \in Flags /\ inactive_done \in Flags
  /\ running \in Flags /\ tail \in Flags /\ ready \in Flags
  /\ active_vdec \in Vdecs \cup {None} /\ kvdec \in Vdecs \cup {None}
  /\ sem \in Nat /\ ki \in Nat
  /\ kpc \in {"down", "clean", "scan", "start", "remove"}
ListType == connected \in Seq(Vdecs) /\ disconnecting \in Seq(Vdecs)
UserType == upc \in [Mains -> Steps] /\ uop \in [Mains -> Calls] /\ uvdec \in [Mains -> Vdecs]

\* Setting a field of several decoders keeps its type.
LEMMA SetAllType ==
  ASSUME NEW T, NEW fun \in [Vdecs -> T], NEW set, NEW value \in T
  PROVE  /\ SetAll(fun, set, value) \in [Vdecs -> T]
         /\ \A v \in Vdecs : SetAll(fun, set, value)[v] =
                              IF v \in set THEN value ELSE fun[v]
BY DEF SetAll

\* and so do the settings the calls make.
LEMMA SetTypes ==
  ASSUME NEW set, CoreType
  PROVE  /\ \A x \in Statuses : SetAll(status, set, x) \in [Vdecs -> Statuses]
         /\ \A x \in {"DISCONNECTED", "CONNECTED"} :
              SetAll(next_status, set, x) \in [Vdecs -> {"DISCONNECTED", "CONNECTED"}]
         /\ \A x \in BOOLEAN : SetAll(inactive_done, set, x) \in Flags
<1>1. /\ status \in [Vdecs -> Statuses] /\ inactive_done \in Flags
      /\ next_status \in [Vdecs -> {"DISCONNECTED", "CONNECTED"}]
  BY DEF CoreType
<1>2. \A x \in Statuses : SetAll(status, set, x) \in [Vdecs -> Statuses]
  BY <1>1, SetAllType
<1>3. \A x \in {"DISCONNECTED", "CONNECTED"} :
        SetAll(next_status, set, x) \in [Vdecs -> {"DISCONNECTED", "CONNECTED"}]
  BY <1>1, SetAllType
<1>4. \A x \in BOOLEAN : SetAll(inactive_done, set, x) \in Flags
  BY <1>1, SetAllType DEF Flags
<1>. QED
  BY <1>2, <1>3, <1>4

\* Nothing is connected at first.
LEMMA InitType == Init => TypeOK
<1>1. <<>> \in Seq(Vdecs) /\ Mains \subseteq Vdecs
  BY DEF Vdecs
<1>. QED
  BY <1>1 DEF Init, TypeOK

\* The types in three parts, for the proofs.
LEMMA TypeSplit == TypeOK <=> CoreType /\ ListType /\ UserType
BY TypeParts DEF CoreType, ListType, UserType

\* Only four actions change the lists.
LEMMA ListSteps ==
  [Next]_vars =>
    \/ UNCHANGED <<connected, disconnecting>>
    \/ Scan
    \/ \E v \in Vdecs : Removed(v)
    \/ \E f \in Mains : Link(f)
<1> SUFFICES ASSUME [Next]_vars
             PROVE  \/ UNCHANGED <<connected, disconnecting>> \/ Scan
                    \/ \E v \in Vdecs : Removed(v)
                    \/ \E f \in Mains : Link(f)
  OBVIOUS
<1>. USE DEF lists, kvars
<1>1. ASSUME CoreStep
      PROVE  \/ UNCHANGED <<connected, disconnecting>> \/ Scan
             \/ \E v \in Vdecs : Removed(v)
  BY <1>1 DEF CoreStep, Down, Clean, Keep, Choose, Idle, Unlock, Start, NoStart, Again
<1>2. ASSUME NEW v \in Vdecs, DriverStep(v) \/ Refill(v)
      PROVE  UNCHANGED <<connected, disconnecting>>
  BY <1>2 DEF DriverStep, Finish, Callback, Refill
<1>3. ASSUME NEW f \in Mains, CallStep(f) \/ Open(f) \/ PortInit(f) \/ Disconnects(f)
      PROVE  UNCHANGED <<connected, disconnecting>> \/ Link(f)
  BY <1>3 DEF CallStep, HwInit, Connect, ConnectAgain, NotManaged, Ask, AskMate, Waited,
              Reset, Destroy, Open, PortInit, Disconnects
<1>. QED
  BY <1>1, <1>2, <1>3 DEF Next, vars

-----------------------------------------------------------------------------
(* The lists *)

\* Two lists of different decoders
Apart(s, t) ==
  /\ s \in Seq(Vdecs) /\ t \in Seq(Vdecs) /\ Once(s) /\ Once(t)
  /\ Range(s) \cap Range(t) = {}

\* The connected decoders and those that are disconnecting are not the same.
LEMMA NowApart == IInv => Apart(connected, disconnecting)
BY TypeSplit DEF IInv, OnOneList, ListType, Apart

\* What the locked section takes off the list of the connected
ScansOff ==
  /\ status[connected[ki]] = "CONNECTED" /\ next_status[connected[ki]] = "DISCONNECTED"
  /\ Range(connected') = Range(connected) \ {connected[ki]}
  /\ Range(disconnecting') = Range(disconnecting) \cup {connected[ki]}
  /\ active_vdec' = IF active_vdec = connected[ki] THEN None ELSE active_vdec

\* A look at a decoder may move it to the disconnecting list.
LEMMA ScanLists ==
  ASSUME IInv, Scan
  PROVE  /\ connected[ki] \in Range(connected)
         /\ Apart(connected', disconnecting')
         /\ \/ ScansOff
            \/ UNCHANGED <<connected, disconnecting, active_vdec>>
<1>. DEFINE v == connected[ki]
<1>1. Apart(connected, disconnecting)
  BY NowApart
<1>2. ki \in 1..Len(connected)
  BY TypeSplit, RangeFacts DEF IInv, Owner, CoreType, ListType, Scan
<1>3. v \in Range(connected) /\ v \in Vdecs
  BY <1>1, <1>2, RangeFacts DEF Apart
<1>4. CASE UNCHANGED <<connected, disconnecting, active_vdec>>
  BY <1>1, <1>3, <1>4
<1>5. CASE ~UNCHANGED <<connected, disconnecting, active_vdec>>
  <2>1. /\ status[v] = "CONNECTED" /\ next_status[v] = "DISCONNECTED"
        /\ connected' = RemoveAt(connected, ki)
        /\ disconnecting' = <<v>> \o disconnecting
        /\ active_vdec' = IF active_vdec = v THEN None ELSE active_vdec
    BY <1>5 DEF Scan, lists
  <2>. HIDE DEF v
  <2>2. /\ connected' \in Seq(Vdecs) /\ Once(connected')
        /\ Range(connected') = Range(connected) \ {connected[ki]}
    BY <1>1, <1>2, <2>1, RemoveFacts DEF Apart
  <2>. DEFINE one == <<v>>
  <2>3. one \in Seq(Vdecs) /\ Once(one) /\ Range(one) = {v}
    BY <1>3, SingleFacts
  <2>4. /\ disconnecting' \in Seq(Vdecs) /\ Once(disconnecting')
        /\ Range(disconnecting') = {v} \cup Range(disconnecting)
    <3>1. Range(one) \cap Range(disconnecting) = {}
      BY <1>1, <1>3, <2>3 DEF Apart, v
    <3>2. disconnecting' = one \o disconnecting
      BY <2>1
    <3>3. disconnecting \in Seq(Vdecs) /\ Once(disconnecting)
      BY <1>1 DEF Apart
    <3>. HIDE DEF one
    <3>. QED
      BY <2>3, <3>1, <3>2, <3>3, ConcatFacts
  <2>5. Apart(connected', disconnecting')
    BY <1>1, <2>2, <2>4 DEF Apart, v
  <2>. QED
    BY <1>3, <2>1, <2>2, <2>4, <2>5 DEF v, ScansOff
<1>. QED
  BY <1>4, <1>5

\* The thread takes the first of those that leave off their list.
LEMMA RemovedLists ==
  ASSUME IInv, NEW v \in Vdecs, Removed(v)
  PROVE  /\ v \in Range(disconnecting) /\ connected' = connected
         /\ Apart(connected', disconnecting')
         /\ Range(disconnecting') = Range(disconnecting) \ {v}
<1>1. Apart(connected, disconnecting)
  BY NowApart
<1>2. /\ disconnecting # <<>> /\ v = Head(disconnecting)
      /\ disconnecting' = Tail(disconnecting) /\ connected' = connected
  BY DEF Removed
<1>3. /\ v \in Range(disconnecting)
      /\ disconnecting' \in Seq(Vdecs) /\ Once(disconnecting')
      /\ Range(disconnecting') = Range(disconnecting) \ {v}
  BY <1>1, <1>2, TailFacts DEF Apart
<1>. QED
  BY <1>1, <1>2, <1>3 DEF Apart

\* vdec_connect() puts the decoders of a file at the end of the list.
LEMMA LinkLists ==
  ASSUME IInv, NEW f \in Mains, Link(f)
  PROVE  /\ disconnecting' = disconnecting
         /\ Apart(connected', disconnecting')
         /\ Range(connected') = Range(connected) \cup Both(f)
<1>. DEFINE new == IF Mates(f) = {} THEN <<f>> ELSE <<f, SlaveOf(f)>>
<1>1. Apart(connected, disconnecting)
  BY NowApart
<1>2. connected' = connected \o new /\ disconnecting' = disconnecting /\ upc[f] = "link"
  BY DEF Link
<1>3. new \in Seq(Vdecs) /\ Once(new) /\ Range(new) = Both(f)
  <2>1. f \in Vdecs
    BY DEF Vdecs
  <2>2. CASE Mates(f) = {}
    <3>1. Both(f) = {f}
      BY <2>2 DEF Both
    <3>. QED
      BY <2>1, <2>2, <3>1, SingleFacts
  <2>3. CASE Mates(f) # {}
    <3>1. /\ SlaveOf(f) \in Vdecs /\ SlaveOf(f) # f /\ Both(f) = {f, SlaveOf(f)}
      BY <2>3, SlaveFacts
    <3>. QED
      BY <2>1, <2>3, <3>1, ShortFacts
  <2>. QED
    BY <2>2, <2>3
<1>. HIDE DEF new
<1>4. \A v \in Both(f) : v \notin Range(connected) /\ v \notin Range(disconnecting)
  BY <1>2, FileFacts DEF IInv, OnOneList
<1>5. /\ connected' \in Seq(Vdecs) /\ Once(connected')
      /\ Range(connected') = Range(connected) \cup Both(f)
  BY <1>1, <1>2, <1>3, <1>4, ConcatFacts DEF Apart
<1>. QED
  BY <1>1, <1>2, <1>4, <1>5 DEF Apart

\* The lists stay apart.
LEMMA ApartStep == IInv /\ [Next]_vars => Apart(connected, disconnecting)'
<1> SUFFICES ASSUME IInv, [Next]_vars PROVE Apart(connected', disconnecting')
  BY DEF Apart
<1>1. CASE UNCHANGED <<connected, disconnecting>>
  BY <1>1, NowApart
<1>. QED
  BY <1>1, ListSteps, ScanLists, RemovedLists, LinkLists

-----------------------------------------------------------------------------
(* Type correctness, step by step *)

\* The core thread's place and the statuses keep their types.
LEMMA CoreTypeStep == IInv /\ [Next]_vars => CoreType'
<1> SUFFICES ASSUME IInv, [Next]_vars PROVE CoreType'
  OBVIOUS
<1>. USE DEF CoreType, Flags, Statuses
<1>1. CoreType /\ ListType /\ UserType
  BY TypeSplit DEF IInv
<1>2. \A f \in Mains : f \in Vdecs /\ uvdec[f] \in Vdecs
  BY <1>1 DEF UserType, Vdecs
<1>3. CASE Down \/ Clean
  BY <1>1, <1>3 DEF Down, Clean, lists, driver
<1>4. CASE Scan
  <2>1. active_vdec' \in {active_vdec, None}
    BY <1>4 DEF Scan, lists
  <2>2. ki' = ki \/ ki' = ki + 1
    BY <1>4 DEF Scan
  <2>. QED
    BY <1>1, <1>4, <2>1, <2>2 DEF Scan, driver
<1>5. ASSUME NEW v \in Vdecs \cup {None}, NEW w \in Vdecs \cup {None}, Unlock(v, w)
      PROVE  CoreType'
  BY <1>1, <1>5 DEF Unlock, driver
<1>6. ASSUME NEW v \in Vdecs, Keep(v) \/ Choose(v) \/ Idle
      PROVE  CoreType'
  BY <1>1, <1>5, <1>6 DEF Keep, Choose, Idle
<1>7. CASE Idle
  BY <1>1, <1>5, <1>7 DEF Idle
<1>8. ASSUME NEW v \in Vdecs, Start(v)
      PROVE  CoreType'
  BY <1>1, <1>8 DEF Start
<1>9. CASE NoStart \/ Again
  BY <1>1, <1>9 DEF NoStart, Again, lists, driver
<1>10. ASSUME NEW v \in Vdecs, Removed(v)
       PROVE  CoreType'
  BY <1>1, <1>10 DEF Removed, driver
<1>11. ASSUME NEW v \in Vdecs, Refill(v) \/ Finish(v)
       PROVE  CoreType'
  BY <1>1, <1>11 DEF Refill, Finish, kvars, lists
<1>12. ASSUME NEW v \in Vdecs, Callback(v)
       PROVE  CoreType'
  <2>1. sched' \in [Vdecs -> BOOLEAN]
    <3>1. PICK w \in Both(v) : sched' = [u \in Vdecs |->
             IF u = w THEN Mates(v) # {} ELSE u # v /\ sched[u]]
      BY <1>12 DEF Callback
    <3>. QED
      BY <3>1
  <2>2. tail' \in [Vdecs -> BOOLEAN] /\ sem' \in Nat
    BY <1>1, <1>12 DEF Callback
  <2>. QED
    BY <1>1, <1>12, <2>1, <2>2 DEF Callback, kvars, lists
<1>13. ASSUME NEW f \in Mains, Open(f)
       PROVE  CoreType'
  <2>1. sched' \in [Vdecs -> BOOLEAN]
    <3>1. \A v \in Vdecs : (IF v \in Both(f) THEN v = f /\ Mates(f) # {} ELSE sched[v]) \in BOOLEAN
      BY <1>1
    <3>. QED
      BY <1>13, <3>1 DEF Open
  <2>. QED
    BY <1>1, <1>13, <2>1, SetTypes DEF Open, kvars, lists, driver
<1>14. ASSUME NEW f \in Mains, PortInit(f) \/ HwInit(f) \/ ConnectAgain(f) \/ Disconnects(f)
                                 \/ NotManaged(f) \/ Reset(f)
       PROVE  CoreType'
  <2>1. CASE PortInit(f)
    BY <1>1, <2>1, SetTypes DEF PortInit, kvars, lists, driver
  <2>2. CASE ~PortInit(f)
    BY <1>1, <1>14, <2>2
       DEF HwInit, ConnectAgain, Disconnects, NotManaged, Reset, kvars, lists, driver
  <2>. QED
    BY <2>1, <2>2
<1>15. ASSUME NEW f \in Mains, Connect(f)
       PROVE  CoreType'
  BY <1>1, <1>15, SetTypes DEF Connect, kvars, lists, driver
<1>16. ASSUME NEW f \in Mains, Link(f)
       PROVE  CoreType'
  BY <1>1, <1>16 DEF Link, driver
<1>17. ASSUME NEW f \in Mains, Ask(f)
       PROVE  CoreType'
  BY <1>1, <1>2, <1>17 DEF Ask, kvars, lists, driver
<1>18. ASSUME NEW f \in Mains, AskMate(f)
       PROVE  CoreType'
  <2>1. next_status' \in [Vdecs -> {"DISCONNECTED", "CONNECTED"}]
    BY <1>1, <1>18, SetTypes DEF AskMate
  <2>. QED
    BY <1>1, <1>18, <2>1 DEF AskMate, kvars, lists, driver
<1>19. ASSUME NEW f \in Mains, Waited(f)
       PROVE  CoreType'
  BY <1>1, <1>19, SetTypes DEF Waited, kvars, lists, driver
<1>20. ASSUME NEW f \in Mains, Destroy(f)
       PROVE  CoreType'
  BY <1>1, <1>2, <1>20 DEF Destroy, kvars, lists, driver
<1>21. CASE UNCHANGED vars
  BY <1>1, <1>21 DEF vars, kvars, lists, driver
<1>22. CASE CoreStep
  BY <1>3, <1>4, <1>6, <1>7, <1>8, <1>9, <1>10, <1>22 DEF CoreStep
<1>23. ASSUME NEW v \in Vdecs, DriverStep(v) \/ Refill(v)
       PROVE  CoreType'
  BY <1>11, <1>12, <1>23 DEF DriverStep
<1>24. ASSUME NEW f \in Mains, CallStep(f) \/ Open(f) \/ PortInit(f) \/ Disconnects(f)
       PROVE  CoreType'
  BY <1>13, <1>14, <1>15, <1>16, <1>17, <1>18, <1>19, <1>20, <1>24 DEF CallStep
<1>. QED
  BY <1>21, <1>22, <1>23, <1>24 DEF Next

\* So do the places of the users' calls.
LEMMA UserTypeStep == IInv /\ [Next]_vars => UserType'
<1> SUFFICES ASSUME IInv, [Next]_vars PROVE UserType'
  OBVIOUS
<1>. USE DEF UserType, Steps, Calls
<1>1. UserType
  BY TypeSplit DEF IInv
<1>2. \A f \in Mains : f \in Vdecs /\ Releases(f) \in Vdecs
  BY SlaveFacts DEF Releases, Vdecs
<1>3. CASE UNCHANGED user
  BY <1>1, <1>3 DEF user
<1>4. CASE CoreStep
  BY <1>3, <1>4 DEF CoreStep, Down, Clean, Scan, Keep, Choose, Idle, Unlock, Start, NoStart,
                    Removed, Again
<1>5. ASSUME NEW v \in Vdecs, DriverStep(v) \/ Refill(v)
      PROVE  UserType'
  BY <1>3, <1>5 DEF DriverStep, Finish, Callback, Refill
<1>6. ASSUME NEW f \in Mains, Open(f) \/ PortInit(f) \/ Disconnects(f)
      PROVE  UserType'
  <2>1. CASE Open(f)
    BY <1>1, <2>1 DEF Open, Goto
  <2>2. CASE PortInit(f)
    BY <1>1, <1>2, <2>2 DEF PortInit, Goto, Begin
  <2>3. CASE Disconnects(f)
    BY <1>1, <1>2, <2>3 DEF Disconnects, Goto, Begin
  <2>. QED
    BY <1>6, <2>1, <2>2, <2>3
<1>7. ASSUME NEW f \in Mains, HwInit(f) \/ Connect(f) \/ ConnectAgain(f) \/ Link(f)
      PROVE  UserType'
  BY <1>1, <1>2, <1>7 DEF HwInit, Connect, ConnectAgain, Link, Return, Goto, Begin
<1>8. ASSUME NEW f \in Mains, NotManaged(f) \/ Ask(f) \/ AskMate(f) \/ Waited(f) \/ Reset(f)
      PROVE  UserType'
  BY <1>1, <1>8 DEF NotManaged, Ask, AskMate, Waited, Reset, Goto
<1>9. ASSUME NEW f \in Mains, Destroy(f)
      PROVE  UserType'
  BY <1>1, <1>2, <1>9 DEF Destroy, Goto, Begin
<1>10. CASE UNCHANGED vars
  BY <1>3, <1>10 DEF vars
<1>11. ASSUME NEW f \in Mains, CallStep(f)
       PROVE  UserType'
  BY <1>7, <1>8, <1>9, <1>11 DEF CallStep
<1>. QED
  BY <1>4, <1>5, <1>6, <1>10, <1>11 DEF Next

\* All of it.
LEMMA TypeStep == IInv /\ [Next]_vars => TypeOK'
<1> SUFFICES ASSUME IInv, [Next]_vars PROVE TypeOK'
  OBVIOUS
<1>1. CoreType' /\ UserType'
  BY CoreTypeStep, UserTypeStep
<1>2. ListType'
  BY ApartStep DEF Apart, ListType
<1>. QED
  BY <1>1, <1>2, TypeSplit, PTL

-----------------------------------------------------------------------------
(* Steps by what they do to the decoders *)

\* What the core thread and the drivers do not touch
LEMMA UserUntouched ==
  /\ CoreStep => UNCHANGED user
  /\ \A v \in Vdecs : DriverStep(v) \/ Refill(v) => UNCHANGED user
BY DEF CoreStep, Down, Clean, Scan, Keep, Choose, Idle, Unlock, Start, NoStart, Removed,
       Again, DriverStep, Finish, Callback, Refill

\* The thread and the drivers stop managing a decoder only as it leaves.
LEMMA CoreManages ==
  ASSUME IInv, CoreStep \/ \E v \in Vdecs : DriverStep(v) \/ Refill(v)
  PROVE  \/ \E w \in Vdecs : /\ Removed(w) /\ ~Managed(w)'
                             /\ \A v \in Vdecs \ {w} : Managed(v)' <=> Managed(v)
         \/ /\ \A v \in Vdecs : ~Removed(v)
            /\ \A v \in Vdecs : Managed(v)' <=> Managed(v)
<1>. USE DEF Managed
<1>1. status \in [Vdecs -> Statuses]
  BY TypeSplit DEF IInv, CoreType
<1>2. ASSUME NEW w \in Vdecs, Removed(w)
      PROVE  /\ ~Managed(w)'
             /\ \A v \in Vdecs \ {w} : Managed(v)' <=> Managed(v)
  BY <1>1, <1>2 DEF Removed
<1>3. ASSUME NEW w \in Vdecs, Start(w)
      PROVE  \A v \in Vdecs : Managed(v)' <=> Managed(v)
  <2>1. w \in Range(connected)
    BY <1>3 DEF IInv, Owner, Start, Starts, Listed
  <2>2. Managed(w)
    BY <2>1 DEF IInv, OnOneList
  <2>. QED
    BY <1>1, <1>3, <2>2 DEF Start
<1>4. ASSUME NEW w \in Vdecs, Finish(w)
      PROVE  \A v \in Vdecs : Managed(v)' <=> Managed(v)
  <2>1. status[w] = "ACTIVE"
    BY <1>4 DEF IInv, Owner, Finish
  <2>. QED
    BY <1>1, <1>4, <2>1 DEF Finish
<1>5. ASSUME NEW w \in Vdecs,
             Down \/ Clean \/ Scan \/ Idle \/ NoStart \/ Again \/ Keep(w) \/ Choose(w)
               \/ Callback(w) \/ Refill(w)
      PROVE  UNCHANGED status
  BY <1>5 DEF Down, Clean, Scan, Idle, NoStart, Again, Keep, Choose, Unlock, Callback, Refill
<1>6. CASE \E w \in Vdecs : Removed(w)
  BY <1>2, <1>6
<1>7. CASE \A w \in Vdecs : ~Removed(w)
  <2>1. CASE Down \/ Clean \/ Scan \/ Idle \/ NoStart \/ Again
    <3>1. UNCHANGED status
      BY <2>1 DEF Down, Clean, Scan, Idle, NoStart, Again, Unlock
    <3>. QED
      BY <1>7, <3>1
  <2>2. CASE \E w \in Vdecs : Keep(w) \/ Choose(w) \/ Start(w) \/ DriverStep(w) \/ Refill(w)
    BY <1>3, <1>4, <1>5, <1>7, <2>2 DEF DriverStep
  <2>. QED
    BY <1>7, <2>1, <2>2 DEF CoreStep
<1>. QED
  BY <1>6, <1>7

\* Of the users' steps only vdec_connect()'s first changes what is managed;
\* it links the decoders in its second.
Elsewhere(f) ==
  \/ Open(f) \/ PortInit(f) \/ Disconnects(f) \/ HwInit(f) \/ ConnectAgain(f)
  \/ NotManaged(f) \/ Ask(f) \/ AskMate(f) \/ Waited(f) \/ Reset(f) \/ Destroy(f)

\* Every step of a user's call is one of these, or connects.
LEMMA UserSteps ==
  ASSUME NEW f \in Mains, CallStep(f) \/ Open(f) \/ PortInit(f) \/ Disconnects(f)
  PROVE  Elsewhere(f) \/ Connect(f) \/ Link(f)
BY DEF CallStep, Elsewhere

\* A user's step changes the state of its own call only.
LEMMA UserOnly ==
  ASSUME IInv, NEW f \in Mains, Elsewhere(f) \/ Connect(f) \/ Link(f)
  PROVE  \A g \in Mains : g # f => upc'[g] = upc[g] /\ uvdec'[g] = uvdec[g]
<1>1. UserType
  BY TypeSplit DEF IInv
<1>. USE <1>1 DEF UserType, Goto, Begin
<1>2. CASE Open(f) \/ PortInit(f) \/ Disconnects(f) \/ HwInit(f) \/ ConnectAgain(f)
  BY <1>2 DEF Open, PortInit, Disconnects, HwInit, ConnectAgain, Return
<1>3. CASE NotManaged(f) \/ Ask(f) \/ AskMate(f) \/ Waited(f) \/ Reset(f) \/ Destroy(f)
  BY <1>3 DEF NotManaged, Ask, AskMate, Waited, Reset, Destroy
<1>4. CASE Connect(f) \/ Link(f)
  BY <1>4 DEF Connect, Link, Return
<1>. QED
  BY <1>2, <1>3, <1>4 DEF Elsewhere

\* Those leave the lists and the hardware alone.
LEMMA ElsewhereManages ==
  ASSUME IInv, NEW f \in Mains, Elsewhere(f)
  PROVE  /\ \A v \in Vdecs : Managed(v)' <=> Managed(v)
         /\ upc[f] # "link" /\ upc'[f] # "link"
         /\ UNCHANGED <<connected, disconnecting, active_vdec, kpc, kvdec, ki, running>>
<1>. USE DEF Managed
<1>1. status \in [Vdecs -> Statuses] /\ UserType
  BY TypeSplit DEF IInv, CoreType
<1>2. \A v \in Vdecs : v \in Both(f) /\ upc[f] \in {"disconnected", "closed", "opened"}
                        => ~Managed(v)
  BY DEF IInv, Together, Asked
<1>3. UNCHANGED <<connected, disconnecting, active_vdec, kpc, kvdec, ki, running>>
  BY DEF Elsewhere, Open, PortInit, Disconnects, HwInit, ConnectAgain, NotManaged, Ask, AskMate,
         Waited, Reset, Destroy, kvars, lists, driver
<1>4. upc[f] # "link" /\ upc'[f] # "link"
  <2>. USE <1>1 DEF UserType, Goto
  <2>1. CASE Open(f) \/ PortInit(f) \/ Disconnects(f) \/ HwInit(f) \/ ConnectAgain(f)
    BY <2>1 DEF Open, PortInit, Disconnects, HwInit, ConnectAgain, Return
  <2>2. CASE NotManaged(f) \/ Ask(f) \/ AskMate(f) \/ Waited(f) \/ Reset(f) \/ Destroy(f)
    BY <2>2 DEF NotManaged, Ask, AskMate, Waited, Reset, Destroy
  <2>. QED
    BY <2>1, <2>2 DEF Elsewhere
<1>5. \A v \in Vdecs : Managed(v)' <=> Managed(v)
  <2>1. CASE Open(f)
    BY <1>1, <1>2, <2>1 DEF Open, SetAll
  <2>2. CASE PortInit(f)
    BY <1>1, <1>2, <2>2 DEF PortInit, SetAll
  <2>3. CASE Destroy(f)
    <3>1. uvdec[f] \in Both(f) /\ uvdec[f] \in Vdecs
      BY <1>1 DEF IInv, Together, UserType
    <3>2. ~Managed(uvdec[f])
      BY <1>2, <2>3, <3>1 DEF Destroy
    <3>. QED
      BY <1>1, <2>3, <3>1, <3>2 DEF Destroy
  <2>4. CASE HwInit(f) \/ ConnectAgain(f) \/ NotManaged(f) \/ Ask(f) \/ AskMate(f)
                \/ Waited(f) \/ Reset(f) \/ Disconnects(f)
    <3>1. UNCHANGED status
      BY <2>4 DEF HwInit, ConnectAgain, NotManaged, Ask, AskMate, Waited, Reset, Disconnects
    <3>. QED
      BY <3>1
  <2>. QED
    BY <2>1, <2>2, <2>3, <2>4 DEF Elsewhere
<1>. QED
  BY <1>3, <1>4, <1>5

\* vdec_connect() finds decoders that are not managed.
LEMMA ConnectManages ==
  ASSUME IInv, NEW f \in Mains, Connect(f)
  PROVE  /\ \A v \in Both(f) : v \in Vdecs /\ ~Managed(v) /\ Managed(v)'
         /\ \A v \in Vdecs : v \notin Both(f) =>
              status'[v] = status[v] /\ next_status'[v] = next_status[v]
                /\ inactive_done'[v] = inactive_done[v]
         /\ \A v \in Both(f) : /\ status'[v] = "CONNECTED" /\ next_status'[v] = "CONNECTED"
                               /\ inactive_done'[v] = FALSE
         /\ upc[f] = "connect" /\ upc'[f] = "link"
         /\ UNCHANGED <<connected, disconnecting, active_vdec, kpc, kvdec, ki, running, tail, sem>>
<1>. USE DEF Managed
<1>1. UserType
  BY TypeSplit DEF IInv
<1>2. Both(f) \subseteq Vdecs
  BY FileFacts
<1>3. ~Managed(f) /\ upc[f] = "connect"
  BY DEF Connect
<1>4. \A v \in Both(f) : ~Managed(v)
  BY <1>3 DEF IInv, Together, Asked
<1>5. upc'[f] = "link"
  BY <1>1 DEF Connect, Goto, UserType
<1>6. UNCHANGED <<connected, disconnecting, active_vdec, kpc, kvdec, ki, running, tail, sem>>
  BY DEF Connect, kvars, lists, driver
<1>7. \A v \in Vdecs :
        /\ status'[v] = IF v \in Both(f) THEN "CONNECTED" ELSE status[v]
        /\ next_status'[v] = IF v \in Both(f) THEN "CONNECTED" ELSE next_status[v]
        /\ inactive_done'[v] = IF v \in Both(f) THEN FALSE ELSE inactive_done[v]
  BY DEF Connect, SetAll
<1>. QED
  BY <1>2, <1>3, <1>4, <1>5, <1>6, <1>7

-----------------------------------------------------------------------------
(* The invariant, part by part *)

\* The managed decoders that were linked are those on the lists.
Linked ==
  \A v \in Vdecs : v \in Range(connected) \cup Range(disconnecting)
                     <=> Managed(v) /\ upc[FileOf(v)] # "link"

\* A decoder is on a list from the end of its connect to the end of its disconnect.
LEMMA LinkedStep == IInv /\ [Next]_vars => Linked'
<1> SUFFICES ASSUME IInv, [Next]_vars PROVE Linked'
  OBVIOUS
<1>1. Linked /\ Range(connected) \cap Range(disconnecting) = {}
  BY DEF IInv, OnOneList, Linked
<1>2. ASSUME NEW w \in Vdecs, Removed(w), ~Managed(w)',
             \A v \in Vdecs \ {w} : Managed(v)' <=> Managed(v)
      PROVE  Linked'
  <2>1. UNCHANGED user
    BY <1>2, UserUntouched DEF CoreStep
  <2>2. /\ w \in Range(disconnecting) /\ connected' = connected
        /\ Range(disconnecting') = Range(disconnecting) \ {w}
    BY <1>2, RemovedLists
  <2>. QED
    BY <1>1, <1>2, <2>1, <2>2 DEF Linked, user
<1>3. CASE Scan
  <2>1. /\ Range(connected) \cup Range(disconnecting)
             = Range(connected)' \cup Range(disconnecting)'
    BY <1>3, ScanLists DEF ScansOff
  <2>2. UNCHANGED <<status, upc>>
    BY <1>3 DEF Scan, user
  <2>. QED
    BY <1>1, <2>1, <2>2 DEF Linked, Managed
<1>4. ASSUME CoreStep \/ \E v \in Vdecs : DriverStep(v) \/ Refill(v),
             \A v \in Vdecs : Managed(v)' <=> Managed(v), ~Scan, \A v \in Vdecs : ~Removed(v)
      PROVE  Linked'
  <2>1. UNCHANGED user
    BY <1>4, UserUntouched
  <2>2. UNCHANGED <<connected, disconnecting>>
    <3>1. \A f \in Mains : ~Link(f)
      <4>1. \A f \in Mains : Link(f) => upc'[f] # upc[f]
        BY TypeSplit DEF IInv, UserType, Link, Return, Goto
      <4>. QED
        BY <2>1, <4>1 DEF user
    <3>. QED
      BY <1>4, <3>1, ListSteps
  <2>. QED
    BY <1>1, <1>4, <2>1, <2>2 DEF Linked, user
<1>5. ASSUME NEW f \in Mains, Elsewhere(f)
      PROVE  Linked'
  <2>1. \A v \in Vdecs : Managed(v)' <=> Managed(v)
    BY <1>5, ElsewhereManages
  <2>2. UNCHANGED <<connected, disconnecting>>
    BY <1>5, ElsewhereManages
  <2>3. \A g \in Mains : upc'[g] # "link" <=> upc[g] # "link"
    BY <1>5, ElsewhereManages, UserOnly
  <2>. QED
    BY <1>1, <2>1, <2>2, <2>3, FileFacts DEF Linked
<1>6. ASSUME NEW f \in Mains, Connect(f)
      PROVE  Linked'
  <2>1. \A v \in Both(f) : ~Managed(v)
    BY <1>6, ConnectManages
  <2>2. \A v \in Vdecs : v \notin Both(f) => (Managed(v)' <=> Managed(v))
    BY <1>6, ConnectManages DEF Managed
  <2>3. UNCHANGED <<connected, disconnecting>> /\ upc'[f] = "link"
    BY <1>6, ConnectManages
  <2>4. \A v \in Vdecs : v \notin Both(f) => FileOf(v) # f /\ FileOf(v) \in Mains
    BY FileFacts
  <2>5. \A v \in Both(f) : FileOf(v) = f
    BY FileFacts
  <2>6. \A g \in Mains : g # f => upc'[g] = upc[g]
    BY <1>6, UserOnly
  <2>. QED
    BY <1>1, <2>1, <2>2, <2>3, <2>4, <2>5, <2>6 DEF Linked
<1>7. ASSUME NEW f \in Mains, Link(f)
      PROVE  Linked'
  <2>1. /\ disconnecting' = disconnecting
        /\ Range(connected') = Range(connected) \cup Both(f)
    BY <1>7, LinkLists
  <2>2. status' = status /\ upc[f] = "link"
    BY <1>7 DEF Link
  <2>3. upc'[f] # "link"
    BY <1>7, TypeSplit DEF IInv, UserType, Link, Return, Goto
  <2>4. \A g \in Mains : g # f => upc'[g] = upc[g]
    BY <1>7, UserOnly
  <2>5. \A v \in Both(f) : FileOf(v) = f /\ v \in Vdecs /\ Managed(v)
    BY <2>2, FileFacts DEF IInv, Together, Asked
  <2>6. \A v \in Vdecs : v \notin Both(f) => FileOf(v) # f /\ FileOf(v) \in Mains
    BY FileFacts
  <2>. QED
    BY <1>1, <2>1, <2>2, <2>3, <2>4, <2>5, <2>6 DEF Linked, Managed
<1>8. CASE UNCHANGED vars
  BY <1>1, <1>8 DEF Linked, Managed, vars, kvars, lists, user
<1>9. CASE CoreStep \/ \E v \in Vdecs : DriverStep(v) \/ Refill(v)
  BY <1>2, <1>3, <1>4, <1>9, CoreManages
<1>. QED
  BY <1>5, <1>6, <1>7, <1>8, <1>9, UserSteps DEF Next

\* A decoder is moved from one list to the other, never copied.
LEMMA OnOneListStep == IInv /\ [Next]_vars => OnOneList'
BY LinkedStep, ApartStep DEF Linked, Apart, OnOneList

\* The decoders of a file come and go as one.
LEMMA TogetherStep == IInv /\ [Next]_vars => Together'
<1> SUFFICES ASSUME IInv, [Next]_vars PROVE Together'
  OBVIOUS
<1>1. Together /\ UserType
  BY TypeSplit DEF IInv
<1>2. ASSUME NEW w \in Vdecs, Removed(w),
             \A v \in Vdecs \ {w} : Managed(v)' <=> Managed(v)
      PROVE  Together'
  <2>1. UNCHANGED user
    BY <1>2, UserUntouched DEF CoreStep
  <2>2. w \in Range(disconnecting)
    BY <1>2, RemovedLists
  <2>3. Asked(FileOf(w)) /\ FileOf(w) \in Mains
    BY <2>2, FileFacts DEF IInv, OnOneList, Leaving
  <2>4. ASSUME NEW f \in Mains
        PROVE  /\ ~Asked(f) => /\ \A v \in Both(f) : Managed(v)' <=> Managed(v)
                               /\ Managed(f)' <=> Managed(f)
               /\ Asked(f)' <=> Asked(f)
    BY <1>2, <2>1, <2>3, FileFacts DEF Asked, user
  <2>. QED
    BY <1>1, <2>1, <2>4 DEF Together, Asked, user
<1>3. ASSUME UNCHANGED user, \A v \in Vdecs : Managed(v)' <=> Managed(v)
      PROVE  Together'
  BY <1>1, <1>3, FileFacts DEF Together, Asked, user
<1>4. CASE CoreStep \/ \E v \in Vdecs : DriverStep(v) \/ Refill(v)
  BY <1>2, <1>3, <1>4, UserUntouched, CoreManages
<1>5. ASSUME NEW f \in Mains,
             \A g \in Mains : g # f => upc'[g] = upc[g] /\ uvdec'[g] = uvdec[g],
             \A v \in Vdecs : v \notin Both(f) => (Managed(v)' <=> Managed(v)),
             ~Asked(f)' => \A v \in Both(f) : Managed(v)' <=> Managed(f)',
             upc'[f] = "link" => Managed(f)',
             upc'[f] \in {"disconnected", "closed", "opened"} => ~Managed(f)',
             uvdec'[f] \in Both(f)
      PROVE  Together'
  <2>1. ASSUME NEW g \in Mains, g # f
        PROVE  \A v \in Both(g) : v \notin Both(f)
    BY <2>1, FileFacts
  <2>2. ASSUME NEW g \in Mains, g # f
        PROVE  /\ \A v \in Both(g) : Managed(v)' <=> Managed(v)
               /\ upc'[g] = upc[g] /\ uvdec'[g] = uvdec[g]
    BY <1>5, <2>1, <2>2, FileFacts
  <2>3. \A g \in Mains : g \in Both(g)
    BY FileFacts
  <2>. QED
    BY <1>1, <1>5, <2>2, <2>3 DEF Together, Asked
<1>6. ASSUME NEW f \in Mains, Elsewhere(f)
      PROVE  Together'
  <2>1. /\ \A v \in Vdecs : Managed(v)' <=> Managed(v)
        /\ upc[f] # "link" /\ upc'[f] # "link"
    BY <1>6, ElsewhereManages
  <2>2. uvdec[f] \in Both(f) /\ f \in Both(f) /\ f \in Vdecs
    BY <1>1, FileFacts DEF Together, Vdecs
  <2>3. uvdec'[f] \in Both(f)
    <3>1. Releases(f) \in Both(f)
      BY <2>2, SlaveFacts DEF Releases
    <3>2. CASE Open(f) \/ PortInit(f) \/ Disconnects(f) \/ HwInit(f) \/ ConnectAgain(f)
      BY <1>1, <2>2, <3>1, <3>2
         DEF Open, PortInit, Disconnects, HwInit, ConnectAgain, Return, Begin, UserType
    <3>3. CASE NotManaged(f) \/ Ask(f) \/ AskMate(f) \/ Waited(f) \/ Reset(f) \/ Destroy(f)
      BY <1>1, <2>2, <3>3 DEF NotManaged, Ask, AskMate, Waited, Reset, Destroy, Begin, UserType
    <3>. QED
      BY <1>6, <3>2, <3>3 DEF Elsewhere
  <2>4. /\ ~Asked(f)' => \A v \in Both(f) : Managed(v)' <=> Managed(f)'
        /\ upc'[f] \in {"disconnected", "closed", "opened"} => ~Managed(f)'
    <3>. USE <1>1 DEF UserType, Goto
    <3>1. Both(f) \subseteq Vdecs
      BY FileFacts
    <3>2. ~Asked(f) => \A v \in Both(f) : Managed(v) <=> Managed(f)
      BY DEF Together
    <3>3. CASE Open(f) \/ PortInit(f) \/ Destroy(f)
      <4>1. ~Managed(f) /\ ~Asked(f)
        BY <3>3 DEF Open, PortInit, Destroy, Together, Asked
      <4>. QED
        BY <2>1, <2>2, <3>1, <3>2, <4>1
    <3>4. CASE Disconnects(f) \/ HwInit(f) \/ ConnectAgain(f) \/ Reset(f)
      <4>1. /\ ~Asked(f)
            /\ upc'[f] \in {"connect", "hwinit", "playing", "disconnect"}
        BY <3>4 DEF Disconnects, HwInit, ConnectAgain, Reset, Return, Asked
      <4>. QED
        BY <2>1, <2>2, <3>1, <3>2, <4>1
    <3>5. CASE NotManaged(f)
      <4>1. ~Asked(f) /\ ~Managed(uvdec[f])
        BY <3>5 DEF NotManaged, Asked
      <4>. QED
        BY <2>1, <2>2, <3>1, <3>2, <4>1
    <3>6. CASE Ask(f) \/ AskMate(f)
      BY <3>6 DEF Ask, AskMate, Asked
    <3>7. CASE Waited(f)
      <4>1. \A v \in Both(f) : ~Managed(v)
        BY <3>1, <3>7 DEF Waited, IInv, Leaving
      <4>. QED
        BY <2>1, <2>2, <3>1, <4>1
    <3>. QED
      BY <1>6, <3>3, <3>4, <3>5, <3>6, <3>7 DEF Elsewhere
  <2>5. \A g \in Mains : g # f => upc'[g] = upc[g] /\ uvdec'[g] = uvdec[g]
    BY <1>6, UserOnly
  <2>. QED
    BY <1>5, <2>1, <2>3, <2>4, <2>5
<1>7. ASSUME NEW f \in Mains, Connect(f)
      PROVE  Together'
  <2>1. /\ \A v \in Both(f) : Managed(v)' /\ v \in Vdecs
        /\ upc'[f] = "link" /\ f \in Both(f)
    BY <1>7, ConnectManages, FileFacts
  <2>2. \A v \in Vdecs : v \notin Both(f) => (Managed(v)' <=> Managed(v))
    BY <1>7, ConnectManages DEF Managed
  <2>3. \A g \in Mains : g # f => upc'[g] = upc[g] /\ uvdec'[g] = uvdec[g]
    BY <1>7, UserOnly
  <2>4. uvdec'[f] \in Both(f)
    BY <1>1, <1>7 DEF Connect, Together
  <2>. QED
    BY <1>5, <2>1, <2>2, <2>3, <2>4
<1>8. ASSUME NEW f \in Mains, Link(f)
      PROVE  Together'
  <2>1. /\ upc[f] = "link" /\ f \in Both(f) /\ status' = status /\ f \in Vdecs
        /\ Both(f) \subseteq Vdecs
    BY <1>8, FileFacts DEF Link, Vdecs
  <2>2. \A v \in Both(f) : Managed(v) <=> Managed(f)
    BY <1>1, <2>1 DEF Together, Asked
  <2>3. \A v \in Vdecs : Managed(v)' <=> Managed(v)
    BY <2>1 DEF Managed
  <2>4. upc'[f] \in {"hwinit", "playing"} /\ uvdec'[f] = f
    BY <1>1, <1>8 DEF Link, Return, Goto, Begin, UserType
  <2>5. \A g \in Mains : g # f => upc'[g] = upc[g] /\ uvdec'[g] = uvdec[g]
    BY <1>8, UserOnly
  <2>. QED
    BY <1>5, <2>1, <2>2, <2>3, <2>4, <2>5
<1>9. CASE UNCHANGED vars
  BY <1>3, <1>9 DEF vars, user, Managed
<1>. QED
  BY <1>4, <1>6, <1>7, <1>8, <1>9, UserSteps DEF Next

\* Who leaves was asked for.
LEMMA LeavingStep == IInv /\ [Next]_vars => Leaving'
<1> SUFFICES ASSUME IInv, [Next]_vars PROVE Leaving'
  OBVIOUS
<1>. USE DEF Managed
<1>1. /\ Leaving /\ CoreType /\ UserType
      /\ Range(connected) \cap Range(disconnecting) = {}
      /\ Range(connected) \subseteq Vdecs /\ Range(disconnecting) \subseteq Vdecs
      /\ \A v \in Range(connected) \cup Range(disconnecting) : Managed(v)
  <2>1. Range(connected) \subseteq Vdecs /\ Range(disconnecting) \subseteq Vdecs
    BY NowApart, RangeFacts DEF Apart
  <2>. QED
    BY <2>1, TypeSplit DEF IInv, OnOneList
<1>2. CASE Scan
  <2>1. UNCHANGED <<status, next_status, inactive_done, upc>>
    BY <1>2 DEF Scan, user
  <2>2. \A v \in Range(disconnecting)' : v \in Range(disconnecting)
           \/ (status[v] = "CONNECTED" /\ next_status[v] = "DISCONNECTED")
    BY <1>2, ScanLists DEF ScansOff
  <2>. QED
    BY <1>1, <2>1, <2>2 DEF Leaving, Asked
<1>3. ASSUME NEW w \in Vdecs, Removed(w)
      PROVE  Leaving'
  <2>1. Range(disconnecting)' = Range(disconnecting) \ {w}
    BY <1>3, RemovedLists
  <2>2. /\ \A v \in Vdecs : status'[v] = IF v = w THEN "DISCONNECTED" ELSE status[v]
        /\ \A v \in Vdecs \ {w} : inactive_done'[v] = inactive_done[v]
        /\ next_status' = next_status /\ upc' = upc
    BY <1>1, <1>3 DEF Removed, user, CoreType, Flags
  <2>. QED
    BY <1>1, <2>1, <2>2 DEF Leaving, Asked
<1>4. ASSUME NEW w \in Vdecs, Start(w)
      PROVE  Leaving'
  <2>1. w \in Range(connected)
    BY <1>4 DEF IInv, Owner, Start, Starts, Listed
  <2>2. /\ \A v \in Vdecs : status'[v] = IF v = w THEN "ACTIVE" ELSE status[v]
        /\ UNCHANGED <<next_status, inactive_done, disconnecting, upc>>
    BY <1>1, <1>4 DEF Start, user, CoreType
  <2>. QED
    BY <1>1, <2>1, <2>2 DEF Leaving, Asked
<1>5. ASSUME NEW w \in Vdecs, Finish(w)
      PROVE  Leaving'
  <2>1. status[w] = "ACTIVE"
    BY <1>5 DEF IInv, Owner, Finish
  <2>2. /\ \A v \in Vdecs : status'[v] = IF v = w THEN "CONNECTED" ELSE status[v]
        /\ UNCHANGED <<next_status, inactive_done, disconnecting, upc>>
    BY <1>1, <1>5 DEF Finish, user, CoreType, kvars, lists
  <2>. QED
    BY <1>1, <2>1, <2>2 DEF Leaving, Asked
<1>6. CASE UNCHANGED <<status, next_status, inactive_done, disconnecting, upc>>
  BY <1>1, <1>6 DEF Leaving, Asked
<1>7. CASE CoreStep \/ \E v \in Vdecs : DriverStep(v) \/ Refill(v)
  <2>1. CASE Down \/ Clean \/ Idle \/ NoStart \/ Again
    BY <1>6, <2>1 DEF Down, Clean, Idle, NoStart, Again, Unlock, lists, user
  <2>2. ASSUME NEW v \in Vdecs, Keep(v) \/ Choose(v) \/ Callback(v) \/ Refill(v)
        PROVE  Leaving'
    BY <1>6, <2>2 DEF Keep, Choose, Unlock, Callback, Refill, kvars, lists, user
  <2>. QED
    BY <1>2, <1>3, <1>4, <1>5, <1>7, <2>1, <2>2 DEF CoreStep, DriverStep
<1>8. ASSUME NEW f \in Mains, Elsewhere(f)
      PROVE  Leaving'
  <2>1. /\ \A v \in Vdecs : Managed(v)' <=> Managed(v)
        /\ disconnecting' = disconnecting
    BY <1>8, ElsewhereManages
  <2>2. /\ \A v \in Both(f) : FileOf(v) = f /\ v \in Vdecs
        /\ \A v \in Vdecs : v \notin Both(f) => FileOf(v) # f
        /\ \A v \in Vdecs : FileOf(v) \in Mains
    BY FileFacts
  <2>3. /\ uvdec[f] \in Both(f) /\ uvdec[f] \in Vdecs
        /\ Mates(uvdec[f]) \subseteq Both(f)
    BY FileFacts, <2>2 DEF IInv, Together
  <2>4. \A v \in Vdecs : Managed(v) => status'[v] = status[v]
    <3>1. CASE Open(f) \/ PortInit(f)
      <4>1. \A v \in Both(f) : ~Managed(v)
        BY <3>1 DEF Open, PortInit, IInv, Together, Asked
      <4>. QED
        BY <3>1, <4>1 DEF Open, PortInit, SetAll
    <3>2. CASE Destroy(f)
      <4>1. ~Managed(uvdec[f])
        BY <2>3, <3>2 DEF Destroy, IInv, Together, Asked
      <4>. QED
        BY <1>1, <2>3, <3>2, <4>1 DEF Destroy, CoreType
    <3>3. CASE ~(Open(f) \/ PortInit(f) \/ Destroy(f))
      BY <1>8, <3>3 DEF Elsewhere, HwInit, ConnectAgain, NotManaged, Ask, AskMate, Waited,
                        Reset, Disconnects
    <3>. QED
      BY <3>1, <3>2, <3>3
  <2>5. \A v \in Vdecs : ~inactive_done[v] => ~inactive_done'[v]
    BY <1>1, <1>8 DEF Elsewhere, Open, PortInit, HwInit, ConnectAgain, NotManaged, Ask,
                      AskMate, Waited, Reset, Disconnects, Destroy, SetAll, CoreType, Flags
  <2>6. \A v \in Vdecs : next_status'[v] # next_status[v] => next_status'[v] = "DISCONNECTED"
    BY <1>1, <1>8, <2>3
       DEF Elsewhere, Open, PortInit, HwInit, ConnectAgain, NotManaged, Ask,
           AskMate, Waited, Reset, Disconnects, Destroy, SetAll, CoreType
  <2>7. \A v \in Range(disconnecting)' :
           status'[v] = "CONNECTED" /\ next_status'[v] = "DISCONNECTED"
    BY <1>1, <2>1, <2>4, <2>6 DEF Leaving
  <2>8. \A v \in Vdecs : Managed(v)' => ~inactive_done'[v]
    BY <1>1, <2>1, <2>5 DEF Leaving
  <2>9. ASSUME NEW v \in Vdecs, Managed(v)', next_status'[v] = "DISCONNECTED"
        PROVE  Asked(FileOf(v))'
    <3>1. \A g \in Mains : g # f => upc'[g] = upc[g]
      BY <1>8, UserOnly
    <3>2. Managed(v)
      BY <2>1, <2>9
    <3>3. CASE v \notin Both(f)
      <4>1. next_status'[v] = next_status[v]
        BY <1>1, <1>8, <2>3, <3>3
           DEF Elsewhere, Open, PortInit, HwInit, ConnectAgain, NotManaged, Ask,
               AskMate, Waited, Reset, Disconnects, Destroy, SetAll, CoreType
      <4>. QED
        BY <1>1, <2>2, <2>9, <3>1, <3>2, <3>3, <4>1 DEF Leaving, Asked
    <3>4. CASE v \in Both(f)
      <4>1. FileOf(v) = f
        BY <2>2, <3>4
      <4>2. CASE Ask(f) \/ AskMate(f)
        BY <1>1, <4>1, <4>2 DEF Ask, AskMate, Asked, Goto, UserType
      <4>3. CASE Waited(f)
        BY <1>1, <2>9, <3>2, <3>4, <4>3 DEF Waited, Leaving
      <4>4. CASE Destroy(f) \/ Open(f) \/ PortInit(f)
        BY <3>2, <3>4, <4>4 DEF Destroy, Open, PortInit, IInv, Together, Asked
      <4>5. CASE HwInit(f) \/ ConnectAgain(f) \/ NotManaged(f) \/ Reset(f) \/ Disconnects(f)
        <5>1. ~Asked(f) /\ next_status' = next_status
          BY <4>5 DEF HwInit, ConnectAgain, NotManaged, Reset, Disconnects, Asked
        <5>. QED
          BY <1>1, <2>9, <3>2, <4>1, <5>1 DEF Leaving
      <4>. QED
        BY <1>8, <4>2, <4>3, <4>4, <4>5 DEF Elsewhere
    <3>. QED
      BY <3>3, <3>4
  <2>. QED
    BY <2>7, <2>8, <2>9 DEF Leaving
<1>9. ASSUME NEW f \in Mains, Connect(f)
      PROVE  Leaving'
  <2>1. /\ \A v \in Both(f) : v \in Vdecs /\ ~Managed(v)
        /\ \A v \in Vdecs : v \notin Both(f) =>
             status'[v] = status[v] /\ next_status'[v] = next_status[v]
               /\ inactive_done'[v] = inactive_done[v]
        /\ \A v \in Both(f) : next_status'[v] = "CONNECTED" /\ inactive_done'[v] = FALSE
        /\ UNCHANGED disconnecting
    BY <1>9, ConnectManages
  <2>2. \A v \in Vdecs : v \notin Both(f) => FileOf(v) # f /\ FileOf(v) \in Mains
    BY FileFacts
  <2>3. \A g \in Mains : g # f => upc'[g] = upc[g]
    BY <1>9, UserOnly
  <2>. QED
    BY <1>1, <2>1, <2>2, <2>3 DEF Leaving, Asked
<1>10. ASSUME NEW f \in Mains, Link(f)
       PROVE  Leaving'
  <2>1. /\ UNCHANGED <<status, next_status, inactive_done, disconnecting>>
        /\ upc[f] = "link"
    BY <1>10 DEF Link
  <2>2. \A g \in Mains : g # f => upc'[g] = upc[g]
    BY <1>10, UserOnly
  <2>. QED
    BY <1>1, <2>1, <2>2, FileFacts DEF Leaving, Asked
<1>11. CASE UNCHANGED vars
  BY <1>6, <1>11 DEF vars, kvars, lists, user
<1>. QED
  BY <1>7, <1>8, <1>9, <1>10, <1>11, UserSteps DEF Next

\* The hardware's owner, and whom the thread is about to start
LEMMA OwnerStep == IInv /\ [Next]_vars => Owner'
<1> SUFFICES ASSUME IInv, [Next]_vars PROVE Owner'
  OBVIOUS
<1>. USE DEF Listed
<1>1. /\ Owner /\ CoreType /\ Range(connected) \subseteq Vdecs
      /\ \A v \in Range(connected) \cup Range(disconnecting) : Managed(v)
      /\ \A v \in Vdecs : status[v] = "ACTIVE" => v \in Range(connected)
  <2>1. Range(connected) \subseteq Vdecs /\ Range(disconnecting) \subseteq Vdecs
    BY NowApart, RangeFacts DEF Apart
  <2>2. \A v \in Vdecs : v # None
    BY VdecCoreAssumption DEF Vdecs
  <2>3. Owner /\ OnOneList /\ CoreType
    BY TypeSplit DEF IInv
  <2>4. \A v \in Vdecs : status[v] = "ACTIVE" => v \in Range(connected)
    BY <2>2, <2>3 DEF Owner
  <2>. QED
    BY <2>1, <2>3, <2>4 DEF OnOneList
<1>2. CASE Scan
  <2>1. /\ UNCHANGED <<status, running, kvdec, kpc>> /\ kpc = "scan"
        /\ ki' = ki \/ ki' = ki + 1
    BY <1>2 DEF Scan, driver
  <2>2. \/ ScansOff \/ UNCHANGED <<connected, disconnecting, active_vdec>>
    BY <1>2, ScanLists
  <2>. QED
    BY <1>1, <2>1, <2>2 DEF Owner, ScansOff, CoreType
<1>3. ASSUME NEW v \in Vdecs, Keep(v)
      PROVE  Owner'
  BY <1>1, <1>3 DEF Owner, Keep, FirstActive, Unlock, driver
<1>4. ASSUME NEW v \in Vdecs, Choose(v)
      PROVE  Owner'
  <2>1. \A u \in Vdecs : ~running[u]
    BY <1>1, <1>4 DEF Owner, Choose, NextInTurn
  <2>. QED
    BY <1>1, <1>4, <2>1 DEF Owner, Choose, NextInTurn, Unlock, driver
<1>5. CASE Idle
  <2>1. \A u \in Vdecs : ~running[u]
    BY <1>1, <1>5 DEF Owner, Idle
  <2>. QED
    BY <1>1, <1>5, <2>1 DEF Owner, Idle, Unlock, driver
<1>6. ASSUME NEW v \in Vdecs, Start(v)
      PROVE  Owner'
  <2>1. /\ kvdec = v /\ v # None /\ status[v] # "ACTIVE"
        /\ kvdec' = None /\ kpc' = "remove" /\ active_vdec' = v /\ connected' = connected
    BY <1>6 DEF Start, Starts
  <2>2. \A u \in Vdecs : ~running[u]
    BY <1>1, <2>1 DEF Owner
  <2>3. /\ \A u \in Vdecs : status'[u] = IF u = v THEN "ACTIVE" ELSE status[u]
        /\ \A u \in Vdecs : running'[u] <=> u = v
    BY <1>1, <1>6, <2>2 DEF Start, CoreType, Flags
  <2>. QED
    BY <1>1, <2>1, <2>2, <2>3 DEF Owner
<1>7. CASE Down \/ Clean \/ NoStart \/ Again
  BY <1>1, <1>7 DEF Owner, Down, Clean, NoStart, Again, lists, driver, CoreType
<1>8. ASSUME NEW v \in Vdecs, Removed(v)
      PROVE  Owner'
  <2>1. v \in Range(disconnecting)
    BY <1>8, RemovedLists
  <2>2. status[v] = "CONNECTED"
    BY <2>1 DEF IInv, Leaving
  <2>3. \A u \in Vdecs : status'[u] = IF u = v THEN "DISCONNECTED" ELSE status[u]
    BY <1>1, <1>8 DEF Removed, CoreType
  <2>4. UNCHANGED <<connected, active_vdec, kpc, kvdec, ki, running>>
    BY <1>8 DEF Removed, driver
  <2>. QED
    BY <1>1, <2>2, <2>3, <2>4 DEF Owner
<1>9. ASSUME NEW v \in Vdecs, Finish(v)
      PROVE  Owner'
  <2>1. /\ \A u \in Vdecs : status'[u] = IF u = v THEN "CONNECTED" ELSE status[u]
        /\ \A u \in Vdecs : running'[u] <=> running[u] /\ u # v
    BY <1>1, <1>9 DEF Finish, CoreType, Flags
  <2>2. UNCHANGED <<connected, active_vdec, kpc, kvdec, ki>>
    BY <1>9 DEF Finish, kvars, lists
  <2>. QED
    BY <1>1, <2>1, <2>2 DEF Owner
<1>10. CASE UNCHANGED <<status, running, connected, active_vdec, kpc, kvdec, ki>>
  BY <1>1, <1>10 DEF Owner
<1>11. ASSUME NEW v \in Vdecs, Callback(v) \/ Refill(v)
       PROVE  Owner'
  BY <1>10, <1>11 DEF Callback, Refill, kvars, lists
<1>12. ASSUME NEW f \in Mains, Elsewhere(f)
       PROVE  Owner'
  <2>1. UNCHANGED <<connected, active_vdec, kpc, kvdec, ki, running>>
    BY <1>12, ElsewhereManages
  <2>2. \A v \in Vdecs : status'[v] = "ACTIVE" <=> status[v] = "ACTIVE"
    <3>1. CASE Open(f) \/ PortInit(f)
      <4>1. \A v \in Both(f) : ~Managed(v)
        BY <3>1 DEF Open, PortInit, IInv, Together, Asked
      <4>. QED
        BY <3>1, <4>1 DEF Open, PortInit, SetAll, Managed
    <3>2. CASE Destroy(f)
      <4>1. uvdec[f] \in Both(f) /\ uvdec[f] \in Vdecs
        BY FileFacts DEF IInv, Together
      <4>2. ~Managed(uvdec[f])
        BY <3>2, <4>1 DEF Destroy, IInv, Together, Asked
      <4>. QED
        BY <1>1, <3>2, <4>1, <4>2 DEF Destroy, CoreType, Managed
    <3>3. CASE ~(Open(f) \/ PortInit(f) \/ Destroy(f))
      BY <1>12, <3>3 DEF Elsewhere, HwInit, ConnectAgain, NotManaged, Ask, AskMate, Waited,
                         Reset, Disconnects
    <3>. QED
      BY <3>1, <3>2, <3>3
  <2>. QED
    BY <1>1, <2>1, <2>2 DEF Owner
<1>13. ASSUME NEW f \in Mains, Connect(f)
       PROVE  Owner'
  <2>1. /\ \A v \in Both(f) : ~Managed(v) /\ status'[v] = "CONNECTED"
        /\ \A v \in Vdecs : v \notin Both(f) => status'[v] = status[v]
        /\ UNCHANGED <<connected, active_vdec, kpc, kvdec, ki, running>>
    BY <1>13, ConnectManages
  <2>2. \A v \in Vdecs : status'[v] = "ACTIVE" <=> status[v] = "ACTIVE"
    BY <2>1 DEF Managed
  <2>. QED
    BY <1>1, <2>1, <2>2 DEF Owner
<1>14. ASSUME NEW f \in Mains, Link(f)
       PROVE  Owner'
  <2>1. Range(connected') = Range(connected) \cup Both(f)
    BY <1>14, LinkLists
  <2>2. UNCHANGED <<status, active_vdec, kpc, kvdec, ki, running>>
    BY <1>14 DEF Link, driver
  <2>. QED
    BY <1>1, <2>1, <2>2 DEF Owner
<1>15. CASE UNCHANGED vars
  BY <1>10, <1>15 DEF vars, kvars, lists, driver
<1>16. CASE CoreStep
  BY <1>2, <1>3, <1>4, <1>5, <1>6, <1>7, <1>8, <1>16 DEF CoreStep
<1>17. ASSUME NEW v \in Vdecs, DriverStep(v) \/ Refill(v)
       PROVE  Owner'
  BY <1>9, <1>11, <1>17 DEF DriverStep
<1>. QED
  BY <1>12, <1>13, <1>14, <1>15, <1>16, <1>17, UserSteps DEF Next

\* The thread does not sleep for good.
LEMMA WakesStep == IInv /\ [Next]_vars => Wakes'
<1> SUFFICES ASSUME IInv, [Next]_vars PROVE Wakes'
  OBVIOUS
<1>1. /\ Wakes /\ CoreType /\ Owner
      /\ running \in [Vdecs -> BOOLEAN] /\ tail \in [Vdecs -> BOOLEAN] /\ sem \in Nat
  BY TypeSplit DEF IInv, CoreType, Flags
<1>2. CASE Down \/ Clean \/ Scan
  BY <1>2 DEF Wakes, Down, Clean, Scan
<1>3. ASSUME NEW v \in Vdecs, Keep(v)
      PROVE  Wakes'
  <2>1. /\ status[v] = "ACTIVE" /\ kpc' = "start" /\ active_vdec' = active_vdec
        /\ UNCHANGED <<running, tail, sem>>
    BY <1>3 DEF Keep, FirstActive, Unlock, driver
  <2>2. running[v] /\ active_vdec = v
    BY <1>1, <2>1 DEF Owner
  <2>. QED
    BY <2>1, <2>2 DEF Wakes
<1>4. ASSUME NEW v \in Vdecs, Choose(v)
      PROVE  Wakes'
  BY <1>4 DEF Wakes, Choose, Unlock
<1>5. CASE Idle
  BY <1>5 DEF Wakes, Idle, Unlock
<1>6. ASSUME NEW v \in Vdecs, Start(v)
      PROVE  Wakes'
  <2>1. running'[v] /\ active_vdec' = v /\ kpc' = "remove"
    BY <1>1, <1>6 DEF Start
  <2>. QED
    BY <2>1 DEF Wakes
<1>7. CASE NoStart
  BY <1>1, <1>7 DEF Wakes, NoStart, lists, driver
<1>8. ASSUME NEW v \in Vdecs, Removed(v)
      PROVE  Wakes'
  BY <1>1, <1>8 DEF Wakes, Removed, driver
<1>9. CASE Again
  BY <1>1, <1>9 DEF Wakes, Again, lists, driver
<1>10. ASSUME UNCHANGED <<active_vdec, kpc, running>>, sem' \in Nat, sem' >= sem,
              active_vdec # None /\ tail[active_vdec] => tail'[active_vdec] \/ sem' > 0
       PROVE  Wakes'
  BY <1>1, <1>10 DEF Wakes
<1>11. ASSUME NEW v \in Vdecs, Refill(v)
       PROVE  Wakes'
  BY <1>1, <1>10, <1>11 DEF Refill, kvars, lists
<1>12. ASSUME NEW v \in Vdecs, Finish(v)
       PROVE  Wakes'
  <2>1. /\ UNCHANGED <<active_vdec, kpc, sem>> /\ tail'[v]
        /\ \A u \in Vdecs : u # v => running'[u] = running[u] /\ tail'[u] = tail[u]
    BY <1>1, <1>12 DEF Finish, kvars, lists
  <2>2. running[v] => active_vdec = v
    BY <1>1 DEF Owner
  <2>3. active_vdec = v
    BY <1>12, <2>2 DEF Finish
  <2>. QED
    BY <1>1, <2>1, <2>3 DEF Wakes
<1>13. ASSUME NEW v \in Vdecs, Callback(v)
       PROVE  Wakes'
  BY <1>1, <1>10, <1>13 DEF Callback, kvars, lists
<1>14. ASSUME NEW f \in Mains, Elsewhere(f)
       PROVE  Wakes'
  <2>1. UNCHANGED <<active_vdec, kpc, running>>
    BY <1>14, ElsewhereManages
  <2>2. tail' = tail /\ (sem' = sem \/ sem' = sem + 1)
    BY <1>14 DEF Elsewhere, Open, PortInit, HwInit, ConnectAgain, NotManaged, Ask, AskMate,
                 Waited, Reset, Disconnects, Destroy, driver
  <2>. QED
    BY <1>1, <1>10, <2>1, <2>2
<1>15. ASSUME NEW f \in Mains, Connect(f)
       PROVE  Wakes'
  <2>1. UNCHANGED <<active_vdec, kpc, running, tail, sem>>
    BY <1>15, ConnectManages
  <2>. QED
    BY <1>1, <1>10, <2>1
<1>16. ASSUME NEW f \in Mains, Link(f)
       PROVE  Wakes'
  <2>1. UNCHANGED <<active_vdec, kpc, running, tail>> /\ sem' = sem + 1
    BY <1>16 DEF Link, driver
  <2>. QED
    BY <1>1, <1>10, <2>1
<1>17. CASE UNCHANGED vars
  BY <1>1, <1>17 DEF Wakes, vars, kvars, lists, driver
<1>18. CASE CoreStep
  BY <1>2, <1>3, <1>4, <1>5, <1>6, <1>7, <1>8, <1>9, <1>18 DEF CoreStep
<1>19. ASSUME NEW v \in Vdecs, DriverStep(v) \/ Refill(v)
       PROVE  Wakes'
  BY <1>11, <1>12, <1>13, <1>19 DEF DriverStep
<1>. QED
  BY <1>14, <1>15, <1>16, <1>17, <1>18, <1>19, UserSteps DEF Next

-----------------------------------------------------------------------------
(* The theorems *)

\* The core starts with empty lists, every file closed.
LEMMA InitInv == Init => IInv
<1> SUFFICES ASSUME Init PROVE IInv
  OBVIOUS
<1>1. TypeOK
  BY InitType
<1>2. OnOneList
  <2>1. connected = <<>> /\ disconnecting = <<>> /\ \A v \in Vdecs : status[v] = "FREED"
    BY DEF Init
  <2>2. Len(<<>>) = 0 /\ Once(<<>>) /\ Range(<<>>) = {}
    BY DEF Once, Range
  <2>. QED
    BY <2>1, <2>2 DEF OnOneList, Managed
<1>3. Leaving /\ Together /\ Owner /\ Wakes
  <2>1. /\ Range(disconnecting) = {}
        /\ \A v \in Vdecs : status[v] = "FREED" /\ ~running[v]
    BY DEF Init, Range
  <2>2. \A f \in Mains : upc[f] = "closed" /\ uvdec[f] \in Both(f)
    BY FileFacts DEF Init
  <2>3. Leaving
    BY <2>1 DEF Leaving, Managed
  <2>4. Together
    BY <2>1, <2>2, FileFacts DEF Together, Managed, Vdecs
  <2>. QED
    BY <2>1, <2>3, <2>4 DEF Init, Owner, Wakes
<1>. QED
  BY <1>1, <1>2, <1>3 DEF IInv

\* Every step keeps the invariant.
LEMMA StepInv == IInv /\ [Next]_vars => IInv'
BY TypeStep, OnOneListStep, LeavingStep, TogetherStep, OwnerStep, WakesStep DEF IInv

\* The invariant of the core: what the proofs below rest on.
THEOREM Invariance == Spec => []IInv
BY InitInv, StepInv, PTL DEF Spec

\* Every variable keeps its type.
THEOREM TypeCorrect == Spec => []TypeOK
<1>1. IInv => TypeOK
  BY DEF IInv
<1>. QED
  BY <1>1, Invariance, PTL

\* However many files share it, the hardware has one owner at most, and the
\* interrupt handlers find it.
THEOREM OneOwner == Spec => []HwHasOneOwner
<1>1. IInv => HwHasOneOwner
  BY DEF IInv, Owner, HwHasOneOwner
<1>. QED
  BY <1>1, Invariance, PTL

\* A decoder is on one list, once, and only while it is connected or active;
\* the round robin goes on from one that is on the list.
THEOREM Lists == Spec => []ListsRight
<1>1. ASSUME IInv PROVE ListsRight
  <2>1. Apart(connected, disconnecting)
    BY <1>1, NowApart
  <2>2. /\ Once(connected \o disconnecting)
        /\ connected \o disconnecting \in Seq(Vdecs)
        /\ Range(connected \o disconnecting) = Range(connected) \cup Range(disconnecting)
    BY <2>1, ConcatFacts DEF Apart
  <2>3. DOMAIN (connected \o disconnecting) = 1..Len(connected \o disconnecting)
    BY <2>2
  <2>4. Range(connected) \subseteq Vdecs /\ Range(disconnecting) \subseteq Vdecs
    BY <2>1, RangeFacts DEF Apart
  <2>5. \A v \in Range(connected) \cup Range(disconnecting) : Managed(v)
    BY <1>1, <2>4 DEF IInv, OnOneList
  <2>6. active_vdec # None => Listed(active_vdec)
    BY <1>1 DEF IInv, Owner
  <2>. HIDE DEF Managed
  <2>. QED
    BY <2>2, <2>3, <2>5, <2>6 DEF ListsRight, Once
<1>. QED
  BY <1>1, Invariance, PTL

\* A file whose decoders vdec_disconnect() gave back can free them: the core
\* thread, its lists and the hardware have forgotten them.
THEOREM Quiet == Spec => []DisconnectedIsQuiet
<1>1. ASSUME IInv, NEW f \in Mains, upc[f] \in {"disconnected", "closed"},
             NEW v \in Both(f)
      PROVE  /\ ~Managed(v) /\ ~running[v]
             /\ v \notin {active_vdec, kvdec}
             /\ v \notin Range(connected \o disconnecting)
  <2>1. v \in Vdecs /\ v # None
    BY FileFacts, VdecCoreAssumption DEF Vdecs
  <2>2. ~Managed(v)
    BY <1>1 DEF IInv, Together, Asked
  <2>3. v \notin Range(connected) /\ v \notin Range(disconnecting)
    BY <1>1, <2>1, <2>2 DEF IInv, OnOneList
  <2>4. Range(connected \o disconnecting) = Range(connected) \cup Range(disconnecting)
    BY <1>1, NowApart, ConcatFacts DEF Apart
  <2>5. v \notin {active_vdec, kvdec} /\ ~running[v]
    BY <1>1, <2>1, <2>3 DEF IInv, Owner, Listed
  <2>. QED
    BY <2>2, <2>3, <2>4, <2>5
<1>2. IInv => DisconnectedIsQuiet
  BY <1>1 DEF DisconnectedIsQuiet
<1>. QED
  BY <1>2, Invariance, PTL

\* While the thread waits for the semaphore someone will wake it up.
THEOREM SomeoneWakes == Spec => []WakeupComes
<1>1. ASSUME IInv PROVE WakeupComes
  <2>1. active_vdec \in Vdecs \cup {None} /\ sem \in Nat
    BY <1>1, TypeSplit DEF IInv, CoreType
  <2>. QED
    BY <1>1, <2>1 DEF IInv, Wakes, WakeupComes
<1>. QED
  BY <1>1, Invariance, PTL

-----------------------------------------------------------------------------
(* The core implements DecoderHw. *)

\* The hardware as DecoderHw sees it
Image == <<{v \in Vdecs : running[v]}, {f \in Mains : Attached(f)}>>

\* A step of one file's user attaches it, detaches it, or does neither.
LEMMA FileImplements ==
  ASSUME NEW f \in Mains, running' = running,
         \A g \in Mains : g # f => (Attached(g)' <=> Attached(g)),
         \A v \in Vdecs : running[v] /\ FileOf(v) = f => Attached(f)'
  PROVE  [HW!Next]_Image
<1>. USE DEF HW!Next, HW!Attach, HW!Detach
<1>1. CASE Attached(f)'
  <2>1. {g \in Mains : Attached(g)}' = {g \in Mains : Attached(g)} \cup {f}
    BY <1>1
  <2>2. HW!Attach(f)
    BY <2>1
  <2>. QED
    BY <2>2
<1>2. CASE ~Attached(f)'
  <2>1. {g \in Mains : Attached(g)}' = {g \in Mains : Attached(g)} \ {f}
    BY <1>2
  <2>2. HW!Detach(f)
    BY <1>2, <2>1
  <2>. QED
    BY <2>2
<1>. QED
  BY <1>1, <1>2

\* While it gives no decoder the hardware, the core thread changes nothing.
LEMMA CoreAttached ==
  ASSUME IInv, CoreStep \/ \E v \in Vdecs : DriverStep(v) \/ Refill(v)
  PROVE  \A f \in Mains : Attached(f)' <=> Attached(f)
<1>1. UNCHANGED user
  BY UserUntouched
<1>2. CASE \A v \in Vdecs : Managed(v)' <=> Managed(v)
  BY <1>1, <1>2, FileFacts DEF Attached, user
<1>3. ASSUME NEW w \in Vdecs, Removed(w), \A v \in Vdecs \ {w} : Managed(v)' <=> Managed(v)
      PROVE  \A f \in Mains : Attached(f)' <=> Attached(f)
  <2>1. w \in Range(disconnecting)
    BY <1>3, RemovedLists
  <2>2. upc[FileOf(w)] \in {"ask", "wait"}
    BY <2>1 DEF IInv, OnOneList, Leaving, Asked
  <2>. QED
    BY <1>1, <1>3, <2>2, FileFacts DEF Attached, user
<1>. QED
  BY <1>2, <1>3, CoreManages

\* Every step is one of DecoderHw's, or changes nothing it knows of.
LEMMA StepImplements == IInv /\ [Next]_vars => [HW!Next]_Image
<1> SUFFICES ASSUME IInv, [Next]_vars PROVE [HW!Next]_Image
  OBVIOUS
<1>1. /\ Owner /\ CoreType
      /\ \A v \in Vdecs : running[v] => Managed(v)
  BY TypeSplit DEF IInv, Owner, Managed
<1>2. ASSUME NEW v \in Vdecs, Start(v)
      PROVE  [HW!Next]_Image
  <2>1. kvdec = v /\ v # None /\ status[v] # "ACTIVE"
    BY <1>2 DEF Start, Starts
  <2>2. {u \in Vdecs : running[u]} = {}
    BY <1>1, <2>1 DEF Owner
  <2>3. {u \in Vdecs : running[u]}' = {v}
    BY <1>1, <1>2, <2>2 DEF Start, CoreType, Flags
  <2>4. \A f \in Mains : Attached(f)' <=> Attached(f)
    BY <1>2, CoreAttached DEF CoreStep
  <2>5. FileOf(v) \in {f \in Mains : Attached(f)}
    <3>1. Managed(v)
      BY <1>1, <2>1 DEF Owner, Listed, IInv, OnOneList
    <3>. QED
      BY <3>1, FileFacts DEF Attached
  <2>6. HW!Take(v)
    BY <2>2, <2>3, <2>4, <2>5 DEF HW!Take
  <2>. QED
    BY <2>6 DEF HW!Next
<1>3. ASSUME NEW v \in Vdecs, Finish(v)
      PROVE  [HW!Next]_Image
  <2>1. {u \in Vdecs : running[u]}' = {u \in Vdecs : running[u]} \ {v}
    BY <1>1, <1>3 DEF Finish, CoreType, Flags
  <2>2. \A f \in Mains : Attached(f)' <=> Attached(f)
    BY <1>3, CoreAttached DEF DriverStep
  <2>3. HW!GiveBack(v)
    BY <1>3, <2>1, <2>2 DEF HW!GiveBack, Finish
  <2>. QED
    BY <2>3 DEF HW!Next
<1>4. ASSUME running' = running, \A f \in Mains : Attached(f)' <=> Attached(f)
      PROVE  [HW!Next]_Image
  BY <1>4 DEF Image
<1>5. CASE CoreStep
  <2>1. CASE \E v \in Vdecs : Start(v)
    BY <1>2, <2>1
  <2>2. CASE \A v \in Vdecs : ~Start(v)
    <3>1. running' = running
      BY <1>5, <2>2 DEF CoreStep, Down, Clean, Scan, Idle, NoStart, Again, Keep, Choose,
                        Unlock, Removed, driver
    <3>. QED
      BY <1>4, <1>5, <3>1, CoreAttached
  <2>. QED
    BY <2>1, <2>2
<1>6. ASSUME NEW v \in Vdecs, Callback(v) \/ Refill(v)
      PROVE  [HW!Next]_Image
  <2>1. running' = running
    BY <1>6 DEF Callback, Refill
  <2>. QED
    BY <1>4, <1>6, <2>1, CoreAttached DEF DriverStep
<1>7. ASSUME NEW f \in Mains, Elsewhere(f) \/ Connect(f) \/ Link(f)
      PROVE  [HW!Next]_Image
  <2>1. /\ running' = running
        /\ \A v \in Vdecs : v \notin Both(f) => (Managed(v)' <=> Managed(v))
        /\ \A v \in Vdecs : Managed(v) => Managed(v)'
    <3>1. CASE Elsewhere(f)
      BY <3>1, ElsewhereManages
    <3>2. CASE Connect(f)
      <4>1. /\ running' = running
            /\ \A v \in Both(f) : ~Managed(v)
            /\ \A v \in Vdecs : v \notin Both(f) => status'[v] = status[v]
        BY <3>2, ConnectManages
      <4>. QED
        BY <4>1 DEF Managed
    <3>3. CASE Link(f)
      BY <3>3 DEF Link, driver, Managed
    <3>. QED
      BY <1>7, <3>1, <3>2, <3>3
  <2>2. \A g \in Mains : g # f => upc'[g] = upc[g] /\ \A v \in Both(g) : v \notin Both(f)
    BY <1>7, UserOnly, FileFacts
  <2>3. \A g \in Mains : g # f => (Attached(g)' <=> Attached(g))
    BY <2>1, <2>2, FileFacts DEF Attached
  <2>4. \A v \in Vdecs : running[v] /\ FileOf(v) = f => Attached(f)'
    BY <1>1, <2>1, FileFacts DEF Attached
  <2>. QED
    BY <2>1, <2>3, <2>4, FileImplements
<1>8. CASE UNCHANGED vars
  <2>1. running' = running /\ status' = status /\ upc' = upc
    BY <1>8 DEF vars, driver, user
  <2>. QED
    BY <1>4, <2>1 DEF Attached, Managed
<1>. QED
  BY <1>3, <1>5, <1>6, <1>7, <1>8, UserSteps DEF Next, DriverStep

\* What the files and the drivers can rely on: the hardware has one owner, of
\* a connected file, who keeps it until he gives it back.
THEOREM Implements == Spec => HwSpec
<1>1. Init => HW!Init
  <2>1. ASSUME Init
        PROVE  /\ \A v \in Vdecs : ~running[v] /\ ~Managed(v)
               /\ \A f \in Mains : upc[f] = "closed"
    BY <2>1 DEF Init, Managed
  <2>. QED
    BY <2>1, FileFacts DEF HW!Init, Attached
<1>. QED
  BY <1>1, StepImplements, Invariance, PTL DEF Spec, HwSpec, HW!Spec, HW!vars, Image
=============================================================================
