--------------------------- MODULE ThreadRwProofs ---------------------------
(***************************************************************************)
(* Proofs about ThreadRw, for any number of writers, buffers and bytes.    *)
(***************************************************************************)
EXTENDS ThreadRw, TLAPS

-----------------------------------------------------------------------------
(* Operators *)

\* Rounding up to the codec_mm granule does not lose bytes.
LEMMA AlignUpBound ==
  ASSUME NEW n \in Nat
  PROVE  AlignUp(n) \in Nat /\ AlignUp(n) >= n
<1> DEFINE q == (n + CmaAlign - 1) \div CmaAlign
<1>1. CmaAlign \in Nat \ {0}
  BY ThreadRwAssumption
<1>2. q \in Nat /\ n + CmaAlign - 1 < (q + 1) * CmaAlign
  BY <1>1
<1>3. (q + 1) * CmaAlign = q * CmaAlign + CmaAlign
  BY <1>1, <1>2
<1>4. q * CmaAlign \in Nat
  BY <1>1, <1>2
<1>. QED
  BY <1>1, <1>2, <1>3, <1>4 DEF AlignUp

\* Dividing the size to grow by.
LEMMA DivNat ==
  ASSUME NEW a \in Nat, NEW b \in Nat \ {0}
  PROVE  a \div b \in Nat
OBVIOUS

\* An allocation yields at most the buffers asked for; if it yields any, the
\* first has the size asked for at least, when there is room for it.
LEMMA AllocationShape ==
  ASSUME NEW n \in Nat, NEW bs \in Nat, NEW sizes \in Allocations(n, bs)
  PROVE  /\ sizes \in Seq(Nat) /\ Len(sizes) <= n
         /\ \A i \in 1..Len(sizes) : sizes[i] >= bs
         /\ Bytes(sizes, bs) \in Nat
<1>1. /\ sizes \in Seq(Nat) /\ Len(sizes) <= n
      /\ \A i \in 1..Len(sizes) : sizes[i] >= bs
  <2>1. CASE \E k \in 0..n : sizes = [i \in 1..k |-> bs]
    BY <2>1
  <2>2. CASE sizes = Chunk(n, bs)
    <3>1. bs * n \in Nat
      OBVIOUS
    <3>2. AlignUp(bs * n) \in Nat /\ AlignUp(bs * n) >= bs * n
      BY <3>1, AlignUpBound
    <3>3. bs * (n - 1) = bs * n - bs
      OBVIOUS
    <3>4. AlignUp(bs * n) - bs * (n - 1) \in Nat
             /\ AlignUp(bs * n) - bs * (n - 1) >= bs
      BY <3>1, <3>2, <3>3
    <3>. HIDE DEF AlignUp
    <3>. QED
      BY <2>2, <3>4 DEF Chunk
  <2>. QED
    BY <2>1, <2>2 DEF Allocations
<1>2. sizes # <<>> => bs * (Len(sizes) - 1) \in Nat
  BY <1>1
<1>. QED
  BY <1>1, <1>2 DEF Bytes

\* What appending to a kfifo and removing its head leave in it.
LEMMA AppendShape ==
  ASSUME NEW S, NEW q \in Seq(S), NEW e \in S
  PROVE  /\ Append(q, e) \in Seq(S) /\ Len(Append(q, e)) = Len(q) + 1
         /\ \A i \in 1..Len(q) : Append(q, e)[i] = q[i]
         /\ Append(q, e)[Len(q) + 1] = e
OBVIOUS

\* ... and of one with another at its end,
LEMMA ConcatShape ==
  ASSUME NEW S, NEW p \in Seq(S), NEW q \in Seq(S)
  PROVE  /\ p \o q \in Seq(S) /\ Len(p \o q) = Len(p) + Len(q)
         /\ Len(p) \in Nat /\ Len(q) \in Nat
         /\ \A i \in 1..Len(p) : (p \o q)[i] = p[i]
         /\ \A i \in Len(p) + 1 .. Len(p) + Len(q) :
              (p \o q)[i] = q[i - Len(p)]
OBVIOUS

\* ... and of one without its head.
LEMMA TailShape ==
  ASSUME NEW S, NEW q \in Seq(S), q # <<>>
  PROVE  /\ Head(q) = q[1] /\ Head(q) \in S /\ Len(q) \in Nat \ {0}
         /\ Tail(q) \in Seq(S) /\ Len(Tail(q)) = Len(q) - 1
         /\ \A i \in 1..Len(q) - 1 : Tail(q)[i] = q[i + 1]
OBVIOUS

-----------------------------------------------------------------------------
(* Types *)

\* The allocations of threadrw_alloc_in() have the types the task needs.
LEMMA InitType == Init => TypeOK /\ HasBlock
<1> SUFFICES ASSUME Init PROVE TypeOK /\ HasBlock
  OBVIOUS
<1>. USE ThreadRwAssumption
<1>1. PICK sizes \in Allocations(InitNum, Block) :
         /\ Len(sizes) >= 3 \/ Len(sizes) = InitNum
         /\ buf = AddBuffers([i \in BufIds |-> NoData(0)], 0, sizes)
         /\ bufs_num = Len(sizes) /\ buffer_size = Bytes(sizes, Block)
         /\ freefifo = NewIds(0, sizes)
  BY DEF Init
<1>2. /\ sizes \in Seq(Nat) /\ Len(sizes) \in 1..MaxBufs
      /\ \A i \in 1..Len(sizes) : sizes[i] >= Block
      /\ Bytes(sizes, Block) \in Nat
  BY <1>1, AllocationShape
<1>3. freefifo \in Seq(BufIds \cup {UserPtr})
  BY <1>1, <1>2 DEF NewIds, BufIds
<1>4. buf \in [BufIds -> [before : Nat, write_off : Nat, data_size : Nat,
                          buffer_size : Nat]]
  BY <1>1, <1>2 DEF AddBuffers, BufIds, NoData, RwBuf
<1>5. HasBlock
  BY <1>1, <1>2 DEF HasBlock, def_block_size, AddBuffers, BufIds, NoData, RwBuf
<1>6. QueuesType
  <2>1. datafifo = <<>>
    BY DEF Init
  <2>2. datafifo \in Seq(BufIds)
    BY <2>1
  <2>3. bufs_num \in 0..MaxBufs /\ buffer_size \in Nat
    BY <1>1, <1>2
  <2>. QED
    BY <1>3, <1>4, <2>2, <2>3 DEF QueuesType
<1>7. CountsType
  BY DEF Init, CountsType
<1>8. WorkType
  <2>1. played = <<>>
    BY DEF Init
  <2>2. played \in Seq(Nat)
    BY <2>1
  <2>3. /\ failed_onmore = FALSE /\ errors = FALSE /\ mutex = Nobody
        /\ pending = FALSE /\ cancelling = FALSE /\ wpc = "off" /\ wret = 0
        /\ rpc = "open"
    BY DEF Init
  <2>. QED
    BY <2>2, <2>3 DEF WorkType
<1>9. WritersType
  BY DEF Init, WritersType
<1>. QED
  BY <1>5, <1>6, <1>7, <1>8, <1>9 DEF TypeOK


\* The steps that change a fifo or a buffer.
LEMMA QueueSteps ==
  ASSUME [Next]_vars
  PROVE  \/ \E w \in Writers :
              OnceCopy(w) \/ OnceFault(w) \/ OnceOops(w) \/ Grow(w)
         \/ WorkAccount
         \/ UNCHANGED <<datafifo, freefifo, buf, bufs_num, buffer_size>>
<1>. USE DEF task
<1>1. ASSUME NEW w \in Writers, NEW n \in Counts, BeginWrite(w, n)
      PROVE  UNCHANGED <<datafifo, freefifo, buf, bufs_num, buffer_size>>
  BY <1>1 DEF BeginWrite
<1>2. ASSUME NEW w \in Writers, BeginFlush(w) \/ WriterStep(w),
             ~(OnceCopy(w) \/ OnceFault(w) \/ OnceOops(w) \/ Grow(w))
      PROVE  UNCHANGED <<datafifo, freefifo, buf, bufs_num, buffer_size>>
  BY <1>2 DEF BeginFlush, WriterStep, LockWrite, OnceSleep, OnceNone,
              SleepEnd, Account, ReturnAgain, DecideGrow,
              GrowDone, FlushPoll, FlushDone
<1>3. ASSUME WorkerStep, ~WorkAccount
      PROVE  UNCHANGED <<datafifo, freefifo, buf, bufs_num, buffer_size>>
  BY <1>3 DEF WorkerStep, WorkStart, WorkLock, WorkNoData, WorkDeliver,
              WorkAgain, WorkError, WorkResched
<1>4. ASSUME ReleaseCancel \/ ReleaseStep \/ Released \/ UNCHANGED vars
      PROVE  UNCHANGED <<datafifo, freefifo, buf, bufs_num, buffer_size>>
  BY <1>4 DEF ReleaseCancel, ReleaseStep, ReleaseSync, ReleaseFree, Released,
              vars
<1>. QED
  BY <1>1, <1>2, <1>3, <1>4 DEF Next

\* What the new buffers of a growing task are.
LEMMA GrowShape ==
  ASSUME TypeOK, HasBlock, NEW w \in Writers, Grow(w)
  PROVE  \E sizes \in Seq(Nat) :
           /\ Len(sizes) <= MaxBufs - bufs_num
           /\ Bytes(sizes, def_block_size) \in Nat
           /\ buf' = AddBuffers(buf, bufs_num, sizes)
           /\ freefifo' = freefifo \o NewIds(bufs_num, sizes)
           /\ bufs_num' = bufs_num + Len(sizes)
           /\ buffer_size' = buffer_size + Bytes(sizes, def_block_size)
<1>. USE DEF TypeOK, QueuesType
<1>1. def_block_size \in Nat \ {0}
  BY ThreadRwAssumption DEF HasBlock, def_block_size, BufIds
<1>2. NewNum \in Nat /\ NewNum <= MaxBufs - bufs_num
  <2>1. GrowSize \div def_block_size \in Nat
    BY <1>1, ThreadRwAssumption, DivNat
  <2>2. MaxBufs - bufs_num \in Nat
    BY ThreadRwAssumption
  <2>. QED
    BY <2>1, <2>2 DEF NewNum, Smaller
<1>3. PICK sizes \in Allocations(NewNum, def_block_size) :
         /\ buf' = AddBuffers(buf, bufs_num, sizes)
         /\ freefifo' = freefifo \o NewIds(bufs_num, sizes)
         /\ bufs_num' = bufs_num + Len(sizes)
         /\ buffer_size' = buffer_size + Bytes(sizes, def_block_size)
  BY DEF Grow
<1>4. /\ sizes \in Seq(Nat) /\ Len(sizes) <= NewNum
      /\ Bytes(sizes, def_block_size) \in Nat
  BY <1>1, <1>2, AllocationShape
<1>5. Len(sizes) <= MaxBufs - bufs_num
  BY <1>2, <1>4, ThreadRwAssumption
<1>. QED
  BY <1>3, <1>4, <1>5

\* The fifos hold numbers of buffers, and user addresses.
LEMMA QueuesStep == IInv /\ [Next]_vars => QueuesType'
<1> SUFFICES ASSUME IInv, [Next]_vars PROVE QueuesType'
  OBVIOUS
<1>1. QueuesType /\ TypeOK
  BY DEF IInv, TypeOK
<1>2. ASSUME NEW w \in Writers, OnceCopy(w) PROVE QueuesType'
  <2>. DEFINE b == Head(freefifo)
              n == Smaller(buf[b].buffer_size, left[w])
  <2>1. b \in BufIds /\ Tail(freefifo) \in Seq(BufIds \cup {UserPtr})
    <3>1. freefifo \in Seq(BufIds \cup {UserPtr}) /\ freefifo # <<>>
            /\ b # UserPtr
      BY <1>1, <1>2 DEF OnceCopy, QueuesType
    <3>. QED
      BY <3>1, TailShape
  <2>2. n \in Nat /\ data_offset + off[w] \in Nat
    BY <1>1, <2>1 DEF Smaller, TypeOK, QueuesType, CountsType, WritersType
  <2>3. RwBuf(data_offset + off[w], 0, n, buf[b].buffer_size)
          \in [before : Nat, write_off : Nat, data_size : Nat,
               buffer_size : Nat]
    BY <1>1, <2>1, <2>2 DEF RwBuf, QueuesType
  <2>4. datafifo' \in Seq(BufIds)
    BY <1>1, <1>2, <2>1, AppendShape DEF OnceCopy, QueuesType
  <2>. QED
    BY <1>1, <1>2, <2>1, <2>3, <2>4 DEF OnceCopy, QueuesType
<1>3. ASSUME NEW w \in Writers, OnceFault(w) \/ OnceOops(w) PROVE QueuesType'
  <2>1. Tail(freefifo) \in Seq(BufIds \cup {UserPtr})
    BY <1>1, <1>3 DEF OnceFault, OnceOops, QueuesType
  <2>2. Append(Tail(freefifo), UserPtr) \in Seq(BufIds \cup {UserPtr})
    BY <2>1
  <2>. QED
    BY <1>1, <1>3, <2>1, <2>2 DEF OnceFault, OnceOops, QueuesType
<1>4. ASSUME NEW w \in Writers, Grow(w) PROVE QueuesType'
  <2>1. PICK sizes \in Seq(Nat) :
           /\ Len(sizes) <= MaxBufs - bufs_num
           /\ Bytes(sizes, def_block_size) \in Nat
           /\ buf' = AddBuffers(buf, bufs_num, sizes)
           /\ freefifo' = freefifo \o NewIds(bufs_num, sizes)
           /\ bufs_num' = bufs_num + Len(sizes)
           /\ buffer_size' = buffer_size + Bytes(sizes, def_block_size)
    BY <1>1, <1>4, GrowShape DEF IInv
  <2>2. NewIds(bufs_num, sizes) \in Seq(BufIds \cup {UserPtr})
    BY <1>1, <2>1, ThreadRwAssumption DEF NewIds, BufIds, QueuesType
  <2>3. buf' \in [BufIds -> [before : Nat, write_off : Nat, data_size : Nat,
                             buffer_size : Nat]]
    <3>1. ASSUME NEW i \in BufIds
          PROVE  buf'[i] \in [before : Nat, write_off : Nat, data_size : Nat,
                              buffer_size : Nat]
      <4>1. CASE i \in bufs_num + 1 .. bufs_num + Len(sizes)
        <5>1. bufs_num \in Nat /\ Len(sizes) \in Nat
          BY <1>1, ThreadRwAssumption DEF QueuesType
        <5>2. i - bufs_num \in 1..Len(sizes)
          BY <4>1, <5>1
        <5>3. sizes[i - bufs_num] \in Nat
          BY <5>2
        <5>4. buf'[i] = NoData(sizes[i - bufs_num])
          BY <2>1, <4>1 DEF AddBuffers
        <5>. QED
          BY <5>3, <5>4 DEF NoData, RwBuf
      <4>2. CASE i \notin bufs_num + 1 .. bufs_num + Len(sizes)
        BY <1>1, <2>1, <4>2 DEF AddBuffers, QueuesType
      <4>. QED
        BY <4>1, <4>2
    <3>. QED
      BY <2>1, <3>1 DEF AddBuffers
  <2>4. freefifo' \in Seq(BufIds \cup {UserPtr})
    BY <1>1, <2>1, <2>2 DEF QueuesType
  <2>5. bufs_num' \in 0..MaxBufs /\ buffer_size' \in Nat
    BY <1>1, <2>1, ThreadRwAssumption DEF QueuesType
  <2>. QED
    BY <1>1, <1>4, <2>3, <2>4, <2>5 DEF Grow, QueuesType
<1>5. ASSUME WorkAccount PROVE QueuesType'
  <2>. DEFINE b == Head(datafifo)
  <2>1. /\ b \in BufIds /\ Tail(datafifo) \in Seq(BufIds)
        /\ wret \in Nat /\ wret <= buf[b].data_size
    BY <1>1, <1>5, TailShape
       DEF IInv, WorkerHasHead, WorkAccount, QueuesType
  <2>2. Append(freefifo, b) \in Seq(BufIds \cup {UserPtr})
    BY <1>1, <2>1 DEF QueuesType
  <2>3. /\ NoData(buf[b].buffer_size)
             \in [before : Nat, write_off : Nat, data_size : Nat,
                  buffer_size : Nat]
        /\ Advance(b, wret)
             \in [before : Nat, write_off : Nat, data_size : Nat,
                  buffer_size : Nat]
    BY <1>1, <2>1 DEF NoData, Advance, RwBuf, QueuesType
  <2>4. /\ datafifo' = Tail(datafifo) \/ datafifo' = datafifo
        /\ freefifo' = Append(freefifo, b) \/ freefifo' = freefifo
        /\ bufs_num' = bufs_num /\ buffer_size' = buffer_size
    BY <1>5 DEF WorkAccount, Recycle
  <2>. QED
    BY <1>1, <1>5, <2>1, <2>2, <2>3, <2>4 DEF WorkAccount, Recycle, QueuesType
<1>6. ASSUME UNCHANGED <<datafifo, freefifo, buf, bufs_num, buffer_size>>
      PROVE  QueuesType'
  BY <1>1, <1>6 DEF QueuesType
<1>. QED
  BY <1>2, <1>3, <1>4, <1>5, <1>6, QueueSteps

\* The byte counters do not become negative.
LEMMA CountsStep == IInv /\ [Next]_vars => CountsType'
<1> SUFFICES ASSUME IInv, [Next]_vars PROVE CountsType'
  OBVIOUS
<1>. USE DEF CountsType, counts
<1>1. CountsType /\ WritersType /\ WorkType
  BY DEF IInv, TypeOK
<1>2. ASSUME NEW w \in Writers, Account(w) PROVE CountsType'
  BY <1>1, <1>2 DEF Account, WritersType
<1>3. ASSUME WorkAccount PROVE CountsType'
  BY <1>1, <1>3 DEF WorkAccount, CountPassed, WorkType
<1>4. ASSUME NEW w \in Writers, NEW n \in Counts, BeginWrite(w, n)
      PROVE  UNCHANGED counts
  BY <1>4 DEF BeginWrite
<1>5. ASSUME NEW w \in Writers, BeginFlush(w) \/ WriterStep(w), ~Account(w)
      PROVE  UNCHANGED counts
  BY <1>5 DEF BeginFlush, WriterStep, LockWrite, OnceCopy, OnceFault,
              OnceOops, OnceSleep, OnceNone, SleepEnd,
              ReturnAgain, DecideGrow, Grow, GrowDone, FlushPoll, FlushDone
<1>6. ASSUME WorkerStep, ~WorkAccount
      PROVE  UNCHANGED counts
  BY <1>6 DEF WorkerStep, WorkStart, WorkLock, WorkNoData, WorkDeliver,
              WorkAgain, WorkError, WorkResched
<1>7. ASSUME ReleaseCancel \/ ReleaseStep \/ Released \/ UNCHANGED vars
      PROVE  UNCHANGED counts
  BY <1>7 DEF ReleaseCancel, ReleaseStep, ReleaseSync, ReleaseFree, Released,
              vars
<1>8. UNCHANGED counts => CountsType'
  BY <1>1
<1>. QED
  BY <1>2, <1>3, <1>4, <1>5, <1>6, <1>7, <1>8 DEF Next

\* What the work item offers and was told is a number of bytes.
LEMMA WorkTypeStep == IInv /\ [Next]_vars => WorkType'
<1> SUFFICES ASSUME IInv, [Next]_vars PROVE WorkType'
  OBVIOUS
<1>. USE DEF WorkType, task, work, Schedule
<1>1. WorkType
  BY DEF IInv, TypeOK
<1>2. ASSUME NEW w \in Writers, NEW n \in Counts, BeginWrite(w, n)
      PROVE  WorkType'
  BY <1>1, <1>2 DEF BeginWrite
<1>3. ASSUME NEW w \in Writers,
             BeginFlush(w) \/ LockWrite(w) \/ OnceCopy(w) \/ OnceFault(w)
               \/ OnceOops(w) \/ OnceSleep(w) \/ OnceNone(w)
      PROVE  WorkType'
  <2>1. BeginFlush(w) \/ LockWrite(w) \/ OnceCopy(w) => WorkType'
    BY <1>1 DEF BeginFlush, LockWrite, OnceCopy
  <2>2. OnceFault(w) \/ OnceOops(w) => WorkType'
    BY <1>1 DEF OnceFault, OnceOops
  <2>3. OnceSleep(w) \/ OnceNone(w) => WorkType'
    BY <1>1 DEF OnceSleep, OnceNone
  <2>. QED
    BY <1>3, <2>1, <2>2, <2>3
<1>4. ASSUME NEW w \in Writers,
             SleepEnd(w) \/ Account(w) \/ ReturnAgain(w)
               \/ DecideGrow(w) \/ Grow(w) \/ GrowDone(w) \/ FlushPoll(w)
               \/ FlushDone(w)
      PROVE  WorkType'
  <2>1. SleepEnd(w) \/ Account(w) => WorkType'
    BY <1>1 DEF SleepEnd, Account
  <2>2. ReturnAgain(w) \/ DecideGrow(w) => WorkType'
    BY <1>1 DEF ReturnAgain, DecideGrow
  <2>3. Grow(w) \/ GrowDone(w) => WorkType'
    BY <1>1 DEF Grow, GrowDone
  <2>4. FlushPoll(w) \/ FlushDone(w) => WorkType'
    BY <1>1 DEF FlushPoll, FlushDone
  <2>. QED
    BY <1>4, <2>1, <2>2, <2>3, <2>4
<1>5. ASSUME WorkDeliver PROVE WorkType'
  <2>. DEFINE b == Head(datafifo)
  <2>1. PICK n \in 1..buf[b].data_size :
          /\ played' = played \o
               [i \in 1..n |-> buf[b].before + buf[b].write_off + i]
          /\ wret' = n
    BY <1>5 DEF WorkDeliver
  <2>2. /\ buf[b].data_size \in Nat /\ buf[b].before \in Nat
        /\ buf[b].write_off \in Nat
    <3>1. b \in BufIds
      BY <1>5, TailShape
         DEF IInv, TypeOK, QueuesType, WorkerHasHead, WorkDeliver
    <3>. QED
      BY <3>1 DEF IInv, TypeOK, QueuesType
  <2>3. [i \in 1..n |-> buf[b].before + buf[b].write_off + i] \in Seq(Nat)
    BY <2>2
  <2>4. played' \in Seq(Nat) /\ n \in Nat
    BY <1>1, <2>1, <2>2, <2>3
  <2>. QED
    BY <1>1, <1>5, <2>1, <2>4 DEF WorkDeliver
<1>6. ASSUME WorkerStep, ~WorkDeliver PROVE WorkType'
  <2>1. CASE WorkStart \/ WorkLock \/ WorkNoData
    BY <1>1, <2>1 DEF WorkStart, WorkLock, WorkNoData
  <2>2. CASE WorkAgain \/ WorkError
    BY <1>1, <2>2 DEF WorkAgain, WorkError
  <2>3. CASE WorkAccount
    BY <1>1, <2>3 DEF WorkAccount
  <2>4. CASE WorkResched
    BY <1>1, <2>4 DEF WorkResched
  <2>. QED
    BY <1>6, <2>1, <2>2, <2>3, <2>4 DEF WorkerStep
<1>7. ASSUME ReleaseCancel \/ ReleaseStep \/ Released \/ UNCHANGED vars
      PROVE  WorkType'
  BY <1>1, <1>7 DEF ReleaseCancel, ReleaseStep, ReleaseSync, ReleaseFree,
                    Released, vars
<1>. QED
  BY <1>2, <1>3, <1>4, <1>5, <1>6, <1>7 DEF Next, WriterStep

\* What a writer still has to copy is a number of bytes.
LEMMA WritersStep == IInv /\ [Next]_vars => WritersType'
<1> SUFFICES ASSUME IInv, [Next]_vars PROVE WritersType'
  OBVIOUS
<1>. USE DEF WritersType, writers
<1>1. WritersType /\ QueuesType
  BY DEF IInv, TypeOK
<1>2. ASSUME NEW w \in Writers, NEW n \in Counts, BeginWrite(w, n)
      PROVE  WritersType'
  <2>1. n \in Nat
    BY ThreadRwAssumption
  <2>. QED
    BY <1>1, <1>2, <2>1 DEF BeginWrite
<1>3. ASSUME NEW w \in Writers, OnceCopy(w) PROVE WritersType'
  <2>. DEFINE b == Head(freefifo)
              n == Smaller(buf[b].buffer_size, left[w])
  <2>1. b \in BufIds
    <3>1. freefifo \in Seq(BufIds \cup {UserPtr}) /\ freefifo # <<>>
            /\ b # UserPtr
      BY <1>1, <1>3 DEF OnceCopy, QueuesType
    <3>. QED
      BY <3>1, TailShape
  <2>2. n \in Nat /\ n <= left[w]
    BY <1>1, <2>1 DEF Smaller, QueuesType
  <2>3. off[w] + n \in Nat /\ left[w] - n \in Nat
    BY <1>1, <2>2
  <2>4. /\ off' = [off EXCEPT ![w] = @ + n]
        /\ left' = [left EXCEPT ![w] = @ - n]
        /\ pc' = [pc EXCEPT ![w] = IF n = left[w] THEN "account" ELSE "once"]
        /\ ret' = [ret EXCEPT ![w] = "ok"]
        /\ UNCHANGED <<tries, old_num>>
    BY <1>3 DEF OnceCopy
  <2>5. /\ off' \in [Writers -> Nat] /\ left' \in [Writers -> Nat]
    BY <1>1, <2>3, <2>4
  <2>. QED
    BY <1>1, <2>4, <2>5
<1>4. ASSUME NEW w \in Writers,
             BeginFlush(w) \/ LockWrite(w) \/ OnceFault(w) \/ OnceOops(w)
               \/ OnceSleep(w) \/ OnceNone(w)
      PROVE  WritersType'
  <2>1. CASE BeginFlush(w)
    BY <1>1, ThreadRwAssumption, <2>1 DEF BeginFlush
  <2>2. CASE LockWrite(w)
    BY <1>1, ThreadRwAssumption, <2>2 DEF LockWrite
  <2>3. CASE OnceFault(w)
    BY <1>1, ThreadRwAssumption, <2>3 DEF OnceFault
  <2>4. CASE OnceOops(w)
    BY <1>1, ThreadRwAssumption, <2>4 DEF OnceOops
  <2>5. CASE OnceSleep(w)
    BY <1>1, ThreadRwAssumption, <2>5 DEF OnceSleep
  <2>6. CASE OnceNone(w)
    BY <1>1, ThreadRwAssumption, <2>6 DEF OnceNone
  <2>. QED
    BY <1>4, <2>1, <2>2, <2>3, <2>4, <2>5, <2>6
<1>5. ASSUME NEW w \in Writers,
             SleepEnd(w) \/ Account(w) \/ ReturnAgain(w)
               \/ DecideGrow(w)
      PROVE  WritersType'
  <2>2. CASE SleepEnd(w)
    BY <1>1, <2>2 DEF SleepEnd
  <2>3. CASE Account(w)
    BY <1>1, <2>3 DEF Account
  <2>4. CASE ReturnAgain(w)
    BY <1>1, <2>4 DEF ReturnAgain
  <2>5. CASE DecideGrow(w)
    BY <1>1, <2>5 DEF DecideGrow
  <2>. QED
    BY <1>5, <2>2, <2>3, <2>4, <2>5
<1>6. ASSUME NEW w \in Writers,
             Grow(w) \/ GrowDone(w) \/ FlushPoll(w) \/ FlushDone(w)
      PROVE  WritersType'
  <2>1. bufs_num \in Nat
    BY <1>1, ThreadRwAssumption DEF QueuesType
  <2>2. CASE Grow(w)
    BY <1>1, <2>1, <2>2 DEF Grow
  <2>3. CASE GrowDone(w)
    BY <1>1, <2>1, <2>3 DEF GrowDone
  <2>4. CASE FlushPoll(w)
    BY <1>1, <2>1, <2>4 DEF FlushPoll
  <2>5. CASE FlushDone(w)
    BY <1>1, <2>1, <2>5 DEF FlushDone
  <2>. QED
    BY <1>6, <2>2, <2>3, <2>4, <2>5
<1>7. ASSUME WorkerStep PROVE WritersType'
  BY <1>1, <1>7 DEF WorkerStep, WorkStart, WorkLock, WorkNoData, WorkDeliver,
                    WorkAgain, WorkError, WorkAccount, WorkResched
<1>8. ASSUME ReleaseCancel \/ ReleaseStep \/ Released \/ UNCHANGED vars
      PROVE  WritersType'
  BY <1>1, <1>8 DEF ReleaseCancel, ReleaseStep, ReleaseSync, ReleaseFree,
                    Released, vars
<1>. QED
  BY <1>2, <1>3, <1>4, <1>5, <1>6, <1>7, <1>8 DEF Next, WriterStep

\* All of it.
LEMMA TypeStep == IInv /\ [Next]_vars => TypeOK'
BY QueuesStep, CountsStep, WorkTypeStep, WritersStep DEF TypeOK

-----------------------------------------------------------------------------
(* The mutex, the worker and the release *)

\* A writer and the work item keep the mutex to themselves from taking it to
\* giving it back.
LEMMA LockingStep == IInv /\ [Next]_vars => Locking'
<1> SUFFICES ASSUME IInv, [Next]_vars PROVE Locking'
  OBVIOUS
<1>. USE ThreadRwAssumption DEF Locking, InWrite, WritersType, writers, work
<1>1. Locking /\ WritersType /\ Nobody # Worker
  BY DEF IInv, TypeOK, Nobody, Worker
<1>2. ASSUME NEW w \in Writers, NEW n \in Counts, BeginWrite(w, n)
      PROVE  Locking'
  BY <1>1, <1>2 DEF BeginWrite
<1>3. ASSUME NEW w \in Writers, BeginFlush(w)
      PROVE  Locking'
  BY <1>1, <1>3 DEF BeginFlush
<1>4. ASSUME NEW w \in Writers, LockWrite(w)
      PROVE  Locking'
  BY <1>1, <1>4 DEF LockWrite
<1>5. ASSUME NEW w \in Writers, OnceCopy(w)
      PROVE  Locking'
  BY <1>1, <1>5 DEF OnceCopy
<1>6. ASSUME NEW w \in Writers, OnceFault(w)
      PROVE  Locking'
  BY <1>1, <1>6 DEF OnceFault
<1>7. ASSUME NEW w \in Writers, OnceOops(w)
      PROVE  Locking'
  BY <1>1, <1>7 DEF OnceOops
<1>8. ASSUME NEW w \in Writers, OnceSleep(w)
      PROVE  Locking'
  BY <1>1, <1>8 DEF OnceSleep
<1>9. ASSUME NEW w \in Writers, OnceNone(w)
      PROVE  Locking'
  BY <1>1, <1>9 DEF OnceNone
<1>10. ASSUME NEW w \in Writers, SleepEnd(w)
      PROVE  Locking'
  BY <1>1, <1>10 DEF SleepEnd
<1>11. ASSUME NEW w \in Writers, Account(w)
      PROVE  Locking'
  BY <1>1, <1>11 DEF Account
<1>12. ASSUME NEW w \in Writers, ReturnAgain(w)
      PROVE  Locking'
  BY <1>1, <1>12 DEF ReturnAgain
<1>13. ASSUME NEW w \in Writers, DecideGrow(w)
      PROVE  Locking'
  BY <1>1, <1>13 DEF DecideGrow
<1>14. ASSUME NEW w \in Writers, Grow(w)
      PROVE  Locking'
  BY <1>1, <1>14 DEF Grow
<1>15. ASSUME NEW w \in Writers, GrowDone(w)
      PROVE  Locking'
  BY <1>1, <1>15 DEF GrowDone
<1>16. ASSUME NEW w \in Writers, FlushPoll(w)
      PROVE  Locking'
  BY <1>1, <1>16 DEF FlushPoll
<1>17. ASSUME NEW w \in Writers, FlushDone(w)
      PROVE  Locking'
  BY <1>1, <1>17 DEF FlushDone
<1>18. ASSUME WorkStart
      PROVE  Locking'
  BY <1>1, <1>18 DEF WorkStart
<1>19. ASSUME WorkLock
      PROVE  Locking'
  BY <1>1, <1>19 DEF WorkLock
<1>20. ASSUME WorkNoData
      PROVE  Locking'
  BY <1>1, <1>20 DEF WorkNoData
<1>21. ASSUME WorkDeliver
      PROVE  Locking'
  BY <1>1, <1>21 DEF WorkDeliver
<1>22. ASSUME WorkAgain
      PROVE  Locking'
  BY <1>1, <1>22 DEF WorkAgain
<1>23. ASSUME WorkError
      PROVE  Locking'
  BY <1>1, <1>23 DEF WorkError
<1>24. ASSUME WorkAccount
      PROVE  Locking'
  BY <1>1, <1>24 DEF WorkAccount
<1>25. ASSUME WorkResched
      PROVE  Locking'
  BY <1>1, <1>25 DEF WorkResched
<1>26. ASSUME ReleaseCancel
      PROVE  Locking'
  BY <1>1, <1>26 DEF ReleaseCancel
<1>27. ASSUME ReleaseSync
      PROVE  Locking'
  BY <1>1, <1>27 DEF ReleaseSync
<1>28. ASSUME ReleaseFree
      PROVE  Locking'
  BY <1>1, <1>28 DEF ReleaseFree
<1>29. ASSUME Released \/ UNCHANGED vars
      PROVE  Locking'
  BY <1>1, <1>29 DEF Released, vars
<1>. QED
  BY <1>2, <1>3, <1>4, <1>5, <1>6, <1>7, <1>8, <1>9, <1>10, <1>11,
     <1>12, <1>13, <1>14, <1>15, <1>16, <1>17, <1>18, <1>19, <1>20, <1>21,
     <1>22, <1>23, <1>24, <1>25, <1>26, <1>27, <1>28, <1>29
     DEF Next, WriterStep, WorkerStep, ReleaseStep

\* The release goes on only when nobody works on the task any more.
LEMMA ReleasingStep == IInv /\ [Next]_vars => Releasing'
<1> SUFFICES ASSUME IInv, [Next]_vars PROVE Releasing'
  OBVIOUS
<1>. USE DEF Releasing, WritersType, Schedule, writers, work
<1>1. Releasing /\ WritersType
  BY DEF IInv, TypeOK
<1>2. ASSUME NEW w \in Writers, NEW n \in Counts, BeginWrite(w, n)
      PROVE  Releasing'
  BY <1>1, <1>2 DEF BeginWrite
<1>3. ASSUME NEW w \in Writers, BeginFlush(w)
      PROVE  Releasing'
  BY <1>1, <1>3 DEF BeginFlush
<1>4. ASSUME NEW w \in Writers, LockWrite(w)
      PROVE  Releasing'
  BY <1>1, <1>4 DEF LockWrite
<1>5. ASSUME NEW w \in Writers, OnceCopy(w)
      PROVE  Releasing'
  BY <1>1, <1>5 DEF OnceCopy
<1>6. ASSUME NEW w \in Writers, OnceFault(w)
      PROVE  Releasing'
  BY <1>1, <1>6 DEF OnceFault
<1>7. ASSUME NEW w \in Writers, OnceOops(w)
      PROVE  Releasing'
  BY <1>1, <1>7 DEF OnceOops
<1>8. ASSUME NEW w \in Writers, OnceSleep(w)
      PROVE  Releasing'
  BY <1>1, <1>8 DEF OnceSleep
<1>9. ASSUME NEW w \in Writers, OnceNone(w)
      PROVE  Releasing'
  BY <1>1, <1>9 DEF OnceNone
<1>10. ASSUME NEW w \in Writers, SleepEnd(w)
      PROVE  Releasing'
  BY <1>1, <1>10 DEF SleepEnd
<1>11. ASSUME NEW w \in Writers, Account(w)
      PROVE  Releasing'
  BY <1>1, <1>11 DEF Account
<1>12. ASSUME NEW w \in Writers, ReturnAgain(w)
      PROVE  Releasing'
  BY <1>1, <1>12 DEF ReturnAgain
<1>13. ASSUME NEW w \in Writers, DecideGrow(w)
      PROVE  Releasing'
  BY <1>1, <1>13 DEF DecideGrow
<1>14. ASSUME NEW w \in Writers, Grow(w)
      PROVE  Releasing'
  BY <1>1, <1>14 DEF Grow
<1>15. ASSUME NEW w \in Writers, GrowDone(w)
      PROVE  Releasing'
  BY <1>1, <1>15 DEF GrowDone
<1>16. ASSUME NEW w \in Writers, FlushPoll(w)
      PROVE  Releasing'
  BY <1>1, <1>16 DEF FlushPoll
<1>17. ASSUME NEW w \in Writers, FlushDone(w)
      PROVE  Releasing'
  BY <1>1, <1>17 DEF FlushDone
<1>18. ASSUME WorkStart
      PROVE  Releasing'
  BY <1>1, <1>18 DEF WorkStart
<1>19. ASSUME WorkLock
      PROVE  Releasing'
  BY <1>1, <1>19 DEF WorkLock
<1>20. ASSUME WorkNoData
      PROVE  Releasing'
  BY <1>1, <1>20 DEF WorkNoData
<1>21. ASSUME WorkDeliver
      PROVE  Releasing'
  BY <1>1, <1>21 DEF WorkDeliver
<1>22. ASSUME WorkAgain
      PROVE  Releasing'
  BY <1>1, <1>22 DEF WorkAgain
<1>23. ASSUME WorkError
      PROVE  Releasing'
  BY <1>1, <1>23 DEF WorkError
<1>24. ASSUME WorkAccount
      PROVE  Releasing'
  BY <1>1, <1>24 DEF WorkAccount
<1>25. ASSUME WorkResched
      PROVE  Releasing'
  <2>1. pending \in BOOLEAN /\ rpc \in {"open", "cancel", "lock", "freed"}
    BY DEF IInv, TypeOK, WorkType
  <2>2. rpc # "open" => cancelling /\ ~pending
    BY <1>1, <1>25, <2>1 DEF WorkResched
  <2>. QED
    BY <1>1, <1>25, <2>1, <2>2 DEF WorkResched
<1>26. ASSUME ReleaseCancel
      PROVE  Releasing'
  BY <1>1, <1>26 DEF ReleaseCancel
<1>27. ASSUME ReleaseSync
      PROVE  Releasing'
  BY <1>1, <1>27 DEF ReleaseSync
<1>28. ASSUME ReleaseFree
      PROVE  Releasing'
  BY <1>1, <1>28 DEF ReleaseFree
<1>29. ASSUME Released \/ UNCHANGED vars
      PROVE  Releasing'
  BY <1>1, <1>29 DEF Released, vars
<1>. QED
  BY <1>2, <1>3, <1>4, <1>5, <1>6, <1>7, <1>8, <1>9, <1>10, <1>11,
     <1>12, <1>13, <1>14, <1>15, <1>16, <1>17, <1>18, <1>19, <1>20, <1>21,
     <1>22, <1>23, <1>24, <1>25, <1>26, <1>27, <1>28, <1>29
     DEF Next, WriterStep, WorkerStep, ReleaseStep

\* Whoever queues data or leaves some has the work item scheduled.
LEMMA AttendedStep == IInv /\ [Next]_vars => DataIsAttended'
<1> SUFFICES ASSUME IInv, [Next]_vars PROVE DataIsAttended'
  OBVIOUS
<1>. USE DEF DataIsAttended, Schedule, task, work
<1>1. DataIsAttended /\ Releasing
  BY DEF IInv
<1>2. ASSUME NEW w \in Writers, NEW n \in Counts, BeginWrite(w, n)
      PROVE  DataIsAttended'
  BY <1>1, <1>2 DEF BeginWrite
<1>3. ASSUME NEW w \in Writers, BeginFlush(w)
      PROVE  DataIsAttended'
  BY <1>1, <1>3 DEF BeginFlush
<1>4. ASSUME NEW w \in Writers, LockWrite(w)
      PROVE  DataIsAttended'
  BY <1>1, <1>4 DEF LockWrite
<1>5. ASSUME NEW w \in Writers, OnceCopy(w)
      PROVE  DataIsAttended'
  BY <1>1, <1>5 DEF OnceCopy, Releasing
<1>6. ASSUME NEW w \in Writers, OnceFault(w)
      PROVE  DataIsAttended'
  BY <1>1, <1>6 DEF OnceFault
<1>7. ASSUME NEW w \in Writers, OnceOops(w)
      PROVE  DataIsAttended'
  BY <1>1, <1>7 DEF OnceOops
<1>8. ASSUME NEW w \in Writers, OnceSleep(w)
      PROVE  DataIsAttended'
  BY <1>1, <1>8 DEF OnceSleep
<1>9. ASSUME NEW w \in Writers, OnceNone(w)
      PROVE  DataIsAttended'
  BY <1>1, <1>9 DEF OnceNone
<1>10. ASSUME NEW w \in Writers, SleepEnd(w)
      PROVE  DataIsAttended'
  BY <1>1, <1>10 DEF SleepEnd
<1>11. ASSUME NEW w \in Writers, Account(w)
      PROVE  DataIsAttended'
  BY <1>1, <1>11 DEF Account
<1>12. ASSUME NEW w \in Writers, ReturnAgain(w)
      PROVE  DataIsAttended'
  BY <1>1, <1>12 DEF ReturnAgain
<1>13. ASSUME NEW w \in Writers, DecideGrow(w)
      PROVE  DataIsAttended'
  BY <1>1, <1>13 DEF DecideGrow
<1>14. ASSUME NEW w \in Writers, Grow(w)
      PROVE  DataIsAttended'
  BY <1>1, <1>14 DEF Grow
<1>15. ASSUME NEW w \in Writers, GrowDone(w)
      PROVE  DataIsAttended'
  BY <1>1, <1>15 DEF GrowDone
<1>16. ASSUME NEW w \in Writers, FlushPoll(w)
      PROVE  DataIsAttended'
  BY <1>1, <1>16 DEF FlushPoll, Releasing
<1>17. ASSUME NEW w \in Writers, FlushDone(w)
      PROVE  DataIsAttended'
  BY <1>1, <1>17 DEF FlushDone
<1>18. ASSUME WorkStart
      PROVE  DataIsAttended'
  BY <1>1, <1>18 DEF WorkStart, Releasing
<1>19. ASSUME WorkLock
      PROVE  DataIsAttended'
  BY <1>1, <1>19 DEF WorkLock
<1>20. ASSUME WorkNoData
      PROVE  DataIsAttended'
  BY <1>1, <1>20 DEF WorkNoData
<1>21. ASSUME WorkDeliver
      PROVE  DataIsAttended'
  BY <1>1, <1>21 DEF WorkDeliver
<1>22. ASSUME WorkAgain
      PROVE  DataIsAttended'
  BY <1>1, <1>22 DEF WorkAgain
<1>23. ASSUME WorkError
      PROVE  DataIsAttended'
  BY <1>1, <1>23 DEF WorkError
<1>24. ASSUME WorkAccount
      PROVE  DataIsAttended'
  BY <1>1, <1>24 DEF WorkAccount
<1>25. ASSUME WorkResched
      PROVE  DataIsAttended'
  BY <1>1, <1>25 DEF WorkResched, Releasing
<1>26. ASSUME ReleaseCancel
      PROVE  DataIsAttended'
  BY <1>1, <1>26 DEF ReleaseCancel
<1>27. ASSUME ReleaseSync
      PROVE  DataIsAttended'
  BY <1>1, <1>27 DEF ReleaseSync
<1>28. ASSUME ReleaseFree
      PROVE  DataIsAttended'
  BY <1>1, <1>28 DEF ReleaseFree
<1>29. ASSUME Released \/ UNCHANGED vars
      PROVE  DataIsAttended'
  BY <1>1, <1>29 DEF Released, vars
<1>. QED
  BY <1>2, <1>3, <1>4, <1>5, <1>6, <1>7, <1>8, <1>9, <1>10, <1>11,
     <1>12, <1>13, <1>14, <1>15, <1>16, <1>17, <1>18, <1>19, <1>20, <1>21,
     <1>22, <1>23, <1>24, <1>25, <1>26, <1>27, <1>28, <1>29
     DEF Next, WriterStep, WorkerStep, ReleaseStep

\* While a writer sleeps with the mutex no buffer becomes free.
LEMMA SleepsStep == IInv /\ [Next]_vars => SleepsInVain'
<1> SUFFICES ASSUME IInv, [Next]_vars PROVE SleepsInVain'
  OBVIOUS
<1>. USE DEF SleepsInVain, WritersType, writers, task
<1>1. SleepsInVain /\ WritersType
  BY DEF IInv, TypeOK
<1>2. /\ \A w \in Writers : pc[w] = "sleep" => mutex = w
      /\ mutex = Worker <=> wpc \in {"write", "account"}
      /\ Nobody \notin Writers /\ Worker \notin Writers
      /\ \A w \in Writers : pc[w] = "once" => mutex = w
  BY ThreadRwAssumption DEF IInv, Locking, InWrite
<1>3. ASSUME NEW w \in Writers, NEW n \in Counts, BeginWrite(w, n)
      PROVE  SleepsInVain'
  BY <1>2, <1>1, <1>3 DEF BeginWrite
<1>4. ASSUME NEW w \in Writers, BeginFlush(w)
      PROVE  SleepsInVain'
  BY <1>2, <1>1, <1>4 DEF BeginFlush
<1>5. ASSUME NEW w \in Writers, LockWrite(w)
      PROVE  SleepsInVain'
  BY <1>2, <1>1, <1>5 DEF LockWrite
<1>6. ASSUME NEW w \in Writers, OnceCopy(w)
      PROVE  SleepsInVain'
  BY <1>2, <1>1, <1>6 DEF OnceCopy
<1>7. ASSUME NEW w \in Writers, OnceFault(w)
      PROVE  SleepsInVain'
  BY <1>2, <1>1, <1>7 DEF OnceFault
<1>8. ASSUME NEW w \in Writers, OnceOops(w)
      PROVE  SleepsInVain'
  BY <1>2, <1>1, <1>8 DEF OnceOops
<1>9. ASSUME NEW w \in Writers, OnceSleep(w)
      PROVE  SleepsInVain'
  BY <1>2, <1>1, <1>9 DEF OnceSleep
<1>10. ASSUME NEW w \in Writers, OnceNone(w)
      PROVE  SleepsInVain'
  BY <1>2, <1>1, <1>10 DEF OnceNone
<1>11. ASSUME NEW w \in Writers, SleepEnd(w)
      PROVE  SleepsInVain'
  BY <1>2, <1>1, <1>11 DEF SleepEnd
<1>12. ASSUME NEW w \in Writers, Account(w)
      PROVE  SleepsInVain'
  BY <1>2, <1>1, <1>12 DEF Account
<1>13. ASSUME NEW w \in Writers, ReturnAgain(w)
      PROVE  SleepsInVain'
  BY <1>2, <1>1, <1>13 DEF ReturnAgain
<1>14. ASSUME NEW w \in Writers, DecideGrow(w)
      PROVE  SleepsInVain'
  BY <1>2, <1>1, <1>14 DEF DecideGrow
<1>15. ASSUME NEW w \in Writers, Grow(w)
      PROVE  SleepsInVain'
  BY <1>2, <1>1, <1>15 DEF Grow
<1>16. ASSUME NEW w \in Writers, GrowDone(w)
      PROVE  SleepsInVain'
  BY <1>2, <1>1, <1>16 DEF GrowDone
<1>17. ASSUME NEW w \in Writers, FlushPoll(w)
      PROVE  SleepsInVain'
  BY <1>2, <1>1, <1>17 DEF FlushPoll
<1>18. ASSUME NEW w \in Writers, FlushDone(w)
      PROVE  SleepsInVain'
  BY <1>2, <1>1, <1>18 DEF FlushDone
<1>19. ASSUME WorkStart
      PROVE  SleepsInVain'
  BY <1>2, <1>1, <1>19 DEF WorkStart
<1>20. ASSUME WorkLock
      PROVE  SleepsInVain'
  BY <1>2, <1>1, <1>20 DEF WorkLock
<1>21. ASSUME WorkNoData
      PROVE  SleepsInVain'
  BY <1>2, <1>1, <1>21 DEF WorkNoData
<1>22. ASSUME WorkDeliver
      PROVE  SleepsInVain'
  BY <1>2, <1>1, <1>22 DEF WorkDeliver
<1>23. ASSUME WorkAgain
      PROVE  SleepsInVain'
  BY <1>2, <1>1, <1>23 DEF WorkAgain
<1>24. ASSUME WorkError
      PROVE  SleepsInVain'
  BY <1>2, <1>1, <1>24 DEF WorkError
<1>25. ASSUME WorkAccount
      PROVE  SleepsInVain'
  BY <1>2, <1>1, <1>25 DEF WorkAccount
<1>26. ASSUME WorkResched
      PROVE  SleepsInVain'
  BY <1>2, <1>1, <1>26 DEF WorkResched
<1>27. ASSUME ReleaseCancel
      PROVE  SleepsInVain'
  BY <1>2, <1>1, <1>27 DEF ReleaseCancel
<1>28. ASSUME ReleaseSync
      PROVE  SleepsInVain'
  BY <1>2, <1>1, <1>28 DEF ReleaseSync
<1>29. ASSUME ReleaseFree
      PROVE  SleepsInVain'
  BY <1>2, <1>1, <1>29 DEF ReleaseFree
<1>30. ASSUME Released \/ UNCHANGED vars
      PROVE  SleepsInVain'
  BY <1>2, <1>1, <1>30 DEF Released, vars
<1>. QED
  BY <1>3, <1>4, <1>5, <1>6, <1>7, <1>8, <1>9, <1>10, <1>11, <1>12,
     <1>13, <1>14, <1>15, <1>16, <1>17, <1>18, <1>19, <1>20, <1>21, <1>22,
     <1>23, <1>24, <1>25, <1>26, <1>27, <1>28, <1>29, <1>30
     DEF Next, WriterStep, WorkerStep, ReleaseStep

\* The mutex keeps writers and worker apart.
LEMMA Exclusion ==
  ASSUME IInv
  PROVE  /\ \A w \in Writers : InWrite(w) => mutex = w /\ mutex # Worker
         /\ mutex # Worker => wpc \notin {"write", "account"} /\ wret = 0
         /\ mutex = Nobody => mutex # Worker
         /\ Nobody \notin Writers
BY ThreadRwAssumption DEF IInv, Locking, WorkerHasHead, Nobody, Worker

\* Nobody takes away the buffer the work item writes from.
LEMMA HeadStep == IInv /\ [Next]_vars => WorkerHasHead'
<1> SUFFICES ASSUME IInv, [Next]_vars PROVE WorkerHasHead'
  OBVIOUS
<1>. USE DEF WorkerHasHead, task, work
<1>1. WorkerHasHead
  BY DEF IInv
<1>2. ASSUME NEW w \in Writers, NEW n \in Counts, BeginWrite(w, n)
      PROVE  WorkerHasHead'
  BY <1>1, <1>2 DEF BeginWrite
<1>3. ASSUME NEW w \in Writers, BeginFlush(w)
      PROVE  WorkerHasHead'
  BY <1>1, <1>3 DEF BeginFlush
<1>4. ASSUME NEW w \in Writers, LockWrite(w)
      PROVE  WorkerHasHead'
  BY <1>1, <1>4 DEF LockWrite
<1>5. ASSUME NEW w \in Writers, OnceCopy(w)
      PROVE  WorkerHasHead'
  <2>1. wpc \notin {"write", "account"} /\ wret = 0
    BY <1>5, Exclusion DEF OnceCopy, InWrite
  <2>. QED
    BY <1>5, <2>1 DEF OnceCopy
<1>6. ASSUME NEW w \in Writers, OnceFault(w)
      PROVE  WorkerHasHead'
  BY <1>1, <1>6 DEF OnceFault
<1>7. ASSUME NEW w \in Writers, OnceOops(w)
      PROVE  WorkerHasHead'
  BY <1>1, <1>7 DEF OnceOops
<1>8. ASSUME NEW w \in Writers, OnceSleep(w)
      PROVE  WorkerHasHead'
  BY <1>1, <1>8 DEF OnceSleep
<1>9. ASSUME NEW w \in Writers, OnceNone(w)
      PROVE  WorkerHasHead'
  BY <1>1, <1>9 DEF OnceNone
<1>10. ASSUME NEW w \in Writers, SleepEnd(w)
      PROVE  WorkerHasHead'
  BY <1>1, <1>10 DEF SleepEnd
<1>11. ASSUME NEW w \in Writers, Account(w)
      PROVE  WorkerHasHead'
  BY <1>1, <1>11 DEF Account
<1>12. ASSUME NEW w \in Writers, ReturnAgain(w)
      PROVE  WorkerHasHead'
  BY <1>1, <1>12 DEF ReturnAgain
<1>13. ASSUME NEW w \in Writers, DecideGrow(w)
      PROVE  WorkerHasHead'
  BY <1>1, <1>13 DEF DecideGrow
<1>14. ASSUME NEW w \in Writers, Grow(w)
      PROVE  WorkerHasHead'
  <2>1. wpc \notin {"write", "account"} /\ wret = 0
    BY <1>14, Exclusion DEF Grow
  <2>. QED
    BY <1>14, <2>1 DEF Grow
<1>15. ASSUME NEW w \in Writers, GrowDone(w)
      PROVE  WorkerHasHead'
  BY <1>1, <1>15 DEF GrowDone
<1>16. ASSUME NEW w \in Writers, FlushPoll(w)
      PROVE  WorkerHasHead'
  BY <1>1, <1>16 DEF FlushPoll
<1>17. ASSUME NEW w \in Writers, FlushDone(w)
      PROVE  WorkerHasHead'
  BY <1>1, <1>17 DEF FlushDone
<1>18. ASSUME WorkStart
      PROVE  WorkerHasHead'
  BY <1>1, <1>18 DEF WorkStart
<1>19. ASSUME WorkLock
      PROVE  WorkerHasHead'
  BY <1>1, <1>19 DEF WorkLock
<1>20. ASSUME WorkNoData
      PROVE  WorkerHasHead'
  BY <1>1, <1>20 DEF WorkNoData
<1>21. ASSUME WorkDeliver
      PROVE  WorkerHasHead'
  BY <1>1, <1>21 DEF WorkDeliver
<1>22. ASSUME WorkAgain
      PROVE  WorkerHasHead'
  BY <1>1, <1>22 DEF WorkAgain
<1>23. ASSUME WorkError
      PROVE  WorkerHasHead'
  BY <1>1, <1>23 DEF WorkError
<1>24. ASSUME WorkAccount
      PROVE  WorkerHasHead'
  BY <1>1, <1>24 DEF WorkAccount
<1>25. ASSUME WorkResched
      PROVE  WorkerHasHead'
  BY <1>1, <1>25 DEF WorkResched
<1>26. ASSUME ReleaseCancel
      PROVE  WorkerHasHead'
  BY <1>1, <1>26 DEF ReleaseCancel
<1>27. ASSUME ReleaseSync
      PROVE  WorkerHasHead'
  BY <1>1, <1>27 DEF ReleaseSync
<1>28. ASSUME ReleaseFree
      PROVE  WorkerHasHead'
  BY <1>1, <1>28 DEF ReleaseFree
<1>29. ASSUME Released \/ UNCHANGED vars
      PROVE  WorkerHasHead'
  BY <1>1, <1>29 DEF Released, vars
<1>. QED
  BY <1>2, <1>3, <1>4, <1>5, <1>6, <1>7, <1>8, <1>9, <1>10, <1>11,
     <1>12, <1>13, <1>14, <1>15, <1>16, <1>17, <1>18, <1>19, <1>20, <1>21,
     <1>22, <1>23, <1>24, <1>25, <1>26, <1>27, <1>28, <1>29
     DEF Next, WriterStep, WorkerStep, ReleaseStep

-----------------------------------------------------------------------------
(* The fifos and what their buffers hold *)

\* One writer's turn: the buffer it takes is a known one, not queued, and the
\* mutex excludes everybody else.
LEMMA CopyShape ==
  ASSUME IInv, NEW w \in Writers, OnceCopy(w)
  PROVE  /\ Head(freefifo) \in BufIds /\ Head(freefifo) = freefifo[1]
         /\ Len(freefifo) \in Nat \ {0}
         /\ Len(freefifo') = Len(freefifo) - 1
         /\ \A i \in 1..Len(freefifo') : freefifo'[i] = freefifo[i + 1]
         /\ Len(datafifo) \in Nat /\ Len(datafifo') = Len(datafifo) + 1
         /\ \A i \in 1..Len(datafifo) : datafifo'[i] = datafifo[i]
         /\ datafifo'[Len(datafifo) + 1] = Head(freefifo)
         /\ bufs_num' = bufs_num
<1>. USE DEF OnceCopy, QueuesType
<1>1. QueuesType
  BY DEF IInv, TypeOK
<1>2. Head(freefifo) \in BufIds
  <2>1. freefifo \in Seq(BufIds \cup {UserPtr}) /\ freefifo # <<>>
          /\ Head(freefifo) # UserPtr
    BY <1>1
  <2>. QED
    BY <2>1, TailShape
<1>. QED
  BY <1>1, <1>2, TailShape, AppendShape

\* No fifo gets the number of a buffer that was not allocated.
LEMMA KnownStep == IInv /\ [Next]_vars => KnownBuffers'
<1> SUFFICES ASSUME IInv, [Next]_vars PROVE KnownBuffers'
  OBVIOUS
<1>. USE DEF KnownBuffers
<1>1. KnownBuffers /\ QueuesType /\ TypeOK /\ HasBlock
  BY DEF IInv, TypeOK
<1>2. ASSUME NEW w \in Writers, OnceCopy(w) PROVE KnownBuffers'
  <2>. DEFINE k == Len(datafifo)
              m == Len(freefifo)
  <2>1. /\ k \in Nat /\ Len(datafifo') = k + 1 /\ bufs_num' = bufs_num
        /\ \A i \in 1..k : datafifo'[i] = datafifo[i]
        /\ datafifo'[k + 1] = freefifo[1]
        /\ m \in Nat \ {0} /\ Len(freefifo') = m - 1
        /\ \A i \in 1..(m - 1) : freefifo'[i] = freefifo[i + 1]
    BY <1>2, CopyShape
  <2>2. /\ \A i \in 1..k : datafifo[i] <= bufs_num
        /\ \A i \in 1..m : freefifo[i] <= bufs_num
    BY <1>1
  <2>. HIDE DEF k, m
  <2>3. \A i \in 1..(k + 1) : datafifo'[i] <= bufs_num
    BY <2>1, <2>2
  <2>4. \A i \in 1..(m - 1) : freefifo'[i] <= bufs_num
    BY <2>1, <2>2
  <2>. QED
    BY <2>1, <2>3, <2>4
<1>3. ASSUME NEW w \in Writers, OnceFault(w) \/ OnceOops(w)
      PROVE  KnownBuffers'
  <2>. DEFINE t == Tail(freefifo)
  <2>1. /\ t \in Seq(BufIds \cup {UserPtr}) /\ Len(t) = Len(freefifo) - 1
        /\ Len(freefifo) \in Nat
        /\ \A i \in 1..Len(t) : t[i] = freefifo[i + 1]
    BY <1>1, <1>3, TailShape DEF OnceFault, OnceOops, QueuesType
  <2>2. UserPtr <= bufs_num
    BY <1>1, ThreadRwAssumption DEF QueuesType, UserPtr
  <2>3. \A i \in 1..Len(t) : t[i] <= bufs_num
    BY <1>1, <2>1
  <2>4. \A i \in 1..Len(Append(t, UserPtr)) :
          Append(t, UserPtr)[i] <= bufs_num
    <3>. DEFINE a == Append(t, UserPtr)
    <3>1. /\ Len(a) = Len(t) + 1 /\ a[Len(t) + 1] = UserPtr
          /\ \A i \in 1..Len(t) : a[i] = t[i]
      BY <2>1, AppendShape
    <3>2. Len(t) \in Nat
      BY <2>1
    <3>. HIDE DEF a, t
    <3>. QED
      BY <2>2, <2>3, <3>1, <3>2 DEF a
  <2>5. /\ freefifo' = t \/ freefifo' = Append(t, UserPtr)
        /\ UNCHANGED <<datafifo, bufs_num>>
    BY <1>3 DEF OnceFault, OnceOops
  <2>. QED
    BY <1>1, <2>3, <2>4, <2>5
<1>4. ASSUME NEW w \in Writers, Grow(w) PROVE KnownBuffers'
  <2>1. PICK sizes \in Seq(Nat) :
           /\ freefifo' = freefifo \o NewIds(bufs_num, sizes)
           /\ bufs_num' = bufs_num + Len(sizes)
    BY <1>1, <1>4, GrowShape
  <2>2. bufs_num \in Nat /\ Len(sizes) \in Nat
    BY <1>1, ThreadRwAssumption DEF QueuesType
  <2>3. \A i \in 1..Len(freefifo') : freefifo'[i] <= bufs_num'
    <3>. DEFINE new == NewIds(bufs_num, sizes)
                m   == Len(freefifo)
    <3>1. /\ new \in Seq(Nat) /\ Len(new) = Len(sizes)
          /\ \A i \in 1..Len(new) : new[i] = bufs_num + i
      BY <2>2 DEF NewIds
    <3>2. freefifo \in Seq(Nat)
      BY <1>1, ThreadRwAssumption DEF QueuesType, BufIds, UserPtr
    <3>3. /\ m \in Nat /\ Len(freefifo') = m + Len(new)
          /\ \A i \in 1..m : freefifo'[i] = freefifo[i]
          /\ \A i \in m + 1 .. m + Len(new) : freefifo'[i] = new[i - m]
      <4>1. freefifo' = freefifo \o new
        BY <2>1
      <4>. HIDE DEF new
      <4>2. /\ Len(freefifo) \in Nat
            /\ Len(freefifo \o new) = Len(freefifo) + Len(new)
            /\ \A i \in 1..Len(freefifo) : (freefifo \o new)[i] = freefifo[i]
            /\ \A i \in Len(freefifo) + 1 .. Len(freefifo) + Len(new) :
                 (freefifo \o new)[i] = new[i - Len(freefifo)]
        BY <3>1, <3>2, ConcatShape
      <4>. QED
        BY <4>1, <4>2
    <3>. HIDE DEF new, m
    <3>4. ASSUME NEW i \in 1..m PROVE freefifo'[i] <= bufs_num'
      <4>1. freefifo[i] \in Nat /\ freefifo[i] <= bufs_num
        BY <1>1, <3>2 DEF m
      <4>. QED
        BY <2>1, <2>2, <3>3, <4>1
    <3>5. ASSUME NEW i \in m + 1 .. m + Len(new)
          PROVE  freefifo'[i] <= bufs_num'
      <4>1. i - m \in 1..Len(new)
        BY <2>2, <3>1, <3>3
      <4>2. freefifo'[i] = bufs_num + (i - m)
        BY <3>1, <3>3, <4>1
      <4>. QED
        BY <2>1, <2>2, <3>1, <4>1, <4>2
    <3>. QED
      BY <2>2, <3>1, <3>3, <3>4, <3>5
  <2>4. datafifo' = datafifo
    BY <1>4 DEF Grow
  <2>5. \A i \in 1..Len(datafifo) : datafifo[i] \in Nat
    <3>1. \A i \in 1..Len(datafifo) : datafifo[i] \in BufIds
      BY <1>1 DEF QueuesType
    <3>. QED
      BY <3>1, ThreadRwAssumption DEF BufIds
  <2>. QED
    BY <1>1, <2>1, <2>2, <2>3, <2>4, <2>5
<1>5. ASSUME WorkAccount PROVE KnownBuffers'
  <2>. DEFINE b == Head(datafifo)
  <2>1. /\ b \in BufIds /\ b = datafifo[1] /\ Len(datafifo) \in Nat \ {0}
        /\ Len(Tail(datafifo)) = Len(datafifo) - 1
        /\ \A i \in 1..Len(datafifo) - 1 : Tail(datafifo)[i] = datafifo[i + 1]
    BY <1>1, <1>5, TailShape
       DEF IInv, WorkerHasHead, WorkAccount, QueuesType
  <2>2. /\ Len(Append(freefifo, b)) = Len(freefifo) + 1
        /\ Len(freefifo) \in Nat
        /\ \A i \in 1..Len(freefifo) : Append(freefifo, b)[i] = freefifo[i]
        /\ Append(freefifo, b)[Len(freefifo) + 1] = b
    BY <1>1, <2>1, AppendShape DEF QueuesType
  <2>3. b <= bufs_num
    BY <1>1, <2>1
  <2>4. /\ \A i \in 1..Len(Append(freefifo, b)) :
             Append(freefifo, b)[i] <= bufs_num
        /\ \A i \in 1..Len(Tail(datafifo)) : Tail(datafifo)[i] <= bufs_num
    BY <1>1, <2>1, <2>2, <2>3
  <2>. QED
    BY <1>1, <1>5, <2>4 DEF WorkAccount, Recycle
<1>6. ASSUME UNCHANGED <<datafifo, freefifo, buf, bufs_num, buffer_size>>
      PROVE  KnownBuffers'
  BY <1>1, <1>6
<1>. QED
  BY <1>2, <1>3, <1>4, <1>5, <1>6, QueueSteps

\* No step takes buffers away or changes the size of the first.
LEMMA BlockStep == IInv /\ [Next]_vars => HasBlock'
<1> SUFFICES ASSUME IInv, [Next]_vars PROVE HasBlock'
  OBVIOUS
<1>. USE DEF HasBlock, def_block_size
<1>1. HasBlock /\ QueuesType /\ TypeOK /\ 1 \in BufIds
  BY ThreadRwAssumption DEF IInv, TypeOK, BufIds
<1>2. ASSUME NEW w \in Writers, OnceCopy(w) PROVE HasBlock'
  BY <1>1, <1>2, CopyShape DEF OnceCopy, RwBuf, QueuesType
<1>3. ASSUME NEW w \in Writers, OnceFault(w) \/ OnceOops(w) PROVE HasBlock'
  BY <1>1, <1>3 DEF OnceFault, OnceOops
<1>4. ASSUME NEW w \in Writers, Grow(w) PROVE HasBlock'
  <2>1. PICK sizes \in Seq(Nat) :
           /\ buf' = AddBuffers(buf, bufs_num, sizes)
           /\ bufs_num' = bufs_num + Len(sizes)
    BY <1>1, <1>4, GrowShape
  <2>2. bufs_num \in Nat /\ Len(sizes) \in Nat
    BY <1>1, ThreadRwAssumption DEF QueuesType
  <2>. QED
    BY <1>1, <2>1, <2>2 DEF AddBuffers
<1>5. ASSUME WorkAccount PROVE HasBlock'
  <2>. DEFINE b == Head(datafifo)
  <2>1. \/ buf' = [buf EXCEPT ![b] = NoData(buf[b].buffer_size)]
        \/ buf' = [buf EXCEPT ![b] = Advance(b, wret)]
    BY <1>5 DEF WorkAccount
  <2>2. buf'[1].buffer_size = buf[1].buffer_size
    <3>1. CASE b = 1
      BY <1>1, <2>1, <3>1 DEF NoData, Advance, RwBuf, QueuesType
    <3>2. CASE b # 1
      BY <1>1, <2>1, <3>2 DEF QueuesType
    <3>. QED
      BY <3>1, <3>2
  <2>. QED
    BY <1>1, <1>5, <2>2 DEF WorkAccount
<1>6. ASSUME UNCHANGED <<datafifo, freefifo, buf, bufs_num, buffer_size>>
      PROVE  HasBlock'
  BY <1>1, <1>6
<1>. QED
  BY <1>2, <1>3, <1>4, <1>5, <1>6, QueueSteps

\* Two fifos hold each buffer at most once between them.
Apart(p, q) ==
  /\ \A i, j \in 1..Len(p) : p[i] = p[j] => i = j \/ p[i] = UserPtr
  /\ \A i, j \in 1..Len(q) : q[i] = q[j] => i = j \/ q[i] = UserPtr
  /\ \A i \in 1..Len(p), j \in 1..Len(q) : p[i] = q[j] => p[i] = UserPtr

\* Moving the head of one fifo to the end of the other keeps them apart.
LEMMA MoveApart ==
  ASSUME NEW S, NEW p \in Seq(S), NEW q \in Seq(S), p # <<>>, Apart(p, q)
  PROVE  Apart(Tail(p), Append(q, Head(p)))
<1>. DEFINE t == Tail(p)
            a == Append(q, Head(p))
<1>1. /\ Head(p) = p[1] /\ Len(p) \in Nat \ {0} /\ Len(t) = Len(p) - 1
      /\ \A i \in 1..Len(t) : t[i] = p[i + 1]
  BY TailShape
<1>2. /\ Len(q) \in Nat /\ Len(a) = Len(q) + 1 /\ a[Len(q) + 1] = p[1]
      /\ \A i \in 1..Len(q) : a[i] = q[i]
  BY <1>1, AppendShape
<1>. HIDE DEF t, a
<1>3. \A i, j \in 1..Len(t) : t[i] = t[j] => i = j \/ t[i] = UserPtr
  BY <1>1 DEF Apart
<1>4. \A i, j \in 1..Len(a) : a[i] = a[j] => i = j \/ a[i] = UserPtr
  BY <1>1, <1>2 DEF Apart
<1>5. \A i \in 1..Len(t), j \in 1..Len(a) : t[i] = a[j] => t[i] = UserPtr
  BY <1>1, <1>2 DEF Apart
<1>. QED
  BY <1>3, <1>4, <1>5 DEF Apart, t, a

\* BuffersNotShared says that datafifo and freefifo are apart.
LEMMA ApartFifos ==
  ASSUME QueuesType
  PROVE  BuffersNotShared <=> Apart(freefifo, datafifo)
<1>1. \A i \in 1..Len(datafifo) : datafifo[i] # UserPtr
  <2>1. \A i \in 1..Len(datafifo) : datafifo[i] \in BufIds
    BY DEF QueuesType
  <2>. QED
    BY <2>1, ThreadRwAssumption DEF BufIds, UserPtr
<1>. QED
  BY <1>1 DEF BuffersNotShared, Apart, InFifo

\* A buffer goes from one fifo to the other, or to the one who works on it.
LEMMA NotSharedStep == IInv /\ [Next]_vars => BuffersNotShared'
<1> SUFFICES ASSUME IInv, [Next]_vars PROVE Apart(freefifo, datafifo)'
  BY ApartFifos, QueuesStep, PTL
<1>. DEFINE S == BufIds \cup {UserPtr}
<1>1. /\ freefifo \in Seq(S) /\ datafifo \in Seq(S) /\ datafifo \in Seq(BufIds)
      /\ Apart(freefifo, datafifo)
      /\ TypeOK /\ HasBlock /\ KnownBuffers
  BY ApartFifos DEF IInv, TypeOK, QueuesType
<1>2. ASSUME NEW w \in Writers, OnceCopy(w)
      PROVE  Apart(freefifo, datafifo)'
  <2>1. /\ freefifo # <<>> /\ freefifo' = Tail(freefifo)
        /\ datafifo' = Append(datafifo, Head(freefifo))
    BY <1>2 DEF OnceCopy
  <2>2. Apart(Tail(freefifo), Append(datafifo, Head(freefifo)))
    BY <1>1, <2>1, MoveApart
  <2>. QED
    BY <2>1, <2>2
<1>3. ASSUME NEW w \in Writers, OnceFault(w) \/ OnceOops(w)
      PROVE  Apart(freefifo, datafifo)'
  <2>. DEFINE t == Tail(freefifo)
              a == Append(t, UserPtr)
  <2>1. /\ Len(freefifo) \in Nat /\ Len(t) = Len(freefifo) - 1 /\ t \in Seq(S)
        /\ \A i \in 1..Len(t) : t[i] = freefifo[i + 1]
    BY <1>1, <1>3, TailShape DEF OnceFault, OnceOops
  <2>2. Len(a) = Len(t) + 1 /\ a[Len(t) + 1] = UserPtr
          /\ \A i \in 1..Len(t) : a[i] = t[i]
    BY <2>1, AppendShape
  <2>3. freefifo' = t \/ freefifo' = a
    BY <1>3 DEF OnceFault, OnceOops
  <2>4. datafifo' = datafifo
    BY <1>3 DEF OnceFault, OnceOops
  <2>. HIDE DEF t, a
  <2>5. Apart(t, datafifo)
    <3>1. \A i \in 1..Len(t) : i + 1 \in 1..Len(freefifo)
      BY <2>1
    <3>2. \A i, j \in 1..Len(t) : t[i] = t[j] => i = j \/ t[i] = UserPtr
      BY <1>1, <2>1, <3>1 DEF Apart
    <3>3. \A i \in 1..Len(t), j \in 1..Len(datafifo) :
            t[i] = datafifo[j] => t[i] = UserPtr
      BY <1>1, <2>1, <3>1 DEF Apart
    <3>. QED
      BY <1>1, <3>2, <3>3 DEF Apart
  <2>6. Apart(a, datafifo)
    <3>1. Len(a) = Len(t) + 1 /\ Len(t) \in Nat
      BY <2>1, <2>2
    <3>2. \A i, j \in 1..Len(a) : a[i] = a[j] => i = j \/ a[i] = UserPtr
      BY <2>2, <2>5, <3>1 DEF Apart
    <3>3. \A i \in 1..Len(a), j \in 1..Len(datafifo) :
            a[i] = datafifo[j] => a[i] = UserPtr
      BY <2>2, <2>5, <3>1 DEF Apart
    <3>. QED
      BY <1>1, <3>2, <3>3 DEF Apart
  <2>. QED
    BY <2>3, <2>4, <2>5, <2>6
<1>4. ASSUME NEW w \in Writers, Grow(w)
      PROVE  Apart(freefifo, datafifo)'
  <2>1. PICK sizes \in Seq(Nat) :
           freefifo' = freefifo \o NewIds(bufs_num, sizes)
    BY <1>1, <1>4, GrowShape
  <2>. DEFINE new == NewIds(bufs_num, sizes)
              m   == Len(freefifo)
  <2>2. bufs_num \in Nat /\ Len(sizes) \in Nat
    BY <1>1, ThreadRwAssumption DEF TypeOK, QueuesType
  <2>3. /\ new \in Seq(Nat) /\ Len(new) = Len(sizes)
        /\ \A i \in 1..Len(new) : new[i] = bufs_num + i
    BY <2>2 DEF NewIds
  <2>4. freefifo \in Seq(Nat)
    BY <1>1, ThreadRwAssumption DEF BufIds, UserPtr
  <2>5. freefifo' = freefifo \o new
    BY <2>1
  <2>. HIDE DEF new
  <2>6. /\ m \in Nat /\ Len(freefifo \o new) = m + Len(new)
        /\ \A i \in 1..m : (freefifo \o new)[i] = freefifo[i]
        /\ \A i \in m + 1 .. m + Len(new) :
             (freefifo \o new)[i] = new[i - m]
    <3>1. new \in Seq(Nat)
      BY <2>3
    <3>. QED
      BY <2>4, <3>1, ConcatShape
  <2>7. /\ \A i \in 1..m : freefifo[i] \in Nat /\ freefifo[i] <= bufs_num
        /\ \A i \in 1..Len(datafifo) :
             datafifo[i] \in Nat /\ datafifo[i] <= bufs_num
    <3>1. \A i \in 1..Len(datafifo) : datafifo[i] \in Nat
      <4>1. \A i \in 1..Len(datafifo) : datafifo[i] \in BufIds
        BY <1>1
      <4>. QED
        BY <4>1, ThreadRwAssumption DEF BufIds
    <3>. QED
      BY <1>1, <2>4, <3>1 DEF KnownBuffers
  <2>. DEFINE g == freefifo \o new
  <2>8. /\ \A i \in 1..m : g[i] = freefifo[i] /\ g[i] <= bufs_num
        /\ \A i \in m + 1 .. m + Len(new) :
             g[i] = bufs_num + (i - m) /\ g[i] > bufs_num
    <3>1. ASSUME NEW i \in m + 1 .. m + Len(new)
          PROVE  g[i] = bufs_num + (i - m) /\ g[i] > bufs_num
      <4>1. i \in Int /\ m \in Nat /\ bufs_num \in Nat /\ Len(new) \in Nat
        BY <2>2, <2>3, <2>6
      <4>2. i - m \in 1..Len(new) /\ i - m >= 1
        BY <4>1
      <4>3. g[i] = new[i - m]
        BY <2>6
      <4>4. new[i - m] = bufs_num + (i - m)
        BY <2>3, <4>2
      <4>. HIDE DEF g, m
      <4>5. bufs_num + (i - m) > bufs_num
        BY <4>1, <4>2
      <4>. QED
        BY <4>3, <4>4, <4>5
    <3>. QED
      BY <2>6, <2>7, <3>1
  <2>9. Len(g) = m + Len(new) /\ Len(new) \in Nat /\ m \in Nat
    BY <2>2, <2>3, <2>6
  <2>. HIDE DEF g, m
  <2>10. \A i, j \in 1..Len(g) : g[i] = g[j] => i = j \/ g[i] = UserPtr
    <3>1. ASSUME NEW i \in 1..m, NEW j \in 1..m, g[i] = g[j]
          PROVE  i = j \/ g[i] = UserPtr
      BY <1>1, <2>8, <3>1 DEF Apart, m
    <3>2. ASSUME NEW i \in m + 1 .. m + Len(new),
                 NEW j \in m + 1 .. m + Len(new), g[i] = g[j]
          PROVE  i = j
      BY <2>2, <2>8, <2>9, <3>2
    <3>3. ASSUME NEW i \in 1..m, NEW j \in m + 1 .. m + Len(new)
          PROVE  g[i] # g[j]
      <4>1. g[i] = freefifo[i] /\ freefifo[i] \in Nat /\ g[i] <= bufs_num
        BY <2>7, <2>8
      <4>2. g[j] = bufs_num + (j - m) /\ g[j] > bufs_num
        BY <2>8
      <4>. QED
        BY <2>2, <2>9, <4>1, <4>2
    <3>4. \A i \in 1..Len(g) : i \in 1..m \/ i \in m + 1 .. m + Len(new)
      BY <2>9
    <3>. QED
      BY <3>1, <3>2, <3>3, <3>4
  <2>11. \A i \in 1..Len(g), j \in 1..Len(datafifo) :
           g[i] = datafifo[j] => g[i] = UserPtr
    <3>1. ASSUME NEW i \in 1..m, NEW j \in 1..Len(datafifo),
                 g[i] = datafifo[j]
          PROVE  g[i] = UserPtr
      BY <1>1, <2>8, <3>1 DEF Apart, m
    <3>2. ASSUME NEW i \in m + 1 .. m + Len(new),
                 NEW j \in 1..Len(datafifo)
          PROVE  g[i] # datafifo[j]
      <4>1. g[i] = bufs_num + (i - m) /\ g[i] > bufs_num
        BY <2>8
      <4>. QED
        BY <2>2, <2>7, <2>9, <4>1
    <3>3. \A i \in 1..Len(g) : i \in 1..m \/ i \in m + 1 .. m + Len(new)
      BY <2>9
    <3>. QED
      BY <3>1, <3>2, <3>3
  <2>12. freefifo' = g /\ datafifo' = datafifo
    BY <1>4, <2>5 DEF Grow, g
  <2>. QED
    BY <1>1, <2>10, <2>11, <2>12 DEF Apart
<1>5. ASSUME WorkAccount
      PROVE  Apart(freefifo, datafifo)'
  <2>1. datafifo # <<>>
    BY <1>5 DEF IInv, WorkerHasHead, WorkAccount
  <2>2. Apart(Tail(datafifo), Append(freefifo, Head(datafifo)))
    <3>1. Apart(datafifo, freefifo)
      BY <1>1 DEF Apart
    <3>. QED
      BY <1>1, <2>1, <3>1, MoveApart
  <2>3. Apart(Append(freefifo, Head(datafifo)), Tail(datafifo))
    BY <2>2 DEF Apart
  <2>. QED
    BY <1>1, <1>5, <2>3 DEF WorkAccount, Recycle
<1>6. ASSUME UNCHANGED <<datafifo, freefifo, buf, bufs_num, buffer_size>>
      PROVE  Apart(freefifo, datafifo)'
  BY <1>1, <1>6
<1>. QED
  BY <1>2, <1>3, <1>4, <1>5, <1>6, QueueSteps

-----------------------------------------------------------------------------
(* The stream *)

\* Bytes count as accepted when they are copied, and only then: accounting
\* for them later, taking the mutex or giving it back does not change it.
LEMMA AcceptedSame ==
  ASSUME IInv, [Next]_vars, \A w \in Writers : ~OnceCopy(w)
  PROVE  Accepted' = Accepted
<1>1. /\ Locking /\ off \in [Writers -> Nat] /\ data_offset \in Nat
  BY DEF IInv, TypeOK, WritersType, CountsType
<1>. USE DEF counts, writers, work, task
<1>2. ASSUME NEW w \in Writers, NEW n \in Counts, BeginWrite(w, n)
      PROVE  Accepted' = Accepted
  <2>1. mutex # w
    BY <1>1, <1>2 DEF BeginWrite, Locking, InWrite
  <2>2. /\ mutex' = mutex /\ data_offset' = data_offset
        /\ off' = [off EXCEPT ![w] = 0]
    BY <1>2 DEF BeginWrite
  <2>. QED
    BY <1>1, <2>1, <2>2 DEF Accepted, InFlight
<1>3. ASSUME NEW w \in Writers, BeginFlush(w)
      PROVE  Accepted' = Accepted
  BY <1>3 DEF BeginFlush, Accepted, InFlight
<1>4. ASSUME NEW w \in Writers, LockWrite(w)
      PROVE  Accepted' = Accepted
  <2>1. InFlight = 0 /\ mutex' = w /\ off' = off /\ data_offset' = data_offset
    BY <1>4, ThreadRwAssumption DEF LockWrite, InFlight
  <2>2. off[w] = 0
    BY <1>1, <1>4 DEF LockWrite, Locking, InWrite
  <2>. QED
    BY <2>1, <2>2 DEF Accepted, InFlight
<1>5. ASSUME NEW w \in Writers, OnceFault(w)
      PROVE  Accepted' = Accepted
  BY <1>5 DEF OnceFault, Accepted, InFlight
<1>6. ASSUME NEW w \in Writers, OnceOops(w)
      PROVE  Accepted' = Accepted
  BY <1>6 DEF OnceOops, Accepted, InFlight
<1>7. ASSUME NEW w \in Writers, OnceSleep(w)
      PROVE  Accepted' = Accepted
  BY <1>7 DEF OnceSleep, Accepted, InFlight
<1>8. ASSUME NEW w \in Writers, OnceNone(w)
      PROVE  Accepted' = Accepted
  BY <1>8 DEF OnceNone, Accepted, InFlight
<1>9. ASSUME NEW w \in Writers, SleepEnd(w)
      PROVE  Accepted' = Accepted
  BY <1>9 DEF SleepEnd, Accepted, InFlight
<1>10. ASSUME NEW w \in Writers, Account(w)
      PROVE  Accepted' = Accepted
  <2>1. mutex = w
    BY <1>1, <1>10 DEF Account, Locking, InWrite
  <2>2. mutex' = Nobody /\ data_offset' = data_offset + off[w]
    BY <1>10 DEF Account
  <2>3. Nobody \notin Writers /\ off[w] \in Nat /\ data_offset \in Nat
    BY <1>1, ThreadRwAssumption
  <2>. QED
    BY <2>1, <2>2, <2>3 DEF Accepted, InFlight
<1>11. ASSUME NEW w \in Writers, ReturnAgain(w)
      PROVE  Accepted' = Accepted
  BY <1>11 DEF ReturnAgain, Accepted, InFlight
<1>12. ASSUME NEW w \in Writers, DecideGrow(w)
      PROVE  Accepted' = Accepted
  BY <1>12 DEF DecideGrow, Accepted, InFlight
<1>13. ASSUME NEW w \in Writers, Grow(w)
      PROVE  Accepted' = Accepted
  BY <1>13 DEF Grow, Accepted, InFlight
<1>14. ASSUME NEW w \in Writers, GrowDone(w)
      PROVE  Accepted' = Accepted
  BY <1>14 DEF GrowDone, Accepted, InFlight
<1>15. ASSUME NEW w \in Writers, FlushPoll(w)
      PROVE  Accepted' = Accepted
  BY <1>15 DEF FlushPoll, Accepted, InFlight
<1>16. ASSUME NEW w \in Writers, FlushDone(w)
      PROVE  Accepted' = Accepted
  BY <1>16 DEF FlushDone, Accepted, InFlight
<1>17. ASSUME WorkLock
      PROVE  Accepted' = Accepted
  <2>1. mutex \notin Writers /\ mutex' \notin Writers
    BY <1>1, <1>17, ThreadRwAssumption DEF WorkLock, Locking
  <2>2. data_offset' = data_offset
    BY <1>17 DEF WorkLock
  <2>. QED
    BY <2>1, <2>2 DEF Accepted, InFlight
<1>18. ASSUME WorkAgain
      PROVE  Accepted' = Accepted
  <2>1. mutex \notin Writers /\ mutex' \notin Writers
    BY <1>1, <1>18, ThreadRwAssumption DEF WorkAgain, Locking
  <2>2. data_offset' = data_offset
    BY <1>18 DEF WorkAgain
  <2>. QED
    BY <2>1, <2>2 DEF Accepted, InFlight
<1>19. ASSUME WorkError
      PROVE  Accepted' = Accepted
  <2>1. mutex \notin Writers /\ mutex' \notin Writers
    BY <1>1, <1>19, ThreadRwAssumption DEF WorkError, Locking
  <2>2. data_offset' = data_offset
    BY <1>19 DEF WorkError
  <2>. QED
    BY <2>1, <2>2 DEF Accepted, InFlight
<1>20. ASSUME WorkAccount
      PROVE  Accepted' = Accepted
  <2>1. mutex \notin Writers /\ mutex' \notin Writers
    BY <1>1, <1>20, ThreadRwAssumption DEF WorkAccount, Locking
  <2>2. data_offset' = data_offset
    BY <1>20 DEF WorkAccount
  <2>. QED
    BY <2>1, <2>2 DEF Accepted, InFlight
<1>21. ASSUME WorkStart
      PROVE  Accepted' = Accepted
  BY <1>21 DEF WorkStart, Accepted, InFlight
<1>22. ASSUME WorkNoData
      PROVE  Accepted' = Accepted
  BY <1>22 DEF WorkNoData, Accepted, InFlight
<1>23. ASSUME WorkDeliver
      PROVE  Accepted' = Accepted
  BY <1>23 DEF WorkDeliver, Accepted, InFlight
<1>24. ASSUME WorkResched
      PROVE  Accepted' = Accepted
  BY <1>24 DEF WorkResched, Accepted, InFlight
<1>25. ASSUME ReleaseCancel
      PROVE  Accepted' = Accepted
  BY <1>25 DEF ReleaseCancel, Accepted, InFlight
<1>26. ASSUME ReleaseSync
      PROVE  Accepted' = Accepted
  BY <1>26 DEF ReleaseSync, Accepted, InFlight
<1>27. ASSUME ReleaseFree
      PROVE  Accepted' = Accepted
  BY <1>27 DEF ReleaseFree, Accepted, InFlight
<1>28. ASSUME Released \/ UNCHANGED vars
      PROVE  Accepted' = Accepted
  BY <1>28 DEF Released, vars, Accepted, InFlight
<1>. QED
  BY <1>2, <1>3, <1>4, <1>5, <1>6, <1>7, <1>8, <1>9, <1>10, <1>11,
     <1>12, <1>13, <1>14, <1>15, <1>16, <1>17, <1>18, <1>19, <1>20, <1>21,
     <1>22, <1>23, <1>24, <1>25, <1>26, <1>27, <1>28
     DEF Next, WriterStep, WorkerStep, ReleaseStep

\* A step that concerns no queued byte.
Quiet ==
  /\ UNCHANGED <<datafifo, passed_data_len, played, Accepted, Unaccounted>>
  /\ \A i \in 1..Len(datafifo) : buf'[datafifo[i]] = buf[datafifo[i]]
  /\ buffered_data_size' = buffered_data_size - data_offset + data_offset'

\* Only filling a buffer, writing from it and accounting for that are not.
LEMMA StreamSteps ==
  ASSUME IInv, [Next]_vars, \A w \in Writers : ~OnceCopy(w),
         ~WorkDeliver, ~WorkAccount
  PROVE  Quiet
<1>1. /\ datafifo \in Seq(BufIds) /\ KnownBuffers /\ bufs_num \in Nat
      /\ buffered_data_size \in Int /\ data_offset \in Nat
      /\ off \in [Writers -> Nat]
  BY ThreadRwAssumption DEF IInv, TypeOK, QueuesType, CountsType, WritersType
<1>2. UNCHANGED Accepted
  BY AcceptedSame
<1>3. \A i \in 1..Len(datafifo) : buf'[datafifo[i]] = buf[datafifo[i]]
  <2>1. CASE UNCHANGED <<datafifo, freefifo, buf, bufs_num, buffer_size>>
    BY <2>1
  <2>2. ASSUME NEW w \in Writers, OnceFault(w) \/ OnceOops(w)
        PROVE  buf' = buf
    BY <2>2 DEF OnceFault, OnceOops
  <2>3. ASSUME NEW w \in Writers, Grow(w), NEW i \in 1..Len(datafifo)
        PROVE  buf'[datafifo[i]] = buf[datafifo[i]]
    <3>1. PICK sizes \in Seq(Nat) : buf' = AddBuffers(buf, bufs_num, sizes)
      BY <2>3, GrowShape DEF IInv
    <3>2. datafifo[i] \in BufIds /\ datafifo[i] <= bufs_num
      BY <1>1 DEF KnownBuffers
    <3>. QED
      BY <1>1, <3>1, <3>2, ThreadRwAssumption DEF AddBuffers, BufIds
  <2>. QED
    BY <2>1, <2>2, <2>3, QueueSteps
<1>. DEFINE Rest ==
       /\ UNCHANGED <<datafifo, passed_data_len, played, Unaccounted>>
       /\ buffered_data_size' = buffered_data_size - data_offset + data_offset'
<1>. USE DEF Unaccounted, task, counts, work
<1>4. ASSUME NEW w \in Writers, NEW n \in Counts, BeginWrite(w, n)
      PROVE  Rest
  BY <1>1, <1>4 DEF BeginWrite
<1>5. ASSUME NEW w \in Writers, BeginFlush(w)
      PROVE  Rest
  BY <1>1, <1>5 DEF BeginFlush
<1>6. ASSUME NEW w \in Writers, LockWrite(w)
      PROVE  Rest
  BY <1>1, <1>6 DEF LockWrite
<1>7. ASSUME NEW w \in Writers, OnceFault(w)
      PROVE  Rest
  BY <1>1, <1>7 DEF OnceFault
<1>8. ASSUME NEW w \in Writers, OnceOops(w)
      PROVE  Rest
  BY <1>1, <1>8 DEF OnceOops
<1>9. ASSUME NEW w \in Writers, OnceSleep(w)
      PROVE  Rest
  BY <1>1, <1>9 DEF OnceSleep
<1>10. ASSUME NEW w \in Writers, OnceNone(w)
      PROVE  Rest
  BY <1>1, <1>10 DEF OnceNone
<1>11. ASSUME NEW w \in Writers, SleepEnd(w)
      PROVE  Rest
  BY <1>1, <1>11 DEF SleepEnd
<1>12. ASSUME NEW w \in Writers, Account(w)
      PROVE  Rest
  BY <1>1, <1>12 DEF Account
<1>13. ASSUME NEW w \in Writers, ReturnAgain(w)
      PROVE  Rest
  BY <1>1, <1>13 DEF ReturnAgain
<1>14. ASSUME NEW w \in Writers, DecideGrow(w)
      PROVE  Rest
  BY <1>1, <1>14 DEF DecideGrow
<1>15. ASSUME NEW w \in Writers, Grow(w)
      PROVE  Rest
  BY <1>1, <1>15 DEF Grow
<1>16. ASSUME NEW w \in Writers, GrowDone(w)
      PROVE  Rest
  BY <1>1, <1>16 DEF GrowDone
<1>17. ASSUME NEW w \in Writers, FlushPoll(w)
      PROVE  Rest
  BY <1>1, <1>17 DEF FlushPoll
<1>18. ASSUME NEW w \in Writers, FlushDone(w)
      PROVE  Rest
  BY <1>1, <1>18 DEF FlushDone
<1>19. ASSUME WorkStart
      PROVE  Rest
  BY <1>1, <1>19 DEF WorkStart
<1>20. ASSUME WorkLock
      PROVE  Rest
  BY <1>1, <1>20 DEF WorkLock
<1>21. ASSUME WorkNoData
      PROVE  Rest
  BY <1>1, <1>21 DEF WorkNoData
<1>22. ASSUME WorkAgain
      PROVE  Rest
  BY <1>1, <1>22 DEF WorkAgain
<1>23. ASSUME WorkError
      PROVE  Rest
  BY <1>1, <1>23 DEF WorkError
<1>24. ASSUME WorkResched
      PROVE  Rest
  BY <1>1, <1>24 DEF WorkResched
<1>25. ASSUME ReleaseCancel
      PROVE  Rest
  BY <1>1, <1>25 DEF ReleaseCancel
<1>26. ASSUME ReleaseSync
      PROVE  Rest
  BY <1>1, <1>26 DEF ReleaseSync
<1>27. ASSUME ReleaseFree
      PROVE  Rest
  BY <1>1, <1>27 DEF ReleaseFree
<1>28. ASSUME Released \/ UNCHANGED vars
      PROVE  Rest
  BY <1>1, <1>28 DEF Released, vars
<1>29. Rest
  BY <1>4, <1>5, <1>6, <1>7, <1>8, <1>9, <1>10, <1>11, <1>12, <1>13,
     <1>14, <1>15, <1>16, <1>17, <1>18, <1>19, <1>20, <1>21, <1>22, <1>23,
     <1>24, <1>25, <1>26, <1>27, <1>28
     DEF Next, WriterStep, WorkerStep, ReleaseStep
<1>. QED
  BY <1>2, <1>3, <1>29 DEF Quiet

\* The invariant's part that is about bytes.
StreamInv ==
  /\ Contiguous /\ QueuedIsAccepted
  /\ PlayedIsCounted /\ PlayedInOrder /\ OffsetsAgree

\* Steps that neither queue nor play data leave the stream as it is.
LEMMA QuietStep ==
  ASSUME IInv, [Next]_vars, Quiet
  PROVE  StreamInv'
<1>. USE DEF Quiet, StreamInv
<1>1. /\ datafifo \in Seq(BufIds) /\ StreamInv
      /\ buffered_data_size \in Int /\ data_offset \in Nat
      /\ Len(datafifo) \in Nat
  BY DEF IInv, TypeOK, QueuesType, CountsType
<1>2. \A i \in 1..Len(datafifo) : EndOf(datafifo[i])' = EndOf(datafifo[i])
  BY <1>1 DEF EndOf
<1>3. Contiguous'
  <2>1. \A i \in 1..Len(datafifo') - 1 :
          /\ buf'[datafifo'[i + 1]].before = EndOf(datafifo[i])'
          /\ buf'[datafifo'[i + 1]].write_off = 0
    <3>1. ASSUME NEW i \in 1..Len(datafifo) - 1
          PROVE  i \in 1..Len(datafifo) /\ i + 1 \in 1..Len(datafifo)
      BY <1>1
    <3>. QED
      BY <1>1, <1>2, <3>1 DEF Contiguous
  <2>2. datafifo # <<>> =>
          1 \in 1..Len(datafifo) /\ Len(datafifo) \in 1..Len(datafifo)
    BY <1>1
  <2>. QED
    BY <1>1, <1>2, <2>1, <2>2 DEF Contiguous
<1>4. QueuedIsAccepted'
  BY <1>1, <1>2 DEF QueuedIsAccepted
<1>5. PlayedIsCounted' /\ PlayedInOrder'
  BY <1>1 DEF PlayedIsCounted, PlayedInOrder
<1>6. OffsetsAgree'
  <2>1. /\ Len(played) \in Int /\ Unaccounted \in Int
        /\ buffered_data_size \in Int /\ data_offset \in Int
    BY <1>1 DEF IInv, TypeOK, WorkType, Unaccounted
  <2>2. buffered_data_size' \in Int /\ data_offset' \in Int
    BY CountsStep DEF CountsType
  <2>3. Len(played) + buffered_data_size = data_offset + Unaccounted
    BY <1>1 DEF OffsetsAgree
  <2>4. Len(played') = Len(played) /\ Unaccounted' = Unaccounted
    OBVIOUS
  <2>5. Len(played) + buffered_data_size' = data_offset' + Unaccounted
    <3>1. buffered_data_size' = buffered_data_size - data_offset + data_offset'
      OBVIOUS
    <3>. HIDE DEF Quiet, StreamInv
    <3>. QED
      BY <2>1, <2>2, <2>3, <3>1
  <2>. QED
    BY <2>4, <2>5 DEF OffsetsAgree
<1>. QED
  BY <1>3, <1>4, <1>5, <1>6

\* A buffer that takes n new bytes becomes the last one queued; the bytes
\* before it are those accepted so far.
LEMMA CopyStream ==
  ASSUME IInv, [Next]_vars, NEW w \in Writers, OnceCopy(w)
  PROVE  StreamInv'
<1>. DEFINE h == Head(freefifo)
            n == Smaller(buf[h].buffer_size, left[w])
            m == Len(datafifo)
            a == Accepted
            End(b) == buf'[b].before + buf'[b].write_off + buf'[b].data_size
<1>1. /\ h \in BufIds /\ h = freefifo[1] /\ 1 \in 1..Len(freefifo)
      /\ m \in Nat /\ Len(datafifo') = m + 1
      /\ \A i \in 1..m : datafifo'[i] = datafifo[i]
      /\ datafifo'[m + 1] = h
  BY CopyShape
<1>2. /\ TypeOK /\ Locking /\ BuffersNotShared /\ StreamInv
      /\ WorkerHasHead
  BY DEF IInv, StreamInv
<1>3. /\ mutex = w /\ off[w] \in Nat /\ left[w] \in Nat
      /\ data_offset \in Nat /\ buffered_data_size \in Int
      /\ buf \in [BufIds -> [before : Nat, write_off : Nat, data_size : Nat,
                             buffer_size : Nat]]
      /\ \A i \in 1..m : datafifo[i] \in BufIds
  BY <1>2 DEF TypeOK, QueuesType, WritersType, CountsType, OnceCopy, Locking,
              InWrite
<1>4. a = data_offset + off[w] /\ a \in Nat
  BY <1>3 DEF Accepted, InFlight
<1>5. n \in Nat
  BY <1>1, <1>3 DEF Smaller
<1>6. /\ buf' = [buf EXCEPT ![h] = RwBuf(data_offset + off[w], 0, n,
                                         buf[h].buffer_size)]
      /\ off' = [off EXCEPT ![w] = @ + n]
      /\ UNCHANGED <<counts, mutex, wpc, wret, played>>
  BY DEF OnceCopy
<1>. HIDE DEF n, a
<1>7. Accepted' = a + n
  <2>1. off'[w] = off[w] + n
    BY <1>2, <1>6 DEF TypeOK, WritersType
  <2>. QED
    BY <1>3, <1>4, <1>5, <1>6, <2>1 DEF Accepted, InFlight, counts
<1>8. /\ buf'[h].before = a /\ buf'[h].write_off = 0
      /\ buf'[h].data_size = n
  BY <1>1, <1>3, <1>4, <1>6 DEF RwBuf
<1>9. End(h) = a + n
  BY <1>1, <1>4, <1>5, <1>8 DEF EndOf
<1>10. \A i \in 1..m : datafifo[i] # h
  BY <1>1, <1>2 DEF BuffersNotShared, InFifo
<1>11. \A i \in 1..m : buf'[datafifo[i]] = buf[datafifo[i]]
  BY <1>1, <1>3, <1>6, <1>10
<1>12. \A i \in 1..m : End(datafifo[i]) = EndOf(datafifo[i])
  BY <1>11 DEF EndOf
<1>13. Contiguous'
  <2>1. ASSUME NEW i \in 1..Len(datafifo') - 1
        PROVE  /\ buf'[datafifo'[i + 1]].before = End(datafifo[i])
               /\ buf'[datafifo'[i + 1]].write_off = 0
               /\ datafifo'[i] = datafifo[i]
    <3>1. i \in 1..m
      BY <1>1
    <3>2. CASE i = m
      BY <1>1, <1>2, <1>8, <1>12, <3>1, <3>2 DEF StreamInv, Contiguous, a
    <3>3. CASE i # m
      <4>1. i + 1 \in 1..m /\ i \in 1..Len(datafifo) - 1
        BY <1>1, <3>1, <3>3
      <4>. QED
        BY <1>1, <1>2, <1>11, <1>12, <3>1, <4>1 DEF StreamInv, Contiguous
    <3>. QED
      BY <3>2, <3>3
  <2>2. /\ datafifo' # <<>>
        /\ End(datafifo'[Len(datafifo')]) = Accepted'
    BY <1>1, <1>7, <1>9
  <2>3. buf'[datafifo'[1]].before + buf'[datafifo'[1]].write_off
           = passed_data_len'
    <3>1. CASE m = 0
      <4>1. datafifo = <<>>
        BY <3>1, <1>2 DEF TypeOK, QueuesType
      <4>. QED
        BY <1>1, <1>2, <1>4, <1>6, <1>8, <3>1, <4>1
           DEF StreamInv, Contiguous, counts, a
    <3>2. CASE m # 0
      BY <1>1, <1>2, <1>6, <1>11, <3>2 DEF StreamInv, Contiguous, counts
    <3>. QED
      BY <3>1, <3>2
  <2>. QED
    BY <2>1, <2>2, <2>3 DEF Contiguous, EndOf
<1>14. QueuedIsAccepted'
  <2>1. ASSUME NEW i \in 1..m
        PROVE  End(datafifo[i]) <= a + n
    <3>1. EndOf(datafifo[i]) \in Nat
      BY <1>3 DEF EndOf
    <3>2. EndOf(datafifo[i]) <= a
      BY <1>2 DEF StreamInv, QueuedIsAccepted, a
    <3>. QED
      BY <1>4, <1>5, <1>12, <3>1, <3>2
  <2>2. \A i \in 1..m + 1 : i \in 1..m \/ i = m + 1
    BY <1>1
  <2>3. a + n <= a + n
    BY <1>4, <1>5
  <2>. QED
    BY <1>1, <1>7, <1>9, <2>1, <2>2, <2>3 DEF QueuedIsAccepted, EndOf
<1>15. PlayedIsCounted' /\ PlayedInOrder' /\ OffsetsAgree'
  BY <1>2, <1>6 DEF StreamInv, PlayedIsCounted, PlayedInOrder, OffsetsAgree,
                    Unaccounted, counts
<1>. QED
  BY <1>13, <1>14, <1>15 DEF StreamInv

\* The bytes the parser takes are the ones that follow those it has.
LEMMA DeliverStream ==
  ASSUME IInv, [Next]_vars, WorkDeliver
  PROVE  StreamInv'
<1>. DEFINE b == Head(datafifo)
            p == Len(played)
<1>1. /\ TypeOK /\ Locking /\ WorkerHasHead /\ StreamInv
  BY DEF IInv, StreamInv
<1>2. /\ UNCHANGED <<task, counts, mutex, off>>
      /\ wpc = "write" /\ wpc' = "account"
  BY DEF WorkDeliver, writers
<1>3. PICK n \in 1..buf[b].data_size :
         /\ played' = played \o
              [i \in 1..n |-> buf[b].before + buf[b].write_off + i]
         /\ wret' = n
  BY DEF WorkDeliver
<1>4. datafifo # <<>> /\ datafifo \in Seq(BufIds)
  BY <1>1, <1>2 DEF WorkerHasHead, TypeOK, QueuesType
<1>5. b = datafifo[1] /\ b \in BufIds /\ buf[b].data_size \in Nat
  BY <1>1, <1>4, TailShape DEF TypeOK, QueuesType
<1>6. /\ p \in Nat /\ n \in Nat /\ passed_data_len \in Nat
      /\ played \in Seq(Nat) /\ buffered_data_size \in Int
      /\ data_offset \in Nat
  BY <1>1, <1>5 DEF TypeOK, WorkType, CountsType
<1>7. p = passed_data_len /\ p + buffered_data_size = data_offset
  BY <1>1, <1>2, <1>6
     DEF StreamInv, PlayedIsCounted, OffsetsAgree, Unaccounted
<1>8. buf[b].before + buf[b].write_off = p
  BY <1>1, <1>4, <1>5, <1>7 DEF StreamInv, Contiguous
<1>. DEFINE d == [i \in 1..n |-> p + i]
<1>9. /\ d \in Seq(Nat) /\ Len(d) = n /\ \A i \in 1..n : d[i] = p + i
  BY <1>6
<1>10. played' = played \o d
  BY <1>3, <1>8
<1>. HIDE DEF d
<1>11. /\ Len(played') = p + n /\ played' \in Seq(Nat)
       /\ \A i \in 1..p : played'[i] = played[i]
       /\ \A i \in p + 1 .. p + n : played'[i] = d[i - p]
  BY <1>6, <1>9, <1>10, ConcatShape
<1>12. \A i \in 1..p : played[i] = i
  <2>1. played = [i \in 1..p |-> i]
    BY <1>1 DEF StreamInv, PlayedInOrder
  <2>. HIDE DEF p
  <2>. QED
    BY <2>1
<1>13. PlayedInOrder'
  <2>1. ASSUME NEW i \in 1..p + n
        PROVE  played'[i] = i
    <3>1. CASE i \in 1..p
      BY <1>11, <1>12, <3>1
    <3>2. CASE i \notin 1..p
      <4>1. i \in p + 1 .. p + n /\ i - p \in 1..n
        BY <1>6, <3>2
      <4>2. played'[i] = p + (i - p)
        BY <1>9, <1>11, <4>1
      <4>. QED
        BY <1>6, <4>2
    <3>. QED
      BY <3>1, <3>2
  <2>2. played' = [i \in 1..Len(played') |-> played'[i]]
    BY <1>11
  <2>. QED
    BY <1>11, <2>1, <2>2 DEF PlayedInOrder
<1>14. PlayedIsCounted' /\ OffsetsAgree'
  <2>1. Unaccounted' = n
    BY <1>2, <1>3 DEF Unaccounted
  <2>2. /\ passed_data_len' = passed_data_len /\ data_offset' = data_offset
        /\ buffered_data_size' = buffered_data_size
    BY <1>2 DEF counts
  <2>. QED
    BY <1>6, <1>7, <1>11, <2>1, <2>2 DEF PlayedIsCounted, OffsetsAgree
<1>15. Contiguous' /\ QueuedIsAccepted'
  <2>1. Accepted' = Accepted
    BY <1>2 DEF Accepted, InFlight, counts
  <2>2. /\ UNCHANGED <<datafifo, buf, passed_data_len>>
        /\ Contiguous /\ QueuedIsAccepted
    BY <1>1, <1>2 DEF task, counts, StreamInv
  <2>. QED
    BY <2>1, <2>2 DEF Contiguous, QueuedIsAccepted, EndOf
<1>. QED
  BY <1>13, <1>14, <1>15 DEF StreamInv

\* Accounting moves the read position of the head buffer, or, when all of it
\* was taken, the head itself.
LEMMA AccountStream ==
  ASSUME IInv, [Next]_vars, WorkAccount
  PROVE  StreamInv'
<1>. DEFINE b == Head(datafifo)
            m == Len(datafifo)
            End(i) == buf'[i].before + buf'[i].write_off + buf'[i].data_size
<1>1. /\ TypeOK /\ Locking /\ WorkerHasHead /\ StreamInv /\ BuffersNotShared
  BY DEF IInv, StreamInv
<1>2. /\ wpc = "account" /\ wpc' = "lock" /\ wret' = 0
      /\ passed_data_len' = passed_data_len + wret
      /\ buffered_data_size' = buffered_data_size - wret
      /\ UNCHANGED <<data_offset, played, off>>
      /\ mutex' = Nobody
  BY DEF WorkAccount, CountPassed, writers
<1>3. /\ datafifo # <<>> /\ datafifo \in Seq(BufIds)
      /\ wret \in 1..buf[b].data_size
  BY <1>1, <1>2 DEF WorkerHasHead, TypeOK, QueuesType
<1>4. /\ b = datafifo[1] /\ b \in BufIds /\ m \in Nat \ {0}
      /\ Len(Tail(datafifo)) = m - 1
      /\ \A i \in 1..m - 1 : Tail(datafifo)[i] = datafifo[i + 1]
      /\ \A i \in 1..m : datafifo[i] \in BufIds
  BY <1>3, TailShape
<1>5. /\ buf \in [BufIds -> [before : Nat, write_off : Nat, data_size : Nat,
                             buffer_size : Nat]]
      /\ passed_data_len \in Nat /\ data_offset \in Nat
      /\ buffered_data_size \in Int /\ Len(played) \in Nat
  BY <1>1 DEF TypeOK, QueuesType, CountsType, WorkType
<1>6. /\ buf[b].data_size \in Nat /\ wret \in Nat /\ wret > 0
      /\ buf[b].before \in Nat /\ buf[b].write_off \in Nat
  BY <1>3, <1>4, <1>5
<1>7. Accepted' = Accepted /\ Accepted \in Nat
  <2>1. mutex = Worker /\ Nobody \notin Writers /\ Worker \notin Writers
    BY <1>1, <1>2, ThreadRwAssumption DEF Locking
  <2>. QED
    BY <1>2, <1>5, <2>1 DEF Accepted, InFlight
<1>8. /\ Len(played) = passed_data_len + wret
      /\ Len(played) + buffered_data_size = data_offset + wret
      /\ played = [i \in 1..Len(played) |-> i]
  BY <1>1, <1>2 DEF StreamInv, PlayedIsCounted, OffsetsAgree, PlayedInOrder,
                    Unaccounted
<1>9. PlayedIsCounted' /\ OffsetsAgree' /\ PlayedInOrder'
  <2>1. Unaccounted' = 0
    BY <1>2 DEF Unaccounted
  <2>2. PlayedIsCounted'
    BY <1>2, <1>5, <1>6, <1>8, <2>1 DEF PlayedIsCounted
  <2>3. Len(played) + (buffered_data_size - wret) = data_offset
    BY <1>5, <1>6, <1>8
  <2>4. OffsetsAgree'
    BY <1>2, <1>5, <2>1, <2>3 DEF OffsetsAgree
  <2>. QED
    BY <1>2, <1>8, <2>2, <2>4 DEF PlayedInOrder
<1>10. /\ buf[b].before + buf[b].write_off = passed_data_len
       /\ \A i \in 1..m - 1 :
            /\ buf[datafifo[i + 1]].before = EndOf(datafifo[i])
            /\ buf[datafifo[i + 1]].write_off = 0
       /\ EndOf(datafifo[m]) = Accepted
       /\ \A i \in 1..m : EndOf(datafifo[i]) <= Accepted
  BY <1>1, <1>3, <1>4 DEF StreamInv, Contiguous, QueuedIsAccepted
<1>11. \A i \in 2..m : datafifo[i] # b
  BY <1>1, <1>4 DEF BuffersNotShared
<1>12. ASSUME buf' = [buf EXCEPT ![b] = Advance(b, wret)],
              datafifo' = datafifo
       PROVE  Contiguous' /\ QueuedIsAccepted'
  <2>1. /\ buf'[b].before = buf[b].before
        /\ buf'[b].write_off = buf[b].write_off + wret
        /\ buf'[b].data_size = buf[b].data_size - wret
    BY <1>4, <1>5, <1>12 DEF Advance, RwBuf
  <2>2. End(b) = EndOf(b)
    BY <1>3, <1>6, <2>1 DEF EndOf
  <2>3. \A i \in 2..m : buf'[datafifo[i]] = buf[datafifo[i]]
    BY <1>4, <1>5, <1>11, <1>12
  <2>4. \A i \in 1..m : End(datafifo[i]) = EndOf(datafifo[i])
    <3>1. \A i \in 2..m : End(datafifo[i]) = EndOf(datafifo[i])
      BY <2>3 DEF EndOf
    <3>2. \A i \in 1..m : i = 1 \/ i \in 2..m
      BY <1>4
    <3>. QED
      BY <1>4, <2>2, <3>1, <3>2
  <2>. HIDE DEF End
  <2>5. \A i \in 1..m - 1 :
          /\ buf'[datafifo[i + 1]].before = End(datafifo[i])
          /\ buf'[datafifo[i + 1]].write_off = 0
    <3>1. \A i \in 1..m - 1 : i \in 1..m /\ i + 1 \in 2..m
      BY <1>4
    <3>. QED
      BY <1>10, <2>3, <2>4, <3>1
  <2>6. End(datafifo[m]) = Accepted /\ m \in 1..m
    BY <1>4, <1>10, <2>4
  <2>7. buf'[b].before + buf'[b].write_off = passed_data_len + wret
    BY <1>6, <1>10, <2>1
  <2>8. Contiguous'
    BY <1>2, <1>3, <1>4, <1>7, <1>12, <2>5, <2>6, <2>7
       DEF Contiguous, EndOf, End
  <2>9. QueuedIsAccepted'
    BY <1>7, <1>10, <1>12, <2>4 DEF QueuedIsAccepted, EndOf, End
  <2>. QED
    BY <2>8, <2>9
<1>13. ASSUME buf' = [buf EXCEPT ![b] = NoData(buf[b].buffer_size)],
              datafifo' = Tail(datafifo), wret >= buf[b].data_size
       PROVE  Contiguous' /\ QueuedIsAccepted'
  <2>1. \A i \in 2..m : buf'[datafifo[i]] = buf[datafifo[i]]
    BY <1>4, <1>5, <1>11, <1>13
  <2>2. \A i \in 2..m : End(datafifo[i]) = EndOf(datafifo[i])
    BY <2>1 DEF EndOf
  <2>3. EndOf(b) = passed_data_len + wret
    <3>1. wret = buf[b].data_size
      BY <1>3, <1>6, <1>13
    <3>. QED
      BY <1>6, <1>10, <3>1 DEF EndOf
  <2>. HIDE DEF End
  <2>4. Len(datafifo') = m - 1 /\ \A i \in 1..m - 1 :
          datafifo'[i] = datafifo[i + 1] /\ i + 1 \in 2..m
    BY <1>4, <1>13
  <2>5. \A i \in 1..Len(datafifo') - 1 :
          /\ buf'[datafifo'[i + 1]].before = End(datafifo'[i])
          /\ buf'[datafifo'[i + 1]].write_off = 0
    <3>1. ASSUME NEW i \in 1..Len(datafifo') - 1
          PROVE  /\ buf'[datafifo'[i + 1]].before = End(datafifo'[i])
                 /\ buf'[datafifo'[i + 1]].write_off = 0
      <4>1. /\ i \in 1..m - 1 /\ i + 1 \in 1..m - 1
            /\ i + 1 \in 2..m /\ (i + 1) + 1 \in 2..m
        BY <1>4, <2>4
      <4>2. /\ datafifo'[i] = datafifo[i + 1]
            /\ datafifo'[i + 1] = datafifo[(i + 1) + 1]
        BY <2>4, <4>1
      <4>3. /\ buf[datafifo[(i + 1) + 1]].before = EndOf(datafifo[i + 1])
            /\ buf[datafifo[(i + 1) + 1]].write_off = 0
        BY <1>10, <4>1
      <4>. QED
        BY <2>1, <2>2, <4>1, <4>2, <4>3
    <3>. QED
      BY <3>1
  <2>6. CASE m = 1
    <3>1. datafifo' = <<>>
      BY <1>3, <1>13, <2>4, <2>6, TailShape
    <3>2. passed_data_len' = Accepted'
      BY <1>2, <1>4, <1>7, <1>10, <2>3, <2>6
    <3>. QED
      BY <2>5, <3>1, <3>2 DEF Contiguous, QueuedIsAccepted, EndOf, End
  <2>7. CASE m # 1
    <3>1. /\ 1 \in 1..m - 1 /\ m - 1 \in 1..m - 1 /\ 2 \in 2..m /\ m \in 2..m
          /\ 1 + 1 = 2 /\ (m - 1) + 1 = m
      BY <1>4, <2>7
    <3>2. /\ datafifo' # <<>> /\ datafifo'[1] = datafifo[2]
          /\ datafifo'[Len(datafifo')] = datafifo[m]
      BY <2>4, <3>1
    <3>3. /\ buf[datafifo[2]].before = passed_data_len + wret
          /\ buf[datafifo[2]].write_off = 0
      BY <1>4, <1>10, <2>3, <3>1
    <3>4. buf'[datafifo'[1]].before + buf'[datafifo'[1]].write_off
            = passed_data_len'
      <4>1. buf'[datafifo'[1]] = buf[datafifo[2]]
        BY <2>1, <3>1, <3>2
      <4>2. passed_data_len + wret + 0 = passed_data_len + wret
        BY <1>5, <1>6
      <4>. QED
        BY <1>2, <3>3, <4>1, <4>2
    <3>5. End(datafifo'[Len(datafifo')]) = Accepted'
      BY <1>7, <1>10, <2>2, <3>1, <3>2
    <3>6. Contiguous'
      BY <2>5, <3>2, <3>4, <3>5 DEF Contiguous, EndOf, End
    <3>7. ASSUME NEW i \in 1..Len(datafifo')
          PROVE  End(datafifo'[i]) <= Accepted'
      <4>1. i \in 1..m - 1 /\ i + 1 \in 2..m /\ i + 1 \in 1..m
        BY <1>4, <2>4, <3>7
      <4>. QED
        BY <1>7, <1>10, <2>2, <2>4, <4>1
    <3>. QED
      BY <3>6, <3>7 DEF QueuedIsAccepted, EndOf, End
  <2>. QED
    BY <2>6, <2>7
<1>. QED
  BY <1>9, <1>12, <1>13 DEF StreamInv, WorkAccount, Recycle

\* Every other step queues at the end or plays at the beginning.
LEMMA StreamStep == IInv /\ [Next]_vars => StreamInv'
<1> SUFFICES ASSUME IInv, [Next]_vars PROVE StreamInv'
  OBVIOUS
<1>. QED
  BY CopyStream, DeliverStream, AccountStream, StreamSteps, QuietStep

-----------------------------------------------------------------------------
(* The theorems *)

\* It holds when the task is allocated,
LEMMA InitInv == Init => IInv
<1> SUFFICES ASSUME Init PROVE IInv
  OBVIOUS
<1>1. TypeOK /\ HasBlock
  BY InitType
<1>2. /\ datafifo = <<>> /\ Len(datafifo) = 0
      /\ played = <<>> /\ Len(played) = 0
      /\ buffered_data_size = 0 /\ passed_data_len = 0 /\ data_offset = 0
      /\ mutex = Nobody /\ pending = FALSE /\ cancelling = FALSE
      /\ wpc = "off" /\ wret = 0 /\ rpc = "open"
      /\ pc = [w \in Writers |-> "idle"] /\ off = [w \in Writers |-> 0]
  BY DEF Init
<1>3. Nobody \notin Writers /\ Nobody # Worker
  BY ThreadRwAssumption DEF Nobody, Worker
<1>4. Locking /\ WorkerHasHead /\ Releasing
  BY <1>2, <1>3 DEF Locking, InWrite, WorkerHasHead, Releasing
<1>5. DataIsAttended /\ SleepsInVain
  BY <1>2 DEF DataIsAttended, SleepsInVain
<1>6. Accepted = 0 /\ Unaccounted = 0
  BY <1>2, <1>3 DEF Accepted, InFlight, Unaccounted
<1>7. /\ Contiguous /\ QueuedIsAccepted /\ PlayedIsCounted /\ OffsetsAgree
  BY <1>2, <1>6 DEF Contiguous, QueuedIsAccepted, PlayedIsCounted, OffsetsAgree
<1>8. PlayedInOrder
  BY <1>2 DEF PlayedInOrder
<1>9. PICK sizes \in Allocations(InitNum, Block) :
         bufs_num = Len(sizes) /\ freefifo = NewIds(0, sizes)
  BY DEF Init
<1>10. sizes \in Seq(Nat) /\ Len(sizes) \in Nat
  BY <1>9, AllocationShape, ThreadRwAssumption
<1>11. Len(freefifo) = Len(sizes) /\ \A i \in 1..Len(sizes) : freefifo[i] = i
  BY <1>9, <1>10 DEF NewIds
<1>12. KnownBuffers /\ BuffersNotShared
  BY <1>2, <1>9, <1>10, <1>11 DEF KnownBuffers, BuffersNotShared, InFifo
<1>. QED
  BY <1>1, <1>4, <1>5, <1>7, <1>8, <1>12 DEF IInv

\* and every step keeps it.
LEMMA InvStep == IInv /\ [Next]_vars => IInv'
BY TypeStep, LockingStep, HeadStep, ReleasingStep, KnownStep, BlockStep,
   NotSharedStep, StreamStep, AttendedStep, SleepsStep DEF IInv, StreamInv

\* The invariant holds in every reachable state, for any number of writers,
\* buffers and bytes.
THEOREM Invariance == Spec => []IInv
<1>1. Init => IInv
  BY InitInv
<1>2. IInv /\ [Next]_vars => IInv'
  BY InvStep
<1>. QED
  BY <1>1, <1>2, PTL DEF Spec

\* Every variable always has a value of its kind; in particular no copy,
\* partial write or growth makes a buffer index or a length invalid.
THEOREM TypeCorrect == Spec => []TypeOK
<1>1. IInv => TypeOK
  BY DEF IInv
<1>. QED
  BY <1>1, Invariance, PTL

\* threadrw_write_in() and do_write_work_in() keep the queued bytes back to
\* back: none is lost, repeated or reordered, whatever sizes the writes, the
\* buffers and the parser's partial writes have.
THEOREM ContiguousAlways == Spec => []Contiguous
<1>1. IInv => Contiguous
  BY DEF IInv
<1>. QED
  BY <1>1, Invariance, PTL

\* The parser gets the accepted stream from its first byte on, in order.
THEOREM PlayedInOrderAlways == Spec => []PlayedInOrder
<1>1. IInv => PlayedInOrder
  BY DEF IInv
<1>. QED
  BY <1>1, Invariance, PTL

\* The two stream positions PTS are checked in at differ by the bytes that
\* do_write_work_in() has not accounted for, and by nothing else.
THEOREM OffsetsAgreeAlways == Spec => []OffsetsAgree
<1>1. IInv => OffsetsAgree
  BY DEF IInv
<1>. QED
  BY <1>1, Invariance, PTL

\* No buffer is in both fifos or twice in one.
THEOREM NotSharedAlways == Spec => []BuffersNotShared
<1>1. IInv => BuffersNotShared
  BY DEF IInv
<1>. QED
  BY <1>1, Invariance, PTL

\* Queued data never waits without a work item coming for it.
THEOREM AttendedAlways == Spec => []DataIsAttended
<1>1. IInv => DataIsAttended
  BY DEF IInv
<1>. QED
  BY <1>1, Invariance, PTL

\* A writer that sleeps for a buffer never finds one: it holds the mutex the
\* worker would need.
THEOREM SleepsInVainAlways == Spec => []SleepsInVain
<1>1. IInv => SleepsInVain
  BY DEF IInv
<1>. QED
  BY <1>1, Invariance, PTL

\* Once threadrw_release() has freed the task, the work item neither runs nor
\* is queued to, and nobody holds its mutex.
THEOREM NoUseAfterFree == Spec => []NothingRunsOnFreedTask
<1>1. IInv => NothingRunsOnFreedTask
  <2> SUFFICES ASSUME IInv, rpc = "freed"
               PROVE  ~pending /\ wpc = "off" /\ mutex = Nobody
    BY DEF NothingRunsOnFreedTask
  <2>1. ~pending /\ wpc = "off" /\ \A w \in Writers : pc[w] = "idle"
    BY DEF IInv, Releasing
  <2>2. mutex # Worker /\ mutex \notin Writers
    BY <2>1 DEF IInv, Locking, InWrite
  <2>. QED
    BY <2>1, <2>2 DEF IInv, TypeOK, WorkType
<1>. QED
  BY <1>1, Invariance, PTL

-----------------------------------------------------------------------------
(* No buffer is lost *)

\* Only taking a user address for a buffer makes a thread oops; it holds the
\* mutex then, and nobody takes it from it.
LEMMA OopsesSame ==
  ASSUME IInv, [Next]_vars, \A w \in Writers : ~OnceOops(w)
  PROVE  Oopses' = Oopses
<1>. USE DEF Oopses, WritersType, writers, task
<1>1. /\ WritersType
      /\ \A w \in Writers : pc[w] = "oops" => mutex = w
      /\ \A w \in Writers : InWrite(w) => mutex = w
      /\ mutex = Worker <=> wpc \in {"write", "account"}
      /\ Nobody \notin Writers /\ Worker \notin Writers
  BY ThreadRwAssumption DEF IInv, TypeOK, Locking, InWrite
<1>2. ASSUME NEW w \in Writers, NEW n \in Counts, BeginWrite(w, n)
      PROVE  Oopses' = Oopses
  BY <1>1, <1>2 DEF BeginWrite
<1>3. ASSUME NEW w \in Writers, BeginFlush(w)
      PROVE  Oopses' = Oopses
  BY <1>1, <1>3 DEF BeginFlush, InWrite
<1>4. ASSUME NEW w \in Writers, LockWrite(w)
      PROVE  Oopses' = Oopses
  BY <1>1, <1>4 DEF LockWrite, InWrite
<1>5. ASSUME NEW w \in Writers, OnceCopy(w)
      PROVE  Oopses' = Oopses
  BY <1>1, <1>5 DEF OnceCopy, InWrite
<1>6. ASSUME NEW w \in Writers, OnceFault(w)
      PROVE  Oopses' = Oopses
  BY <1>1, <1>6 DEF OnceFault, InWrite
<1>7. ASSUME NEW w \in Writers, OnceSleep(w)
      PROVE  Oopses' = Oopses
  BY <1>1, <1>7 DEF OnceSleep, InWrite
<1>8. ASSUME NEW w \in Writers, OnceNone(w)
      PROVE  Oopses' = Oopses
  BY <1>1, <1>8 DEF OnceNone, InWrite
<1>9. ASSUME NEW w \in Writers, SleepEnd(w)
      PROVE  Oopses' = Oopses
  BY <1>1, <1>9 DEF SleepEnd, InWrite
<1>10. ASSUME NEW w \in Writers, Account(w)
      PROVE  Oopses' = Oopses
  BY <1>1, <1>10 DEF Account, InWrite
<1>11. ASSUME NEW w \in Writers, ReturnAgain(w)
      PROVE  Oopses' = Oopses
  BY <1>1, <1>11 DEF ReturnAgain, InWrite
<1>12. ASSUME NEW w \in Writers, DecideGrow(w)
      PROVE  Oopses' = Oopses
  BY <1>1, <1>12 DEF DecideGrow, InWrite
<1>13. ASSUME NEW w \in Writers, Grow(w)
      PROVE  Oopses' = Oopses
  BY <1>1, <1>13 DEF Grow, InWrite
<1>14. ASSUME NEW w \in Writers, GrowDone(w)
      PROVE  Oopses' = Oopses
  BY <1>1, <1>14 DEF GrowDone, InWrite
<1>15. ASSUME NEW w \in Writers, FlushPoll(w)
      PROVE  Oopses' = Oopses
  BY <1>1, <1>15 DEF FlushPoll, InWrite
<1>16. ASSUME NEW w \in Writers, FlushDone(w)
      PROVE  Oopses' = Oopses
  BY <1>1, <1>16 DEF FlushDone, InWrite
<1>17. ASSUME WorkStart
      PROVE  Oopses' = Oopses
  BY <1>1, <1>17 DEF WorkStart
<1>18. ASSUME WorkLock
      PROVE  Oopses' = Oopses
  BY <1>1, <1>18 DEF WorkLock
<1>19. ASSUME WorkNoData
      PROVE  Oopses' = Oopses
  BY <1>1, <1>19 DEF WorkNoData
<1>20. ASSUME WorkDeliver
      PROVE  Oopses' = Oopses
  BY <1>1, <1>20 DEF WorkDeliver
<1>21. ASSUME WorkAgain
      PROVE  Oopses' = Oopses
  BY <1>1, <1>21 DEF WorkAgain
<1>22. ASSUME WorkError
      PROVE  Oopses' = Oopses
  BY <1>1, <1>22 DEF WorkError
<1>23. ASSUME WorkAccount
      PROVE  Oopses' = Oopses
  BY <1>1, <1>23 DEF WorkAccount
<1>24. ASSUME WorkResched
      PROVE  Oopses' = Oopses
  BY <1>1, <1>24 DEF WorkResched
<1>25. ASSUME ReleaseCancel
      PROVE  Oopses' = Oopses
  BY <1>1, <1>25 DEF ReleaseCancel
<1>26. ASSUME ReleaseSync
      PROVE  Oopses' = Oopses
  BY <1>1, <1>26 DEF ReleaseSync
<1>27. ASSUME ReleaseFree
      PROVE  Oopses' = Oopses
  BY <1>1, <1>27 DEF ReleaseFree
<1>28. ASSUME Released \/ UNCHANGED vars
      PROVE  Oopses' = Oopses
  BY <1>28 DEF Released, vars
<1>. QED
  BY <1>2, <1>3, <1>4, <1>5, <1>6, <1>7, <1>8, <1>9, <1>10, <1>11, <1>12,
     <1>13, <1>14, <1>15, <1>16, <1>17, <1>18, <1>19, <1>20, <1>21, <1>22,
     <1>23, <1>24, <1>25, <1>26, <1>27, <1>28
     DEF Next, WriterStep, WorkerStep, ReleaseStep

\* A buffer goes to the other fifo, or an address takes its place.
LEMMA LostStep == IInv /\ NoBufferLost /\ [Next]_vars => NoBufferLost'
<1> SUFFICES ASSUME IInv, NoBufferLost, [Next]_vars PROVE NoBufferLost'
  OBVIOUS
<1>1. /\ datafifo \in Seq(BufIds) /\ freefifo \in Seq(BufIds \cup {UserPtr})
      /\ Len(datafifo) \in Nat /\ Len(freefifo) \in Nat
      /\ bufs_num \in Nat /\ Oopses \in 0..1
      /\ Len(datafifo) + Len(freefifo) + Oopses = bufs_num
  BY ThreadRwAssumption
     DEF IInv, TypeOK, QueuesType, NoBufferLost, Oopses
<1>2. ASSUME NEW w \in Writers, OnceOops(w) PROVE NoBufferLost'
  <2>1. WritersType /\ pc[w] = "once" /\ mutex' = mutex
    BY <1>2 DEF OnceOops, IInv, TypeOK
  <2>2. mutex = w
    BY <2>1 DEF IInv, Locking, InWrite
  <2>3. Oopses = 0 /\ Oopses' = 1
    BY <1>2, <2>1, <2>2 DEF OnceOops, Oopses, WritersType
  <2>4. Len(freefifo') = Len(freefifo) - 1
    BY <1>1, <1>2, TailShape DEF OnceOops
  <2>. QED
    BY <1>1, <1>2, <2>3, <2>4 DEF OnceOops, NoBufferLost
<1>3. ASSUME \A w \in Writers : ~OnceOops(w) PROVE Oopses' = Oopses
  BY <1>3, OopsesSame
<1>4. ASSUME \A w \in Writers : ~OnceOops(w),
             NEW w \in Writers, OnceCopy(w)
      PROVE  NoBufferLost'
  <2>1. Head(freefifo) \in BufIds
    BY <1>1, <1>4, TailShape DEF OnceCopy
  <2>2. Len(freefifo') = Len(freefifo) - 1
    BY <1>1, <1>4, TailShape DEF OnceCopy
  <2>3. Len(datafifo') = Len(datafifo) + 1
    BY <1>1, <1>4, <2>1, AppendShape DEF OnceCopy
  <2>. QED
    BY <1>1, <1>3, <1>4, <2>2, <2>3 DEF OnceCopy, NoBufferLost
<1>5. ASSUME \A w \in Writers : ~OnceOops(w),
             NEW w \in Writers, OnceFault(w)
      PROVE  NoBufferLost'
  <2>1. /\ Tail(freefifo) \in Seq(BufIds \cup {UserPtr})
        /\ Len(Tail(freefifo)) = Len(freefifo) - 1
    BY <1>1, <1>5, TailShape DEF OnceFault
  <2>2. Len(freefifo') = Len(freefifo)
    BY <1>1, <1>5, <2>1, AppendShape DEF OnceFault
  <2>. QED
    BY <1>1, <1>3, <1>5, <2>2 DEF OnceFault, NoBufferLost
<1>6. ASSUME \A w \in Writers : ~OnceOops(w),
             NEW w \in Writers, Grow(w)
      PROVE  NoBufferLost'
  <2>1. PICK sizes \in Seq(Nat) :
           /\ freefifo' = freefifo \o NewIds(bufs_num, sizes)
           /\ bufs_num' = bufs_num + Len(sizes)
           /\ Len(sizes) <= MaxBufs - bufs_num
    BY <1>6, GrowShape DEF IInv
  <2>2. /\ NewIds(bufs_num, sizes) \in Seq(BufIds \cup {UserPtr})
        /\ Len(NewIds(bufs_num, sizes)) = Len(sizes) /\ Len(sizes) \in Nat
    BY <1>1, <2>1, ThreadRwAssumption DEF NewIds, BufIds
  <2>. HIDE DEF BufIds, NewIds
  <2>3. Len(freefifo \o NewIds(bufs_num, sizes))
          = Len(freefifo) + Len(NewIds(bufs_num, sizes))
    BY <1>1, <2>2, ConcatShape
  <2>4. Len(freefifo') = Len(freefifo) + Len(sizes)
    BY <2>1, <2>2, <2>3
  <2>. QED
    BY <1>1, <1>3, <1>6, <2>1, <2>2, <2>4 DEF Grow, NoBufferLost
<1>7. ASSUME \A w \in Writers : ~OnceOops(w), WorkAccount
      PROVE  NoBufferLost'
  <2>. DEFINE b == Head(datafifo)
  <2>1. /\ datafifo # <<>> /\ b \in BufIds
        /\ Len(Tail(datafifo)) = Len(datafifo) - 1
    BY <1>1, <1>7, TailShape DEF WorkAccount, IInv, WorkerHasHead
  <2>2. Len(Append(freefifo, b)) = Len(freefifo) + 1
    BY <1>1, <2>1, AppendShape
  <2>3. CASE wret >= buf[b].data_size
    <3>1. /\ datafifo' = Tail(datafifo) /\ freefifo' = Append(freefifo, b)
          /\ bufs_num' = bufs_num /\ Oopses' = Oopses
      BY <1>3, <1>7, <2>3 DEF WorkAccount, Recycle
    <3>2. /\ Len(datafifo') = Len(datafifo) - 1
          /\ Len(freefifo') = Len(freefifo) + 1
      BY <2>1, <2>2, <3>1
    <3>3. bufs_num' = bufs_num /\ Oopses' = Oopses
      BY <3>1
    <3>4. Len(datafifo') + Len(freefifo') + Oopses' = bufs_num'
      BY <1>1, <3>2, <3>3
    <3>. QED
      BY <3>4 DEF NoBufferLost
  <2>4. CASE ~(wret >= buf[b].data_size)
    BY <1>1, <1>3, <1>7, <2>4 DEF WorkAccount, NoBufferLost
  <2>. QED
    BY <2>3, <2>4
<1>8. ASSUME \A w \in Writers : ~OnceOops(w),
             UNCHANGED <<datafifo, freefifo, buf, bufs_num, buffer_size>>
      PROVE  NoBufferLost'
  BY <1>1, <1>3, <1>8 DEF NoBufferLost
<1>. QED
  BY <1>2, <1>4, <1>5, <1>6, <1>7, <1>8, QueueSteps

\* Whatever is copied, written in parts, refused or grown, and whatever
\* copies fail, every buffer or its wrongly returned stand-in stays in
\* circulation.
THEOREM NoBufferLostAlways == Spec => []NoBufferLost
<1>1. Init => IInv /\ NoBufferLost
  <2> SUFFICES ASSUME Init PROVE NoBufferLost
    BY InitInv
  <2>1. PICK sizes \in Allocations(InitNum, Block) :
           bufs_num = Len(sizes) /\ freefifo = NewIds(0, sizes)
    BY DEF Init
  <2>2. sizes \in Seq(Nat) /\ Len(sizes) \in Nat
    BY <2>1, AllocationShape, ThreadRwAssumption
  <2>3. Len(freefifo) = Len(sizes) /\ Len(datafifo) = 0
    BY <2>1, <2>2 DEF NewIds, Init
  <2>4. Oopses = 0
    BY ThreadRwAssumption DEF Oopses, Init
  <2>. QED
    BY <2>1, <2>2, <2>3, <2>4 DEF NoBufferLost
<1>2. (IInv /\ NoBufferLost) /\ [Next]_vars => (IInv /\ NoBufferLost)'
  BY InvStep, LostStep
<1>. QED
  BY <1>1, <1>2, PTL DEF Spec

\* drm_write() may go on after a successful threadrw_flush_buffers(): the
\* parser has every accepted byte.
THEOREM FlushIsComplete == Spec => FlushOkMeansPlayed
<1>. DEFINE Flushed(w) ==
       pc[w] = "flush" /\ pc'[w] = "idle" /\ ret'[w] = "ok"
         => Len(played) = Accepted
<1>1. ASSUME IInv, [Next]_vars, NEW w \in Writers,
             pc[w] = "flush", pc'[w] = "idle", ret'[w] = "ok"
      PROVE  datafifo = <<>>
  <2>. USE DEF task, counts, work, writers, WritersType
  <2>1. WritersType
    BY <1>1 DEF IInv, TypeOK
  <2>2. ASSUME NEW v \in Writers, FlushDone(v)
        PROVE  datafifo = <<>>
    <3>1. v = w
      BY <1>1, <2>1, <2>2 DEF FlushDone
    <3>. QED
      BY <1>1, <2>1, <2>2, <3>1 DEF FlushDone
  <2>3. ASSUME NEW v \in Writers, NEW n \in Counts, BeginWrite(v, n)
        PROVE  FALSE
    BY <1>1, <2>1, <2>3 DEF BeginWrite
  <2>4. ASSUME NEW v \in Writers, BeginFlush(v)
        PROVE  FALSE
    BY <1>1, <2>1, <2>4 DEF BeginFlush
  <2>5. ASSUME NEW v \in Writers, LockWrite(v)
        PROVE  FALSE
    BY <1>1, <2>1, <2>5 DEF LockWrite
  <2>6. ASSUME NEW v \in Writers, OnceCopy(v)
        PROVE  FALSE
    BY <1>1, <2>1, <2>6 DEF OnceCopy
  <2>7. ASSUME NEW v \in Writers, OnceFault(v)
        PROVE  FALSE
    BY <1>1, <2>1, <2>7 DEF OnceFault
  <2>8. ASSUME NEW v \in Writers, OnceOops(v)
        PROVE  FALSE
    BY <1>1, <2>1, <2>8 DEF OnceOops
  <2>9. ASSUME NEW v \in Writers, OnceSleep(v)
        PROVE  FALSE
    BY <1>1, <2>1, <2>9 DEF OnceSleep
  <2>10. ASSUME NEW v \in Writers, OnceNone(v)
        PROVE  FALSE
    BY <1>1, <2>1, <2>10 DEF OnceNone
  <2>12. ASSUME NEW v \in Writers, SleepEnd(v)
        PROVE  FALSE
    BY <1>1, <2>1, <2>12 DEF SleepEnd
  <2>13. ASSUME NEW v \in Writers, Account(v)
        PROVE  FALSE
    BY <1>1, <2>1, <2>13 DEF Account
  <2>14. ASSUME NEW v \in Writers, ReturnAgain(v)
        PROVE  FALSE
    BY <1>1, <2>1, <2>14 DEF ReturnAgain
  <2>15. ASSUME NEW v \in Writers, DecideGrow(v)
        PROVE  FALSE
    BY <1>1, <2>1, <2>15 DEF DecideGrow
  <2>16. ASSUME NEW v \in Writers, Grow(v)
        PROVE  FALSE
    BY <1>1, <2>1, <2>16 DEF Grow
  <2>17. ASSUME NEW v \in Writers, GrowDone(v)
        PROVE  FALSE
    BY <1>1, <2>1, <2>17 DEF GrowDone
  <2>18. ASSUME NEW v \in Writers, FlushPoll(v)
        PROVE  FALSE
    BY <1>1, <2>1, <2>18 DEF FlushPoll
  <2>19. ASSUME WorkerStep \/ ReleaseCancel \/ ReleaseStep \/ Released
               \/ UNCHANGED vars
        PROVE  FALSE
    BY <1>1, <2>19 DEF WorkerStep, WorkStart, WorkLock, WorkNoData,
       WorkDeliver, WorkAgain, WorkError, WorkAccount, WorkResched,
       ReleaseCancel, ReleaseStep, ReleaseSync, ReleaseFree, Released, vars
  <2>. QED
    BY <1>1, <2>2, <2>3, <2>4, <2>5, <2>6, <2>7, <2>8, <2>9, <2>10, <2>12, <2>13, <2>14, <2>15, <2>16, <2>17, <2>18, <2>19
       DEF Next, WriterStep
<1>2. ASSUME IInv, datafifo = <<>>
      PROVE  Len(played) = Accepted
  <2>1. wpc # "account" /\ passed_data_len = Accepted
    BY <1>2 DEF IInv, WorkerHasHead, Contiguous
  <2>2. passed_data_len \in Nat
    BY <1>2 DEF IInv, TypeOK, CountsType
  <2>. QED
    BY <1>2, <2>1, <2>2 DEF IInv, PlayedIsCounted, Unaccounted
<1>3. IInv /\ [Next]_vars => \A w \in Writers : Flushed(w)
  BY <1>1, <1>2
<1>4. IInv /\ [Next]_vars => [\A w \in Writers : Flushed(w)]_vars
  BY <1>3
<1>. QED
  BY <1>4, Invariance, PTL DEF Spec, FlushOkMeansPlayed

\* The driver's writer implements the byte stream it promises: what it
\* accepts comes out in order, once each, and nothing after the release.
THEOREM Implements == Spec => StreamSpec
<1>. USE DEF Stream!Init, Stream!Next, Stream!Accept, Stream!Play,
             Stream!Close
<1>. DEFINE closed == rpc \in {"lock", "freed"}
            Image  == <<Accepted, played, closed>>
<1>1. Init => Stream!Init
  BY ThreadRwAssumption DEF Init, Accepted, InFlight
<1>2. ASSUME IInv, NEW w \in Writers, OnceCopy(w)
      PROVE  [Stream!Next]_Image
  <2>1. /\ mutex = w /\ off[w] \in Nat /\ left[w] \in Nat
        /\ off \in [Writers -> Nat] /\ data_offset \in Nat /\ rpc = "open"
    BY <1>2 DEF IInv, TypeOK, WritersType, CountsType, Locking, Releasing,
                OnceCopy, InWrite
  <2>2. Head(freefifo) \in BufIds
    BY <1>2, CopyShape
  <2>. DEFINE n == Smaller(buf[Head(freefifo)].buffer_size, left[w])
  <2>3. n \in Nat
    BY <1>2, <2>1, <2>2 DEF IInv, TypeOK, QueuesType, Smaller
  <2>4. /\ off' = [off EXCEPT ![w] = @ + n]
        /\ UNCHANGED <<mutex, data_offset, rpc, played>>
    BY <1>2 DEF OnceCopy, counts
  <2>. HIDE DEF n
  <2>5. Accepted = data_offset + off[w] /\ Accepted' = Accepted + n
    BY <2>1, <2>3, <2>4 DEF Accepted, InFlight
  <2>6. Accepted \in Nat /\ Accepted' \in Nat
    BY <2>1, <2>3, <2>5
  <2>7. ~closed /\ UNCHANGED <<played, closed>>
    BY <2>1, <2>4
  <2>. QED
    BY <2>3, <2>5, <2>6, <2>7
<1>3. ASSUME IInv, [Next]_vars, WorkDeliver
      PROVE  [Stream!Next]_Image
  <2>. DEFINE b == Head(datafifo)
              p == Len(played)
  <2>1. /\ wpc = "write" /\ datafifo # <<>> /\ datafifo \in Seq(BufIds)
    BY <1>3 DEF IInv, TypeOK, QueuesType, WorkerHasHead, WorkDeliver
  <2>2. /\ b = datafifo[1] /\ b \in BufIds /\ Len(datafifo) \in Nat \ {0}
    BY <2>1, TailShape
  <2>3. /\ buf[b].before \in Nat /\ buf[b].write_off \in Nat
        /\ buf[b].data_size \in Nat /\ p \in Nat /\ passed_data_len \in Nat
    BY <1>3, <2>2 DEF IInv, TypeOK, QueuesType, WorkType, CountsType
  <2>4. p = buf[b].before + buf[b].write_off
    BY <1>3, <2>1, <2>2, <2>3
       DEF IInv, Contiguous, PlayedIsCounted, Unaccounted
  <2>5. EndOf(b) <= Accepted
    BY <1>3, <2>2 DEF IInv, QueuedIsAccepted
  <2>6. Accepted \in Nat
    BY <1>3 DEF IInv, TypeOK, WritersType, CountsType, Accepted, InFlight
  <2>7. PICK n \in 1..buf[b].data_size :
          played' = played \o
            [i \in 1..n |-> buf[b].before + buf[b].write_off + i]
    BY <1>3 DEF WorkDeliver
  <2>8. n \in 1..(Accepted - p)
    BY <2>3, <2>4, <2>5, <2>6, <2>7 DEF EndOf
  <2>9. played' = played \o [i \in 1..n |-> p + i]
    BY <2>4, <2>7
  <2>10. Accepted' = Accepted
    BY <1>3, AcceptedSame DEF WorkDeliver, OnceCopy
  <2>11. ~closed /\ closed' = closed
    BY <1>3, <2>1 DEF IInv, Releasing, WorkDeliver
  <2>. QED
    BY <2>8, <2>9, <2>10, <2>11
<1>4. ASSUME IInv, [Next]_vars, \A w \in Writers : ~OnceCopy(w), ~WorkDeliver
      PROVE  [Stream!Next]_Image
  <2>1. UNCHANGED <<Accepted, played>>
    <3>1. CASE WorkAccount
      BY <1>4, <3>1, AcceptedSame DEF WorkAccount
    <3>2. CASE ~WorkAccount
      BY <1>4, <3>2, StreamSteps DEF Quiet
    <3>. QED
      BY <3>1, <3>2
  <2>2. closed' = closed \/ closed' = TRUE
    <3>1. ASSUME ReleaseSync \/ ReleaseFree
          PROVE  closed' = TRUE
      BY <3>1 DEF ReleaseSync, ReleaseFree
    <3>2. ASSUME ReleaseCancel
          PROVE  closed' = closed
      BY <3>2 DEF ReleaseCancel
    <3>3. ASSUME NEW w \in Writers, NEW n \in Counts, BeginWrite(w, n)
          PROVE  rpc' = rpc
      BY <3>3 DEF BeginWrite
    <3>4. ASSUME NEW w \in Writers, BeginFlush(w) \/ WriterStep(w)
          PROVE  rpc' = rpc
      BY <3>4 DEF BeginFlush, WriterStep, LockWrite, OnceCopy, OnceFault,
         OnceOops, OnceSleep, OnceNone, SleepEnd, Account,
         ReturnAgain, DecideGrow, Grow, GrowDone, FlushPoll, FlushDone
    <3>5. ASSUME WorkerStep \/ Released \/ UNCHANGED vars
          PROVE  rpc' = rpc
      BY <3>5 DEF WorkerStep, WorkStart, WorkLock, WorkNoData, WorkDeliver,
         WorkAgain, WorkError, WorkAccount, WorkResched, Released, vars
    <3>. QED
      BY <1>4, <3>1, <3>2, <3>3, <3>4, <3>5 DEF Next, ReleaseStep
  <2>. QED
    BY <2>1, <2>2
<1>5. IInv /\ [Next]_vars => [Stream!Next]_Image
  BY <1>2, <1>3, <1>4
<1>. QED
  BY <1>1, <1>5, Invariance, PTL DEF Spec, StreamSpec, Stream!Spec
=============================================================================
