------------------------------ MODULE ThreadRw ------------------------------
(***************************************************************************)
(* The buffered asynchronous writer of the amports driver                  *)
(* (amports/amports/thread_rw.c).  Writer threads copy user data into      *)
(* buffers taken from freefifo and queue them on datafifo; a delayed work  *)
(* item on a single-threaded workqueue feeds the buffers to the hardware   *)
(* parser and gives them back.  Both sides take task->mutex; the driver's  *)
(* release path cancels the work before it frees the task.                 *)
(*                                                                         *)
(* Bytes are numbered 1, 2, 3, ... in the order the writers hand them over *)
(* and a buffer remembers how many bytes precede its first one (field      *)
(* "before").  That field and "played", the numbers of the bytes the       *)
(* parser has taken, are observations; no guard reads either.              *)
(***************************************************************************)
EXTENDS Integers, Sequences, FiniteSets

CONSTANTS
  Writers,       \* threads inside esparser_write() or drm_write() on one port
  MaxBufs,       \* task->max_bufs
  InitNum,       \* buffers asked for by threadrw_alloc()
  Block,         \* bytes per buffer
  CmaAlign,      \* codec_mm granule in bytes: 128K in the source
  GrowSize,      \* bytes asked for by threadrw_alloc_more_buffer_size()
  GrowLimit,     \* 10M in the source: no growing beyond it
  Counts,        \* sizes of write() calls explored
  MaxBytes,      \* bound: no write() starts that would pass it on its own
  MaxWaits,      \* 10 in the source: sleeps of a blocking write, plus one
  FlushTries,    \* 20 in the source: polls of threadrw_flush_buffers()
  NonBlock,      \* file->f_flags & O_NONBLOCK
  Faults,        \* copy_from_user() may fail
  ParserErrors   \* task->write() may fail with something else than -EAGAIN

Nobody  == "nobody"
Worker  == "worker"
UserPtr == 0     \* the user-space address the fault path puts in freefifo

ASSUME ThreadRwAssumption ==
  /\ Nobody \notin Writers /\ Worker \notin Writers
  /\ MaxBufs \in Nat /\ InitNum \in 1..MaxBufs
  /\ Block \in Nat \ {0} /\ CmaAlign \in Nat \ {0}
  /\ GrowSize \in Nat /\ GrowLimit \in Nat
  /\ Counts \subseteq Nat \ {0} /\ MaxBytes \in Nat
  /\ MaxWaits \in Nat \ {0} /\ FlushTries \in Nat
  /\ {NonBlock, Faults, ParserErrors} \subseteq BOOLEAN

\* A definition that comes right before another and shares the beginning of
\* its name (ScheduleLost, WorkReschedNot, ...) is a faulty variant of it: it
\* occurs in no behaviour and shows that a property notices the fault.
\* Local variables are reset when the call that owns them returns, and a
\* buffer's write_off (set again by the next copy) when it becomes free.
VARIABLES
  datafifo, freefifo,  \* kfifos of buffer indices (or UserPtr, in freefifo)
  buf,                 \* task->buf[]
  bufs_num, buffer_size, failed_onmore, errors,
  buffered_data_size, passed_data_len, data_offset,
  mutex,               \* holder of task->mutex
  pending,             \* write_work is queued or its timer is armed
  cancelling,          \* cancel_delayed_work_sync() in progress
  wpc, wret,           \* the worker: program counter, result of task->write()
  pc,                  \* the writers: program counter,
  left, off,           \*   bytes still to copy and bytes copied by this call,
  tries,               \*   sleeps taken or flush polls left,
  ret,                 \*   result of the last threadrw_write_onece(),
  old_num,             \*   bufs_num before growing
  rpc,                 \* threadrw_release()
  played               \* numbers of the bytes the parser has taken, in order

task    == <<datafifo, freefifo, buf, bufs_num, buffer_size, failed_onmore,
             errors>>
counts  == <<buffered_data_size, passed_data_len, data_offset>>
work    == <<pending, cancelling, wpc, wret>>
writers == <<pc, left, off, tries, ret, old_num>>
vars    == <<task, counts, mutex, work, writers, rpc, played>>

BufIds  == 1..MaxBufs

\* struct threadrw_buf: n bytes that follow the first "before" ones, from
\* offset wo on; and a buffer without data.
RwBuf(before, wo, n, size) ==
  [before |-> before, write_off |-> wo, data_size |-> n, buffer_size |-> size]
NoData(size) == RwBuf(0, 0, 0, size)

Smaller(a, b) == IF a < b THEN a ELSE b

-----------------------------------------------------------------------------
(* Buffers.  One codec_mm chunk serves all the new buffers or, when none   *)
(* can be had, they come one by one from dma_alloc_coherent() until one    *)
(* fails.  The last buffer of a chunk takes the padding.  The driver never *)
(* asks codec_mm for less than one granule: its requests are of 2 MB.      *)

AlignUp(n) == ((n + CmaAlign - 1) \div CmaAlign) * CmaAlign

\* The sizes that n requested buffers of bs bytes may end up with.
Chunk(n, bs) ==
  [i \in 1..n |-> IF i = n THEN AlignUp(bs * n) - bs * (n - 1) ELSE bs]
Allocations(n, bs) ==
  {[i \in 1..k |-> bs] : k \in 0..n}
    \cup (IF bs * n >= CmaAlign THEN {Chunk(n, bs)} ELSE {})

\* buf[] after the buffers with these sizes were added behind the first m.
AddBuffers(b, m, sizes) ==
  [i \in BufIds |->
     IF i \in m + 1 .. m + Len(sizes)
       THEN NoData(sizes[i - m]) ELSE b[i]]
Bytes(sizes, bs) ==
  IF sizes = <<>> THEN 0 ELSE bs * (Len(sizes) - 1) + sizes[Len(sizes)]
NewIdsOffByOne(m, sizes) == [i \in 1..Len(sizes) |-> m + i + 1]
NewIds(m, sizes) == [i \in 1..Len(sizes) |-> m + i]

\* threadrw_schedule_delayed_work(): the delay is abstracted, a pending item
\* may start at any time; an item being cancelled refuses to be queued.
ScheduleLost == pending' = (~cancelling /\ ~pending)
Schedule == pending' = (~cancelling \/ pending)

Init ==
  \E sizes \in Allocations(InitNum, Block) :
    /\ Len(sizes) >= 3 \/ Len(sizes) = InitNum
    /\ buf = AddBuffers([i \in BufIds |-> NoData(0)], 0, sizes)
    /\ bufs_num = Len(sizes) /\ buffer_size = Bytes(sizes, Block)
    /\ freefifo = NewIds(0, sizes)
    /\ datafifo = <<>>
    /\ failed_onmore = FALSE /\ errors = FALSE
    /\ buffered_data_size = 0 /\ passed_data_len = 0 /\ data_offset = 0
    /\ mutex = Nobody
    /\ pending = FALSE /\ cancelling = FALSE /\ wpc = "off" /\ wret = 0
    /\ pc = [w \in Writers |-> "idle"]
    /\ left = [w \in Writers |-> 0] /\ off = [w \in Writers |-> 0]
    /\ tries = [w \in Writers |-> 0] /\ old_num = [w \in Writers |-> 0]
    /\ ret = [w \in Writers |-> "ok"]
    /\ rpc = "open" /\ played = <<>>

-----------------------------------------------------------------------------
(* threadrw_write() *)

\* write(fd, buf, n) reaches threadrw_write().
BeginWrite(w, n) ==
  /\ rpc = "open" /\ pc[w] = "idle"
  /\ n + data_offset <= MaxBytes
  /\ pc' = [pc EXCEPT ![w] = "lock"]
  /\ left' = [left EXCEPT ![w] = n]
  /\ off' = [off EXCEPT ![w] = 0]
  /\ ret' = [ret EXCEPT ![w] = "ok"]
  /\ UNCHANGED <<task, counts, mutex, work, tries, old_num, rpc, played>>

\* mutex_lock() in threadrw_write(); it is held up to Account(w).
LockWrite(w) ==
  /\ pc[w] = "lock" /\ mutex = Nobody
  /\ mutex' = w
  /\ pc' = [pc EXCEPT ![w] = "once"]
  /\ UNCHANGED <<task, counts, work, left, off, tries, ret, old_num, rpc,
                 played>>

\* One threadrw_write_onece() that finds a buffer and fills it, and the
\* progress threadrw_write_in() makes with it.
OnceCopy(w) ==
  /\ pc[w] = "once" /\ freefifo # <<>> /\ Head(freefifo) # UserPtr
  /\ LET b == Head(freefifo)
         n == Smaller(buf[b].buffer_size, left[w])
     IN /\ buf' = [buf EXCEPT ![b] =
                     RwBuf(data_offset + off[w], 0, n, buf[b].buffer_size)]
        /\ datafifo' = Append(datafifo, b)
        /\ off' = [off EXCEPT ![w] = @ + n]
        /\ left' = [left EXCEPT ![w] = @ - n]
        /\ pc' = [pc EXCEPT ![w] = IF n = left[w] THEN "account" ELSE "once"]
  /\ freefifo' = Tail(freefifo)
  /\ ret' = [ret EXCEPT ![w] = "ok"]
  /\ Schedule
  /\ UNCHANGED <<bufs_num, buffer_size, failed_onmore, errors, counts, mutex,
                 cancelling, wpc, wret, tries, old_num, rpc, played>>

\* copy_from_user() fails: the buffer taken is dropped and the address of
\* the user's data goes to freefifo in its place.
OnceFault(w) ==
  /\ Faults
  /\ pc[w] = "once" /\ freefifo # <<>> /\ Head(freefifo) # UserPtr
  /\ freefifo' = Append(Tail(freefifo), UserPtr)
  /\ ret' = [ret EXCEPT ![w] = "EFAULT"]
  /\ pc' = [pc EXCEPT ![w] = "account"]
  /\ UNCHANGED <<datafifo, buf, bufs_num, buffer_size, failed_onmore, errors,
                 counts, mutex, work, left, off, tries, old_num, rpc, played>>

\* The user address is taken for a buffer: undefined; the thread ends here
\* with the mutex held.
OnceOops(w) ==
  /\ pc[w] = "once" /\ freefifo # <<>> /\ Head(freefifo) = UserPtr
  /\ pc' = [pc EXCEPT ![w] = "oops"]
  /\ freefifo' = Tail(freefifo)
  /\ UNCHANGED <<datafifo, buf, bufs_num, buffer_size, failed_onmore, errors,
                 counts, mutex, work, left, off, tries, ret, old_num, rpc,
                 played>>

MaySleep(w) ==
  off[w] = 0 /\ ~errors /\ ~NonBlock /\ tries[w] + 1 < MaxWaits

OnceSleepUncounted(w) ==
  /\ pc[w] = "once" /\ freefifo = <<>> /\ MaySleep(w)
  /\ pc' = [pc EXCEPT ![w] = "sleep"]
  /\ UNCHANGED <<task, counts, mutex, work, left, off, tries, ret, old_num,
                 rpc, played>>

\* No free buffer, and this call sleeps on task->wq, mutex held.
OnceSleep(w) ==
  /\ pc[w] = "once" /\ freefifo = <<>> /\ MaySleep(w)
  /\ tries' = [tries EXCEPT ![w] = @ + 1]
  /\ pc' = [pc EXCEPT ![w] = "sleep"]
  /\ UNCHANGED <<task, counts, mutex, work, left, off, ret, old_num, rpc,
                 played>>

\* No free buffer, and this call ends: with what it copied, with the
\* worker's error, or with -EAGAIN.
OnceNone(w) ==
  /\ pc[w] = "once" /\ freefifo = <<>> /\ ~MaySleep(w)
  /\ ret' = [ret EXCEPT ![w] = IF errors THEN "error" ELSE "EAGAIN"]
  /\ pc' = [pc EXCEPT ![w] = "account"]
  /\ UNCHANGED <<task, counts, mutex, work, left, off, tries, old_num, rpc,
                 played>>

\* wait_event_interruptible_timeout() returns because freefifo has a buffer,
\* because HZ/100 passed or because a signal came.
SleepEnd(w) ==
  /\ pc[w] = "sleep"
  /\ pc' = [pc EXCEPT ![w] = "once"]
  /\ UNCHANGED <<task, counts, mutex, work, left, off, tries, ret, old_num,
                 rpc, played>>

\* The tail of threadrw_write_in(), mutex_unlock() and the return; only
\* -EAGAIN makes esparser_write() consider more buffers.
Account(w) ==
  /\ pc[w] = "account"
  /\ buffered_data_size' = buffered_data_size + off[w]
  /\ data_offset' = data_offset + off[w]
  /\ mutex' = Nobody
  /\ pc' = [pc EXCEPT ![w] =
              IF off[w] = 0 /\ ret[w] = "EAGAIN" THEN "again" ELSE "idle"]
  /\ off' = [off EXCEPT ![w] = 0]
  /\ left' = [left EXCEPT ![w] = 0]
  /\ tries' = [tries EXCEPT ![w] = 0]
  /\ ret' = [ret EXCEPT ![w] = "ok"]
  /\ UNCHANGED <<task, passed_data_len, work, old_num, rpc, played>>

-----------------------------------------------------------------------------
(* esparser_write() after -EAGAIN: threadrw_alloc_more_buffer_size() *)

support_more_buffers == ~failed_onmore /\ bufs_num < MaxBufs

\* The stream's delays (not modelled) say no, or no more are supported.
ReturnAgain(w) ==
  /\ pc[w] = "again"
  /\ pc' = [pc EXCEPT ![w] = "idle"]
  /\ UNCHANGED <<task, counts, mutex, work, left, off, tries, ret, old_num,
                 rpc, played>>

DecideGrow(w) ==
  /\ pc[w] = "again" /\ support_more_buffers /\ buffer_size <= GrowLimit
  /\ pc' = [pc EXCEPT ![w] = "grow"]
  /\ UNCHANGED <<task, counts, mutex, work, left, off, tries, ret, old_num,
                 rpc, played>>

def_block_size == buf[1].buffer_size
NewNum ==
  LET n == GrowSize \div def_block_size
      m == IF n = 0 THEN 1 ELSE n
  IN Smaller(m, MaxBufs - bufs_num)

\* The part of threadrw_alloc_more_buffer_size() under the mutex.
Grow(w) ==
  /\ pc[w] = "grow" /\ mutex = Nobody
  /\ \E sizes \in Allocations(NewNum, def_block_size) :
       /\ buf' = AddBuffers(buf, bufs_num, sizes)
       /\ freefifo' = freefifo \o NewIds(bufs_num, sizes)
       /\ bufs_num' = bufs_num + Len(sizes)
       /\ buffer_size' = buffer_size + Bytes(sizes, def_block_size)
  /\ old_num' = [old_num EXCEPT ![w] = bufs_num]
  /\ pc' = [pc EXCEPT ![w] = "grown"]
  /\ UNCHANGED <<datafifo, failed_onmore, errors, counts, mutex, work, left,
                 off, tries, ret, rpc, played>>

\* Its last lines, which read bufs_num again without the mutex.
GrowDone(w) ==
  /\ pc[w] = "grown"
  /\ failed_onmore' = (failed_onmore \/ bufs_num = old_num[w])
  /\ pc' = [pc EXCEPT ![w] = "idle"]
  /\ old_num' = [old_num EXCEPT ![w] = 0]
  /\ UNCHANGED <<datafifo, freefifo, buf, bufs_num, buffer_size, errors,
                 counts, mutex, work, left, off, tries, ret, rpc, played>>

-----------------------------------------------------------------------------
(* threadrw_flush_buffers(), called by drm_write(); it takes no lock *)

BeginFlush(w) ==
  /\ rpc = "open" /\ pc[w] = "idle"
  /\ pc' = [pc EXCEPT ![w] = "flush"]
  /\ tries' = [tries EXCEPT ![w] = FlushTries]
  /\ ret' = [ret EXCEPT ![w] = "ok"]
  /\ UNCHANGED <<task, counts, mutex, work, left, off, old_num, rpc, played>>

FlushPoll(w) ==
  /\ pc[w] = "flush" /\ datafifo # <<>> /\ tries[w] > 0
  /\ tries' = [tries EXCEPT ![w] = @ - 1]
  /\ Schedule
  /\ UNCHANGED <<task, counts, mutex, cancelling, wpc, wret, pc, left, off,
                 ret, old_num, rpc, played>>

FlushDoneUnchecked(w) ==
  /\ pc[w] = "flush" /\ (datafifo = <<>> \/ tries[w] = 0)
  /\ pc' = [pc EXCEPT ![w] = "idle"]
  /\ tries' = [tries EXCEPT ![w] = 0]
  /\ UNCHANGED <<task, counts, mutex, work, left, off, ret, old_num, rpc,
                 played>>
FlushDone(w) ==
  /\ pc[w] = "flush" /\ (datafifo = <<>> \/ tries[w] = 0)
  /\ ret' = [ret EXCEPT ![w] = IF datafifo = <<>> THEN "ok" ELSE "unflushed"]
  /\ pc' = [pc EXCEPT ![w] = "idle"]
  /\ tries' = [tries EXCEPT ![w] = 0]
  /\ UNCHANGED <<task, counts, mutex, work, left, off, old_num, rpc, played>>

-----------------------------------------------------------------------------
(* do_write_work() *)

WorkStart ==
  /\ wpc = "off" /\ pending
  /\ pending' = FALSE
  /\ wpc' = "lock"
  /\ UNCHANGED <<task, counts, mutex, cancelling, wret, writers, rpc, played>>

WorkLockFree ==
  /\ wpc = "lock" /\ mutex # Worker /\ datafifo # <<>>
  /\ wpc' = "write"
  /\ UNCHANGED <<task, counts, mutex, pending, cancelling, wret, writers, rpc,
                 played>>

\* mutex_lock() in the loop of do_write_work() when there is data ...
WorkLock ==
  /\ wpc = "lock" /\ mutex = Nobody /\ datafifo # <<>>
  /\ mutex' = Worker
  /\ wpc' = "write"
  /\ UNCHANGED <<task, counts, pending, cancelling, wret, writers, rpc,
                 played>>

\* ... and when do_write_work_in() finds none.
WorkNoData ==
  /\ wpc = "lock" /\ mutex = Nobody /\ datafifo = <<>>
  /\ wpc' = "resched"
  /\ UNCHANGED <<task, counts, mutex, pending, cancelling, wret, writers, rpc,
                 played>>

\* task->write() takes the first n bytes of the head buffer.
WorkDeliver ==
  /\ wpc = "write"
  /\ LET b == Head(datafifo)
     IN \E n \in 1..buf[b].data_size :
          /\ played' = played \o
               [i \in 1..n |-> buf[b].before + buf[b].write_off + i]
          /\ wret' = n
  /\ wpc' = "account"
  /\ UNCHANGED <<task, counts, mutex, pending, cancelling, writers, rpc>>

\* task->write() returns -EAGAIN.
WorkAgain ==
  /\ wpc = "write"
  /\ mutex' = Nobody
  /\ wpc' = "resched"
  /\ UNCHANGED <<task, counts, pending, cancelling, wret, writers, rpc,
                 played>>

\* task->write() returns another error, which is kept for the writers.
WorkError ==
  /\ ParserErrors
  /\ wpc = "write"
  /\ errors' = TRUE
  /\ mutex' = Nobody
  /\ wpc' = "resched"
  /\ UNCHANGED <<datafifo, freefifo, buf, bufs_num, buffer_size, failed_onmore,
                 counts, pending, cancelling, wret, writers, rpc, played>>

\* The head buffer after n < data_size of its bytes were taken.
AdvanceSizeOnly(b, n) ==
  RwBuf(buf[b].before, buf[b].write_off, buf[b].data_size - n,
        buf[b].buffer_size)
Advance(b, n) ==
  RwBuf(buf[b].before, buf[b].write_off + n, buf[b].data_size - n,
        buf[b].buffer_size)

\* The head buffer b, written out, goes from datafifo to freefifo.
RecyclePeek(b) == datafifo' = datafifo /\ freefifo' = Append(freefifo, b)
RecycleDrop(b) == datafifo' = Tail(datafifo) /\ freefifo' = freefifo
Recycle(b) == datafifo' = Tail(datafifo) /\ freefifo' = Append(freefifo, b)

CountPassedOnly(n) ==
  /\ passed_data_len' = passed_data_len + n
  /\ UNCHANGED buffered_data_size
CountPassed(n) ==
  /\ passed_data_len' = passed_data_len + n
  /\ buffered_data_size' = buffered_data_size - n

\* The rest of do_write_work_in() after wret bytes were taken.
WorkAccount ==
  /\ wpc = "account"
  /\ LET b == Head(datafifo)
     IN IF wret >= buf[b].data_size
          THEN /\ buf' = [buf EXCEPT ![b] = NoData(buf[b].buffer_size)]
               /\ Recycle(b)
          ELSE /\ buf' = [buf EXCEPT ![b] = Advance(b, wret)]
               /\ UNCHANGED <<datafifo, freefifo>>
  /\ CountPassed(wret)
  /\ mutex' = Nobody
  /\ wret' = 0
  /\ wpc' = "lock"
  /\ UNCHANGED <<bufs_num, buffer_size, failed_onmore, errors, data_offset,
                 pending, cancelling, writers, rpc, played>>

\* The work item queues itself again and returns.
WorkReschedNot ==
  /\ wpc = "resched"
  /\ wpc' = "off"
  /\ UNCHANGED <<task, counts, mutex, pending, cancelling, wret, writers, rpc,
                 played>>
WorkResched ==
  /\ wpc = "resched"
  /\ Schedule
  /\ wpc' = "off"
  /\ UNCHANGED <<task, counts, mutex, cancelling, wret, writers, rpc, played>>

-----------------------------------------------------------------------------
(* threadrw_release().  The VFS calls it, through amstream_release(), when *)
(* the last reference to the file goes: no writer is inside the driver.    *)

ReleaseCancel ==
  /\ rpc = "open" /\ \A w \in Writers : pc[w] = "idle"
  /\ rpc' = "cancel"
  /\ pending' = FALSE /\ cancelling' = TRUE
  /\ UNCHANGED <<task, counts, mutex, wpc, wret, writers, played>>

\* cancel_delayed_work_sync() returns once the item has stopped running.
ReleaseNoSync ==
  /\ rpc = "cancel"
  /\ rpc' = "lock"
  /\ cancelling' = FALSE
  /\ UNCHANGED <<task, counts, mutex, pending, wpc, wret, writers, played>>
ReleaseSync ==
  /\ rpc = "cancel" /\ wpc = "off"
  /\ rpc' = "lock"
  /\ cancelling' = FALSE
  /\ UNCHANGED <<task, counts, mutex, pending, wpc, wret, writers, played>>

\* free_task_buffers() under the mutex, kfifo_free() and vfree().
ReleaseFree ==
  /\ rpc = "lock" /\ mutex = Nobody
  /\ rpc' = "freed"
  /\ UNCHANGED <<task, counts, mutex, work, writers, played>>

\* Nothing is left to do on a task that was freed.
Released == rpc = "freed" /\ UNCHANGED vars

-----------------------------------------------------------------------------
WriterStep(w) ==
  \/ LockWrite(w) \/ OnceCopy(w) \/ OnceFault(w) \/ OnceOops(w)
  \/ OnceSleep(w) \/ OnceNone(w) \/ SleepEnd(w)
  \/ Account(w) \/ ReturnAgain(w) \/ DecideGrow(w) \/ Grow(w) \/ GrowDone(w)
  \/ FlushPoll(w) \/ FlushDone(w)
WorkerStep ==
  \/ WorkStart \/ WorkLock \/ WorkNoData \/ WorkDeliver \/ WorkAgain
  \/ WorkError \/ WorkAccount \/ WorkResched
ReleaseStep == ReleaseSync \/ ReleaseFree

Next ==
  \/ \E w \in Writers : \E n \in Counts : BeginWrite(w, n)
  \/ \E w \in Writers : BeginFlush(w) \/ WriterStep(w)
  \/ WorkerStep
  \/ ReleaseCancel \/ ReleaseStep \/ Released

Spec == Init /\ [][Next]_vars

(* Threads that can run do run; a mutex that is free again and again is    *)
(* granted (kernel mutexes queue their waiters); a parser that is offered  *)
(* data again and again takes some (the decoder keeps consuming).          *)
Fairness ==
  /\ \A w \in Writers : WF_vars(WriterStep(w)) /\ SF_vars(LockWrite(w))
                        /\ SF_vars(Grow(w))
  /\ WF_vars(WorkerStep) /\ SF_vars(WorkLock \/ WorkNoData)
  /\ SF_vars(WorkDeliver)
  /\ WF_vars(ReleaseStep)

FairSpec == Spec /\ Fairness

-----------------------------------------------------------------------------
(* Properties *)

InWrite(w)  == pc[w] \in {"once", "sleep", "account", "oops"}
InFlight    == IF mutex \in Writers THEN off[mutex] ELSE 0
Accepted    == data_offset + InFlight
Unaccounted == IF wpc = "account" THEN wret ELSE 0
EndOf(b)    == buf[b].before + buf[b].write_off + buf[b].data_size
InFifo(b, q) == \E i \in 1..Len(q) : q[i] = b

\* Every variable holds a value of its kind.
QueuesType ==
  /\ datafifo \in Seq(BufIds) /\ freefifo \in Seq(BufIds \cup {UserPtr})
  /\ buf \in [BufIds -> [before : Nat, write_off : Nat, data_size : Nat,
                         buffer_size : Nat]]
  /\ bufs_num \in 0..MaxBufs /\ buffer_size \in Nat
CountsType ==
  /\ buffered_data_size \in Int /\ passed_data_len \in Nat
  /\ data_offset \in Nat
WorkType ==
  /\ failed_onmore \in BOOLEAN /\ errors \in BOOLEAN
  /\ mutex \in Writers \cup {Nobody, Worker}
  /\ pending \in BOOLEAN /\ cancelling \in BOOLEAN
  /\ wpc \in {"off", "lock", "write", "account", "resched"} /\ wret \in Nat
  /\ rpc \in {"open", "cancel", "lock", "freed"}
  /\ played \in Seq(Nat)
WritersType ==
  /\ pc \in [Writers -> {"idle", "lock", "once", "sleep", "account", "oops",
                         "again", "grow", "grown", "flush"}]
  /\ left \in [Writers -> Nat] /\ off \in [Writers -> Nat]
  /\ tries \in [Writers -> Nat] /\ old_num \in [Writers -> Nat]
  /\ ret \in [Writers -> {"ok", "EFAULT", "error", "EAGAIN", "unflushed"}]
TypeOK == QueuesType /\ CountsType /\ WorkType /\ WritersType

\* The queued buffers hold, back to back, exactly the bytes that were
\* accepted and not passed yet: partial writes, retries and several writers
\* neither lose, repeat nor reorder a byte (do_write_work_in(),
\* threadrw_write_in()).
Contiguous ==
  /\ \A i \in 1..Len(datafifo) - 1 :
       /\ buf[datafifo[i + 1]].before = EndOf(datafifo[i])
       /\ buf[datafifo[i + 1]].write_off = 0
  /\ IF datafifo = <<>>
       THEN passed_data_len = Accepted
       ELSE /\ buf[datafifo[1]].before + buf[datafifo[1]].write_off
                 = passed_data_len
            /\ EndOf(datafifo[Len(datafifo)]) = Accepted

\* The parser is fed the accepted stream from its first byte on, in order,
\* each byte once.
PlayedInOrder == played = [i \in 1..Len(played) |-> i]

\* The level and the two stream offsets agree whenever they are read, even
\* without the mutex: what es_vpts_checkin() takes as the stream position,
\* bytes parsed plus threadrw_buffer_level(), is what
\* es_vpts_checkin_us64() takes, threadrw_dataoffset(), except that bytes
\* the parser has taken and do_write_work_in() has not accounted for yet
\* count twice.
OffsetsAgree ==
  Len(played) + buffered_data_size = data_offset + Unaccounted

\* No buffer is queued twice, in one fifo or in both: the worker never reads
\* a buffer a writer is filling.
BuffersNotShared ==
  /\ \A i, j \in 1..Len(datafifo) : datafifo[i] = datafifo[j] => i = j
  /\ \A i, j \in 1..Len(freefifo) :
       freefifo[i] = freefifo[j] => i = j \/ freefifo[i] = UserPtr
  /\ \A i \in 1..Len(datafifo) : ~InFifo(datafifo[i], freefifo)

\* Every buffer stays in circulation: each of the bufs_num buffers is in one
\* of the two fifos whoever holds the mutex, or has its place there taken
\* by the user address of a failed copy, which ends the thread that meets it.
Oopses == IF mutex \in Writers /\ pc[mutex] = "oops" THEN 1 ELSE 0
NoBufferLost == Len(datafifo) + Len(freefifo) + Oopses = bufs_num

\* Queued data always has a work item coming for it, whatever order the
\* writers' scheduling, the item's own rescheduling and its start take; only
\* releasing the task ends that.
DataIsAttended ==
  datafifo # <<>> => pending \/ wpc # "off" \/ rpc # "open"

\* cancel_delayed_work_sync() wins against the work item that queues itself
\* again: once the task is freed nothing can run on it.
NothingRunsOnFreedTask ==
  rpc = "freed" => ~pending /\ wpc = "off" /\ mutex = Nobody

\* A blocking writer sleeps with task->mutex held, and the worker needs that
\* mutex to free a buffer: the condition it sleeps on never becomes true.
SleepsInVain == \A w \in Writers : pc[w] = "sleep" => freefifo = <<>>

\* A flush that reports success has waited for every accepted byte to reach
\* the parser (drm_write() relies on it to keep the stream in order).
FlushOkMeansPlayed ==
  [][\A w \in Writers :
       pc[w] = "flush" /\ pc'[w] = "idle" /\ ret'[w] = "ok"
         => Len(played) = Accepted]_vars

\* Every byte accepted is eventually fed to the parser unless the port is
\* released first.
Drains ==
  \A k \in 1..MaxBytes :
    data_offset >= k ~> (Len(played) >= k \/ rpc # "open")

\* Every call of write() and of drm_write()'s flush returns.
CallsReturn == \A w \in Writers : pc[w] # "idle" ~> pc[w] = "idle"

\* "must >=3 for swap buffers" (alloc_task_buffers_inlock()): a task that
\* was given three buffers or more keeps at least three to swap.
AtLeastThreeBuffers ==
  LET usable == {b \in BufIds : InFifo(b, datafifo) \/ InFifo(b, freefifo)}
  IN InitNum >= 3 => Cardinality(usable) >= 3

-----------------------------------------------------------------------------
(* The inductive invariant behind these properties. *)

\* Who holds the mutex, and what the call in progress may have copied.
Locking ==
  /\ \A w \in Writers : InWrite(w) <=> mutex = w
  /\ mutex = Worker <=> wpc \in {"write", "account"}
  /\ \A w \in Writers : ~InWrite(w) => off[w] = 0

\* The worker writes from a queued buffer, and takes no more than it holds.
WorkerHasHead ==
  /\ wpc \in {"write", "account"} => datafifo # <<>>
  /\ IF wpc = "account" THEN wret \in 1..buf[Head(datafifo)].data_size
                        ELSE wret = 0

\* The phases of the release.
Releasing ==
  /\ cancelling <=> rpc = "cancel"
  /\ rpc # "open" => ~pending /\ \A w \in Writers : pc[w] = "idle"
  /\ rpc \in {"lock", "freed"} => wpc = "off"

\* Only buffers that were allocated are in use.
KnownBuffers ==
  /\ \A i \in 1..Len(datafifo) : datafifo[i] <= bufs_num
  /\ \A i \in 1..Len(freefifo) : freefifo[i] <= bufs_num

\* The size of the first buffer, a divisor, is known.
HasBlock == bufs_num >= 1 /\ def_block_size > 0

\* No queued byte lies beyond the accepted ones.
QueuedIsAccepted == \A i \in 1..Len(datafifo) : EndOf(datafifo[i]) <= Accepted

\* The parser has the bytes passed and the ones not accounted for.
PlayedIsCounted == Len(played) = passed_data_len + Unaccounted

\* Everything above, as one inductive invariant.
IInv ==
  /\ TypeOK /\ Locking /\ WorkerHasHead /\ Releasing /\ KnownBuffers
  /\ HasBlock /\ BuffersNotShared /\ Contiguous /\ QueuedIsAccepted
  /\ PlayedIsCounted /\ PlayedInOrder /\ OffsetsAgree
  /\ DataIsAttended /\ SleepsInVain

-----------------------------------------------------------------------------
\* The stream this component promises.
Stream == INSTANCE ByteStream
            WITH accepted <- Accepted, closed <- rpc \in {"lock", "freed"}
StreamSpec == Stream!Spec
=============================================================================
