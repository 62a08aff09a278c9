# TL51Code: models and proofs of the Amlogic player stack

The repository holds the media stack of an Amlogic set-top box: the kernel
driver that feeds the hardware decoders (`src/amports/amports`), the drivers
around it (`src/drivers/amlogic`), and the user-space player that feeds the
driver (`src/LibPlayer`).  A byte of a film goes

    source --read--> streamsource --> amplayer --write()--> amstream
      --> thread_rw --> esparser --fetch--> ring buffer --> vdec --> decoder

This directory keeps TLA+ models of the parts of that path whose correctness
depends on the order in which threads, interrupts and callbacks run, the TLC
configurations that check them on small instances, and TLAPS proofs of what
matters most for instances of any size.

Contents: 1 inventory, 2 plan, 3 conventions, 4 `ThreadRw`, 5 `EsParser`,
6 `PtsServ`, 7 `VdecCore` and `DecoderHw`, 8 `VdecSwap`, 9 proofs,
10 disagreements found, 11 what is not modelled.

## 1. Inventory

| component | state it keeps | operations | made correct by |
|---|---|---|---|
| `thread_rw.c` | two kfifos of buffers, the buffer table, byte counters, a delayed work item | write, grow, flush, the work item, release | the byte stream is handed on complete, in order, once; queued data is attended; nothing runs after release |
| `esparser.c` | one parser for all ports behind `esparser_mutex`; `search_done`, use count, bytes parsed, audio write pointer | init, release, write (blocking, non-blocking, DRM, work item), interrupt | waits end with their own fetch; rings are not overrun; positions are exact; the interrupt stays registered |
| `streambuf.c` | ring buffers: size, usable size, level, waiters | alloc, change size, space, wait for space, release | free space is never overestimated; the reserve is kept |
| `ptsserv.c` | per port: state, list of records, look-up cache | start, stop, check in, look up | a record is found for the offset it was given for; stop frees all; a table can start again |
| `amstream.c` | ports and their flags, file state | open, port init, write, ioctl, release | exclusive opening; a failed initialisation undoes what it did and no more |
| `psparser.c`, `tsdemux.c`, `rmparser.c` | demultiplexer state | init, write, interrupts | as `esparser.c` |
| `vdec.c` | decoder contexts (status, next status, flags), the connected list, `active_vdec`, the core thread's semaphore, swap pages | create, init, connect, schedule, finish, disconnect, reset, release; save and restore the place in the stream | the hardware has one owner; a disconnect is complete and ends; nobody starves; decoding goes on where it stopped |
| `vdec_input.c`, `decoder_bmmu_box.c`, `video_keeper.c` | input blocks and chunks, frame memory | add, release, alloc, keep, free | memory in use is not freed |
| `tsync.c`, `tsync_pcr.c`, `timestamp.c` | the clock mode, the audio and video time | start, pause, resume, discontinuity | the clock follows one master and recovers from a discontinuity |
| `video.c`, `vpp.c`, codec drivers | registers, frame queues | per vsync and per picture | frames are shown in order and given back |
| amplayer `message.c`, `player_id.c` | command ring, pool of ids | send, get, request, release | commands are executed once, in order, or refused |
| amplayer `player.c` ... | state machine of the playing thread | start, pause, seek, stop | every command leads to its state |
| amavutils `amthreadpool.c` | pool threads, wake-up and exit requests | sleep, wake, cancel | an exit request is seen |
| streamsource `thread_read.c`, `streambufqueue.c`, `queue.c` | queues of read-ahead buffers, read state | read, seek, reading thread | the reader gets the source's bytes from the position sought |
| amadec | message pool, decoder state | send, command loop | as amplayer's |
| amcodec | a handle per port | one ioctl per call | - |

How they interact.  `amstream_vbuf_write()` and its siblings call
`esparser_write()` or `drm_write()` with the port's ring buffer; when the port
has a `thread_rw` task, `esparser_write()` hands the data to `threadrw_write()`,
and the task's work item calls `esparser_write_ex()` through `task->write`.
All ports meet at `esparser_mutex` and at the one hardware parser.
`ptsserv` asks `esparser` and `thread_rw` for the stream position when a PTS is
checked in.  `amstream` opens and releases all of them under `amstream_mutex`.
The decoders behind the rings are contexts of `vdec.c`: `amstream` creates,
connects, resets and releases them, one or two for a file, the core thread
gives them the hardware in turn, and their drivers give it back from a work item
of their own.
In user space, the demuxer's thread reads from `streamsource` while its reading
thread fills the queue; `amplayer`'s thread takes commands from its ring and
writes to the driver; `amadec` runs its own threads and command loop.

What is hard: the work item reschedules itself while writers schedule it and
release cancels it; writers sleep with the mutex the work item needs; space is
tested before a lock and used after it; time-outs race interrupts; signals
end some waits and not the hardware's work; calls are accepted in part and the
rest is retried; initialisation fails half-way while another file plays; queues
and rings run full, wrap, grow and drop; drivers store their status without the
lock under which the core thread reads it, and the thread sleeps until somebody
wakes it.  `PROJECT.json` lists each such place with its line and the properties
that watch it, or the reason why none does.

## 2. Plan

1. **ThreadRw**, refining **ByteStream** (done): the driver's asynchronous
   writer.  Proofs of its inductive invariant, of every safety property and of
   the refinement.
2. **EsParser** (done): the parser and the rings behind it.  Proofs of type
   correctness, of the interrupt's registration, of the audio ring's alignment
   and, under stated assumptions, of the exact wait, of the reserve and of the
   stream position.
3. **PtsServ**, refining **StampTable** (done): a table of presentation time
   stamps, its records and its look-ups.  Proofs of type correctness, of the
   records' count and order, of the search start, of the use of freed records, of
   the cache, of what the look-ups find, and of the refinement.
4. **VdecCore**, refining **DecoderHw** (done): the scheduler of the decoder
   contexts with its users and drivers.  Proofs of its inductive invariant, of
   every safety property and of the refinement.
5. **VdecSwap** (done): where a decoder goes on in its stream after others had the
   hardware.  Proofs of its inductive invariant and of every property.

The modules follow the driver's path from `write()` to the hardware decoder,
which is where threads, interrupts, work items and callbacks meet.  Section 11
says what lies beside that path and what would come next: the ports of
`amstream.c` with their resets and error exits, the blocks of frame-based input,
and in user space the reading thread of streamsource.

## 3. Conventions

* One action is one step between two points at which another thread can
  interfere.  Code that runs under a lock all others take is one action.
* A definition that comes right before another and shares the beginning of its
  name (`ScheduleLost`, `Schedule`) is a faulty variant of it.  It occurs in no
  behaviour; replacing the real definition by it must violate the property that
  guards against that fault (`mutants` in `PROJECT.json`).
* Observations are variables no guard reads: `played` and the field `before` in
  ThreadRw, `fetched` in EsParser as far as it is not `buf_wp()`, `results` and
  `spoilt` in VdecSwap.
* Delays are dropped: a timer that is armed may fire at any time.  Where the
  code assumes that one thing happens before another (an interrupt within
  200 ms) a Boolean constant says whether it does.
* `MC*.tla` hold the small sets the `.cfg` files refer to.

## 4. ThreadRw (`thread_rw.c`, and its callers in `esparser.c`)

State: `datafifo` and `freefifo` hold indices into `buf` (`task->buf[]`);
`buffered_data_size`, `passed_data_len` and `data_offset` are the task's
counters; `mutex` is `task->mutex`; `pending` says that the delayed work is
queued or its timer armed; `wpc`, `pc` and `rpc` are the program counters of
the work item, of the writers and of the release.

| actions | code |
|---|---|
| `Init`, `Allocations`, `AddBuffers` | `threadrw_alloc_in()`, `alloc_task_buffers_inlock()`: one codec_mm chunk, or single buffers until one fails |
| `BeginWrite`, `LockWrite`, `Once*`, `SleepEnd`, `Account` | `threadrw_write()`, `threadrw_write_in()`, `threadrw_write_onece()` |
| `ReturnAgain`, `DecideGrow`, `Grow`, `GrowDone` | `esparser_write()` after `-EAGAIN`, `threadrw_alloc_more_buffer_size()` |
| `BeginFlush`, `FlushPoll`, `FlushDone` | `drm_write()` through `threadrw_flush_buffers()` |
| `Work*` | `do_write_work()`, `do_write_work_in()` |
| `Release*` | `threadrw_release()`, `free_task_buffers()` |

The failing copy is modelled as it is written: `threadrw_write_onece()` puts the
user's address on `freefifo` (`UserPtr`) and drops the buffer; whoever takes that
address next dereferences it (`OnceOops`), which the model ends there, with the
mutex held.

Runs.

* `threadrw_safety` - two writers that write one or three bytes and may flush,
  blocks of two bytes, three buffers that may become five, failing copies,
  refused, partial and failing parser writes, and the release: 1.4 million
  states.  Three bytes need two buffers, the queue wraps through both fifos,
  and growing meets both kinds of allocation.  `SYMMETRY` on the writers
  (safety only).  Deadlock is not checked because `OnceOops` stops the system.
  Besides the invariants it checks `StreamSpec`, that the module implements
  `ByteStream`: whatever the buffers do, the consumer gets the accepted bytes
  in order, once, and nothing after the close.
* `threadrw_live` - one writer, with the fairness below and without failing
  copies: everything accepted is played (`Drains`) and every call returns.
* `threadrw_swap` - expected to fail: the allocation insists on three buffers
  to swap, and a failing copy takes one out of circulation for good.

Bounds: `MaxBytes` limits the bytes that `write()` calls are started with,
`MaxWaits` (10 in the code) and `FlushTries` (20) the sleeps and polls of a call.
Properties do not depend on how many sleeps or polls there are, only on
running out of them, which happens in every run.

Fairness: threads that can run do run; a mutex that becomes free again and again
is granted, as kernel mutexes queue their waiters (hence strong fairness for
taking it); a parser that is offered data again and again takes some, that is,
the decoder plays.  Without the last nothing drains, and nothing should.

`SleepsInVain` is an observation more than a promise: a blocking writer sleeps
on the wait queue with `task->mutex` held, and only a work item that holds that
mutex can free a buffer.  Each sleep ends by its time-out, never by the wake-up
the comment at `thread_rw.c:236` announces.

## 5. EsParser (`esparser.c`, `streambuf.c`)

State: the parser (`hw`, `hport`, `hleft`: the ring it fills and the bytes to
come), the interrupt (`irq`, `irq_on`), `search_done`, the use count, and for
each port `parsed` (`video_data_parsed`, `audio_data_parsed`), `fetched`
(what really entered the ring), `level` and `audio_real_wp`.  Each
thread writes to one port; it is a plain writer, a non-blocking one, a work item
of `thread_rw` (`Workers`) or inside `drm_write()` (`Drm`).

| actions | code |
|---|---|
| `Open`, `OpenFail`, `Close` | `esparser_init()`, its error exits, `esparser_release()` |
| `Begin`, `CheckFits`, `CheckShort`, `TakeSpace`, `TooShort`, `TakePart` | `esparser_write_ex()` and the loop of `drm_write()` up to the mutex |
| `SpaceFound`, `SpaceTimeout` | `stbuf_wait_space()` |
| `Lock`, `AudioCopy` | `_esparser_write_s()` |
| `FetchFault`, `Program`, `Start`, `Done`, `Expire`, `Interrupted` | `_esparser_write()` |
| `esparser_isr` | the interrupt handler |
| `Move`, `Found`, `Consume` | external: the fetch engine, the start code search, the decoders |

Constants `Signals`, `Faults`, `Stalls`, `LateIrq` and `OpenFails` say which
disturbances a run explores, so that a property that needs their absence says
so.

Runs.

* `esparser_safety` - a work item on a video port and a `drm_write()` on an audio
  port, both ports opening, failing to open and closing, failing copies,
  consuming decoders; rings of five bytes with one reserved, writes of one and
  four bytes: longer than what is free, than the part a blocking call takes and
  than the bounce buffer, and enough to wrap the audio ring at and across its
  end.  No signals, no late interrupts, no stalls (see below).
* `esparser_live` - a video and a subtitle writer with all disturbances of a
  fetch and no assumption on the decoders: every call returns.
* `esparser_drm` - expected to fail: `drm_write()` returns an error after a part
  was written, despite its comment, and keeps the mutex.  This is also why the
  safety run does not check deadlock.
* `esparser_signal` - expected to fail: `stbuf_wait_space()` takes an
  interrupted sleep for success and the reserve is overrun.

`MaxBytes` bounds the bytes a port is offered.  Fairness: threads run, the mutex
is granted, and the hardware moves bytes, finds the start code and raises the
interrupt unless it stalls.

Assumptions of single properties, each explored where it is absent:
`ReserveKept` and `DoneIsExact` need interrupts in time and calls that no signal
ends; `ReserveKept` needs one writer to a port, because the space is read before
the mutex is taken (`esparser.c:839`); `ParsedIsFetched` needs fetches that do not
stop half-way, because a time-out counts all of a fetch once the write pointer has
moved.  The work item cannot be interrupted, and `amstream` lets one file write
to a port, so the first two hold in normal playback.

## 6. PtsServ (`ptsserv.c`)

State: `status` and `pages` (whether the records' memory is allocated), the
records on `valid_list` in `valid`, the length of `free_list` in `nfree`,
`pts_search` as an index of `valid`, the cached look-up, `first_lookup_ok`, and
the write position of the parser in `wpos`.  Positions, the buffer and the
hardware's count of wraps are finite and wrap, as u32 and the 16 bit count do.
One module stands for the video table (which a HEVC port shares) and the audio
table; they differ in what a look-up frees and whether it interpolates.

| actions | code |
|---|---|
| `Start`, `StartAlloc`, `StartFail`, `StartCache` | `pts_start()`: under the lock, `alloc_pts_list()` and what follows, its failure, the last line |
| `Stop`, `StopFree`, `StopDone` | `pts_stop()`: under the lock, and `free_pts_list()` in two steps |
| `Checkin`, `CheckinTest`, `CheckinRun` | `pts_checkin_wrptr()`, `pts_checkin_offset_inline()`: under the lock, and the status after it |
| `LookupFound`, `LookupBetween`, `LookupUnset`, `LookupMiss` | the ways `pts_lookup_offset_inline_locked()` ends after its walk; a hit of the cache changes nothing |
| `Write` | external: the parser |

`RecsFrom` is `pts_get_rec_num()`, which changes nothing.  The walk along the
list is a function (`Candidate`, `Walked`): what it settles on and what it has
freed by then.

`StampTable` is what the table promises to its users.  It has no free list, no
search start, no cache and nothing that wraps: a stamp is a time and the number
of bytes it is behind the write position, a decoder at a place gets the nearest
stamp before it, or for audio a time between two, and what is forgotten is
at most the oldest stamp, those too far behind for video, and those audio has
passed.  `TableSpec` maps it: the stamps are the records in their order, seen from
`wpos`; the table is open from the end of `pts_start()` to the beginning of
`pts_stop()`; the answer is the cached one, so that no answer outlives a restart.

Runs.

* `ptsserv_safety` - a table of either kind with three records, positions modulo
  eight and a buffer of four, so that positions and pages wrap within a few
  writes, check-ins out of a window of three bytes, which use the oldest record
  again, and look-ups anywhere in the window, so that records are dropped, passed,
  found, missed and interpolated between.  Besides the invariants it checks
  `TableSpec`.  Deadlock is not checked: a failed
  allocation leaves the table in PTS_INIT.
* `ptsserv_recnum` - expected to fail: `pts_get_rec_num()` against its comment.

Bounds: `Window` says how far the stream gets ahead of the oldest record; in the
driver it is the buffer, of some megabytes, against 2^31 for the comparisons.
`PtsServAssumption` names what the numbers must satisfy: the buffer's size times
the wraps counted is a multiple of 2^32 (the comment at `ptsserv.c:1200` worries
about this), a look-up's margin fits in the range that video keeps, and the
interpolation's product fits in u32.

Assumptions: `Overlaps = FALSE` says that a table is not started or stopped while
a check-in is in progress; see the disagreements for where the driver does not see
to it.  Only `NeverLost`, `NoOldCache` and `TableSpec` depend on it: the others are
proved without (section 9).  Sources check in in the order of the stream.
`OffsetsAgree` of ThreadRw is about the position they use.

## 7. VdecCore and DecoderHw (`vdec.c`, with `amstream.c` and `vmh264.c`)

State: of each decoder context `status`, `next_status`, `sched` and
`inactive_done`; of the core `connected`, `active_vdec` and `sem`; of the core
thread its place `kpc`, its `vdec` (`kvdec`), the list entry it looks at (`ki`) and
`disconnecting`; of the driver whether it has the hardware (`running`), whether
it stored its status and has not called back (`tail`) and what its `run_ready()`
would say (`ready`); of the user of each file its call and how far it is (`uop`,
`upc`, `uvdec`).  `Mains` are the files' decoders, `Slaves` the second ones of files
opened for dual decoding.

| actions | code |
|---|---|
| `Down`, `Clean`, `Scan`, `Keep`, `Choose`, `Idle`, `Start`, `NoStart`, `Removed`, `Again` | `vdec_core_thread()`: the list is locked from `Clean` on until `Keep`, `Choose` or `Idle`; the statuses are not, so each is read by a step of its own |
| `ReadyToRun`, `Turn`, `FirstActive` | `vdec_ready_to_run()`, the round robin, `active_vdec()` |
| `Finish`, `Callback` | the end of a run: the driver stores CONNECTED, then `vdec_callback()`; `vh264_work()` and those like it |
| `Refill` | external: the stream or the buffers a run used up come back |
| `Open`, `PortInit`, `HwInit` | `amstream_open()`, `amstream_port_init()` with `vdec_create()`, `vdec_init()` |
| `Connect`, `ConnectAgain`, `Link` | `vdec_connect()`, once after `video_port_init()` and once at the end |
| `Disconnects`, `NotManaged`, `Ask`, `AskMate`, `Waited` | `vdec_disconnect()`, from `vdec_reset()` or `vdec_release()` |
| `Reset`, `Destroy` | the rest of `vdec_reset()` and of `vdec_release()` |

`DecoderHw` is what the core promises: one owner at a time, of a connected file;
the hardware is not taken away; a file that is disconnected gave it back.
`HwSpec` maps it: the owners are the decoders that run, and a file is attached
until `vdec_disconnect()` returns.

Runs.

* `vdeccore_dual` - one file with a master and a slave that compete for the hardware,
  opened, reset and closed any number of times, its disconnects at every moment of a
  scan, of a run and of a callback: every safety property, `HwSpec`, and that
  the disconnect, which waits for two completions, returns.
* `vdeccore_live` - two files; one plays on (`Steady`), the other is opened, reset
  and closed again and again: the disconnects return, and a decoder that stays ready
  gets its turn.

Bounds: a file begins an operation only while `sem` is below `MaxSem` (1); `sem`
itself goes higher than that, as callbacks, connects and disconnects that are under
way add to it.  The code counts without a limit; what a higher count does, more
rounds of the core thread, lower counts do too, one after the other.  Without
`Steady` files nothing would stay ready while others come and go.  The dual run
competes within a file only; a larger instance, a pair and another file that
plays on, was checked once for the safety properties and `HwSpec` (3.7 million
states); the proofs cover the rest.

Fairness: the core thread, the calls and the drivers go on, and a connect gets
the lock (strong fairness for `Link`, which needs the lock the core thread takes
again and again).  A driver that has the hardware gives it back: the one followed here
has a timer that looks after a run whose hardware does not answer, and that ends it
when the decoder is asked to leave (`vmh264.c:2642`).  The source names this dependence (`vdec.c:1786`).
`Refill` needs no fairness: a decoder that is not ready has no claim.  One
assumption is about time: from some point on no run ends between the core
thread's look at a status under the lock and its second look outside
(`InLookWindow`).  The thread has the highest real-time priority, so a run has to
end on another processor within those few instructions.  Without the assumption
neither liveness property holds: a decoder whose run ends in that window is started
again without being asked whether it is ready, and when that happens every time it
keeps the hardware, is never seen CONNECTED by a scan, and so is not disconnected
either; see section 10.

`inactive_done` is waited for by `wait_for_completion()`, which takes it; that a
left-over completion never ends a later wait is part of `DisconnectedIsQuiet`.

## 8. VdecSwap (`vdec.c`: saving, restoring and borrowing)

VdecCore leaves out what the hardware knows: how far in the stream it is.
`vdec_save_input_context()` stores that into the swap page of the decoder that ran,
`vdec_prepare_input()` restores a page.  Two decoders of a file read one stream.
Normally a start restores the page saved last, whoever's it is
(`last_swap_slave`).  With `VDEC_FLAG_SELF_INPUT_CONTEXT` each has its own place, and
after two results in a row by one of them `vdec_borrow_input_context()` exchanges
the pages, so that the one that is passed over catches up.

State: `hw`, the place the hardware is at, and `page`, the place in each swap
page, relative to the file's results ("last", "ahead", "prev", "older",
"begin"); `swap_valid`, `swap_needed`, `dirty_count` and `last_swap_slave` as in
the code; `runner` and `ended`, which decoder has the hardware and whose run
waits for the clean-up.

| actions | code |
|---|---|
| `Start` | `vdec_prepare_input()` |
| `Result`, `Dirty`, `Borrow` | `vdec_vframe_dirty()`, `vdec_borrow_input_context()` |
| `NoResult` | a run that ends without a frame (`DEC_RESULT_AGAIN`) |
| `CleanUp` | `vdec_save_input_context()` |
| `Reset` | `vdec_reset()` with `vdec_input_release()` |

Run `vdecswap_safety` - a single decoder and a pair, with shared places and with
places of their own: runs with and without results in any order, with and without
the clean-up, and resets at any time.  Any decoder may run next, so every choice
VdecCore may make is among them.  `NeverBack`: a decoder that takes up the place
saved last never decodes a frame twice.  `AtMostOneBehind`: of two with places of their
own one is up to date and the other one result behind at most, which is the table in
the comment on `vdec_borrow_input_context()`.

Bounds: places are told apart as far as the comment's table does, and results
are counted up to three, since nothing depends on more.  `spoilt` marks a file to
which one of two things happened that the code does not cope with (section 10):
the properties are about the others, and a reset makes a single decoder whole again.

## 9. Proofs

`ThreadRwProofs` proves, for any set of writers, number and size of buffers and
number of bytes, `Spec => []IInv` (`Invariance`).  `IInv` joins the type
invariant with: who holds the mutex and what its holder may have copied
(`Locking`); the work item writes from a queued buffer no more than it holds
(`WorkerHasHead`); the phases of the release (`Releasing`); fifos hold allocated
buffers only (`KnownBuffers`), no buffer twice (`BuffersNotShared`); the queued
buffers are back to back (`Contiguous`) and not beyond what was accepted
(`QueuedIsAccepted`); and the counters against the bytes played
(`PlayedIsCounted`).  `Contiguous` alone is not inductive: the work item's
accounting needs to know that its head buffer did not change since it was
offered, which is `Locking` and `WorkerHasHead`, and a buffer a writer fills must
not be queued already, which is `BuffersNotShared`.  From `IInv` follow all
safety properties of the run, the action property `FlushOkMeansPlayed`
(`FlushIsComplete`) and the refinement `Spec => StreamSpec` (`Implements`).
`NoBufferLost` has an argument of its own over the lengths of the fifos.

`EsParserProofs` proves a chain of invariants, each from the ones before:
`Uses` and `Places` (which states a call of a port may be in, and who holds the
mutex) with the type invariant, without assumptions; `Owned` and `Timely`
(the parser works for the thread that waits for it, and the interrupt is that
thread's), for `Quiet`, that is no signals and no late interrupts; `Claimed`
(what a thread may still add to its ring fits in it; `Claim` is what it
found room for, less what the parser has moved), for one writer per port;
`Counted`, when fetches do not stall.  They give `InterruptKept`, `DoneIsExact`,
`ReserveKept` and `ParsedIsFetched`.  The assumptions are hypotheses of the
theorems, not axioms.  `AudioAligned` needs none of them (`AudioAlignedAlways`).
It is not inductive alone: a time-out counts whatever moved the write pointer, and
audio data are not moved by the parser but copied, so `NoAudioFetch` says
that the parser never works for an audio port; and a pointer that passes the
ring's end comes back by one ring only, which is enough because no call
copies more than a ring (`Bounded`).  Then `NextWp` keeps the pointer and the bytes
copied equal modulo the ring.

`PtsServProofs` proves, for any number of records, width of integers and size of
buffer, `Spec => []Sound` (`Soundness`): the types, that the records add up, and
`Searches`.  `SearchStart` alone is not inductive: a look-up that drops records moves
the search start by their number, which is right only because it never exceeds
the list; and a check-in that sets PTS_RUNNING late may find lists that were freed
and set up again meanwhile, but no search start of earlier walks.  That no
check-in works on freed records and no answer outlives a restart needs more:
which calls may be in progress in which status (`Stages`) and when the cache may be
filled (`Fresh`), and with them `IInv` under `Overlaps = FALSE` (`Invariance`).  `WalkedShape` is what the walk guarantees, `CandidateFromHead` and
`NextIsApart` why the interpolation never divides by zero.  `MaxExists` derives
the maximum of a bounded set from the library's well-foundedness of <.

`PtsServOrderProofs` goes on to what the look-ups find (`OrderInvariance`,
`SortedAlways`, `LookupBestAlways`, `InterpolatedAlways`).  Offsets wrap, and so
compare as u32 numbers only within half their range; `Sorted` speaks of neighbours
and is not inductive, as a list can go round the whole range in small
steps.  The invariant is `Ordered` instead: measured from the write position
(`Behind`), where nothing wraps, no record is further behind than the one before
it in the list, and none more than `Window`.  A check-in keeps it because
`pts_checkin_wrptr()` finds the position of its place across the wraps of the
buffer, of the hardware's count and of u32 (`WrOffsetOfPlace`), a look-up because it
only takes records out, the stream because of the bound on how far ahead it gets.
Within it all comparisons of the walk are those of plain numbers (`DiffBehind`), so
that a walk in either direction from anywhere settles on the nearest record that is
not later (`CandidateBest`).  What video drops is out of every look-up's reach
because `2 * Threshold <= KeepRange + 1`; and the interpolation does not wrap because
`(AudioRes - 1) * Window < M` (`Share`).  Both are in `PtsServAssumption`.

`PtsServTableProofs` proves the refinement `Spec => TableSpec` (`Implements`), each
action in a lemma of its own.  A walk frees only the head of the list
(`WalkFrees`), it settles on the nearest of all records, the ones it freed included
(`WalkNearest`), and so a look-up is one of `Find`, `Interpolate` and `Miss` of
the stamps (`HandOutImplements` and those after it); `WriteImplements` is where each
record gets one byte older though its position stays.  That a table opens empty
(`NewIsEmpty`) is a small invariant of its own.  It needs
`Overlaps = FALSE`, as `NeverLostAlways` and `NoOldCacheAlways` do; all other
theorems on this component hold whatever overlaps.

`ModularArithmetic` has the facts on remainders these proofs and the one of
`AudioAligned` rest on: quotient and remainder are unique, and sums, differences
and products may be reduced at any time, also by a multiple of the modulus.

`VdecCoreProofs` proves `Spec => []IInv` (`Invariance`) for any number of files, with
and without slaves.  `IInv` joins the types with: which decoders are on which
list, each once (`OnOneList`); how far those on the disconnecting list and their
completions are (`Leaving`); the two decoders of a file are in step with their
user's call (`Together`); who has the hardware, against `active_vdec`, the
statuses and the core thread's place (`Owner`); and what will wake the thread
(`Wakes`).  `HwHasOneOwner` alone is not inductive: that no second decoder is
started depends on what the thread read of each status before, and a
status may only change from ACTIVE to CONNECTED behind its back; that a decoder is
gone when `vdec_disconnect()` returns depends on no completion being left over from
an earlier disconnect.  From `IInv` follow the four safety properties and
the refinement `Spec => HwSpec` (`Implements`).

`VdecSwapProofs` proves the same for `VdecSwap`.  Its invariant says of each file that is
not spoilt where its pages are, before and after the clean-up: with one place,
that it is where the last run ended (`OnePlace`); with two, that the decoder whose
`dirty_count` is one is at the last result or beyond and the other exactly one result
behind, or at the beginning (`TwoPlaces`).  `AtMostOneBehind` needs that
exactness: the exchange is right only because the page that is given away was
written one result ago.

Assumed of the constants: `ThreadRwAssumption`, `EsParserAssumption`,
`PtsServAssumption`, `VdecCoreAssumption` and `VdecSwapAssumption`, which TLC
evaluates in every run.

Only model-checked: liveness (out of the prover's reach: `Drains`, `CallsReturn`,
`DisconnectReturns`, `NoStarvation`) and the expected violations.  Every invariant
and every refinement that a run checks is proved, under the assumptions named above.

## 10. Disagreements found

With a run: a failing copy loses a buffer and queues a user address
(`thread_rw.c:131`, `threadrw_swap`); `drm_write()` returns an error, with the
mutex, after part of the data (`esparser.c:797`, `esparser_drm`); a signal
passes for space (`streambuf.c:388`, `esparser_signal`); `pts_get_rec_num()` does
not count the bigger records (`ptsserv.c:1065`, `ptsserv_recnum`).

By reading, without a run of their own:

* `esparser.c:231`: a subtitle's `buf_wp()` is the start of its ring, so a
  time-out always counts nothing, though the message says "fetch ok" otherwise.
* `esparser.c:234`: after a time-out all of `len` counts as fetched if any byte was.
* `esparser.c:809`: `drm_write()` cuts `len` to an eighth of the ring and then
  takes the cut for the rest of the data; it returns the full count.
* `esparser.c:839`: two writers to one port could both use the same space.
* an interrupt later than the 200 ms is served during the next fetch and ends its
  wait early, which also spoils the reserve.
* `ptsserv.c:489`: a check-in sets PTS_RUNNING after it gave the lock back.  The
  stop of an audio reset (`amstream.c:743`) may come in between; then a table
  without records runs.  With `Overlaps = TRUE` TLC finds it in ten steps;
  the records' count and order and what look-ups find hold even then, as proved
  and as TLC says on the instance of `ptsserv_safety` (3.8 million states).
* `ptsserv.c:1048`: `pts_get_rec_num()` walks the list whatever the status.
* `ptsserv.c:1177`: after a failed allocation a table can neither be started nor
  stopped.
* `ptsserv.c:884`: an audio look-up between records that are far apart returns
  success without a time stamp, the first one too, although "when first pts
  lookup failed, use first checkin pts instead".
* `ptsserv.c:669`: a hit of the cache, and the first look-up's replacement, leave
  `*uS64` unset.
* `thread_rw.c:236`: "wakeup write thread" never finds one that can run.
* `amstream.c:705`: `video_port_init()` connects the decoder before the
  demultiplexer is set up, although `amstream.c:986` says "connect vdec at the end
  after all HW initialization"; the call there finds it connected.
* `vdec.c:1774`: the clean-up looks at the status once.  A run that ends after
  that and before `vdec.c:1809` or `1818` is not cleaned up before the next start:
  its place in the stream is not saved (`spoilt` in VdecSwap).
* `vdec.c:1864`: a run that ends between `active_vdec()` under the lock and the second
  look outside leads to a start without the ready test, of a decoder that may be
  asked to disconnect.  If it goes on like that, `vdec_disconnect()` does not return
  (TLC finds the loop at once when `InLookWindow` is dropped from `FairSpec`).
* `vdec.c:1625`: the comment tells drivers to call
  `vdec_set_next_status(CONNECTED)` in their callback; they call
  `vdec_set_status()`.  Following the comment would overwrite the DISCONNECTED of a
  disconnect that is under way, which would then never return.
* `vdec.c:931`: `swap_needed` is set by a result and never cleared, so that runs
  without one are saved as well ("ahead" in VdecSwap).
* `vdec.c:1580`: `vdec_reset()` releases the master's input only; the slave's swap page
  stays valid, of the stream before the reset.  The release frees the master's page
  and nothing allocates another: later saves of a reset decoder go to address 0.
* `vdec.c:678`: the restored cookie is the decoder's own, not that of the decoder whose
  page is restored.
* `vdec.c:1786`: "todo": a decoder that does not end blocks `vdec_disconnect()`, which
  has no time-out.
* `amstream.c:745`, `esparser.c:628`: an audio reset frees and allocates the ring;
  `audio_real_wp` becomes the new start, `audio_buf_start` and `audio_buf_end`
  remain those of the old ring.  `write_thread` is cleared without releasing
  the task.

## 11. Not modelled

Register programming, picture decoding, display and container parsing: their
correctness is in microcode or in bit formats.  Third-party code (`amffmpeg`,
`third_parts`, codecs) and the copies of the player and of the driver
(`LibPlayerMoblieTv`, `libplayer_cw`, `src/driver`, `amports_cw`): the project
follows `LibPlayer` and `amports/amports`.  Debug output, statistics and delays.
In ThreadRw, the decision to grow depends on the stream's delays, which are a free
choice here.  What the parser does with a fetch that is reprogrammed half-way is
not visible in the repository; in EsParser it drops what was to come.

Of the modelled components:

* `esparser.c`: the resets of an audio and of a subtitle ring.  They are
  one step of `audio_port_reset()`, which also exchanges the ring and loses the
  write task (section 10); alone they would be an `Open` that changes nothing else.
  They lock a spinlock on their own stack (`esparser.c:627`), which excludes nobody.
* `vdec.c`: the dispatch of interrupts (`vdec_isr()`, `vdec_thread_isr()`, which
  reads `active_vdec` anew), the step mode, releasing chunks in the clean-up of
  frame-based input, a `vdec_init()` that fails, a reset before the port was
  initialised, the stream cookies, and an allocation that yields no swap page.
  In VdecCore `Destroy` waits for the tail of the context's own work item, as the
  driver's `remove()` does; a master's tail that still looks at its slave, which is
  released first, is not followed.
* `ptsserv.c`: the statistics of the cached time, `pts_set_resolution()`,
  `pts_set_rec_size()`, the microsecond values, and what is set in tsync.
* `streambuf.c`: allocating with smaller and smaller sizes and changing the size.  A
  failed change leaves `canusebuf_size` as the retries left it (`streambuf.c:115`).

Whole components, beside the path the modules follow:

* `amstream.c` but for the life of a video port: exclusive opening, whose tests read
  flags that are set and cleared under different locks (`amstream.c:1547`); the error
  exits of `amstream_port_init()`, which release what other files use
  (`amstream.c:1003`); a failed `kzalloc()`, which returns with the mutex
  (`amstream.c:1568`).
* `vdec_input.c`: which block a chunk of frame-based input is placed in depends on
  addresses and sizes within the block, and a model without them would not
  show what matters: `vdec_input_add_frame()` chooses block and offset before it takes
  the lock, while `vdec_input_release_chunk()` may empty that block.
* `decoder_bmmu_box.c`, `video_keeper.c`: called by the codec drivers, which are
  glue to microcode and decide when a frame is still needed.
* `tsync.c`, `timestamp.c`: driven by the display's interrupt and by user space; what
  they promise is in real time.
* User space: `thread_read.c` (a seek requested while the last one is being
  acknowledged is lost, `thread_read.c:335`; the end is reported before the last
  block, `thread_read.c:136`), `streambufqueue.c`, `message.c` (an update is queued twice when
  two threads search at once, `message.c:62`; a full ring drops the oldest command,
  `message.c:86`), `player_id.c`, `amthreadpool.c`, `amadec`.  The driver's models
  take any sequence of calls from them.
