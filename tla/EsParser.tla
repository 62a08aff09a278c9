------------------------------ MODULE EsParser ------------------------------
(***************************************************************************)
(* The elementary stream parser of the amports driver                      *)
(* (amports/amports/esparser.c) and the ring buffers in front of the       *)
(* decoders it fills (amports/amports/streambuf.c).                        *)
(*                                                                         *)
(* All ports share one hardware parser, guarded by esparser_mutex.  A      *)
(* thread looks for space in its port's ring, takes the mutex, programs a  *)
(* fetch that ends in a fake start code, and sleeps until the start code   *)
(* interrupt sets search_done or 200 ms have passed.  The hardware moves   *)
(* the bytes and the decoders take them from the rings meanwhile.  Audio   *)
(* is copied into its ring by the processor.                               *)
(*                                                                         *)
(* "fetched" counts the bytes that entered a ring; the code counts them    *)
(* with parsed (video_data_parsed, audio_data_parsed), which PTS use as    *)
(* the stream position.                                                    *)
(***************************************************************************)
EXTENDS Integers, FiniteSets

CONSTANTS
  Threads, Ports,
  PortOf,        \* the port each thread writes to
  Kind,          \* "video", "audio" or "sub", for each port
  Workers,       \* the threads that are thread_rw's work items
  Drm,           \* the threads inside drm_write()
  NonBlock,      \* the threads that do not wait for space, workers included
  Phys,          \* the threads whose data are fetched where they are
  Size, CanUse,  \* buf_size and canusebuf_size of each port
  Guard,         \* bytes of a ring kept free: 6K in the source
  MinWrite,      \* 256 in the source: the least a non-blocking write takes
  Fraction,      \* 8 in the source: part of the ring a blocking write takes
  FetchBuf,      \* bytes of the bounce buffer: 64K in the source
  Counts,        \* sizes of the writes explored
  MaxBytes,      \* bound: no write starts that would take a port past it
  Signals,       \* signals may reach threads that are not workers
  Faults,        \* copy_from_user() may fail
  Stalls,        \* a fetch may stop before its end
  LateIrq,       \* the interrupt may take longer than the 200 ms
  OpenFails      \* esparser_init() may fail

Nobody == "nobody"

ASSUME EsParserAssumption ==
  /\ Nobody \notin Threads
  /\ PortOf \in [Threads -> Ports]
  /\ Kind \in [Ports -> {"video", "audio", "sub"}]
  /\ Drm \subseteq Threads \ Workers
  /\ Workers \subseteq NonBlock /\ NonBlock \subseteq Threads \ Drm
  /\ Phys \subseteq Threads
  /\ Size \in [Ports -> Nat \ {0}] /\ CanUse \in [Ports -> Nat]
  /\ \A p \in Ports : CanUse[p] \in Fraction..Size[p]
  /\ {Guard, MaxBytes} \subseteq Nat
  /\ {MinWrite, Fraction, FetchBuf} \subseteq Nat \ {0}
  /\ Counts \subseteq Nat \ {0}
  /\ {Signals, Faults, Stalls, LateIrq, OpenFails} \subseteq BOOLEAN

\* As in ThreadRw, a definition that comes right before another and shares
\* the beginning of its name (ProgramStale, ExpireCounted, ...) is a faulty
\* variant of it, which occurs in no behaviour.
VARIABLES
  mutex,          \* holder of esparser_mutex
  search_done,
  irq,            \* the start code was found and its interrupt not served yet
  hw,             \* "idle" or "fetch",
  hport, hleft,   \*   into which ring, and the bytes still to come
  opened,         \* ports whose buffer has BUF_FLAG_PARSER
  use_count,      \* esparser_use_count
  irq_on,         \* esparser_isr() is registered
  parsed,         \* video_data_parsed, audio_data_parsed
  fetched,        \* bytes that entered the ring since the port was opened
  level,          \* bytes in the ring that the decoder has not taken
  audio_real_wp,  \* relative to audio_buf_start
  pc,             \* of the threads, and their
  count, len,     \*   bytes asked for, and still or at once to be written
  written,        \*   bytes the calls of _esparser_write() accepted
  flen, wp,       \*   len and wp in _esparser_write()
  ret             \*   result of the last call

parser == <<search_done, irq, hw, hport, hleft>>
life   == <<opened, use_count, irq_on>>
rings  == <<parsed, fetched, level, audio_real_wp>>
calls  == <<pc, count, len, written, flen, wp, ret>>
vars   == <<mutex, parser, life, rings, calls>>

Lesser(a, b) == IF a < b THEN a ELSE b

Init ==
  /\ mutex = Nobody /\ search_done = FALSE /\ irq = FALSE
  /\ hw = "idle" /\ hleft = 0 /\ hport \in Ports
  /\ opened = {} /\ use_count = 0 /\ irq_on = FALSE
  /\ parsed = [p \in Ports |-> 0] /\ fetched = [p \in Ports |-> 0]
  /\ level = [p \in Ports |-> 0] /\ audio_real_wp = [p \in Ports |-> 0]
  /\ pc = [t \in Threads |-> "idle"] /\ ret = [t \in Threads |-> "ok"]
  /\ count = [t \in Threads |-> 0] /\ len = [t \in Threads |-> 0]
  /\ written = [t \in Threads |-> 0] /\ flen = [t \in Threads |-> 0]
  /\ wp = [t \in Threads |-> 0]

-----------------------------------------------------------------------------
(* esparser_init() and esparser_release().  Both run under amstream_mutex, *)
(* so one at a time; esparser_init() takes esparser_mutex as well.  A port *)
(* is released when its last file is closed: no user is inside a write,    *)
(* and threadrw_release() waits for the work item.                         *)

\* The first user resets the parser and clears its interrupt status.
ResetParser ==
  IF use_count = 0
    THEN hw' = "idle" /\ hleft' = 0 /\ irq' = FALSE
    ELSE UNCHANGED <<hw, hleft, irq>>

Open(p) ==
  /\ mutex = Nobody /\ p \notin opened
  /\ opened' = opened \cup {p}
  /\ use_count' = use_count + 1 /\ irq_on' = TRUE
  /\ ResetParser
  /\ parsed' = [parsed EXCEPT ![p] = 0]
  /\ fetched' = [fetched EXCEPT ![p] = 0]
  /\ level' = [level EXCEPT ![p] = 0]
  /\ audio_real_wp' = [audio_real_wp EXCEPT ![p] = 0]
  /\ UNCHANGED <<mutex, search_done, hport, calls>>

OpenFailUncounted(p) ==
  /\ OpenFails /\ mutex = Nobody /\ p \notin opened
  /\ ResetParser
  /\ use_count' = use_count - 1
  /\ UNCHANGED <<mutex, search_done, hport, opened, irq_on, rings, calls>>

\* No memory, pts_start() fails or the interrupt is not to be had: Err_1 and
\* Err_2 give the use back.
OpenFail(p) ==
  /\ OpenFails /\ mutex = Nobody /\ p \notin opened
  /\ ResetParser
  /\ UNCHANGED <<mutex, search_done, hport, life, rings, calls>>

Close(p) ==
  /\ p \in opened
  /\ \A t \in Threads : PortOf[t] = p => pc[t] = "idle"
  /\ opened' = opened \ {p}
  /\ use_count' = use_count - 1
  /\ irq_on' = (use_count > 1)
  /\ irq' = (irq /\ use_count > 1)
  /\ UNCHANGED <<mutex, search_done, hw, hport, hleft, rings, calls>>

-----------------------------------------------------------------------------
(* Space: stbuf_space() and stbuf_wait_space() *)

\* What stbuf_space() keeps free, "reserved space for safe write".
Reserve(p) == IF CanUse[p] >= Size[p] \div 2 THEN Guard ELSE 0
Usable(p) == IF CanUse[p] > Reserve(p) THEN CanUse[p] - Reserve(p) ELSE 0
Fits(p, n) == Kind[p] = "sub" \/ n <= Usable(p) - level[p]

Goto(t, l) == pc' = [pc EXCEPT ![t] = l]

\* A call ends before it took the mutex.
GiveUp(t, e) ==
  /\ Goto(t, "idle")
  /\ ret' = [ret EXCEPT ![t] = e]
  /\ len' = [len EXCEPT ![t] = 0]

\* write() reaches esparser_write_ex() or the loop of drm_write().
Begin(t, n) ==
  /\ pc[t] = "idle" /\ PortOf[t] \in opened
  /\ fetched[PortOf[t]] + n <= MaxBytes /\ parsed[PortOf[t]] + n <= MaxBytes
  /\ Goto(t, "check")
  /\ count' = [count EXCEPT ![t] = n]
  /\ len' = [len EXCEPT ![t] = n]
  /\ written' = [written EXCEPT ![t] = 0]
  /\ ret' = [ret EXCEPT ![t] = "ok"]
  /\ UNCHANGED <<mutex, parser, life, rings, flen, wp>>

\* There is room for the whole count.
CheckFits(t) ==
  /\ pc[t] = "check" /\ Fits(PortOf[t], count[t])
  /\ Goto(t, "lock")
  /\ UNCHANGED <<mutex, parser, life, rings, count, len, written, flen, wp,
                 ret>>

\* There is not: go for what there is, or for an eighth of the ring.
CheckShort(t) ==
  /\ pc[t] = "check" /\ ~Fits(PortOf[t], count[t])
  /\ IF t \in NonBlock
       THEN Goto(t, "short") /\ len' = len
       ELSE /\ Goto(t, "part")
            /\ len' = [len EXCEPT ![t] =
                         Lesser(CanUse[PortOf[t]] \div Fraction, @)]
  /\ UNCHANGED <<mutex, parser, life, rings, count, written, flen, wp, ret>>

TakeSpaceNot(t) ==
  /\ pc[t] = "short" /\ Fits(PortOf[t], MinWrite)
  /\ Goto(t, "lock")
  /\ UNCHANGED <<mutex, parser, life, rings, count, len, written, flen, wp,
                 ret>>

\* The space is read again: take that much, unless it is too little.
TakeSpace(t) ==
  /\ pc[t] = "short" /\ Fits(PortOf[t], MinWrite)
  /\ Goto(t, "lock")
  /\ len' = [len EXCEPT ![t] =
               Lesser(Usable(PortOf[t]) - level[PortOf[t]], count[t])]
  /\ UNCHANGED <<mutex, parser, life, rings, count, written, flen, wp, ret>>
TooShort(t) ==
  /\ pc[t] = "short" /\ ~Fits(PortOf[t], MinWrite)
  /\ GiveUp(t, "EAGAIN")
  /\ UNCHANGED <<mutex, parser, life, rings, count, written, flen, wp>>

\* A blocking call reads the space again, and sleeps in stbuf_wait_space()
\* when even the part does not fit.
TakePart(t) ==
  /\ pc[t] = "part"
  /\ Goto(t, IF Fits(PortOf[t], len[t]) THEN "lock" ELSE "space")
  /\ UNCHANGED <<mutex, parser, life, rings, count, len, written, flen, wp,
                 ret>>

\* stbuf_wait_space() says that there is space.  Only a result of zero from
\* wait_event_interruptible_timeout() counts as a failure, a signal does not.
\* In its later rounds drm_write() starts the loop over after a success.
SpaceFound(t) ==
  /\ pc[t] = "space"
  /\ Fits(PortOf[t], len[t]) \/ (Signals /\ t \notin Workers)
  /\ Goto(t, IF t \in Drm /\ written[t] > 0 THEN "check" ELSE "lock")
  /\ UNCHANGED <<mutex, parser, life, rings, count, len, written, flen, wp,
                 ret>>

SpaceTimeoutRetried(t) ==
  /\ pc[t] = "space" /\ ~Fits(PortOf[t], len[t])
  /\ Goto(t, "part")
  /\ UNCHANGED <<mutex, parser, life, rings, count, len, written, flen, wp,
                 ret>>

\* It says that there is none, after 20 jiffies.  In its later rounds
\* drm_write() goes on to write: -EAGAIN < leftcount compares unsigned.
SpaceTimeout(t) ==
  /\ pc[t] = "space" /\ ~Fits(PortOf[t], len[t])
  /\ IF t \in Drm /\ written[t] > 0
       THEN Goto(t, "lock") /\ UNCHANGED <<len, ret>>
       ELSE GiveUp(t, "EAGAIN")
  /\ UNCHANGED <<mutex, parser, life, rings, count, written, flen, wp>>

-----------------------------------------------------------------------------
(* _esparser_write(), _esparser_write_s() and the return from them *)

\* With an error: drm_write() returns without unlocking.
ReturnErr(t, e) ==
  /\ mutex' = IF t \in Drm THEN mutex ELSE Nobody
  /\ GiveUp(t, e)
  /\ flen' = [flen EXCEPT ![t] = 0]
  /\ wp' = [wp EXCEPT ![t] = 0]
  /\ UNCHANGED <<count, written>>

\* With n bytes: drm_write() goes on while something is left of len.
ReturnLen(t, n) ==
  LET again == /\ t \in Drm
               /\ written[t] + n # count[t] /\ len[t] > n
  IN /\ mutex' = Nobody
     /\ written' = [written EXCEPT ![t] = @ + n]
     /\ Goto(t, IF again THEN "check" ELSE "idle")
     /\ len' = [len EXCEPT ![t] = IF again THEN @ - n ELSE 0]
     /\ flen' = [flen EXCEPT ![t] = 0]
     /\ wp' = [wp EXCEPT ![t] = 0]
     /\ UNCHANGED <<count, ret>>

Lock(t) ==
  /\ pc[t] = "lock" /\ mutex = Nobody
  /\ mutex' = t
  /\ Goto(t, IF Kind[PortOf[t]] = "audio" THEN "copy" ELSE "program")
  /\ UNCHANGED <<parser, life, rings, count, len, written, flen, wp, ret>>

\* audio_buf_end + 8, relative to audio_buf_start, and audio_real_wp after
\* j of n bytes were copied.
RingEndShort(p) == Size[p] - 1
RingEnd(p) == Size[p]
NextWp(p, n, j) ==
  LET w == audio_real_wp[p]
  IN IF w + n > RingEnd(p) /\ w + j >= RingEnd(p)
       THEN w + j - RingEnd(p) ELSE w + j

\* _esparser_write_s(): a copy that fails half-way counts what it copied.
AudioCopy(t) ==
  LET p == PortOf[t]
  IN /\ pc[t] = "copy"
     /\ \E j \in 0..len[t] :
          /\ j = len[t] \/ Faults
          /\ audio_real_wp' = [audio_real_wp EXCEPT ![p] = NextWp(p, len[t], j)]
          /\ fetched' = [fetched EXCEPT ![p] = @ + j]
          /\ level' = [level EXCEPT ![p] = @ + j]
          /\ parsed' = [parsed EXCEPT ![p] = @ + j]
          /\ ReturnLen(t, j)
     /\ UNCHANGED <<parser, life, ret>>

\* copy_from_user() into the bounce buffer fails.
FetchFault(t) ==
  /\ Faults /\ pc[t] = "program" /\ t \notin Phys
  /\ ReturnErr(t, "EFAULT")
  /\ UNCHANGED <<parser, life, rings>>

\* The registers but the fetch command: the parser's output now goes to
\* this port.
ProgramStale(t) ==
  /\ pc[t] = "program"
  /\ flen' = [flen EXCEPT ![t] =
                IF t \in Phys THEN len[t] ELSE Lesser(len[t], FetchBuf)]
  /\ wp' = [wp EXCEPT ![t] = fetched[PortOf[t]]]
  /\ hport' = PortOf[t]
  /\ Goto(t, "start")
  /\ UNCHANGED <<mutex, search_done, irq, hw, hleft, life, rings, count, len,
                 written, ret>>
Program(t) ==
  /\ pc[t] = "program"
  /\ flen' = [flen EXCEPT ![t] =
                IF t \in Phys THEN len[t] ELSE Lesser(len[t], FetchBuf)]
  /\ wp' = [wp EXCEPT ![t] = fetched[PortOf[t]]]
  /\ hport' = PortOf[t]
  /\ search_done' = FALSE
  /\ Goto(t, "start")
  /\ UNCHANGED <<mutex, irq, hw, hleft, life, rings, count, len, written, ret>>

\* The fetch command.
Start(t) ==
  /\ pc[t] = "start"
  /\ hw' = "fetch" /\ hleft' = flen[t]
  /\ Goto(t, "wait")
  /\ UNCHANGED <<mutex, search_done, irq, hport, life, rings, count, len,
                 written, flen, wp, ret>>

CountParsed(t) ==
  parsed' = IF Kind[PortOf[t]] = "sub" THEN parsed
            ELSE [parsed EXCEPT ![PortOf[t]] = @ + flen[t]]

\* wait_event_interruptible_timeout() sees search_done.
Done(t) ==
  /\ pc[t] = "wait" /\ search_done
  /\ CountParsed(t)
  /\ ReturnLen(t, flen[t])
  /\ UNCHANGED <<parser, life, fetched, level, audio_real_wp, ret>>

\* It times out.  The fetch is stopped; if buf_wp() has moved, all of len is
\* taken to be fetched, else none.  A subtitle's buf_wp() is the start of its
\* ring and never moves.
TimesOut(t) ==
  /\ pc[t] = "wait" /\ ~search_done
  /\ LateIrq \/ ~irq
  /\ Stalls \/ hw = "idle" \/ hleft = flen[t]
  /\ hw' = "idle" /\ hleft' = 0
Moved(t) == Kind[PortOf[t]] # "sub" /\ fetched[PortOf[t]] # wp[t]
ExpireCounted(t) ==
  /\ TimesOut(t)
  /\ CountParsed(t)
  /\ IF Moved(t) THEN ReturnLen(t, flen[t]) /\ ret' = ret
                 ELSE ReturnErr(t, "EAGAIN")
  /\ UNCHANGED <<search_done, irq, hport, life, fetched, level, audio_real_wp>>
Expire(t) ==
  /\ TimesOut(t)
  /\ IF Moved(t) THEN CountParsed(t) /\ ReturnLen(t, flen[t])
                 ELSE UNCHANGED parsed /\ ReturnErr(t, "EAGAIN")
  /\ UNCHANGED <<search_done, irq, hport, life, fetched, level, audio_real_wp>>

\* A signal ends the wait; nobody stops the fetch.
Interrupted(t) ==
  /\ Signals /\ t \notin Workers
  /\ pc[t] = "wait" /\ ~search_done
  /\ ReturnErr(t, "ERESTARTSYS")
  /\ UNCHANGED <<parser, life, rings>>

-----------------------------------------------------------------------------
(* The hardware (external), its interrupt, and the decoders (external).    *)
(* How far a subtitle's reader has come is not the driver's affair: no     *)
(* level is kept for it.                                                   *)

Move ==
  /\ hw = "fetch"
  /\ \E k \in 1..hleft :
       /\ hleft' = hleft - k
       /\ fetched' = [fetched EXCEPT ![hport] = @ + k]
       /\ level' = IF Kind[hport] = "sub" THEN level
                   ELSE [level EXCEPT ![hport] = @ + k]
  /\ UNCHANGED <<mutex, search_done, irq, hw, hport, life, parsed,
                 audio_real_wp, calls>>

\* The pattern behind the data is found.
Found ==
  /\ hw = "fetch" /\ hleft = 0
  /\ hw' = "idle" /\ irq' = TRUE
  /\ UNCHANGED <<mutex, search_done, hport, hleft, life, rings, calls>>

esparser_isr ==
  /\ irq /\ irq_on
  /\ irq' = FALSE /\ search_done' = TRUE
  /\ UNCHANGED <<mutex, hw, hport, hleft, life, rings, calls>>

Consume(p) ==
  /\ \E k \in 1..level[p] : level' = [level EXCEPT ![p] = @ - k]
  /\ UNCHANGED <<mutex, parser, life, parsed, fetched, audio_real_wp, calls>>

-----------------------------------------------------------------------------
ThreadStep(t) ==
  \/ CheckFits(t) \/ CheckShort(t) \/ TakeSpace(t) \/ TooShort(t)
  \/ TakePart(t) \/ SpaceFound(t) \/ SpaceTimeout(t)
  \/ Lock(t) \/ AudioCopy(t) \/ FetchFault(t) \/ Program(t) \/ Start(t)
  \/ Done(t) \/ Expire(t) \/ Interrupted(t)

Next ==
  \/ \E p \in Ports : Open(p) \/ OpenFail(p) \/ Close(p) \/ Consume(p)
  \/ \E t \in Threads : ThreadStep(t) \/ \E n \in Counts : Begin(t, n)
  \/ Move \/ Found \/ esparser_isr

Spec == Init /\ [][Next]_vars

(* Threads run, the mutex is granted in the end, and the hardware works:   *)
(* a fetch that does not stall ends and its interrupt is served.  Nothing  *)
(* is assumed of the decoders.                                             *)
FairSpec ==
  /\ Spec
  /\ \A t \in Threads : WF_vars(ThreadStep(t)) /\ SF_vars(Lock(t))
  /\ WF_vars(Move) /\ WF_vars(Found) /\ WF_vars(esparser_isr)

-----------------------------------------------------------------------------
(* Properties *)

\* Every variable holds a value of its kind.
ParserType ==
  /\ mutex \in Threads \cup {Nobody}
  /\ search_done \in BOOLEAN /\ irq \in BOOLEAN
  /\ hw \in {"idle", "fetch"} /\ hport \in Ports /\ hleft \in Nat
  /\ opened \subseteq Ports /\ use_count \in Nat /\ irq_on \in BOOLEAN
RingsType ==
  /\ parsed \in [Ports -> Nat] /\ fetched \in [Ports -> Nat]
  /\ level \in [Ports -> Nat] /\ audio_real_wp \in [Ports -> Nat]
CallsType ==
  /\ pc \in [Threads -> {"idle", "check", "short", "part", "space", "lock",
                         "copy", "program", "start", "wait"}]
  /\ count \in [Threads -> Nat] /\ len \in [Threads -> Nat]
  /\ written \in [Threads -> Nat] /\ flen \in [Threads -> Nat]
  /\ wp \in [Threads -> Nat]
  /\ ret \in [Threads -> {"ok", "EAGAIN", "EFAULT", "ERESTARTSYS"}]
TypeOK == ParserType /\ RingsType /\ CallsType

\* "reserved space for safe write" (stbuf_space()): although the space is
\* read before the mutex is taken and the data arrive long after that, a
\* ring never fills beyond its usable part.
ReserveKept == \A p \in Ports : Kind[p] = "sub" \/ level[p] <= Usable(p)

\* The interrupt a thread sleeps for is its own: search_done is set when the
\* thread's fetch has ended and its interrupt was served, and only then; a
\* flag or an interrupt left over from an earlier fetch never ends the wait.
DoneIsExact ==
  \A t \in Threads : pc[t] = "wait" =>
    /\ search_done <=> hw = "idle" /\ ~irq
    /\ search_done => fetched[PortOf[t]] = wp[t] + flen[t]

\* The stream position the driver counts is the number of bytes that really
\* went into the ring, whatever failed or timed out on the way, except
\* while a fetch into that ring is in progress (es_vpts_checkin()).
ParsedIsFetched ==
  \A p \in Ports :
    \/ Kind[p] = "sub" \/ parsed[p] = fetched[p]
    \/ \E t \in Threads : PortOf[t] = p /\ pc[t] = "wait"

\* audio_real_wp is where the next byte of the stream belongs, across wraps,
\* copies that end exactly at the end of the ring and copies that fail.
AudioAligned ==
  \A p \in Ports : Kind[p] = "audio" =>
    /\ audio_real_wp[p] <= Size[p]
    /\ audio_real_wp[p] % Size[p] = fetched[p] % Size[p]

\* The start code interrupt is registered as long as any port is open, and
\* so whenever a call may wait for it, whatever opens failed in between.
InterruptKept ==
  /\ use_count = Cardinality(opened)
  /\ irq_on <=> opened # {}
  /\ \A t \in Threads : pc[t] # "idle" => irq_on

\* Every call returns: the waits for space and for the interrupt end, and the
\* mutex comes back from every thread that takes it.
CallsReturn == \A t \in Threads : pc[t] # "idle" ~> pc[t] = "idle"

Returns(t) == pc[t] # "idle" /\ pc'[t] = "idle"

\* "write part data , not allow return" (drm_write()): no error is returned
\* once a part of the data is written.
NoPartReturn ==
  [][\A t \in Drm : Returns(t) /\ ret'[t] # "ok" => written[t] = 0]_vars

-----------------------------------------------------------------------------
(* The inductive invariants behind these properties. *)

InParser(t) == pc[t] \in {"copy", "program", "start", "wait"}

\* Uses are counted, and only threads of open ports are in a call.
Uses ==
  /\ IsFiniteSet(opened) /\ use_count = Cardinality(opened)
  /\ irq_on <=> opened # {}
  /\ \A t \in Threads : pc[t] # "idle" => PortOf[t] \in opened

\* Which ports the states of a call belong to, and who holds the mutex.
Places ==
  /\ \A t \in Threads : InParser(t) => mutex = t
  /\ \A t \in Threads :
       pc[t] \in {"short", "part", "space", "copy"} => Kind[PortOf[t]] # "sub"
  /\ \A t \in Threads :
       pc[t] \in {"program", "start", "wait"} => Kind[PortOf[t]] # "audio"
  /\ \A t \in Threads : pc[t] \in {"start", "wait"} => flen[t] <= len[t]

\* Without signals, the parser works for the thread that waits for it.
Waits(t) == pc[t] = "wait" /\ hport = PortOf[t]
Owned ==
  /\ hw = "fetch" => \E t \in Threads : Waits(t)
  /\ hw = "idle" => hleft = 0
  /\ \A t \in Threads : pc[t] \in {"start", "wait"} => hport = PortOf[t]
  /\ \A t \in Threads : pc[t] = "wait" => hleft <= flen[t]

\* What a thread may still add to its ring on the space it found.
Claim(t) ==
  IF pc[t] = "wait" THEN len[t] - flen[t] + hleft
  ELSE IF \/ pc[t] \in {"lock", "copy", "program", "start"}
          \/ pc[t] \in {"check", "part"} /\ written[t] > 0
         THEN len[t] ELSE 0
Claimed ==
  \A t \in Threads :
    /\ Kind[PortOf[t]] # "sub"
         => level[PortOf[t]] + Claim(t) <= Usable(PortOf[t])
    /\ pc[t] = "space" => written[t] = 0
    /\ len[t] <= count[t]

\* Without late interrupts either, an interrupt is that thread's, and the
\* bytes it waits for are the ones still to come.
Timely ==
  /\ irq => hw = "idle" /\ ~search_done /\ \E t \in Threads : Waits(t)
  /\ \A t \in Threads : pc[t] = "start" =>
       ~search_done /\ hw = "idle" /\ fetched[PortOf[t]] = wp[t]
  /\ \A t \in Threads : pc[t] = "wait" =>
       /\ search_done <=> hw = "idle" /\ ~irq
       /\ fetched[PortOf[t]] + hleft = wp[t] + flen[t]

\* Without stalls either, what is counted is what was fetched before the
\* fetch in progress.
Counted ==
  /\ \A p \in Ports :
       \/ Kind[p] = "sub" \/ parsed[p] = fetched[p]
       \/ \E t \in Threads : PortOf[t] = p /\ pc[t] = "wait"
  /\ \A t \in Threads :
       pc[t] = "wait" /\ Kind[PortOf[t]] # "sub" => parsed[PortOf[t]] = wp[t]
=============================================================================
