------------------------------- MODULE PtsServ -------------------------------
(***************************************************************************)
(* A table of presentation time stamps of the amports driver               *)
(* (amports/amports/ptsserv.c).  Whoever writes the stream checks a time   *)
(* stamp in for a position; a decoder that has reached a position looks    *)
(* the time stamp up.  Records move between valid_list, in the order of    *)
(* the check-ins, and free_list; pts_search remembers where the last       *)
(* look-up left off.  Check-ins, look-ups and counts take the lock;        *)
(* starting and stopping a table only changes its status under it and      *)
(* works on the lists outside.                                             *)
(*                                                                         *)
(* Positions are u32 and wrap; free records differ in nothing that is      *)
(* looked at, so free_list is a number and a list pointer is an index of   *)
(* valid_list, 0 for its head.                                             *)
(***************************************************************************)
EXTENDS Integers, Sequences, FiniteSetsExt

CONSTANTS
  Types,        \* the kinds of table explored, of "video" and "audio"
  RecNum,       \* records allocated, about rec_num: 16384 in the source
  M,            \* 2^32 in the source
  BufSize,      \* buf_size: bytes of the stream buffer
  Pages,        \* 2^16 in the source: the hardware counts its wraps modulo it
  Threshold,    \* lookup_threshold, the margin of a look-up
  KeepRange,    \* PTS_VALID_OFFSET_TO_CHECK
  AudioRes,     \* INTERPOLATE_AUDIO_RESOLUTION
  Vals,         \* time stamps explored
  Window,       \* bound: the stream gets no further ahead of a valid record
  AllocFails,   \* alloc_pts_list() may fail
  Overlaps      \* the table may be stopped and started during other calls

ASSUME PtsServAssumption ==
  /\ Types \subseteq {"video", "audio"}
  /\ RecNum \in Nat \ {0} /\ M \in Nat \ {0, 1} /\ BufSize \in Nat \ {0}
  /\ Pages \in Nat \ {0} /\ (BufSize * Pages) % M = 0
  /\ Threshold \in Nat \ {0} /\ KeepRange \in Nat
  /\ 2 * Threshold <= KeepRange + 1
  /\ Vals \subseteq 0..M - 1
  /\ AudioRes \in Nat /\ (AudioRes - 1) * Window < M
  /\ Window \in Nat /\ 2 * Window < M /\ Window < BufSize
  /\ {AllocFails, Overlaps} \subseteq BOOLEAN

Outside == -1   \* pts_search when its record is not in valid_list

\* As in ThreadRw, a definition that comes right before another and shares
\* the beginning of its name is a faulty variant of it.
VARIABLES
  type,          \* the kind of this table
  status,        \* "IDLE", "INIT", "LOADING", "RUNNING" or "DEINIT"
  pages,         \* the records' memory is allocated
  valid,         \* valid_list: offset and val of each record, oldest first
  nfree,         \* length of free_list
  pts_search,
  cache,         \* lookup_cache_valid, lookup_cache_offset, lookup_cache_pts
  first_lookup_ok,
  wpos,          \* bytes written to the buffer, modulo BufSize * Pages
  opc,           \* the thread that starts and stops the table
  cpc,           \* the one that checks in
  lost           \* a call worked on records that were freed

lists == <<pages, valid, nfree, pts_search>>
looks == <<cache, first_lookup_ok>>
vars  == <<type, status, lists, looks, wpos, opc, cpc, lost>>

NoCache == [valid |-> FALSE, offset |-> 0, pts |-> 0]

Init ==
  /\ type \in Types
  /\ status = "IDLE" /\ pages = FALSE /\ valid = <<>> /\ nfree = 0
  /\ pts_search = 0 /\ cache = NoCache /\ first_lookup_ok = FALSE
  /\ wpos = 0 /\ opc = "idle" /\ cpc = "idle" /\ lost = FALSE

-----------------------------------------------------------------------------
(* Positions: OFFSET_DIFF(), OFFSET_LATER(), OFFSET_EQLATER(), VAL_DIFF() *)

Diff(x, y) ==
  LET d == (x - y) % M IN IF 2 * d >= M THEN d - M ELSE d
Later(x, y)   == Diff(x, y) > 0
EqLater(x, y) == Diff(x, y) >= 0

\* pts_checkin_wrptr(): the position of a place in the buffer that is less
\* than one buffer behind the write pointer.
WrOffsetEq(ptr) ==
  LET page == wpos \div BufSize
      page_no == IF ptr >= wpos % BufSize THEN page - 1 ELSE page
  IN (BufSize * page_no + ptr) % M
WrOffset(ptr) ==
  LET page == wpos \div BufSize
      page_no == IF ptr > wpos % BufSize THEN page - 1 ELSE page
  IN (BufSize * page_no + ptr) % M

-----------------------------------------------------------------------------
(* pts_start() and pts_stop() *)

Free(p) == Overlaps \/ p = "idle"

Start ==
  /\ opc = "idle" /\ Free(cpc) /\ status = "IDLE"
  /\ status' = "INIT"
  /\ opc' = "alloc"
  /\ UNCHANGED <<type, lists, looks, wpos, cpc, lost>>

\* alloc_pts_list() and the rest but for the last line.
StartAlloc ==
  /\ opc = "alloc"
  /\ pages' = TRUE /\ valid' = <<>> /\ nfree' = RecNum /\ pts_search' = 0
  /\ first_lookup_ok' = FALSE
  /\ status' = "LOADING"
  /\ opc' = "cache"
  /\ UNCHANGED <<type, cache, wpos, cpc, lost>>

\* No memory: the status stays PTS_INIT.
StartFail ==
  /\ AllocFails /\ opc = "alloc"
  /\ opc' = "idle"
  /\ UNCHANGED <<type, status, lists, looks, wpos, cpc, lost>>

\* lookup_cache_valid = false, after the status was set.
StartCacheKept ==
  /\ opc = "cache"
  /\ opc' = "idle"
  /\ UNCHANGED <<type, status, lists, looks, wpos, cpc, lost>>
StartCache ==
  /\ opc = "cache"
  /\ cache' = NoCache
  /\ opc' = "idle"
  /\ UNCHANGED <<type, status, lists, first_lookup_ok, wpos, cpc, lost>>

StopUnmarked ==
  /\ opc = "idle" /\ Free(cpc) /\ status \in {"LOADING", "RUNNING"}
  /\ opc' = "free"
  /\ UNCHANGED <<type, status, lists, looks, wpos, cpc, lost>>
Stop ==
  /\ opc = "idle" /\ Free(cpc) /\ status \in {"LOADING", "RUNNING"}
  /\ status' = "DEINIT"
  /\ opc' = "free"
  /\ UNCHANGED <<type, lists, looks, wpos, cpc, lost>>

\* free_pts_list() frees the records, and then empties the lists.
StopFree ==
  /\ opc = "free" /\ pages
  /\ pages' = FALSE
  /\ UNCHANGED <<type, status, valid, nfree, pts_search, looks, wpos, opc, cpc,
                 lost>>
StopDone ==
  /\ opc = "free" /\ ~pages
  /\ valid' = <<>> /\ nfree' = 0
  /\ status' = "IDLE"
  /\ opc' = "idle"
  /\ UNCHANGED <<type, pages, pts_search, looks, wpos, cpc, lost>>

-----------------------------------------------------------------------------
(* Check-in: pts_checkin_offset_inline() *)

\* A place of the buffer at most Window bytes back, not before the last
\* record: the sources of the stream check in in the stream's order.
Places ==
  {at \in {(wpos - k) % (BufSize * Pages) : k \in 0..Window} :
     valid # <<>> => EqLater(at % M, valid[Len(valid)].offset)}

\* Without a free record the oldest valid one is used again, at the end of
\* the list; in lists that were freed there may be neither.
SearchAfterReuse ==
  IF pts_search = 1 THEN Len(valid)
  ELSE IF pts_search > 1 THEN pts_search - 1 ELSE pts_search
EnlistTaken(r) ==
  /\ valid' = Append(valid, r) /\ nfree' = nfree - 1
  /\ UNCHANGED pts_search
Enlist(r) ==
  IF nfree > 0
    THEN /\ valid' = Append(valid, r) /\ nfree' = nfree - 1
         /\ UNCHANGED pts_search
    ELSE IF valid # <<>>
           THEN /\ valid' = Append(Tail(valid), r) /\ UNCHANGED nfree
                /\ pts_search' = SearchAfterReuse
           ELSE UNCHANGED <<valid, nfree, pts_search>>

Touch == lost' = (lost \/ ~pages)

\* The part under the lock ...
Checkin(at, val) ==
  /\ cpc = "idle" /\ Free(opc) /\ status \in {"LOADING", "RUNNING"}
  /\ Enlist([offset |-> WrOffset(at % BufSize), val |-> val]) /\ Touch
  /\ cpc' = "test"
  /\ UNCHANGED <<type, status, pages, looks, wpos, opc>>

\* ... and the change of status without it.
CheckinTest ==
  /\ cpc = "test"
  /\ cpc' = IF status = "LOADING" THEN "run" ELSE "idle"
  /\ UNCHANGED <<type, status, lists, looks, wpos, opc, lost>>
CheckinRun ==
  /\ cpc = "run"
  /\ status' = "RUNNING"
  /\ cpc' = "idle"
  /\ UNCHANGED <<type, lists, looks, wpos, opc, lost>>

-----------------------------------------------------------------------------
(* Look-up: pts_lookup_offset_inline_locked() *)

Margin == IF first_lookup_ok THEN Threshold ELSE 2 * Threshold

\* Records at the head that video drops because they are far behind.
DroppedOld(o) ==
  IF type = "video"
    THEN Max({k \in 0..Len(valid) :
                \A i \in 1..k : Diff(o, valid[i].offset) > KeepRange})
    ELSE 0

\* pts_search moves on when its record is dropped.
SearchAfterDropKept(d) == pts_search
SearchAfterDrop(d) ==
  IF pts_search > d THEN pts_search - d
  ELSE IF pts_search > 0 THEN (IF d < Len(valid) THEN 1 ELSE 0)
  ELSE pts_search

\* The record the walk through v from its s-th record settles on, or 0:
\* forward to the last that is not later than o, or else backward to it.
CandidateBefore(v, s, o) ==
  IF Later(o, v[s].offset)
    THEN Max({j \in s..Len(v) : \A k \in s + 1..j : Later(o, v[k].offset)})
    ELSE IF Later(v[s].offset, o)
           THEN Max({0} \cup {j \in 1..s - 1 : EqLater(o, v[j].offset)})
           ELSE s
Candidate(v, s, o) ==
  IF Later(o, v[s].offset)
    THEN Max({j \in s..Len(v) : \A k \in s + 1..j : ~Later(v[k].offset, o)})
    ELSE IF Later(v[s].offset, o)
           THEN Max({0} \cup {j \in 1..s - 1 : EqLater(o, v[j].offset)})
           ELSE s

Without(v, i, j) == SubSeq(v, 1, i - 1) \o SubSeq(v, j + 1, Len(v))

\* The list when the walk has ended: what is left, the candidate in it, how
\* many records were freed, and pts_search.  Audio frees what it passes.
Walked(o) ==
  LET d == DroppedOld(o)
      v == SubSeq(valid, d + 1, Len(valid))
      search == SearchAfterDrop(d)
      s == IF search = 0 THEN 1 ELSE search
      c == IF v = <<>> THEN 0 ELSE Candidate(v, s, o)
      passed == IF type = "audio" /\ c > s THEN c - s ELSE 0
  IN [v |-> IF passed = 0 THEN v ELSE Without(v, s, s + passed - 1),
      c |-> c - passed,
      freed |-> d + passed,
      search |-> IF passed > 0 /\ search > 0 THEN Outside ELSE search]

Near(w, o) == w.c # 0 /\ Diff(o, w.v[w.c].offset) < Margin
\* Audio that finds no record near enough looks at the next one as well.
HasNext(w) == type = "audio" /\ w.c # 0 /\ w.c < Len(w.v)
Gap(w)     == Diff(w.v[w.c + 1].val, w.v[w.c].val)
BetweenUnbased(w, o) ==
  LET p2 == w.v[w.c]
      p  == w.v[w.c + 1]
  IN ((((p.val - p2.val) * o) % M) \div ((p.offset - p2.offset) % M)
        + p2.val) % M
Between(w, o) ==
  LET p2 == w.v[w.c]
      p  == w.v[w.c + 1]
  IN ((((p.val - p2.val) * ((o - p2.offset) % M)) % M)
        \div ((p.offset - p2.offset) % M) + p2.val) % M

\* A look-up that has to walk.  From a record outside of valid_list it would
\* not end where it should; SearchStart says that it never comes to that.
Looks(o) ==
  /\ status = "RUNNING" /\ pts_search # Outside
  /\ ~(cache.valid /\ cache.offset = o)
  /\ Touch

Leave(w) == valid' = w.v /\ nfree' = nfree + w.freed /\ pts_search' = w.search

\* The candidate is handed out, with the time stamp pts.
HandOut(w, o, pts) ==
  /\ valid' = Without(w.v, w.c, w.c)
  /\ nfree' = nfree + w.freed + 1
  /\ pts_search' = w.c - 1
  /\ cache' = [valid |-> TRUE, offset |-> o, pts |-> pts]
  /\ first_lookup_ok' = TRUE

LookupFound(o) ==
  LET w == Walked(o)
  IN /\ Looks(o) /\ Near(w, o)
     /\ HandOut(w, o, IF w.v[w.c].val = 0 THEN 1 ELSE w.v[w.c].val)
     /\ UNCHANGED <<type, status, pages, wpos, opc, cpc>>

\* Audio: in between two time stamps that are close to each other.
LookupBetween(o) ==
  LET w == Walked(o)
  IN /\ Looks(o) /\ ~Near(w, o) /\ HasNext(w) /\ Gap(w) \in 0..AudioRes - 1
     /\ HandOut(w, o, Between(w, o))
     /\ UNCHANGED <<type, status, pages, wpos, opc, cpc>>

\* Audio: they are not close.  The call succeeds without a time stamp.
LookupUnset(o) ==
  LET w == Walked(o)
  IN /\ Looks(o) /\ ~Near(w, o) /\ HasNext(w) /\ Gap(w) \notin 0..AudioRes - 1
     /\ Leave(w)
     /\ UNCHANGED <<type, status, pages, looks, wpos, opc, cpc>>

\* Nothing is found; the first time first_checkin_pts does instead.
LookupMissUncounted(o) ==
  LET w == Walked(o)
  IN /\ Looks(o) /\ ~Near(w, o) /\ ~HasNext(w)
     /\ valid' = w.v /\ pts_search' = w.search
     /\ first_lookup_ok' = (first_lookup_ok \/ w.v # <<>>)
     /\ UNCHANGED <<type, status, pages, nfree, cache, wpos, opc, cpc>>
LookupMiss(o) ==
  LET w == Walked(o)
  IN /\ Looks(o) /\ ~Near(w, o) /\ ~HasNext(w)
     /\ Leave(w)
     /\ first_lookup_ok' = (first_lookup_ok \/ w.v # <<>>)
     /\ UNCHANGED <<type, status, pages, cache, wpos, opc, cpc>>

-----------------------------------------------------------------------------
(* Counting: pts_get_rec_num(), which changes nothing *)

\* Its walk ends at the first record that is later than val, or comes back
\* to the head of the list; what follows from there is counted.
RecsFrom(val) ==
  LET s == IF pts_search = 0 THEN 1 ELSE pts_search
      later == {j \in s + 1..Len(valid) : Later(valid[j].offset, val)}
  IN IF valid = <<>> THEN 0
     ELSE IF ~Later(val, valid[s].offset) THEN Len(valid) - s
     ELSE IF later = {} THEN Len(valid)
     ELSE Len(valid) - Min(later)

-----------------------------------------------------------------------------
(* The parser writes to the stream buffer (external). *)

Write ==
  /\ wpos' = (wpos + 1) % (BufSize * Pages)
  /\ valid # <<>> => Diff(wpos % M, valid[1].offset) < Window
  /\ UNCHANGED <<type, status, lists, looks, opc, cpc, lost>>

\* Positions a decoder may have reached.
Asked == {(wpos - k) % M : k \in 0..Window}

Next ==
  \/ Start \/ StartAlloc \/ StartFail \/ StartCache
  \/ Stop \/ StopFree \/ StopDone
  \/ \E at \in Places, val \in Vals : Checkin(at, val)
  \/ CheckinTest \/ CheckinRun
  \/ \E o \in Asked : \/ LookupFound(o) \/ LookupBetween(o)
                      \/ LookupUnset(o) \/ LookupMiss(o)
  \/ Write

Spec == Init /\ [][Next]_vars

-----------------------------------------------------------------------------
(* Properties *)

\* Every variable holds a value of its kind.
TypeOK ==
  /\ type \in Types
  /\ status \in {"IDLE", "INIT", "LOADING", "RUNNING", "DEINIT"}
  /\ pages \in BOOLEAN
  /\ valid \in Seq([offset : 0..M - 1, val : 0..M - 1]) /\ nfree \in Nat
  /\ pts_search \in Nat \cup {Outside}
  /\ cache \in [valid : BOOLEAN, offset : 0..M - 1, pts : 0..M - 1]
  /\ first_lookup_ok \in BOOLEAN
  /\ wpos \in 0..BufSize * Pages - 1
  /\ opc \in {"idle", "alloc", "cache", "free"}
  /\ cpc \in {"idle", "test", "run"}
  /\ lost \in BOOLEAN

\* The records stay in the order of their positions across wraps of the
\* buffer, of the hardware's count of them and of u32, whether a position
\* comes from a byte count or from a pointer into the buffer; the walks of
\* the look-up rely on it.
Sorted ==
  \A i \in 1..Len(valid) - 1 : EqLater(valid[i + 1].offset, valid[i].offset)

\* No record is lost or listed twice by a look-up that drops, passes and
\* hands out, or by a check-in that uses one again.
RecordsKept == pages /\ opc # "free" => Len(valid) + nfree = RecNum

\* The walk of a look-up never starts in the free list: a record pts_search
\* points to may be used again, but is not freed under it.  For audio this
\* is so because it never leaves the head of the list.
SearchStart ==
  status = "RUNNING" =>
    /\ pts_search \in 0..Len(valid)
    /\ type = "audio" => pts_search = 0

\* Wherever it starts, the walk settles on the latest record that is not
\* later than the position and near enough, if there is one.
LookupBest ==
  status = "RUNNING" =>
    \A o \in Asked :
      LET w == Walked(o)
          near == {i \in 1..Len(valid) :
                     Diff(o, valid[i].offset) \in 0..Margin - 1}
      IN /\ Near(w, o) <=> near # {}
         /\ Near(w, o) => /\ EqLater(o, w.v[w.c].offset)
                          /\ \A i \in near :
                               EqLater(w.v[w.c].offset, valid[i].offset)

\* Between two audio time stamps that are close, a look-up answers with one
\* that lies between them: u32 arithmetic neither wraps nor divides by zero.
Interpolated ==
  status = "RUNNING" =>
    \A o \in Asked :
      LET w == Walked(o)
      IN ~Near(w, o) /\ HasNext(w) /\ Gap(w) \in 0..AudioRes - 1 =>
           /\ w.v[w.c + 1].offset # w.v[w.c].offset
           /\ Diff(Between(w, o), w.v[w.c].val) \in 0..Gap(w)

\* No call works on records that were freed, although the lists are freed
\* without the lock and decoders may look up at any time.
NeverLost == ~lost

\* To its users the table is StampTable, open from the end of pts_start() to
\* the beginning of pts_stop(): whatever wraps and wherever a walk starts, a
\* decoder gets the stamp nearest before it, no stamp after it is lost, and no
\* answer is from before the table was started.
Opened  == status \in {"LOADING", "RUNNING"} /\ opc = "idle"
Records == [i \in 1..Len(valid) |-> [back |-> (wpos - valid[i].offset) % M,
                                     val |-> valid[i].val]]
Content == IF Opened THEN Records ELSE <<>>
Answer  == IF Opened /\ cache.valid THEN cache.pts ELSE -1

Table == INSTANCE StampTable WITH
           Size <- RecNum, Reach <- Window, Hit <- Threshold,
           Limit <- 2 * Threshold, Keep <- KeepRange, Close <- AudioRes,
           Stamps <- Vals, Wrap <- M,
           kind <- type, open <- Opened, table <- Content, answer <- Answer

TableSpec == Table!Spec

\* "return number of recs if the offset is bigger" (pts_get_rec_num()).
RecNumIsBigger ==
  status = "RUNNING" /\ type = "video" =>
    \A val \in Asked :
      RecsFrom(val)
        = Cardinality({i \in 1..Len(valid) : Later(valid[i].offset, val)})
=============================================================================
