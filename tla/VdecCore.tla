------------------------------ MODULE VdecCore ------------------------------
(***************************************************************************)
(* The scheduler of the video decoders (amports/amports/vdec.c).  One      *)
(* hardware decoder is shared by the contexts (vdec) that files connect to *)
(* the core.  A kernel thread, vdec_core_thread(), sleeps on a semaphore;  *)
(* each time it is woken it cleans up after the last decoder, takes the    *)
(* contexts that are to be disconnected off the list and, if none is       *)
(* active, starts the next one that is ready.  A context's driver gives    *)
(* the hardware back by storing its status, and calls back into the core   *)
(* after that.  A file opened for dual decoding has two contexts, a master *)
(* and a slave, that are connected and disconnected together.              *)
(*                                                                         *)
(* An assignment and the up() that follows it are one step, and so is what *)
(* a thread does to a list of its own.  What the clean-up saves and a      *)
(* start restores is in VdecSwap.                                          *)
(***************************************************************************)
EXTENDS Integers, SequencesExt

CONSTANTS
  Mains,       \* the contexts of the files, one each: priv->vdec
  Slaves,      \* second contexts, of the files opened for dual decoding
  Master,      \* the master of each slave
  None,        \* the null pointer
  Steady,      \* bound: files that are not reset or closed once they play
  MaxSem       \* bound: a file starts an operation only while sem is less

ASSUME VdecCoreAssumption ==
  /\ Mains \cap Slaves = {} /\ None \notin Mains \cup Slaves
  /\ Master \in [Slaves -> Mains]
  /\ \A s, t \in Slaves : Master[s] = Master[t] => s = t
  /\ Steady \subseteq Mains /\ MaxSem \in Nat \ {0}

Vdecs == Mains \cup Slaves

\* The decoder of the same file, if there is one: vdec->slave, vdec->master
Mates(v)  == {s \in Slaves : v = Master[s]}
               \cup {m \in Mains : v \in Slaves /\ m = Master[v]}
FileOf(v) == IF v \in Slaves THEN Master[v] ELSE v
Both(v)   == {v} \cup Mates(v)
SlaveOf(f) == CHOOSE s \in Slaves : Master[s] = f

\* As in ThreadRw, a definition that comes right before another and shares
\* the beginning of its name is a faulty variant of it.
VARIABLES
  status,           \* of each vdec; "FREED" when there is none
  next_status,
  sched,
  inactive_done,    \* completed and not yet waited for
  connected,        \* connected_vdec_list
  active_vdec,
  sem,
  kpc,              \* the core thread: its next step,
  kvdec,            \* its variable vdec,
  ki,               \* the entry of connected it looks at,
  disconnecting,    \* and disconnecting_list
  running,          \* the driver has been given the hardware
  tail,             \* it stored its status, and has not called back
  ready,            \* what run_ready() will return
  upc,              \* for each file, the next step of its user's call,
  uop,              \* the call,
  uvdec             \* and the vdec it works on

lists  == <<connected, active_vdec, disconnecting>>
kvars  == <<lists, kpc, kvdec, ki>>
driver == <<running, tail, ready>>
user   == <<upc, uop, uvdec>>
vars   == <<status, next_status, sched, inactive_done, sem, kvars, driver, user>>

Init ==
  /\ status = [v \in Vdecs |-> "FREED"]
  /\ next_status = [v \in Vdecs |-> "DISCONNECTED"]
  /\ sched = [v \in Vdecs |-> FALSE]
  /\ inactive_done = [v \in Vdecs |-> FALSE]
  /\ connected = <<>> /\ active_vdec = None /\ disconnecting = <<>>
  /\ sem = 1 /\ kpc = "down" /\ kvdec = None /\ ki = 0
  /\ running = [v \in Vdecs |-> FALSE]
  /\ tail = [v \in Vdecs |-> FALSE]
  /\ ready = [v \in Vdecs |-> FALSE]
  /\ upc = [f \in Mains |-> "closed"]
  /\ uop = [f \in Mains |-> "none"]
  /\ uvdec = [f \in Mains |-> f]

\* vdec_set_status() and vdec_set_next_status(), of several decoders at once
SetAll(fun, set, value) == [v \in Vdecs |-> IF v \in set THEN value ELSE fun[v]]

Listed(v)  == v \in Range(connected)
Managed(v) == status[v] \in {"CONNECTED", "ACTIVE"}

-----------------------------------------------------------------------------
(* The core thread *)

DownAnyhow ==
  /\ kpc = "down"
  /\ sem' = sem - 1 /\ kpc' = "clean"
  /\ UNCHANGED <<status, next_status, sched, inactive_done, lists, kvdec, ki, driver, user>>

Down ==
  /\ kpc = "down" /\ sem > 0
  /\ sem' = sem - 1 /\ kpc' = "clean"
  /\ UNCHANGED <<status, next_status, sched, inactive_done, lists, kvdec, ki, driver, user>>

\* Cleaning up after the last decoder changes nothing here; the lock is taken.
Clean ==
  /\ kpc = "clean"
  /\ kpc' = "scan" /\ ki' = 1
  /\ UNCHANGED <<status, next_status, sched, inactive_done, sem, lists, kvdec, driver, user>>

\* The list is locked, the statuses are not: each is read in its turn.
ScanForgets ==
  /\ kpc = "scan" /\ ki <= Len(connected)
  /\ LET v == connected[ki] IN
       \/ /\ status[v] = "CONNECTED" /\ next_status[v] = "DISCONNECTED"
          /\ connected' = RemoveAt(connected, ki)
          /\ disconnecting' = <<v>> \o disconnecting
          /\ UNCHANGED active_vdec
          /\ ki' = ki
       \/ /\ ~(status[v] = "CONNECTED" /\ next_status[v] = "DISCONNECTED")
          /\ ki' = ki + 1
          /\ UNCHANGED lists
  /\ UNCHANGED <<status, next_status, sched, inactive_done, sem, kpc, kvdec, driver, user>>

Scan ==
  /\ kpc = "scan" /\ ki <= Len(connected)
  /\ LET v == connected[ki] IN
       \/ /\ status[v] = "CONNECTED" /\ next_status[v] = "DISCONNECTED"
          /\ connected' = RemoveAt(connected, ki)
          /\ disconnecting' = <<v>> \o disconnecting
          /\ active_vdec' = IF active_vdec = v THEN None ELSE active_vdec
          /\ ki' = ki
       \/ /\ ~(status[v] = "CONNECTED" /\ next_status[v] = "DISCONNECTED")
          /\ ki' = ki + 1
          /\ UNCHANGED lists
  /\ UNCHANGED <<status, next_status, sched, inactive_done, sem, kpc, kvdec, driver, user>>

\* The end of the locked section
Unlock(chosen, active) ==
  /\ kpc = "scan" /\ ki > Len(connected)
  /\ kpc' = "start" /\ ki' = 0
  /\ kvdec' = chosen /\ active_vdec' = active
  /\ UNCHANGED <<status, next_status, sched, inactive_done, sem, connected,
                 disconnecting, driver, user>>

Index(v) == CHOOSE i \in DOMAIN connected : connected[i] = v

\* active_vdec()
FirstActive(v) ==
  /\ Listed(v) /\ status[v] = "ACTIVE"
  /\ \A u \in Range(connected) : status[u] = "ACTIVE" => Index(v) <= Index(u)

Keep(v) == FirstActive(v) /\ Unlock(v, active_vdec)

\* vdec_ready_to_run(); how full the stream is is part of ready
ReadyToRun(v) ==
  /\ status[v] = "CONNECTED"
  /\ ready[v]
  /\ Mates(v) # {} => sched[v]

\* Round robin: the one after the last to run comes first, that one last
TurnFromFirst(v) == Index(v)

Turn(v) ==
  LET last == IF active_vdec = None THEN 0 ELSE Index(active_vdec)
  IN (Index(v) - last - 1) % Len(connected)

NextInTurnAlways(v) ==
  /\ Listed(v) /\ ReadyToRun(v)
  /\ \A u \in Range(connected) : ReadyToRun(u) => Turn(v) <= Turn(u)

NextInTurn(v) ==
  /\ \A u \in Range(connected) : status[u] # "ACTIVE"
  /\ Listed(v) /\ ReadyToRun(v)
  /\ \A u \in Range(connected) : ReadyToRun(u) => Turn(v) <= Turn(u)

Choose(v) == NextInTurn(v) /\ Unlock(v, None)

Idle ==
  /\ \A u \in Range(connected) : status[u] # "ACTIVE" /\ ~ReadyToRun(u)
  /\ Unlock(None, None)

\* Outside the lock the status is read again.
Starts(v) == kpc = "start" /\ kvdec = v /\ v # None /\ status[v] # "ACTIVE"

Start(v) ==
  /\ Starts(v)
  /\ status' = [status EXCEPT ![v] = "ACTIVE"]
  /\ active_vdec' = v
  /\ running' = [running EXCEPT ![v] = TRUE]
  /\ ready' = [ready EXCEPT ![v] = FALSE]
  /\ kpc' = "remove" /\ kvdec' = None
  /\ UNCHANGED <<next_status, sched, inactive_done, sem, connected, disconnecting,
                 ki, tail, user>>

NoStart ==
  /\ kpc = "start" /\ \A v \in Vdecs : ~Starts(v)
  /\ kpc' = "remove" /\ kvdec' = None
  /\ UNCHANGED <<status, next_status, sched, inactive_done, sem, lists, ki, driver, user>>

RemovedSilently(v) ==
  /\ kpc = "remove" /\ disconnecting # <<>> /\ v = Head(disconnecting)
  /\ disconnecting' = Tail(disconnecting)
  /\ status' = [status EXCEPT ![v] = "DISCONNECTED"]
  /\ UNCHANGED <<next_status, sched, inactive_done, sem, connected, active_vdec, kpc, kvdec, ki, driver, user>>

Removed(v) ==
  /\ kpc = "remove" /\ disconnecting # <<>> /\ v = Head(disconnecting)
  /\ disconnecting' = Tail(disconnecting)
  /\ status' = [status EXCEPT ![v] = "DISCONNECTED"]
  /\ inactive_done' = [inactive_done EXCEPT ![v] = TRUE]
  /\ UNCHANGED <<next_status, sched, sem, connected, active_vdec, kpc, kvdec, ki, driver, user>>

\* With nothing to do the thread wakes itself up again after 20 ms.
AgainAsleep ==
  /\ kpc = "remove" /\ disconnecting = <<>>
  /\ kpc' = "down"
  /\ UNCHANGED <<status, next_status, sched, inactive_done, sem, lists, kvdec, ki, driver, user>>

Again ==
  /\ kpc = "remove" /\ disconnecting = <<>>
  /\ kpc' = "down"
  /\ sem' = IF active_vdec = None THEN sem + 1 ELSE sem
  /\ UNCHANGED <<status, next_status, sched, inactive_done, lists, kvdec, ki, driver, user>>

-----------------------------------------------------------------------------
(* The drivers: the end of vh264_work() in vmh264.c, and of those like it *)

\* While it has the hardware a decoder uses up its stream or its buffers,
\* and either is refilled at any time.
Refill(v) ==
  /\ status[v] = "CONNECTED" /\ ~ready[v]
  /\ ready' = [ready EXCEPT ![v] = TRUE]
  /\ UNCHANGED <<status, next_status, sched, inactive_done, sem, kvars, running, tail, user>>

\* The work item runs once at a time.
Finish(v) ==
  /\ running[v] /\ ~tail[v]
  /\ status' = [status EXCEPT ![v] = "CONNECTED"]
  /\ running' = [running EXCEPT ![v] = FALSE]
  /\ tail' = [tail EXCEPT ![v] = TRUE]
  /\ UNCHANGED <<next_status, sched, inactive_done, sem, kvars, ready, user>>

\* Of two decoders the driver chooses the one to go on, vdec_set_next_sched();
\* then vdec_callback().
Callback(v) ==
  /\ tail[v]
  /\ tail' = [tail EXCEPT ![v] = FALSE]
  /\ \E w \in Both(v) :
       sched' = [u \in Vdecs |-> IF u = w THEN Mates(v) # {}
                                ELSE u # v /\ sched[u]]
  /\ sem' = sem + 1
  /\ UNCHANGED <<status, next_status, inactive_done, kvars, running, ready, user>>

-----------------------------------------------------------------------------
(* The user of a file: opening it, AMSTREAM_IOC_PORT_INIT,                 *)
(* AMSTREAM_IOC_VDEC_RESET and closing it, one after the other             *)

Goto(f, pc)     == upc' = [upc EXCEPT ![f] = pc]
Begin(f, op, v) == uop' = [uop EXCEPT ![f] = op] /\ uvdec' = [uvdec EXCEPT ![f] = v]

\* amstream_open(): vdec_create()
Open(f) ==
  /\ upc[f] = "closed"
  /\ Goto(f, "opened") /\ UNCHANGED <<uop, uvdec>>
  /\ status' = SetAll(status, Both(f), "UNINITIALIZED")
  /\ sched' = [v \in Vdecs |-> IF v \in Both(f) THEN v = f /\ Mates(f) # {} ELSE sched[v]]
  /\ UNCHANGED <<next_status, inactive_done, sem, kvars, driver>>

\* amstream_port_init(): the decoders, vdec_init(); a stream's are connected
\* at once, by video_port_init(); the demultiplexer; vdec_connect() for all
PortInit(f) ==
  /\ upc[f] = "opened" /\ sem < MaxSem
  /\ \/ Goto(f, "connect")
     \/ Goto(f, "hwinit") /\ Mates(f) = {}   \* PORT_TYPE_FRAME
  /\ Begin(f, "init", f)
  /\ status' = SetAll(status, Both(f), "DISCONNECTED")
  /\ UNCHANGED <<next_status, sched, inactive_done, sem, kvars, driver>>

HwInit(f) ==
  /\ upc[f] = "hwinit"
  /\ Goto(f, "connect") /\ Begin(f, "inited", f)
  /\ UNCHANGED <<status, next_status, sched, inactive_done, sem, kvars, driver>>

\* vdec_connect()
Return(f) ==
  /\ Goto(f, IF uop[f] = "init" THEN "hwinit" ELSE "playing")
  /\ Begin(f, "none", f)

Connect(f) ==
  /\ upc[f] = "connect" /\ status[f] = "DISCONNECTED"
  /\ status' = SetAll(status, Both(f), "CONNECTED")
  /\ next_status' = SetAll(next_status, Both(f), "CONNECTED")
  /\ inactive_done' = SetAll(inactive_done, Both(f), FALSE)
  /\ Goto(f, "link")
  /\ UNCHANGED <<sched, sem, kvars, driver, uop, uvdec>>

ConnectAgain(f) ==
  /\ upc[f] = "connect" /\ status[f] # "DISCONNECTED"
  /\ Return(f)
  /\ UNCHANGED <<status, next_status, sched, inactive_done, sem, kvars, driver>>

Link(f) ==
  /\ upc[f] = "link" /\ kpc # "scan"
  /\ connected' = connected \o (IF Mates(f) = {} THEN <<f>> ELSE <<f, SlaveOf(f)>>)
  /\ sem' = sem + 1
  /\ Return(f)
  /\ UNCHANGED <<status, next_status, sched, inactive_done, active_vdec,
                 disconnecting, kpc, kvdec, ki, driver>>

\* The slave is released first.
Releases(f) == IF Mates(f) = {} THEN f ELSE SlaveOf(f)

\* vdec_reset(), or a release: of an initialised port, of one whose
\* initialisation failed, of one that was only opened
Disconnects(f) ==
  /\ \/ upc[f] = "playing" /\ Begin(f, "reset", f)
     \/ upc[f] \in {"playing", "hwinit", "opened"} /\ Begin(f, "release", Releases(f))
  /\ f \notin Steady /\ sem < MaxSem
  /\ Goto(f, "disconnect")
  /\ UNCHANGED <<status, next_status, sched, inactive_done, sem, kvars, driver>>

\* vdec_disconnect()
NotManagedIfActive(f) ==
  /\ upc[f] = "disconnect" /\ status[uvdec[f]] # "CONNECTED"
  /\ Goto(f, "disconnected")
  /\ UNCHANGED <<status, next_status, sched, inactive_done, sem, kvars, driver, uop, uvdec>>

NotManaged(f) ==
  /\ upc[f] = "disconnect" /\ ~Managed(uvdec[f])
  /\ Goto(f, "disconnected")
  /\ UNCHANGED <<status, next_status, sched, inactive_done, sem, kvars, driver, uop, uvdec>>

Ask(f) ==
  /\ upc[f] = "disconnect" /\ Managed(uvdec[f])
  /\ next_status' = [next_status EXCEPT ![uvdec[f]] = "DISCONNECTED"]
  /\ Goto(f, "ask")
  /\ UNCHANGED <<status, sched, inactive_done, sem, kvars, driver, uop, uvdec>>

AskMate(f) ==
  /\ upc[f] = "ask"
  /\ next_status' = SetAll(next_status, Mates(uvdec[f]), "DISCONNECTED")
  /\ sem' = sem + 1
  /\ Goto(f, "wait")
  /\ UNCHANGED <<status, sched, inactive_done, kvars, driver, uop, uvdec>>

WaitedForOne(f) ==
  /\ upc[f] = "wait" /\ \E v \in Both(f) : inactive_done[v]
  /\ inactive_done' = SetAll(inactive_done, Both(f), FALSE)
  /\ Goto(f, "disconnected")
  /\ UNCHANGED <<status, next_status, sched, sem, kvars, driver, uop, uvdec>>

Waited(f) ==
  /\ upc[f] = "wait" /\ \A v \in Both(f) : inactive_done[v]
  /\ inactive_done' = SetAll(inactive_done, Both(f), FALSE)
  /\ Goto(f, "disconnected")
  /\ UNCHANGED <<status, next_status, sched, sem, kvars, driver, uop, uvdec>>

\* The rest of vdec_reset()
Reset(f) ==
  /\ upc[f] = "disconnected" /\ uop[f] = "reset"
  /\ Goto(f, "connect")
  /\ UNCHANGED <<status, next_status, sched, inactive_done, sem, kvars, driver, uop, uvdec>>

\* The rest of vdec_release(); the driver's remove() waits for its work item
Destroy(f) ==
  /\ upc[f] = "disconnected" /\ uop[f] = "release" /\ ~tail[uvdec[f]]
  /\ status' = [status EXCEPT ![uvdec[f]] = "FREED"]
  /\ \/ uvdec[f] # f /\ Goto(f, "disconnect") /\ Begin(f, "release", f)
     \/ uvdec[f] = f /\ Goto(f, "closed") /\ Begin(f, "none", f)
  /\ next_status' = [next_status EXCEPT ![uvdec[f]] = "DISCONNECTED"]
  /\ sched' = [sched EXCEPT ![uvdec[f]] = FALSE]
  /\ ready' = [ready EXCEPT ![uvdec[f]] = FALSE]
  /\ UNCHANGED <<inactive_done, sem, kvars, running, tail>>

-----------------------------------------------------------------------------

CoreStep ==
  \/ Down \/ Clean \/ Scan \/ Idle \/ NoStart \/ Again
  \/ \E v \in Vdecs : Keep(v) \/ Choose(v) \/ Start(v) \/ Removed(v)

DriverStep(v) == Finish(v) \/ Callback(v)

CallStep(f) ==
  \/ HwInit(f) \/ Connect(f) \/ ConnectAgain(f) \/ Link(f) \/ NotManaged(f)
  \/ Ask(f) \/ AskMate(f) \/ Waited(f) \/ Reset(f) \/ Destroy(f)

Next ==
  \/ CoreStep
  \/ \E v \in Vdecs : DriverStep(v) \/ Refill(v)
  \/ \E f \in Mains : CallStep(f) \/ Open(f) \/ PortInit(f) \/ Disconnects(f)

Spec == Init /\ [][Next]_vars

-----------------------------------------------------------------------------
(* Properties *)

TypeOK ==
  /\ status \in [Vdecs -> {"FREED", "UNINITIALIZED", "DISCONNECTED", "CONNECTED", "ACTIVE"}]
  /\ next_status \in [Vdecs -> {"DISCONNECTED", "CONNECTED"}]
  /\ {sched, inactive_done, running, tail, ready} \subseteq [Vdecs -> BOOLEAN]
  /\ connected \in Seq(Vdecs) /\ disconnecting \in Seq(Vdecs)
  /\ active_vdec \in Vdecs \cup {None} /\ kvdec \in Vdecs \cup {None}
  /\ sem \in Nat /\ ki \in Nat
  /\ kpc \in {"down", "clean", "scan", "start", "remove"}
  /\ upc \in [Mains -> {"closed", "opened", "connect", "link", "hwinit", "playing",
                       "disconnect", "ask", "wait", "disconnected"}]
  /\ uop \in [Mains -> {"none", "init", "inited", "reset", "release"}]
  /\ uvdec \in [Mains -> Vdecs]

\* Two decoders never have the hardware at once, and the interrupt handlers,
\* vdec_isr() and vdec_thread_isr(), find the one that has in active_vdec.
HwHasOneOwner ==
  \A v \in Vdecs : running[v] => active_vdec = v /\ status[v] = "ACTIVE"

\* The comment on vdec_core_thread(): a decoder on the list is connected or
\* active.  It is on one list, once; and the round robin's active_vdec, whose
\* list.next is followed, is on the list.
ListsRight ==
  /\ \A v \in Range(connected \o disconnecting) : Managed(v)
  /\ \A i, j \in DOMAIN (connected \o disconnecting) :
       (connected \o disconnecting)[i] = (connected \o disconnecting)[j] => i = j
  /\ active_vdec # None => Listed(active_vdec)

\* When vdec_disconnect() returned, the thread and the lists have forgotten
\* the decoders of the file: they can be reset or freed.
DisconnectedIsQuiet ==
  \A f \in Mains : upc[f] \in {"disconnected", "closed"} =>
    \A v \in Both(f) : /\ ~Managed(v) /\ ~running[v]
                       /\ v \notin {active_vdec, kvdec}
                       /\ v \notin Range(connected \o disconnecting)

\* The thread does not sleep for good: while it waits for the semaphore, a
\* decoder has the hardware or is about to call back.
WakeupComes ==
  kpc = "down" /\ sem = 0 => \E v \in Vdecs : running[v] \/ tail[v]

\* To its users the core is DecoderHw.  A file is attached from vdec_connect()
\* to the return of vdec_disconnect().
Attached(f) ==
  upc[f] \in {"ask", "wait"} \/ \E v \in Both(f) : Managed(v)

HW == INSTANCE DecoderHw WITH Files <- Mains, Decoders <- Vdecs,
        owners <- {v \in Vdecs : running[v]}, attached <- {f \in Mains : Attached(f)}

HwSpec == HW!Spec

-----------------------------------------------------------------------------
(* Liveness: the core thread and the users' calls go on, waiters for the     *)
(* lock get it in turn, and a driver that has the hardware finishes (its     *)
(* timer sees to that) and calls back.  The core thread has the highest      *)
(* real-time priority: the end of a run falls only finitely often between    *)
(* its look at a status in the locked section and its last look outside.     *)

InLookWindow == kpc \in {"scan", "start"}

FairSpec ==
  /\ Spec
  /\ WF_vars(CoreStep)
  /\ \A v \in Vdecs : WF_vars(DriverStep(v))
  /\ \A f \in Mains : WF_vars(CallStep(f)) /\ SF_vars(Link(f))
  /\ <>[][InLookWindow => \A v \in Vdecs : ~Finish(v)]_vars

\* vdec_disconnect() returns.
DisconnectReturns == \A f \in Mains : upc[f] = "wait" ~> upc[f] # "wait"

\* A connected decoder that stays ready gets the hardware.
Waiting(v) == ReadyToRun(v) /\ Listed(v) /\ next_status[v] = "CONNECTED"
NoStarvation == \A v \in Vdecs : Waiting(v) ~> ~Waiting(v)
=============================================================================
