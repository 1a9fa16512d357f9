---------------------------- MODULE PsProcessor ----------------------------
(***************************************************************************)
(* The process/thread event processor of the pipeline                      *)
(* (internal/etw/processors/ps_windows.go) together with the state it       *)
(* mutates: the process snapshot (ps.Snapshotter) and the handle cache of   *)
(* the region prober (va.RegionProber).  The snapshot and the prober are   *)
(* not under src/: their operations (Write, Remove, FindAndPut, AddThread, *)
(* RemoveThread, RegionProber.Query/Remove) are modelled from the spec.    *)
(*                                                                         *)
(* The environment is the host: processes and threads start and exit, a   *)
(* PID is reused once its process has exited, and every OS change is       *)
(* reported as an event appended to the queue of one pipeline worker.      *)
(* Each worker handles the events of its queue in receive order; the       *)
(* order across workers is not preserved (spec, section 5).                *)
(***************************************************************************)
EXTENDS Naturals, Sequences

CONSTANTS
    Pids,       \* process identifiers (reused over the host lifetime)
    Tids,       \* thread identifiers
    Workers,    \* pipeline workers draining the event source
    MaxStart,   \* number of process creations the host performs (bound)
    MaxQueue,   \* capacity of a worker's queue (bound)
    NoProc,     \* the snapshot holds no process for a PID
    EvtTime     \* a start time taken from an event timestamp (not a creation time)

ASSUME ConstAssumption ==
    /\ MaxStart \in Nat
    /\ MaxQueue \in Nat
    /\ EvtTime \notin Nat
    /\ Tids # {}

VARIABLES
    os,          \* os[p]: start time of the live process with PID p, 0 if none
    osThreads,   \* osThreads[p]: live threads of that process
    clock,       \* start time of the most recently created process
    booting,     \* TRUE while the session performs its rundown of the host
    queue,       \* queue[w]: events received by worker w, not yet handled
    snap,        \* snap[p]: the snapshot's process entry for PID p, or NoProc
    handles,     \* handles[p]: start time of the process the prober's cached handle for p opened, 0 if none
    seenLive,    \* history: <<pid, start>> whose create/rundown was handled and terminate was not
    seenThreads  \* history: <<pid, start, tid>> whose create/rundown was handled and terminate was not

vars == <<os, osThreads, clock, booting, queue, snap, handles, seenLive, seenThreads>>

Starts == 1..MaxStart
StartVal == Starts \cup {EvtTime}

ProcessTypes == {"CreateProcess", "CreateProcessInternal", "TerminateProcess",
                 "ProcessRundown", "ProcessRundownInternal"}
ThreadTypes == {"CreateThread", "TerminateThread", "ThreadRundown"}
OpenTypes == {"OpenProcess", "OpenThread"}
OtherTypes == {"LoadImage"}

(* An event: its type, the PID (and TID) it carries, and the start time   *)
(* of the process that PID named when the OS emitted it.  Process and      *)
(* thread events are emitted by a live process; an open may name an        *)
(* exited PID (gen 0).                                                     *)
StreamEvent == [type: ProcessTypes \cup ThreadTypes, pid: Pids, tid: Tids, gen: Starts]
AccessEvent == [type: OpenTypes \cup OtherTypes, pid: Pids, tid: Tids, gen: 0..MaxStart]
Event == StreamEvent \cup AccessEvent

(* Process events carry no TID of interest.                              *)
AnyTid == CHOOSE t \in Tids : TRUE

(* A snapshot entry: the resolved start time, its thread map, and (a      *)
(* history field, not in the code) the start time of the process whose    *)
(* event wrote it, 0 for a stub synthesised for an exited PID.            *)
Entry == [start: StartVal, gen: 0..MaxStart, threads: SUBSET Tids]

(* NoProc, the absence of an entry for a PID, is not itself an entry.     *)
ASSUME NoProcAssumption == NoProc \notin Entry

-----------------------------------------------------------------------------
(* The event timestamp: a create event is stamped when the process is     *)
(* created; a rundown is stamped when the session enumerates the host.    *)
Timestamp(e) ==
    IF e.type \in {"CreateProcess", "CreateProcessInternal"} THEN e.gen ELSE EvtTime

(* getStartTime: the creation time of whatever process holds the PID now, *)
(* or, when the PID cannot be opened or queried, the event timestamp.     *)
StartTimes(e) ==
    IF os[e.pid] # 0 THEN {os[e.pid], Timestamp(e)} ELSE {Timestamp(e)}

(* Mutant of Stub: a PID that cannot be opened gets a zero start time.     *)
StubZeroStart(p) ==
    IF os[p] # 0 THEN [start |-> os[p], gen |-> os[p], threads |-> {}]
                 ELSE [start |-> 0, gen |-> 0, threads |-> {}]

(* The stub FindAndPut synthesises from the OS for a PID it does not hold. *)
Stub(p) ==
    IF os[p] # 0 THEN [start |-> os[p], gen |-> os[p], threads |-> {}]
                 ELSE [start |-> EvtTime, gen |-> 0, threads |-> {}]

(* Mutant of FindAndPut: the lookup is skipped and the stub overwrites.    *)
FindAndPutOverwrites(s, p) == [s EXCEPT ![p] = Stub(p)]

(* Snapshotter.FindAndPut: keep the entry for p, or insert a stub.        *)
FindAndPut(s, p) ==
    IF s[p] # NoProc THEN s ELSE [s EXCEPT ![p] = Stub(p)]

(* Snapshotter.Write: upsert keyed by PID; a different start time         *)
(* replaces the entry (stale PID reuse), the same one keeps its threads.  *)
Write(s, p, start, gen) ==
    IF s[p] # NoProc /\ s[p].start = start
    THEN [s EXCEPT ![p].gen = gen]
    ELSE [s EXCEPT ![p] = [start |-> start, gen |-> gen, threads |-> {}]]

(* Mutant of RemoveThread: the process goes when its last thread does.    *)
RemoveThreadEvicts(s, p, t) ==
    IF s[p] # NoProc
    THEN IF s[p].threads \subseteq {t} THEN [s EXCEPT ![p] = NoProc]
                                      ELSE [s EXCEPT ![p].threads = @ \ {t}]
    ELSE s

(* Snapshotter.AddThread / RemoveThread on the thread map of p.           *)
AddThread(s, p, t) ==
    IF s[p] # NoProc THEN [s EXCEPT ![p].threads = @ \cup {t}] ELSE s
RemoveThread(s, p, t) ==
    IF s[p] # NoProc THEN [s EXCEPT ![p].threads = @ \ {t}] ELSE s

-----------------------------------------------------------------------------
Init ==
    /\ os = [p \in Pids |-> 0]
    /\ osThreads = [p \in Pids |-> {}]
    /\ clock = 0
    /\ booting = TRUE
    /\ queue = [w \in Workers |-> <<>>]
    /\ snap = [p \in Pids |-> NoProc]
    /\ handles = [p \in Pids |-> 0]
    /\ seenLive = {}
    /\ seenThreads = {}

(* The OS reports event e to worker w.                                    *)
Emit(w, e) ==
    /\ Len(queue[w]) < MaxQueue
    /\ queue' = [queue EXCEPT ![w] = Append(@, e)]

(* A process is created (reported by a rundown while the session starts). *)
SpawnProcess(p, w) ==
    /\ os[p] = 0
    /\ clock < MaxStart
    /\ clock' = clock + 1
    /\ os' = [os EXCEPT ![p] = clock + 1]
    /\ \E ty \in IF booting THEN {"ProcessRundown", "ProcessRundownInternal"}
                            ELSE {"CreateProcess", "CreateProcessInternal"} :
          Emit(w, [type |-> ty, pid |-> p, tid |-> AnyTid, gen |-> clock + 1])
    /\ UNCHANGED <<osThreads, booting, snap, handles, seenLive, seenThreads>>

(* A thread starts in a live process (a rundown while the session starts). *)
SpawnThread(p, t, w) ==
    /\ os[p] # 0
    /\ \A q \in Pids : t \notin osThreads[q]
    /\ osThreads' = [osThreads EXCEPT ![p] = @ \cup {t}]
    /\ Emit(w, [type |-> IF booting THEN "ThreadRundown" ELSE "CreateThread",
                pid |-> p, tid |-> t, gen |-> os[p]])
    /\ UNCHANGED <<os, clock, booting, snap, handles, seenLive, seenThreads>>

(* The session has enumerated the host; live events follow.               *)
EndRundown ==
    /\ booting
    /\ booting' = FALSE
    /\ UNCHANGED <<os, osThreads, clock, queue, snap, handles, seenLive, seenThreads>>

ExitThread(p, t, w) ==
    /\ ~booting
    /\ t \in osThreads[p]
    /\ osThreads' = [osThreads EXCEPT ![p] = @ \ {t}]
    /\ Emit(w, [type |-> "TerminateThread", pid |-> p, tid |-> t, gen |-> os[p]])
    /\ UNCHANGED <<os, clock, booting, snap, handles, seenLive, seenThreads>>

(* A process exits after its last thread; its PID becomes free for reuse. *)
ExitProcess(p, w) ==
    /\ ~booting
    /\ os[p] # 0
    /\ osThreads[p] = {}
    /\ os' = [os EXCEPT ![p] = 0]
    /\ Emit(w, [type |-> "TerminateProcess", pid |-> p, tid |-> AnyTid, gen |-> os[p]])
    /\ UNCHANGED <<osThreads, clock, booting, snap, handles, seenLive, seenThreads>>

(* Some process opens PID p (or a thread of it); the open is reported      *)
(* whether it succeeds or not, so p need not be live.  Events of other     *)
(* types (LoadImage) reach this processor too.                             *)
AccessProcess(p, w) ==
    /\ ~booting
    /\ \E ty \in OpenTypes \cup OtherTypes :
          Emit(w, [type |-> ty, pid |-> p, tid |-> AnyTid, gen |-> os[p]])
    /\ UNCHANGED <<os, osThreads, clock, booting, snap, handles, seenLive, seenThreads>>

(* RegionProber.Query from another processor: the handle is opened on      *)
(* first use (only if the PID can be opened) and reused afterwards.        *)
ProberQuery(p) ==
    /\ handles[p] = 0
    /\ os[p] # 0
    /\ handles' = [handles EXCEPT ![p] = os[p]]
    /\ UNCHANGED <<os, osThreads, clock, booting, queue, snap, seenLive, seenThreads>>

-----------------------------------------------------------------------------
(* psProcessor.ProcessEvent, the process-family case: processEvent, then   *)
(* for TerminateProcess regionProber.Remove and psnap.Remove, otherwise    *)
(* psnap.Write with the resolved start time.  Internal events carry their  *)
(* start time already and skip processEvent.                               *)
HandleProcess(w) ==
    /\ queue[w] # <<>>
    /\ LET e == Head(queue[w]) IN
       /\ e.type \in ProcessTypes
       /\ queue' = [queue EXCEPT ![w] = Tail(@)]
       /\ IF e.type = "TerminateProcess"
          THEN /\ handles' = [handles EXCEPT ![e.pid] = 0]
               /\ snap' = [snap EXCEPT ![e.pid] = NoProc]
               /\ seenLive' = seenLive \ {<<e.pid, e.gen>>}
               /\ seenThreads' = {x \in seenThreads : <<x[1], x[2]>> # <<e.pid, e.gen>>}
          ELSE /\ \E start \in IF e.type \in {"CreateProcessInternal", "ProcessRundownInternal"}
                               THEN {e.gen} ELSE StartTimes(e) :
                    snap' = Write(snap, e.pid, start, e.gen)
               /\ seenLive' = seenLive \cup {<<e.pid, e.gen>>}
               /\ UNCHANGED <<handles, seenThreads>>
    /\ UNCHANGED <<os, osThreads, clock, booting>>

(* The thread-family case: FindAndPut the PID, then AddThread, or          *)
(* RemoveThread for TerminateThread.                                       *)
HandleThread(w) ==
    /\ queue[w] # <<>>
    /\ LET e == Head(queue[w])
           s == FindAndPut(snap, e.pid) IN
       /\ e.type \in ThreadTypes
       /\ queue' = [queue EXCEPT ![w] = Tail(@)]
       /\ IF e.type = "TerminateThread"
          THEN /\ snap' = RemoveThread(s, e.pid, e.tid)
               /\ seenThreads' = seenThreads \ {<<e.pid, e.gen, e.tid>>}
          ELSE /\ snap' = AddThread(s, e.pid, e.tid)
               /\ seenThreads' = seenThreads \cup {<<e.pid, e.gen, e.tid>>}
    /\ UNCHANGED <<os, osThreads, clock, booting, handles, seenLive>>

(* OpenProcess/OpenThread: enrich the event from FindAndPut of the PID.    *)
HandleOpen(w) ==
    /\ queue[w] # <<>>
    /\ Head(queue[w]).type \in OpenTypes
    /\ queue' = [queue EXCEPT ![w] = Tail(@)]
    /\ snap' = FindAndPut(snap, Head(queue[w]).pid)
    /\ UNCHANGED <<os, osThreads, clock, booting, handles, seenLive, seenThreads>>

(* Any other event type is returned with drop = true, nothing changed.    *)
HandleOther(w) ==
    /\ queue[w] # <<>>
    /\ Head(queue[w]).type \in OtherTypes
    /\ queue' = [queue EXCEPT ![w] = Tail(@)]
    /\ UNCHANGED <<os, osThreads, clock, booting, snap, handles, seenLive, seenThreads>>

-----------------------------------------------------------------------------
Host ==
    \/ EndRundown
    \/ \E p \in Pids, w \in Workers :
          \/ SpawnProcess(p, w)
          \/ ExitProcess(p, w)
          \/ AccessProcess(p, w)
          \/ \E t \in Tids : SpawnThread(p, t, w) \/ ExitThread(p, t, w)
    \/ \E p \in Pids : ProberQuery(p)

Pipeline ==
    \E w \in Workers :
        HandleProcess(w) \/ HandleThread(w) \/ HandleOpen(w) \/ HandleOther(w)

Next == Host \/ Pipeline

Spec == Init /\ [][Next]_vars

-----------------------------------------------------------------------------
TypeOK ==
    /\ os \in [Pids -> 0..MaxStart]
    /\ osThreads \in [Pids -> SUBSET Tids]
    /\ clock \in 0..MaxStart
    /\ booting \in BOOLEAN
    /\ queue \in [Workers -> Seq(Event)]
    /\ snap \in [Pids -> Entry \cup {NoProc}]
    /\ handles \in [Pids -> 0..MaxStart]
    /\ seenLive \subseteq Pids \X Starts
    /\ seenThreads \subseteq Pids \X Starts \X Tids

(* Every process whose create or rundown event has been handled, and whose *)
(* terminate has not, is in the snapshot (Write on create, Remove only on   *)
(* its own TerminateProcess; section 3 of the spec).                        *)
LiveTracked ==
    \A x \in seenLive : snap[x[1]] # NoProc

(* Every thread whose create or rundown has been handled, of a process     *)
(* still live in the handled stream, is in that process's thread map: no   *)
(* FindAndPut, Write or other process's event drops it (spec, section 8).  *)
ThreadsTracked ==
    \A x \in seenThreads :
        <<x[1], x[2]>> \in seenLive => x[3] \in snap[x[1]].threads

(* Every snapshot entry stands for a process the handled stream says is    *)
(* live: no entry outlives its TerminateProcess (spec, section 3).          *)
NoGhostEntry ==
    \A p \in Pids : snap[p] # NoProc => \E g \in Starts : <<p, g>> \in seenLive

(* The start time the processor stores for a process is that process's     *)
(* creation time, or the event timestamp when the PID could not be queried; *)
(* never the creation time of another process (psProcessor.getStartTime).   *)
StartTimeFaithful ==
    \A p \in Pids : snap[p] # NoProc /\ snap[p].gen # 0 =>
        snap[p].start \in {snap[p].gen, EvtTime}

=============================================================================
