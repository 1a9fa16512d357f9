---------------------------- MODULE ScannerWorkers ----------------------------
(***************************************************************************)
(* The deduplicated scans of pkg/yara/scanner.go under the pipeline of the *)
(* spec (section 5): one or more workers drain one event source, and the   *)
(* host's process table runs ahead of them.  The host appends the events   *)
(* (process start and exit, RWX allocation, section view mapping) to a     *)
(* FIFO queue in the order they happen; an idle worker takes the head.     *)
(*                                                                         *)
(* A TerminateProcess event is the delete of both markers in ProcessEvent; *)
(* a CreateProcess scan touches no shared state and is one step.  The      *)
(* VirtualAlloc and MapViewFile cases are split where the code gives up    *)
(* control: the marker check (isRwxMatched / isMmapMatched) is made when   *)
(* the event is taken and the YARA scan starts; the marker is written when *)
(* the scan returns.  Each map operation is atomic.  The protection, size  *)
(* and signature filters are modelled in Scanner.tla: here every           *)
(* allocation is RWX and every view suspicious.  A marker holds the start  *)
(* time of the process the event was about (the code keeps an address,    *)
(* read only for its presence).                                            *)
(***************************************************************************)
EXTENDS Naturals, Sequences

CONSTANTS
    Pids,        \* process identifiers
    SystemPid,   \* PID 4, the System process
    Workers,     \* the pipeline's worker threads
    MaxStart,    \* bound on the process start-time clock
    MaxQueue     \* bound on the events waiting in the source

ASSUME WorkersAssumption ==
    /\ SystemPid \in Pids
    /\ MaxStart \in Nat \ {0}
    /\ MaxQueue \in Nat \ {0}

VARIABLES
    live,      \* host: start time of the process holding PID p, 0 if none
    clock,     \* host: the last start time handed out
    queue,     \* the events not yet taken by a worker
    markers,   \* markers["alloc"] is s.rwxs, markers["mmap"] is s.mmaps
    pc,        \* pc[w]: "idle", or the category whose scan w is running
    job,       \* job[w]: the event whose scan w is running
    ended,     \* history: the <<pid, start>> whose TerminateProcess was handled
    matched,   \* history: the <<pid, start, category>> whose scan matched
    scanned    \* history: the <<pid, start, category>> scanned by the last step

vars == <<live, clock, queue, markers, pc, job, ended, matched>>

Categories == {"alloc", "mmap"}

Starts == 1..MaxStart

Event == [type : {"create", "terminate"} \cup Categories,
          caller : Pids, pid : Pids, start : Starts]

NoJob == [type |-> "create", caller |-> SystemPid, pid |-> SystemPid, start |-> 1]

Init ==
    /\ live = [p \in Pids |-> IF p = SystemPid THEN 1 ELSE 0]
    /\ clock = 1
    /\ queue = <<>>
    /\ markers = [c \in Categories |-> [p \in Pids |-> 0]]
    /\ pc = [w \in Workers |-> "idle"]
    /\ job = [w \in Workers |-> NoJob]
    /\ ended = {}
    /\ matched = {}
    /\ scanned = {}

-----------------------------------------------------------------------------
(* The host: it changes its process table and reports the change.         *)

\* The host appends event e to the source; no scan is made in that step.
Report(e) ==
    /\ Len(queue) < MaxQueue
    /\ queue' = Append(queue, e)
    /\ scanned' = {}

\* A process starts at the free PID p.
Spawn(p) ==
    /\ live[p] = 0
    /\ clock < MaxStart
    /\ clock' = clock + 1
    /\ live' = [live EXCEPT ![p] = clock + 1]
    /\ Report([type |-> "create", caller |-> p, pid |-> p, start |-> clock + 1])
    /\ UNCHANGED <<markers, pc, job, ended, matched>>

\* The process at PID p exits.
Exit(p) ==
    /\ p # SystemPid
    /\ live[p] # 0
    /\ live' = [live EXCEPT ![p] = 0]
    /\ Report([type |-> "terminate", caller |-> p, pid |-> p, start |-> live[p]])
    /\ UNCHANGED <<clock, markers, pc, job, ended, matched>>

\* Process caller allocates RWX memory (c = "alloc") or maps a suspicious
\* section view (c = "mmap") in process target.
Touch(caller, target, c) ==
    /\ live[caller] # 0
    /\ live[target] # 0
    /\ Report([type |-> c, caller |-> caller, pid |-> target, start |-> live[target]])
    /\ UNCHANGED <<live, clock, markers, pc, job, ended, matched>>

-----------------------------------------------------------------------------
(* The workers: scanner.ProcessEvent on the event each takes.             *)

\* Mutant: the cleanup forgets s.mmaps.
CleanupKeepsMmaps(pid) == [markers EXCEPT !["alloc"][pid] = 0]

\* The cleanup of ProcessEvent: delete(s.rwxs, pid); delete(s.mmaps, pid).
Cleanup(pid) == [c \in Categories |-> [markers[c] EXCEPT ![pid] = 0]]

\* Mutant: the scan is not deduplicated.
IsMatchedNever(c, pid) == FALSE

\* s.isRwxMatched(pid) (c = "alloc") and s.isMmapMatched(pid) (c = "mmap").
IsMatched(c, pid) == markers[c][pid] # 0

\* An idle worker w takes the head event e.  A TerminateProcess event is
\* the cleanup; a CreateProcess scan leaves the markers alone.  An RWX
\* allocation or a view mapping by a caller other than System whose
\* target's marker is unset starts a scan; any other is dropped.
Take(w) ==
    /\ pc[w] = "idle"
    /\ queue # <<>>
    /\ queue' = Tail(queue)
    /\ scanned' = {}
    /\ LET e == Head(queue) IN
       \/ /\ e.type = "terminate"
          /\ markers' = Cleanup(e.pid)
          /\ ended' = ended \cup {<<e.pid, e.start>>}
          /\ UNCHANGED <<pc, job>>
       \/ /\ e.type = "create"
          /\ UNCHANGED <<markers, pc, job, ended>>
       \/ /\ e.type \in Categories
          /\ e.caller # SystemPid
          /\ ~IsMatched(e.type, e.pid)
          /\ pc' = [pc EXCEPT ![w] = e.type]
          /\ job' = [job EXCEPT ![w] = e]
          /\ UNCHANGED <<markers, ended>>
       \/ /\ e.type \in Categories
          /\ e.caller = SystemPid \/ IsMatched(e.type, e.pid)
          /\ UNCHANGED <<markers, pc, job, ended>>
    /\ UNCHANGED <<live, clock, matched>>

\* The scan of worker w returns, within ScanTimeout; if it matched, the
\* marker of the PID is written: s.rwxs[pid] = addr or s.mmaps[pid] = addr.
Finish(w) ==
    /\ pc[w] \in Categories
    /\ LET e == job[w]
           x == <<e.pid, e.start, e.type>> IN
       /\ scanned' = {x}
       /\ \/ /\ markers' = [markers EXCEPT ![e.type][e.pid] = e.start]
             /\ matched' = matched \cup {x}
          \/ UNCHANGED <<markers, matched>>
    /\ pc' = [pc EXCEPT ![w] = "idle"]
    /\ job' = [job EXCEPT ![w] = NoJob]
    /\ UNCHANGED <<live, clock, queue, ended>>

Next ==
    \/ \E p \in Pids : Spawn(p) \/ Exit(p)
    \/ \E p, q \in Pids, c \in Categories : Touch(p, q, c)
    \/ \E w \in Workers : Take(w) \/ Finish(w)

\* Every worker keeps draining the source, and a started scan returns:
\* go-yara aborts it once the ScanTimeout of newInternalScanner elapses.
Fairness == \A w \in Workers : WF_vars(Take(w)) /\ WF_vars(Finish(w))

Spec == Init /\ [][Next]_vars /\ Fairness

-----------------------------------------------------------------------------
(* Properties *)

\* No marker survives the handling of its process's TerminateProcess
\* event: a marker written by a scan that was running while another
\* worker handled the exit would exempt the next process to get the PID
\* from every RWX or mapping scan.
NoMarkerOfEndedProcess ==
    \A c \in Categories, p \in Pids :
       markers[c][p] # 0 => <<p, markers[c][p]>> \notin ended

\* The step of NoRescanAfterMatch: its scan is not of a process already
\* matched for that category.
RescanFree == \A x \in scanned' : x \notin matched

\* A process whose scan for a category matched is not scanned for it again.
NoRescanAfterMatch == [][RescanFree]_vars

\* A marker of a process that has exited is eventually deleted: the exit
\* is reported, some worker takes it and ProcessEvent's cleanup runs.
StaleMarkerCleared ==
    \A c \in Categories, p \in Pids, g \in Starts :
       (markers[c][p] = g /\ live[p] # g) ~> markers[c][p] # g
=============================================================================
