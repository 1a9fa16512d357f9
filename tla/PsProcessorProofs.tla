------------------------- MODULE PsProcessorProofs -------------------------
(***************************************************************************)
(* Proofs about the process/thread processor (PsProcessor), for every      *)
(* value of the constants that satisfies ConstAssumption.                  *)
(***************************************************************************)
EXTENDS PsProcessor, TLAPS

SnapType(s) == s \in [Pids -> Entry \cup {NoProc}]

(* The host never leaves threads in a process that has exited: a thread  *)
(* starts only in a live process, and a process exits after its threads. *)
(* With it, every thread event carries the start time of a live process. *)
ThreadsOfLive == \A p \in Pids : osThreads[p] # {} => os[p] # 0

IInv == TypeOK /\ ThreadsOfLive

(* The snapshot operations the processor calls keep every entry a well-   *)
(* formed process record: FindAndPut, Write, AddThread and RemoveThread.   *)
LEMMA FindAndPutType ==
    ASSUME NEW s, SnapType(s), os \in [Pids -> 0..MaxStart], NEW p \in Pids
    PROVE  SnapType(FindAndPut(s, p))
<1>1. Stub(p) \in Entry
    BY DEF Stub, Entry, StartVal, Starts
<1>2. QED
    BY <1>1 DEF SnapType, FindAndPut

LEMMA WriteType ==
    ASSUME NEW s, SnapType(s), NEW p \in Pids,
           NEW start \in StartVal, NEW gen \in 0..MaxStart
    PROVE  SnapType(Write(s, p, start, gen))
BY DEF SnapType, Write, Entry

LEMMA ThreadOpsType ==
    ASSUME NEW s, SnapType(s), NEW p \in Pids, NEW t \in Tids
    PROVE  /\ SnapType(AddThread(s, p, t))
           /\ SnapType(RemoveThread(s, p, t))
BY DEF SnapType, AddThread, RemoveThread, Entry

(* An event the host emits is well formed, and appending it to a worker's  *)
(* queue keeps the queues sequences of events.                             *)
LEMMA EmitType ==
    ASSUME TypeOK, NEW w \in Workers, NEW e \in Event, Emit(w, e)
    PROVE  queue' \in [Workers -> Seq(Event)]
BY DEF TypeOK, Emit

(* Handling the head of a worker's queue leaves a sequence of events.      *)
LEMMA TailType ==
    ASSUME TypeOK, NEW w \in Workers, queue[w] # <<>>
    PROVE  /\ Head(queue[w]) \in Event
           /\ [queue EXCEPT ![w] = Tail(@)] \in [Workers -> Seq(Event)]
BY DEF TypeOK

LEMMA InitIInv == Init => IInv
BY ConstAssumption DEF ConstAssumption, Init, IInv, TypeOK, ThreadsOfLive

LEMMA NextIInv == IInv /\ [Next]_vars => IInv'
<1> SUFFICES ASSUME IInv, [Next]_vars PROVE IInv'
    OBVIOUS
<1> USE ConstAssumption DEF ConstAssumption
<1>0. AnyTid \in Tids
    BY DEF AnyTid
<1>1. CASE EndRundown
    BY <1>1 DEF EndRundown, IInv, TypeOK, ThreadsOfLive
<1>2. ASSUME NEW p \in Pids, NEW w \in Workers, SpawnProcess(p, w)
      PROVE  IInv'
    <2>1. PICK ty \in {"ProcessRundown", "ProcessRundownInternal", "CreateProcess", "CreateProcessInternal"} :
                Emit(w, [type |-> ty, pid |-> p, tid |-> AnyTid, gen |-> clock + 1])
        BY <1>2 DEF SpawnProcess
    <2>2. [type |-> ty, pid |-> p, tid |-> AnyTid, gen |-> clock + 1] \in Event
        BY <1>0, <1>2 DEF SpawnProcess, Event, StreamEvent, ProcessTypes, Starts, IInv, TypeOK
    <2>3. queue' \in [Workers -> Seq(Event)]
        BY <2>1, <2>2, EmitType DEF IInv
    <2>4. QED
        BY <1>2, <2>3 DEF SpawnProcess, IInv, TypeOK, ThreadsOfLive
<1>3. ASSUME NEW p \in Pids, NEW w \in Workers, ExitProcess(p, w)
      PROVE  IInv'
    <2>1. [type |-> "TerminateProcess", pid |-> p, tid |-> AnyTid, gen |-> os[p]] \in Event
        BY <1>0, <1>3 DEF ExitProcess, Event, StreamEvent, ProcessTypes, Starts, IInv, TypeOK
    <2>2. queue' \in [Workers -> Seq(Event)]
        BY <1>3, <2>1, EmitType DEF ExitProcess, IInv
    <2>3. QED
        BY <1>3, <2>2 DEF ExitProcess, IInv, TypeOK, ThreadsOfLive
<1>4. ASSUME NEW p \in Pids, NEW w \in Workers, AccessProcess(p, w)
      PROVE  IInv'
    <2>1. PICK ty \in OpenTypes \cup OtherTypes :
                Emit(w, [type |-> ty, pid |-> p, tid |-> AnyTid, gen |-> os[p]])
        BY <1>4 DEF AccessProcess
    <2>2. [type |-> ty, pid |-> p, tid |-> AnyTid, gen |-> os[p]] \in Event
        BY <1>0 DEF Event, AccessEvent, IInv, TypeOK
    <2>3. queue' \in [Workers -> Seq(Event)]
        BY <2>1, <2>2, EmitType DEF IInv
    <2>4. QED
        BY <1>4, <2>3 DEF AccessProcess, IInv, TypeOK, ThreadsOfLive
<1>5. ASSUME NEW p \in Pids, NEW t \in Tids, NEW w \in Workers, SpawnThread(p, t, w)
      PROVE  IInv'
    <2>1. [type |-> IF booting THEN "ThreadRundown" ELSE "CreateThread",
           pid |-> p, tid |-> t, gen |-> os[p]] \in Event
        BY <1>5 DEF SpawnThread, Event, StreamEvent, ThreadTypes, Starts, IInv, TypeOK
    <2>2. queue' \in [Workers -> Seq(Event)]
        BY <1>5, <2>1, EmitType DEF SpawnThread, IInv
    <2>3. QED
        BY <1>5, <2>2 DEF SpawnThread, IInv, TypeOK, ThreadsOfLive
<1>6. ASSUME NEW p \in Pids, NEW t \in Tids, NEW w \in Workers, ExitThread(p, t, w)
      PROVE  IInv'
    <2>1. os[p] # 0
        BY <1>6 DEF ExitThread, IInv, ThreadsOfLive
    <2>2. [type |-> "TerminateThread", pid |-> p, tid |-> t, gen |-> os[p]] \in Event
        BY <2>1 DEF Event, StreamEvent, ThreadTypes, Starts, IInv, TypeOK
    <2>3. queue' \in [Workers -> Seq(Event)]
        BY <1>6, <2>2, EmitType DEF ExitThread, IInv
    <2>4. QED
        BY <1>6, <2>3 DEF ExitThread, IInv, TypeOK, ThreadsOfLive
<1>7. ASSUME NEW p \in Pids, ProberQuery(p)
      PROVE  IInv'
    BY <1>7 DEF ProberQuery, IInv, TypeOK, ThreadsOfLive
<1>8. ASSUME NEW w \in Workers, HandleProcess(w)
      PROVE  IInv'
    <2> DEFINE e == Head(queue[w])
    <2>1. /\ e \in Event
          /\ [queue EXCEPT ![w] = Tail(@)] \in [Workers -> Seq(Event)]
          /\ queue' = [queue EXCEPT ![w] = Tail(@)]
        BY <1>8, TailType DEF HandleProcess, IInv
    <2>2. e.type \in ProcessTypes /\ e.pid \in Pids /\ e.gen \in Starts
        BY <1>8, <2>1 DEF HandleProcess, Event, StreamEvent, AccessEvent, ProcessTypes, OpenTypes, OtherTypes
    <2>3. CASE e.type = "TerminateProcess"
        <3>1. /\ handles' = [handles EXCEPT ![e.pid] = 0]
              /\ snap' = [snap EXCEPT ![e.pid] = NoProc]
              /\ seenLive' = seenLive \ {<<e.pid, e.gen>>}
              /\ seenThreads' = {x \in seenThreads : <<x[1], x[2]>> # <<e.pid, e.gen>>}
              /\ UNCHANGED <<os, osThreads, clock, booting>>
            BY <1>8, <2>3 DEF HandleProcess
        <3>2. /\ handles' \in [Pids -> 0..MaxStart]
              /\ snap' \in [Pids -> Entry \cup {NoProc}]
            BY <2>2, <3>1 DEF IInv, TypeOK
        <3>3. seenLive' \subseteq Pids \X Starts /\ seenThreads' \subseteq Pids \X Starts \X Tids
            BY <3>1 DEF IInv, TypeOK
        <3>4. QED
            BY <2>1, <3>1, <3>2, <3>3 DEF IInv, TypeOK, ThreadsOfLive
    <2>4. CASE e.type # "TerminateProcess"
        <3>1. PICK start \in StartVal : snap' = Write(snap, e.pid, start, e.gen)
            <4>1. StartTimes(e) \subseteq StartVal
                BY <2>2 DEF StartTimes, Timestamp, StartVal, Starts, IInv, TypeOK
            <4>2. \E start \in IF e.type \in {"CreateProcessInternal", "ProcessRundownInternal"}
                               THEN {e.gen} ELSE StartTimes(e) :
                      snap' = Write(snap, e.pid, start, e.gen)
                BY <1>8, <2>4 DEF HandleProcess
            <4>3. QED
                BY <2>2, <4>1, <4>2 DEF StartVal
        <3>2. SnapType(snap')
            <4>1. SnapType(snap) /\ e.gen \in 0..MaxStart
                BY <2>2 DEF IInv, TypeOK, SnapType, Starts
            <4>2. QED
                BY <2>2, <3>1, <4>1, WriteType
        <3>3. QED
            BY <1>8, <2>1, <2>2, <2>4, <3>2 DEF HandleProcess, IInv, TypeOK, SnapType, ThreadsOfLive
    <2>5. QED
        BY <2>3, <2>4
<1>9. ASSUME NEW w \in Workers, HandleThread(w)
      PROVE  IInv'
    <2> DEFINE e == Head(queue[w])
               s == FindAndPut(snap, e.pid)
    <2>1. /\ e \in Event
          /\ [queue EXCEPT ![w] = Tail(@)] \in [Workers -> Seq(Event)]
          /\ queue' = [queue EXCEPT ![w] = Tail(@)]
        BY <1>9, TailType DEF HandleThread, IInv
    <2>2. e.type \in ThreadTypes /\ e.pid \in Pids /\ e.tid \in Tids /\ e.gen \in Starts
        BY <1>9, <2>1 DEF HandleThread, Event, StreamEvent, AccessEvent, ThreadTypes, OpenTypes, OtherTypes
    <2>3. SnapType(s)
        <3>1. SnapType(snap) /\ os \in [Pids -> 0..MaxStart]
            BY DEF IInv, TypeOK, SnapType
        <3>2. QED
            BY <2>2, <3>1, FindAndPutType
    <2>4. SnapType(snap')
        <3>1. SnapType(RemoveThread(s, e.pid, e.tid)) /\ SnapType(AddThread(s, e.pid, e.tid))
            BY <2>2, <2>3, ThreadOpsType
        <3>2. QED
            BY <1>9, <3>1 DEF HandleThread
    <2>5. seenThreads' \subseteq Pids \X Starts \X Tids
        BY <1>9, <2>2 DEF HandleThread, IInv, TypeOK
    <2>6. QED
        BY <1>9, <2>1, <2>4, <2>5 DEF HandleThread, IInv, TypeOK, SnapType, ThreadsOfLive
<1>10. ASSUME NEW w \in Workers, HandleOpen(w)
       PROVE  IInv'
    <2>1. /\ Head(queue[w]) \in Event
          /\ [queue EXCEPT ![w] = Tail(@)] \in [Workers -> Seq(Event)]
        BY <1>10, TailType DEF HandleOpen, IInv
    <2>2. SnapType(snap')
        <3>1. /\ SnapType(snap) /\ os \in [Pids -> 0..MaxStart]
              /\ Head(queue[w]).pid \in Pids
            BY <2>1 DEF IInv, TypeOK, SnapType, Event, StreamEvent, AccessEvent
        <3>2. QED
            BY <1>10, <3>1, FindAndPutType DEF HandleOpen
    <2>3. QED
        BY <1>10, <2>1, <2>2 DEF HandleOpen, IInv, TypeOK, SnapType, ThreadsOfLive
<1>11. ASSUME NEW w \in Workers, HandleOther(w)
       PROVE  IInv'
    <2>1. [queue EXCEPT ![w] = Tail(@)] \in [Workers -> Seq(Event)]
        BY <1>11, TailType DEF HandleOther, IInv
    <2>2. QED
        BY <1>11, <2>1 DEF HandleOther, IInv, TypeOK, ThreadsOfLive
<1>12. CASE UNCHANGED vars
    BY <1>12 DEF vars, IInv, TypeOK, ThreadsOfLive
<1>13. QED
    BY <1>1, <1>2, <1>3, <1>4, <1>5, <1>6, <1>7, <1>8, <1>9, <1>10, <1>11, <1>12
       DEF Next, Host, Pipeline

(* Type correctness: every reachable state of the processor, its snapshot, *)
(* the prober's handle cache and the host gives each variable its type     *)
(* (psProcessor.ProcessEvent never writes a malformed snapshot entry).     *)
THEOREM TypeCorrect == Spec => []TypeOK
<1>1. Init => IInv
    BY InitIInv
<1>2. IInv /\ [Next]_vars => IInv'
    BY NextIInv
<1>3. IInv => TypeOK
    BY DEF IInv
<1>4. QED
    BY <1>1, <1>2, <1>3, PTL DEF Spec
=============================================================================
