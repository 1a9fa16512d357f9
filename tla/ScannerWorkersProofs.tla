------------------------- MODULE ScannerWorkersProofs -------------------------
(***************************************************************************)
(* Proofs about the deduplicated scans under the pipeline                  *)
(* (ScannerWorkers), for every value of the constants that satisfies       *)
(* WorkersAssumption.  With two or more workers NoMarkerOfEndedProcess     *)
(* fails (the scanner_workers_stale_marker run); the theorem here is for   *)
(* the pipeline with one worker thread, which spec section 5 allows.       *)
(***************************************************************************)
EXTENDS ScannerWorkers, TLAPS

\* The event e reports the exit of the process with start time g at PID p.
IsTerm(e, p, g) == e.type = "terminate" /\ e.pid = p /\ e.start = g

TypeInv ==
    /\ live \in [Pids -> 0..MaxStart]
    /\ clock \in Starts
    /\ queue \in Seq(Event)
    /\ markers \in [Categories -> [Pids -> 0..MaxStart]]
    /\ pc \in [Workers -> {"idle"} \cup Categories]
    /\ job \in [Workers -> Event]
    /\ ended \subseteq Pids \X Starts

(* No start time the host has not yet handed out appears anywhere: a new  *)
(* process is never already ended or reported as exiting.                 *)
Bounded ==
    /\ \A p \in Pids : live[p] <= clock
    /\ \A i \in 1..Len(queue) : queue[i].start <= clock
    /\ \A x \in ended : x[2] <= clock

(* A live process has not been handled as ended, and its exit is not     *)
(* waiting in the source.                                                 *)
LiveOpen ==
    \A p \in Pids : live[p] # 0 =>
       /\ <<p, live[p]>> \notin ended
       /\ \A i \in 1..Len(queue) : ~IsTerm(queue[i], p, live[p])

(* An allocation or mapping event waiting in the source is about a        *)
(* process whose exit has not been handled and comes after it in the     *)
(* FIFO source: the host reports a process's events before its exit.      *)
QueuedOpen ==
    \A i \in 1..Len(queue) : queue[i].type \in Categories =>
       /\ <<queue[i].pid, queue[i].start>> \notin ended
       /\ \A j \in 1..(i - 1) : ~IsTerm(queue[j], queue[i].pid, queue[i].start)

(* A running scan is about a process whose exit has not been handled.     *)
JobOpen ==
    \A v \in Workers : pc[v] \in Categories =>
       /\ job[v].type = pc[v]
       /\ <<job[v].pid, job[v].start>> \notin ended

WInv ==
    /\ TypeInv
    /\ Bounded
    /\ LiveOpen
    /\ QueuedOpen
    /\ JobOpen
    /\ NoMarkerOfEndedProcess

(* What appending to the source and taking its head do to the positions   *)
(* of the events it holds.                                                 *)
LEMMA AppendPositions ==
    ASSUME NEW S, NEW q \in Seq(S), NEW e \in S
    PROVE  /\ Append(q, e) \in Seq(S)
           /\ Len(Append(q, e)) = Len(q) + 1
           /\ \A i \in 1..Len(q) : Append(q, e)[i] = q[i]
           /\ Append(q, e)[Len(q) + 1] = e
OBVIOUS

LEMMA TailPositions ==
    ASSUME NEW S, NEW q \in Seq(S), q # <<>>
    PROVE  /\ Head(q) \in S
           /\ Head(q) = q[1]
           /\ Tail(q) \in Seq(S)
           /\ Len(Tail(q)) = Len(q) - 1
           /\ \A i \in 1..Len(q) - 1 : Tail(q)[i] = q[i + 1]
OBVIOUS

LEMMA InitWInv == Init => WInv
BY WorkersAssumption
   DEF Init, WInv, TypeInv, Bounded, LiveOpen, QueuedOpen, JobOpen,
       NoMarkerOfEndedProcess, NoJob, Event, Starts, Categories

(* A host step appends one event to the source; it keeps WInv when the    *)
(* event is well formed, is not the exit of a live process other than the *)
(* one it ends, and is not an allocation or mapping of a process already  *)
(* ended or reported as exiting.                                          *)
LEMMA SpawnWInv ==
    ASSUME WInv, NEW p \in Pids, Spawn(p)
    PROVE  WInv'
<1> USE WorkersAssumption DEF WorkersAssumption
<1> DEFINE e == [type |-> "create", caller |-> p, pid |-> p, start |-> clock + 1]
<1>1. /\ e \in Event
      /\ queue' = Append(queue, e)
      /\ clock' = clock + 1
      /\ clock + 1 \in Starts
      /\ live' = [live EXCEPT ![p] = clock + 1]
      /\ UNCHANGED <<markers, pc, job, ended>>
    BY DEF Spawn, Report, WInv, TypeInv, Event, Starts
<1>2. /\ queue' \in Seq(Event)
      /\ Len(queue') = Len(queue) + 1
      /\ \A i \in 1..Len(queue) : queue'[i] = queue[i]
      /\ queue'[Len(queue) + 1] = e
    BY <1>1, AppendPositions DEF WInv, TypeInv
<1>3. TypeInv'
    BY <1>1, <1>2 DEF WInv, TypeInv, Starts
<1>4. Bounded'
    <2>1. \A q \in Pids : live'[q] <= clock'
        BY <1>1 DEF WInv, TypeInv, Bounded, Starts
    <2>2. ASSUME NEW i \in 1..Len(queue') PROVE queue'[i].start <= clock'
        <3>1. CASE i \in 1..Len(queue)
            <4>1. queue[i] \in Event
                BY <3>1 DEF WInv, TypeInv
            <4>2. queue[i].start \in Nat /\ queue[i].start <= clock
                BY <3>1, <4>1 DEF WInv, Bounded, Event, Starts
            <4>3. QED
                BY <1>1, <1>2, <3>1, <4>2 DEF WInv, TypeInv, Starts
        <3>2. CASE i = Len(queue) + 1
            BY <1>1, <1>2, <3>2 DEF e, WInv, TypeInv, Starts
        <3>3. QED
            BY <1>2, <2>2, <3>1, <3>2 DEF WInv, TypeInv
    <2>3. \A x \in ended' : x[2] <= clock'
        BY <1>1 DEF WInv, TypeInv, Bounded, Starts
    <2>4. QED
        BY <2>1, <2>2, <2>3 DEF Bounded
<1>5. LiveOpen'
    <2>1. ASSUME NEW q \in Pids, live'[q] # 0
          PROVE  <<q, live'[q]>> \notin ended'
        BY <1>1, <2>1 DEF WInv, TypeInv, Bounded, LiveOpen, Starts
    <2>2. ASSUME NEW q \in Pids, live'[q] # 0, NEW i \in 1..Len(queue')
          PROVE  ~IsTerm(queue'[i], q, live'[q])
        <3>1. CASE i \in 1..Len(queue)
            <4>1. queue'[i] = queue[i] /\ queue[i] \in Event
                BY <1>2, <3>1 DEF WInv, TypeInv
            <4>2. queue[i].start \in Nat /\ queue[i].start <= clock
                BY <3>1, <4>1 DEF WInv, Bounded, Event, Starts
            <4>3. CASE q = p
                BY <1>1, <4>1, <4>2, <4>3 DEF WInv, TypeInv, IsTerm, Starts
            <4>4. CASE q # p
                BY <1>1, <2>2, <3>1, <4>1, <4>4 DEF WInv, TypeInv, LiveOpen
            <4>5. QED
                BY <4>3, <4>4
        <3>2. CASE i = Len(queue) + 1
            BY <1>1, <1>2, <3>2 DEF IsTerm, e
        <3>3. QED
            BY <1>2, <2>2, <3>1, <3>2 DEF WInv, TypeInv
    <2>3. QED
        BY <2>1, <2>2 DEF LiveOpen
<1>6. QueuedOpen'
    BY <1>1, <1>2 DEF WInv, TypeInv, QueuedOpen, IsTerm, Categories
<1>7. QED
    BY <1>1, <1>3, <1>4, <1>5, <1>6 DEF WInv, JobOpen, NoMarkerOfEndedProcess

LEMMA ExitWInv ==
    ASSUME WInv, NEW p \in Pids, Exit(p)
    PROVE  WInv'
<1> USE WorkersAssumption DEF WorkersAssumption
<1> DEFINE e == [type |-> "terminate", caller |-> p, pid |-> p, start |-> live[p]]
<1>1. /\ e \in Event
      /\ queue' = Append(queue, e)
      /\ live' = [live EXCEPT ![p] = 0]
      /\ UNCHANGED <<clock, markers, pc, job, ended>>
    BY DEF Exit, Report, WInv, TypeInv, Event, Starts
<1>2. /\ queue' \in Seq(Event)
      /\ Len(queue') = Len(queue) + 1
      /\ \A i \in 1..Len(queue) : queue'[i] = queue[i]
      /\ queue'[Len(queue) + 1] = e
    BY <1>1, AppendPositions DEF WInv, TypeInv
<1>3. TypeInv'
    BY <1>1, <1>2 DEF WInv, TypeInv
<1>4. Bounded'
    BY <1>1, <1>2 DEF WInv, TypeInv, Bounded, Starts, Event
<1>5. LiveOpen'
    BY <1>1, <1>2 DEF WInv, TypeInv, LiveOpen, IsTerm
<1>6. QueuedOpen'
    BY <1>1, <1>2 DEF WInv, TypeInv, QueuedOpen, IsTerm, Categories, Event
<1>7. QED
    BY <1>1, <1>3, <1>4, <1>5, <1>6 DEF WInv, JobOpen, NoMarkerOfEndedProcess

LEMMA TouchWInv ==
    ASSUME WInv, NEW p \in Pids, NEW q \in Pids, NEW c \in Categories,
           Touch(p, q, c)
    PROVE  WInv'
<1> USE WorkersAssumption DEF WorkersAssumption
<1> DEFINE e == [type |-> c, caller |-> p, pid |-> q, start |-> live[q]]
<1>1. /\ e \in Event
      /\ queue' = Append(queue, e)
      /\ live[q] # 0
      /\ UNCHANGED <<live, clock, markers, pc, job, ended>>
    BY DEF Touch, Report, WInv, TypeInv, Event, Starts
<1>2. /\ queue' \in Seq(Event)
      /\ Len(queue') = Len(queue) + 1
      /\ \A i \in 1..Len(queue) : queue'[i] = queue[i]
      /\ queue'[Len(queue) + 1] = e
    BY <1>1, AppendPositions DEF WInv, TypeInv
<1>3. TypeInv'
    BY <1>1, <1>2 DEF WInv, TypeInv
<1>4. Bounded'
    BY <1>1, <1>2 DEF WInv, TypeInv, Bounded
<1>5. LiveOpen'
    <2>1. ASSUME NEW r \in Pids, live[r] # 0, NEW i \in 1..Len(queue')
          PROVE  ~IsTerm(queue'[i], r, live[r])
        <3>1. CASE i \in 1..Len(queue)
            BY <1>2, <2>1, <3>1 DEF WInv, LiveOpen
        <3>2. CASE i = Len(queue) + 1
            BY <1>2, <3>2 DEF IsTerm, Categories
        <3>3. QED
            BY <1>2, <2>1, <3>1, <3>2 DEF WInv, TypeInv
    <2>2. QED
        BY <1>1, <2>1 DEF WInv, LiveOpen
<1>6. QueuedOpen'
    <2> SUFFICES ASSUME NEW i \in 1..Len(queue'), queue'[i].type \in Categories
                 PROVE  /\ <<queue'[i].pid, queue'[i].start>> \notin ended'
                        /\ \A j \in 1..i - 1 :
                              ~IsTerm(queue'[j], queue'[i].pid, queue'[i].start)
        BY DEF QueuedOpen
    <2>1. CASE i \in 1..Len(queue)
        <3>1. queue'[i] = queue[i] /\ \A j \in 1..i - 1 : queue'[j] = queue[j]
            BY <1>2, <2>1
        <3>2. QED
            BY <1>1, <2>1, <3>1 DEF WInv, QueuedOpen
    <2>2. CASE i = Len(queue) + 1
        <3>1. queue'[i] = e /\ \A j \in 1..i - 1 : j \in 1..Len(queue) /\ queue'[j] = queue[j]
            BY <1>2, <2>2
        <3>2. <<q, live[q]>> \notin ended /\ \A j \in 1..Len(queue) : ~IsTerm(queue[j], q, live[q])
            BY <1>1 DEF WInv, LiveOpen
        <3>3. QED
            BY <1>1, <3>1, <3>2 DEF e
    <2>3. QED
        BY <1>2, <2>1, <2>2
<1>7. QED
    BY <1>1, <1>3, <1>4, <1>5, <1>6 DEF WInv, JobOpen, NoMarkerOfEndedProcess

(* The worker takes the head of the source.  Only here does the single    *)
(* worker matter: a TerminateProcess is handled while no scan is running, *)
(* so no scan of the ended process can write its marker afterwards.       *)
LEMMA TakeWInv ==
    ASSUME WInv, NEW w, Workers = {w}, Take(w)
    PROVE  WInv'
<1> USE WorkersAssumption DEF WorkersAssumption
<1> DEFINE e == Head(queue)
<1>1. /\ pc[w] = "idle"
      /\ queue # <<>>
      /\ queue' = Tail(queue)
      /\ UNCHANGED <<live, clock>>
    BY DEF Take
<1>2. /\ e \in Event
      /\ e = queue[1]
      /\ 1 \in 1..Len(queue)
      /\ queue' \in Seq(Event)
      /\ Len(queue') = Len(queue) - 1
      /\ \A i \in 1..Len(queue') : i + 1 \in 1..Len(queue) /\ queue'[i] = queue[i + 1]
    BY <1>1, TailPositions DEF WInv, TypeInv
<1>3. ASSUME NEW i \in 1..Len(queue')
      PROVE  queue'[i] \in Event /\ queue'[i].start <= clock
    <2>1. i + 1 \in 1..Len(queue) /\ queue'[i] = queue[i + 1]
        BY <1>2
    <2>2. QED
        BY <2>1 DEF WInv, TypeInv, Bounded
<1>4. e.start <= clock
    BY <1>1, <1>2 DEF WInv, TypeInv, Bounded, Event, Starts
(* The parts of WInv about the source alone, when ended does not grow.    *)
<1>5. ASSUME UNCHANGED ended
      PROVE  LiveOpen' /\ QueuedOpen'
    <2>1. LiveOpen'
        BY <1>1, <1>2, <1>5 DEF WInv, TypeInv, LiveOpen
    <2>2. ASSUME NEW i \in 1..Len(queue'), queue'[i].type \in Categories
          PROVE  /\ <<queue'[i].pid, queue'[i].start>> \notin ended'
                 /\ \A j \in 1..(i - 1) :
                       ~IsTerm(queue'[j], queue'[i].pid, queue'[i].start)
        <3>1. i + 1 \in 1..Len(queue) /\ queue'[i] = queue[i + 1]
            BY <1>2
        <3>2. queue[i + 1].type \in Categories
            BY <2>2, <3>1
        <3>3. <<queue'[i].pid, queue'[i].start>> \notin ended'
            BY <1>5, <3>1, <3>2 DEF WInv, QueuedOpen
        <3>4. ASSUME NEW j \in 1..(i - 1)
              PROVE  ~IsTerm(queue'[j], queue'[i].pid, queue'[i].start)
            <4>1. j \in 1..Len(queue') /\ j + 1 \in 1..i
                BY <1>2, <3>1
            <4>2. queue'[j] = queue[j + 1]
                BY <1>2, <4>1
            <4>3. \A k \in 1..i : ~IsTerm(queue[k], queue[i + 1].pid, queue[i + 1].start)
                <5>1. \A k \in 1..((i + 1) - 1) :
                         ~IsTerm(queue[k], queue[i + 1].pid, queue[i + 1].start)
                    BY <3>1, <3>2, Zenon DEF WInv, QueuedOpen
                <5>2. (i + 1) - 1 = i
                    OBVIOUS
                <5>3. QED
                    BY <5>1, <5>2
            <4>4. QED
                BY <3>1, <4>1, <4>2, <4>3
        <3>5. QED
            BY <3>3, <3>4
    <2>3. QED
        BY <2>1, <2>2 DEF QueuedOpen
<1>6. CASE /\ e.type = "terminate"
           /\ markers' = Cleanup(e.pid)
           /\ ended' = ended \cup {<<e.pid, e.start>>}
           /\ UNCHANGED <<pc, job>>
    <2>1. TypeInv'
        BY <1>1, <1>2, <1>6 DEF WInv, TypeInv, Cleanup, Event, Starts
    <2>2. Bounded'
        BY <1>1, <1>3, <1>4, <1>6 DEF WInv, TypeInv, Bounded
    <2>3. LiveOpen'
        <3>1. ASSUME NEW q \in Pids, live[q] # 0
              PROVE  <<q, live[q]>> # <<e.pid, e.start>>
            <4>1. 1 \in 1..Len(queue)
                BY <1>1 DEF WInv, TypeInv
            <4>2. ~IsTerm(queue[1], q, live[q])
                BY <3>1, <4>1 DEF WInv, LiveOpen
            <4>3. QED
                BY <1>2, <1>6, <4>2 DEF IsTerm
        <3>2. ASSUME NEW q \in Pids, live[q] # 0, NEW i \in 1..Len(queue')
              PROVE  ~IsTerm(queue'[i], q, live[q])
            <4>1. i + 1 \in 1..Len(queue) /\ queue'[i] = queue[i + 1]
                BY <1>2
            <4>2. QED
                BY <3>2, <4>1 DEF WInv, LiveOpen
        <3>3. QED
            BY <1>1, <1>6, <3>1, <3>2 DEF WInv, LiveOpen
    <2>4. QueuedOpen'
        <3>1. ASSUME NEW i \in 1..Len(queue'), queue'[i].type \in Categories
              PROVE  /\ <<queue'[i].pid, queue'[i].start>> \notin ended'
                     /\ \A j \in 1..(i - 1) :
                           ~IsTerm(queue'[j], queue'[i].pid, queue'[i].start)
            <4>1. i + 1 \in 1..Len(queue) /\ queue'[i] = queue[i + 1]
                BY <1>2
            <4>2. queue[i + 1].type \in Categories
                BY <3>1, <4>1
            <4>3. /\ <<queue[i + 1].pid, queue[i + 1].start>> \notin ended
                  /\ \A j \in 1..i : ~IsTerm(queue[j], queue[i + 1].pid, queue[i + 1].start)
                BY <4>1, <4>2 DEF WInv, QueuedOpen
            <4>4. <<queue[i + 1].pid, queue[i + 1].start>> # <<e.pid, e.start>>
                BY <1>2, <1>6, <4>1, <4>3 DEF IsTerm
            <4>5. <<queue'[i].pid, queue'[i].start>> \notin ended'
                BY <1>6, <4>1, <4>3, <4>4
            <4>6. ASSUME NEW j \in 1..(i - 1)
                  PROVE  ~IsTerm(queue'[j], queue'[i].pid, queue'[i].start)
                <5>1. j \in 1..Len(queue') /\ j + 1 \in 1..i
                    BY <1>2, <4>1
                <5>2. queue'[j] = queue[j + 1]
                    BY <1>2, <5>1
                <5>3. QED
                    BY <4>1, <4>3, <5>1, <5>2
            <4>7. QED
                BY <4>5, <4>6
        <3>2. QED
            BY <3>1 DEF QueuedOpen
    <2>5. JobOpen'
        BY <1>1, <1>6 DEF JobOpen, Categories
    <2>6. NoMarkerOfEndedProcess'
        <3>1. ASSUME NEW c \in Categories, NEW q \in Pids, markers'[c][q] # 0
              PROVE  <<q, markers'[c][q]>> \notin ended'
            <4>1. q # e.pid /\ markers'[c][q] = markers[c][q]
                BY <1>2, <1>6, <3>1 DEF WInv, TypeInv, Cleanup, Event
            <4>2. QED
                BY <1>6, <3>1, <4>1 DEF WInv, NoMarkerOfEndedProcess
        <3>2. QED
            BY <3>1 DEF NoMarkerOfEndedProcess
    <2>7. QED
        BY <2>1, <2>2, <2>3, <2>4, <2>5, <2>6 DEF WInv
<1>7. CASE /\ e.type = "create"
           /\ UNCHANGED <<markers, pc, job, ended>>
    BY <1>1, <1>2, <1>3, <1>5, <1>7
       DEF WInv, TypeInv, Bounded, JobOpen, NoMarkerOfEndedProcess
<1>8. CASE /\ e.type \in Categories
           /\ pc' = [pc EXCEPT ![w] = e.type]
           /\ job' = [job EXCEPT ![w] = e]
           /\ UNCHANGED <<markers, ended>>
    <2>1. <<e.pid, e.start>> \notin ended
        BY <1>1, <1>2, <1>8 DEF WInv, TypeInv, QueuedOpen
    <2>2. JobOpen'
        BY <1>8, <2>1 DEF WInv, TypeInv, JobOpen
    <2>3. QED
        BY <1>1, <1>2, <1>3, <1>5, <1>8, <2>2
           DEF WInv, TypeInv, Bounded, NoMarkerOfEndedProcess
<1>9. CASE /\ e.type \in Categories
           /\ UNCHANGED <<markers, pc, job, ended>>
    BY <1>1, <1>2, <1>3, <1>5, <1>9
       DEF WInv, TypeInv, Bounded, JobOpen, NoMarkerOfEndedProcess
<1>10. QED
    BY <1>6, <1>7, <1>8, <1>9 DEF Take

(* A scan returns and may write the marker of its job: a process that has *)
(* not been handled as ended.                                              *)
LEMMA FinishWInv ==
    ASSUME WInv, NEW w \in Workers, Finish(w)
    PROVE  WInv'
<1> USE WorkersAssumption DEF WorkersAssumption
<1> DEFINE e == job[w]
<1>1. /\ pc[w] \in Categories
      /\ e \in Event
      /\ e.type = pc[w]
      /\ <<e.pid, e.start>> \notin ended
      /\ pc' = [pc EXCEPT ![w] = "idle"]
      /\ job' = [job EXCEPT ![w] = NoJob]
      /\ UNCHANGED <<live, clock, queue, ended>>
      /\ \/ markers' = [markers EXCEPT ![e.type][e.pid] = e.start]
         \/ UNCHANGED markers
    BY DEF Finish, WInv, TypeInv, JobOpen
<1>2. NoJob \in Event
    BY DEF NoJob, Event, Starts
<1>3. /\ e.type \in Categories /\ e.pid \in Pids /\ e.start \in 1..MaxStart
    BY <1>1 DEF Event, Starts
<1>4. /\ pc' \in [Workers -> {"idle"} \cup Categories]
      /\ job' \in [Workers -> Event]
      /\ JobOpen'
    <2>1. pc' \in [Workers -> {"idle"} \cup Categories]
        BY <1>1 DEF WInv, TypeInv
    <2>2. job' \in [Workers -> Event]
        BY <1>1, <1>2 DEF WInv, TypeInv
    <2>3. ASSUME NEW v \in Workers, pc'[v] \in Categories
          PROVE  job'[v].type = pc'[v] /\ <<job'[v].pid, job'[v].start>> \notin ended'
        <3>1. v # w
            BY <1>1, <2>3 DEF WInv, TypeInv, Categories
        <3>2. pc'[v] = pc[v] /\ job'[v] = job[v]
            BY <1>1, <3>1 DEF WInv, TypeInv
        <3>3. QED
            BY <1>1, <2>3, <3>2 DEF WInv, JobOpen
    <2>4. QED
        BY <2>1, <2>2, <2>3 DEF JobOpen
<1>5. CASE markers' = [markers EXCEPT ![e.type][e.pid] = e.start]
    <2>1. markers' \in [Categories -> [Pids -> 0..MaxStart]]
        BY <1>3, <1>5 DEF WInv, TypeInv
    <2>2. ASSUME NEW c \in Categories, NEW q \in Pids, markers'[c][q] # 0
          PROVE  <<q, markers'[c][q]>> \notin ended'
        <3>1. CASE c = e.type /\ q = e.pid
            BY <1>1, <1>3, <1>5, <3>1 DEF WInv, TypeInv
        <3>2. CASE ~(c = e.type /\ q = e.pid)
            <4>1. markers'[c][q] = markers[c][q]
                BY <1>3, <1>5, <3>2 DEF WInv, TypeInv
            <4>2. QED
                BY <1>1, <2>2, <4>1 DEF WInv, NoMarkerOfEndedProcess
        <3>3. QED
            BY <3>1, <3>2
    <2>3. QED
        BY <1>1, <1>4, <2>1, <2>2
           DEF WInv, TypeInv, Bounded, LiveOpen, QueuedOpen, NoMarkerOfEndedProcess
<1>6. CASE UNCHANGED markers
    BY <1>1, <1>4, <1>6
       DEF WInv, TypeInv, Bounded, LiveOpen, QueuedOpen, NoMarkerOfEndedProcess
<1>7. QED
    BY <1>1, <1>5, <1>6

LEMMA NextWInv ==
    ASSUME NEW w, Workers = {w}
    PROVE  WInv /\ [Next]_vars => WInv'
<1> SUFFICES ASSUME WInv, [Next]_vars PROVE WInv'
    OBVIOUS
<1>1. ASSUME NEW p \in Pids, Spawn(p) PROVE WInv'
    BY <1>1, SpawnWInv
<1>2. ASSUME NEW p \in Pids, Exit(p) PROVE WInv'
    BY <1>2, ExitWInv
<1>3. ASSUME NEW p \in Pids, NEW q \in Pids, NEW c \in Categories, Touch(p, q, c)
      PROVE  WInv'
    BY <1>3, TouchWInv
<1>4. ASSUME NEW v \in Workers, Take(v) PROVE WInv'
    BY <1>4, TakeWInv
<1>5. ASSUME NEW v \in Workers, Finish(v) PROVE WInv'
    BY <1>5, FinishWInv
<1>6. CASE UNCHANGED vars
    BY <1>6 DEF vars, WInv, TypeInv, Bounded, LiveOpen, QueuedOpen, JobOpen,
                NoMarkerOfEndedProcess
<1>7. QED
    BY <1>1, <1>2, <1>3, <1>4, <1>5, <1>6 DEF Next

(* NoMarkerOfEndedProcess, for the pipeline with one worker thread: no    *)
(* s.rwxs or s.mmaps marker survives the handling of its process's        *)
(* TerminateProcess event, so a process that later gets the PID is never  *)
(* exempt from its RWX or mapping scans (scanner.go ProcessEvent).  With   *)
(* two workers TLC finds the marker a late scan writes after the cleanup. *)
THEOREM SingleWorkerNoStaleMarker ==
    ASSUME NEW w, Workers = {w}
    PROVE  Spec => []NoMarkerOfEndedProcess
<1>1. Init => WInv
    BY InitWInv
<1>2. WInv /\ [Next]_vars => WInv'
    BY NextWInv
<1>3. WInv => NoMarkerOfEndedProcess
    BY DEF WInv
<1>4. QED
    BY <1>1, <1>2, <1>3, PTL DEF Spec
-----------------------------------------------------------------------------
(***************************************************************************)
(* NoRescanAfterMatch with one worker.  A matched process keeps its marker *)
(* until its own TerminateProcess is handled; the danger is the cleanup of *)
(* an earlier or later process at the same PID.  The source holds the      *)
(* terminates of a PID in start order, all of processes older than the one *)
(* the PID now holds; an event about a process is behind every terminate   *)
(* of an older process at its PID, and so is its scan and its match.       *)
(***************************************************************************)

\* Process g at PID p runs (l is the host's table), or its exit waits in q.
PendingIn(l, q, p, g) == l[p] = g \/ \E j \in 1..Len(q) : IsTerm(q[j], p, g)

\* From position i of q on, no exit of an older process at p waits.
NoOlderTerm(q, p, g, i) ==
    \A j \in i..Len(q) : ~(q[j].type = "terminate" /\ q[j].pid = p /\ q[j].start < g)

\* The exits of one PID wait in the order of their start times, all older
\* than the process the PID holds now.
TermSorted(q) ==
    \A i, j \in 1..Len(q) :
       /\ i < j /\ q[i].type = "terminate" /\ q[j].type = "terminate"
       /\ q[i].pid = q[j].pid
       => q[i].start < q[j].start
TermBeforeLive(l, q) ==
    \A j \in 1..Len(q) :
       q[j].type = "terminate" /\ l[q[j].pid] # 0 => q[j].start < l[q[j].pid]

\* A waiting allocation or mapping is of a running or exiting process and
\* ahead of no exit of an older process at its PID.
QueuedPending(l, q) ==
    \A i \in 1..Len(q) : q[i].type \in Categories =>
       /\ \/ l[q[i].pid] = q[i].start
          \/ \E j \in i + 1..Len(q) : IsTerm(q[j], q[i].pid, q[i].start)
       /\ NoOlderTerm(q, q[i].pid, q[i].start, i + 1)

\* A running scan found its PID's marker unset (no other worker can set it
\* meanwhile) and is of a process no older exit waits behind.
JobUnmarked ==
    \A v \in Workers : pc[v] \in Categories =>
       /\ markers[pc[v]][job[v].pid] = 0
       /\ PendingIn(live, queue, job[v].pid, job[v].start)
       /\ NoOlderTerm(queue, job[v].pid, job[v].start, 1)

\* A matched process whose exit is not handled keeps its marker.
MatchedMarked ==
    \A x \in matched : <<x[1], x[2]>> \notin ended =>
       /\ markers[x[3]][x[1]] = x[2]
       /\ PendingIn(live, queue, x[1], x[2])
       /\ NoOlderTerm(queue, x[1], x[2], 1)

RExtra ==
    /\ matched \subseteq Pids \X Starts \X Categories
    /\ TermSorted(queue) /\ TermBeforeLive(live, queue) /\ QueuedPending(live, queue)
    /\ JobUnmarked /\ MatchedMarked

RInv == WInv /\ RExtra

(* Appending an event keeps a process pending when the host's table keeps *)
(* it or the event is its exit, and adds no older exit unless e is one.    *)
LEMMA AppendPending ==
    ASSUME NEW q \in Seq(Event), NEW e \in Event, NEW l, NEW l2, NEW p, NEW g,
           NEW i \in Nat \ {0}
    PROVE  /\ PendingIn(l, q, p, g) /\ (l[p] = g => l2[p] = g \/ IsTerm(e, p, g))
              => PendingIn(l2, Append(q, e), p, g)
           /\ NoOlderTerm(q, p, g, i) /\ ~(e.type = "terminate" /\ e.pid = p /\ e.start < g)
              => NoOlderTerm(Append(q, e), p, g, i)
<1>1. Len(Append(q, e)) = Len(q) + 1 /\ Append(q, e)[Len(q) + 1] = e
      /\ \A j \in 1..Len(q) : Append(q, e)[j] = q[j]
    OBVIOUS
<1>2. \A j \in i..Len(q) + 1 : j \in i..Len(q) \/ j = Len(q) + 1
    OBVIOUS
<1>3. QED
    BY <1>1, <1>2 DEF PendingIn, NoOlderTerm

(* Taking the head keeps a process pending unless the head is its exit,   *)
(* and keeps the absence of older exits, one position on.                 *)
LEMMA TailPending ==
    ASSUME NEW q \in Seq(Event), q # <<>>, NEW l, NEW p, NEW g, NEW i \in Nat \ {0}
    PROVE  /\ PendingIn(l, q, p, g) /\ ~IsTerm(Head(q), p, g) => PendingIn(l, Tail(q), p, g)
           /\ NoOlderTerm(q, p, g, i + 1) => NoOlderTerm(Tail(q), p, g, i)
<1>1. /\ Len(Tail(q)) = Len(q) - 1 /\ Head(q) = q[1]
      /\ \A j \in 1..Len(q) - 1 : Tail(q)[j] = q[j + 1]
    OBVIOUS
<1>2. ASSUME PendingIn(l, q, p, g), ~IsTerm(Head(q), p, g) PROVE PendingIn(l, Tail(q), p, g)
    <2>1. CASE l[p] = g
        BY <2>1 DEF PendingIn
    <2>2. CASE \E j \in 1..Len(q) : IsTerm(q[j], p, g)
        <3>1. PICK j \in 1..Len(q) : IsTerm(q[j], p, g)
            BY <2>2
        <3>2. j # 1
            BY <1>1, <1>2, <3>1
        <3>3. j - 1 \in 1..Len(q) - 1 /\ Tail(q)[j - 1] = q[j]
            BY <1>1, <3>2
        <3>4. QED
            BY <1>1, <3>1, <3>3 DEF PendingIn
    <2>3. QED
        BY <1>2, <2>1, <2>2 DEF PendingIn
<1>3. NoOlderTerm(q, p, g, i + 1) => NoOlderTerm(Tail(q), p, g, i)
    BY <1>1 DEF NoOlderTerm
<1>4. QED
    BY <1>2, <1>3

(* A host step that appends an event other than an exit, and changes the  *)
(* host's table only by starting a process, keeps RExtra: a start time    *)
(* the table held stays, and no exit is added.                            *)
LEMMA AppendNonTerm ==
    ASSUME RInv, NEW e \in Event, e.type # "terminate",
           queue' = Append(queue, e),
           \A r \in Pids, g \in Starts : live[r] = g => live'[r] = g,
           TermBeforeLive(live', queue),
           e.type \in Categories => live'[e.pid] = e.start,
           UNCHANGED <<markers, pc, job, ended, matched>>
    PROVE  RExtra'
<1> DEFINE n == Len(queue) + 1
<1>0. queue \in Seq(Event) /\ RExtra /\ job \in [Workers -> Event]
    BY DEF RInv, WInv, TypeInv
<1>1. /\ Len(queue') = n /\ queue'[n] = e
      /\ \A j \in 1..Len(queue) : queue'[j] = queue[j]
      /\ \A j \in 1..n : j \in 1..Len(queue) \/ j = n
    BY <1>0
(* A process pending before is pending after, with no older exit added.   *)
<1>2. ASSUME NEW r \in Pids, NEW g \in Starts, NEW i \in Nat \ {0},
             PendingIn(live, queue, r, g), NoOlderTerm(queue, r, g, i)
      PROVE  PendingIn(live', queue', r, g) /\ NoOlderTerm(queue', r, g, i)
    BY <1>0, <1>2, AppendPending
<1>3. TermSorted(queue')
    BY <1>0, <1>1 DEF RExtra, TermSorted
<1>4. TermBeforeLive(live', queue')
    BY <1>1 DEF TermBeforeLive
<1>5. QueuedPending(live', queue')
    <2> SUFFICES ASSUME NEW i \in 1..n, queue'[i].type \in Categories
                 PROVE  /\ \/ live'[queue'[i].pid] = queue'[i].start
                           \/ \E j \in i + 1..n : IsTerm(queue'[j], queue'[i].pid, queue'[i].start)
                        /\ NoOlderTerm(queue', queue'[i].pid, queue'[i].start, i + 1)
        BY <1>1 DEF QueuedPending
    <2>1. CASE i = n
        BY <1>1, <2>1 DEF NoOlderTerm
    <2>2. CASE i \in 1..Len(queue)
        <3>1. queue[i] \in Event /\ queue'[i] = queue[i]
            BY <1>0, <1>1, <2>2
        <3>2. /\ \/ live[queue[i].pid] = queue[i].start
                 \/ \E j \in i + 1..Len(queue) : IsTerm(queue[j], queue[i].pid, queue[i].start)
              /\ NoOlderTerm(queue, queue[i].pid, queue[i].start, i + 1)
            BY <1>0, <2>2, <3>1 DEF RExtra, QueuedPending
        <3>3. queue[i].pid \in Pids /\ queue[i].start \in Starts
            BY <3>1 DEF Event
        <3>4. NoOlderTerm(Append(queue, e), queue[i].pid, queue[i].start, i + 1)
            <4>1. i + 1 \in Nat \ {0} /\ e.type # "terminate"
                BY <2>2
            <4>2. QED
                BY <1>0, <3>2, <4>1, AppendPending
        <3>6. NoOlderTerm(queue', queue[i].pid, queue[i].start, i + 1)
            BY <3>4
        <3>5. QED
            BY <1>1, <3>1, <3>2, <3>3, <3>6
    <2>3. QED
        BY <1>1, <2>1, <2>2
<1>6. JobUnmarked'
    <2> SUFFICES ASSUME NEW v \in Workers, pc[v] \in Categories
                 PROVE  /\ markers[pc[v]][job[v].pid] = 0
                        /\ PendingIn(live', queue', job[v].pid, job[v].start)
                        /\ NoOlderTerm(queue', job[v].pid, job[v].start, 1)
        BY DEF JobUnmarked
    <2>1. job[v].pid \in Pids /\ job[v].start \in Starts
        BY <1>0 DEF Event
    <2>2. QED
        BY <1>0, <1>2, <2>1 DEF RExtra, JobUnmarked
<1>7. MatchedMarked'
    <2> SUFFICES ASSUME NEW x \in matched, <<x[1], x[2]>> \notin ended
                 PROVE  /\ markers[x[3]][x[1]] = x[2]
                        /\ PendingIn(live', queue', x[1], x[2])
                        /\ NoOlderTerm(queue', x[1], x[2], 1)
        BY DEF MatchedMarked
    <2>1. x[1] \in Pids /\ x[2] \in Starts
        BY <1>0 DEF RExtra
    <2>2. QED
        BY <1>0, <1>2, <2>1 DEF RExtra, MatchedMarked
<1>8. QED
    BY <1>0, <1>3, <1>4, <1>5, <1>6, <1>7 DEF RExtra

LEMMA SpawnRExtra ==
    ASSUME RInv, NEW p \in Pids, Spawn(p)
    PROVE  RExtra'
<1> DEFINE e == [type |-> "create", caller |-> p, pid |-> p, start |-> clock + 1]
<1>0. /\ queue \in Seq(Event) /\ live \in [Pids -> 0..MaxStart] /\ clock \in Starts
      /\ Bounded /\ RExtra
    BY DEF RInv, WInv, TypeInv
<1>1. /\ e \in Event /\ e.type # "terminate" /\ queue' = Append(queue, e)
      /\ live' = [live EXCEPT ![p] = clock + 1] /\ live[p] = 0
      /\ UNCHANGED <<markers, pc, job, ended, matched>>
    BY <1>0, WorkersAssumption DEF Spawn, Report, Event, Starts
<1>2. \A r \in Pids, g \in Starts : live[r] = g => live'[r] = g
    BY <1>0, <1>1 DEF Starts
<1>3. TermBeforeLive(live', queue)
    <2> SUFFICES ASSUME NEW j \in 1..Len(queue), queue[j].type = "terminate",
                        live'[queue[j].pid] # 0
                 PROVE  queue[j].start < live'[queue[j].pid]
        BY DEF TermBeforeLive
    <2>1. queue[j] \in Event /\ queue[j].start <= clock
        BY <1>0 DEF Bounded
    <2>2. CASE queue[j].pid = p
        BY <1>0, <1>1, <2>1, <2>2 DEF Event, Starts
    <2>3. CASE queue[j].pid # p
        BY <1>0, <1>1, <2>1, <2>3 DEF RExtra, TermBeforeLive, Event
    <2>4. QED
        BY <2>2, <2>3
<1>4. e.type \in Categories => live'[e.pid] = e.start
    BY DEF Categories
<1>5. QED
    BY <1>1, <1>2, <1>3, <1>4, AppendNonTerm

LEMMA TouchRExtra ==
    ASSUME RInv, NEW p \in Pids, NEW q \in Pids, NEW c \in Categories, Touch(p, q, c)
    PROVE  RExtra'
<1> DEFINE e == [type |-> c, caller |-> p, pid |-> q, start |-> live[q]]
<1>0. queue \in Seq(Event) /\ live \in [Pids -> 0..MaxStart] /\ RExtra
    BY DEF RInv, WInv, TypeInv
<1>1. /\ e \in Event /\ e.type # "terminate" /\ queue' = Append(queue, e)
      /\ live' = live
      /\ UNCHANGED <<markers, pc, job, ended, matched>>
    BY <1>0 DEF Touch, Report, Event, Starts, Categories
<1>2. QED
    BY <1>0, <1>1, AppendNonTerm DEF RExtra

(* An exit appended for the live process at PID p comes after every exit  *)
(* of p already queued (TermBeforeLive), and a process pending under the *)
(* start time live[p] stays pending through the new exit.                 *)
LEMMA ExitRExtra ==
    ASSUME RInv, NEW p \in Pids, Exit(p)
    PROVE  RExtra'
<1> DEFINE e == [type |-> "terminate", caller |-> p, pid |-> p, start |-> live[p]]
           n == Len(queue) + 1
<1>0. /\ queue \in Seq(Event) /\ live \in [Pids -> 0..MaxStart] /\ RExtra
      /\ job \in [Workers -> Event]
    BY DEF RInv, WInv, TypeInv
<1>1. /\ e \in Event /\ queue' = Append(queue, e) /\ live[p] # 0
      /\ live' = [live EXCEPT ![p] = 0]
      /\ UNCHANGED <<markers, pc, job, ended, matched>>
    BY <1>0 DEF Exit, Report, Event, Starts
<1>2. /\ Len(queue') = n /\ queue'[n] = e
      /\ \A j \in 1..Len(queue) : queue'[j] = queue[j]
      /\ \A j \in 1..n : j \in 1..Len(queue) \/ j = n
    BY <1>0, <1>1
(* A start time pending at p is not newer than live[p].                   *)
<1>3. ASSUME NEW g \in Starts, PendingIn(live, queue, p, g)
      PROVE  ~(live[p] < g)
    <2>1. CASE live[p] = g
        BY <2>1 DEF Starts
    <2>2. CASE \E j \in 1..Len(queue) : IsTerm(queue[j], p, g)
        <3>1. PICK j \in 1..Len(queue) : IsTerm(queue[j], p, g)
            BY <2>2
        <3>2. g < live[p]
            BY <1>0, <1>1, <3>1 DEF RExtra, TermBeforeLive, IsTerm
        <3>3. QED
            BY <1>0, <3>2 DEF Starts
    <2>3. QED
        BY <1>3, <2>1, <2>2 DEF PendingIn
<1>4. ASSUME NEW r \in Pids, NEW g \in Starts, NEW i \in Nat \ {0},
             PendingIn(live, queue, r, g), NoOlderTerm(queue, r, g, i)
      PROVE  PendingIn(live', queue', r, g) /\ NoOlderTerm(queue', r, g, i)
    <2>1. ~(e.type = "terminate" /\ e.pid = r /\ e.start < g)
        BY <1>3, <1>4
    <2>2. live[r] = g => live'[r] = g \/ IsTerm(e, r, g)
        BY <1>0, <1>1 DEF IsTerm
    <2>3. QED
        BY <1>0, <1>1, <1>4, <2>1, <2>2, AppendPending
<1>5. TermSorted(queue')
    <2> SUFFICES ASSUME NEW i \in 1..n, NEW j \in 1..n, i < j,
                        queue'[i].type = "terminate", queue'[j].type = "terminate",
                        queue'[i].pid = queue'[j].pid
                 PROVE  queue'[i].start < queue'[j].start
        BY <1>2 DEF TermSorted
    <2>1. CASE j = n
        <3>1. i \in 1..Len(queue) /\ queue'[i] = queue[i] /\ queue[i].pid = p
            BY <1>2, <2>1
        <3>2. QED
            BY <1>0, <1>1, <1>2, <2>1, <3>1 DEF RExtra, TermBeforeLive
    <2>2. CASE j # n
        <3>1. i \in 1..Len(queue) /\ j \in 1..Len(queue)
            BY <1>2, <2>2
        <3>2. queue'[i] = queue[i] /\ queue'[j] = queue[j]
            BY <1>2, <3>1
        <3>3. QED
            BY <1>0, <3>1, <3>2 DEF RExtra, TermSorted
    <2>3. QED
        BY <2>1, <2>2
<1>6. TermBeforeLive(live', queue')
    <2> SUFFICES ASSUME NEW j \in 1..n, queue'[j].type = "terminate",
                        live'[queue'[j].pid] # 0
                 PROVE  queue'[j].start < live'[queue'[j].pid]
        BY <1>2 DEF TermBeforeLive
    <2>1. j \in 1..Len(queue) /\ queue[j].pid # p
        BY <1>0, <1>1, <1>2
    <2>2. queue[j] \in Event
        BY <1>0, <2>1
    <2>3. QED
        BY <1>0, <1>1, <1>2, <2>1, <2>2 DEF RExtra, TermBeforeLive, Event
<1>7. QueuedPending(live', queue')
    <2> SUFFICES ASSUME NEW i \in 1..n, queue'[i].type \in Categories
                 PROVE  /\ \/ live'[queue'[i].pid] = queue'[i].start
                           \/ \E j \in i + 1..n : IsTerm(queue'[j], queue'[i].pid, queue'[i].start)
                        /\ NoOlderTerm(queue', queue'[i].pid, queue'[i].start, i + 1)
        BY <1>2 DEF QueuedPending
    <2>1. i \in 1..Len(queue) /\ queue'[i] = queue[i] /\ queue[i] \in Event
        BY <1>0, <1>1, <1>2 DEF Categories
    <2> DEFINE r == queue[i].pid
               g == queue[i].start
    <2>2. r \in Pids /\ g \in Starts
        BY <2>1 DEF Event
    <2>3. /\ \/ live[r] = g
             \/ \E j \in i + 1..Len(queue) : IsTerm(queue[j], r, g)
          /\ NoOlderTerm(queue, r, g, i + 1)
        BY <1>0, <2>1 DEF RExtra, QueuedPending
    <2>4. PendingIn(live, queue, r, g)
        BY <2>1, <2>3 DEF PendingIn
    <2>5. NoOlderTerm(queue', r, g, i + 1)
        BY <1>4, <2>2, <2>3, <2>4
    <2>6. \/ live'[r] = g
          \/ \E j \in i + 1..n : IsTerm(queue'[j], r, g)
        <3>1. CASE live[r] = g /\ r = p
            BY <1>2, <2>1, <3>1 DEF IsTerm
        <3>2. CASE live[r] = g /\ r # p
            BY <1>1, <3>2
        <3>3. CASE \E j \in i + 1..Len(queue) : IsTerm(queue[j], r, g)
            BY <1>2, <2>1, <3>3
        <3>4. QED
            BY <2>3, <3>1, <3>2, <3>3
    <2>7. QED
        BY <2>1, <2>5, <2>6
<1>8. JobUnmarked'
    <2> SUFFICES ASSUME NEW v \in Workers, pc[v] \in Categories
                 PROVE  /\ markers[pc[v]][job[v].pid] = 0
                        /\ PendingIn(live', queue', job[v].pid, job[v].start)
                        /\ NoOlderTerm(queue', job[v].pid, job[v].start, 1)
        BY <1>1 DEF JobUnmarked
    <2>1. job[v].pid \in Pids /\ job[v].start \in Starts
        BY <1>0 DEF Event
    <2>2. QED
        BY <1>0, <1>4, <2>1 DEF RExtra, JobUnmarked
<1>9. MatchedMarked'
    <2> SUFFICES ASSUME NEW x \in matched, <<x[1], x[2]>> \notin ended
                 PROVE  /\ markers[x[3]][x[1]] = x[2]
                        /\ PendingIn(live', queue', x[1], x[2])
                        /\ NoOlderTerm(queue', x[1], x[2], 1)
        BY <1>1 DEF MatchedMarked
    <2>1. x[1] \in Pids /\ x[2] \in Starts
        BY <1>0 DEF RExtra
    <2>2. QED
        BY <1>0, <1>4, <2>1 DEF RExtra, MatchedMarked
<1>10. QED
    BY <1>0, <1>1, <1>5, <1>6, <1>7, <1>8, <1>9 DEF RExtra

(* Taking the head keeps the order facts of the events that remain.       *)
LEMMA TailQueue ==
    ASSUME NEW q \in Seq(Event), q # <<>>, NEW l,
           TermSorted(q), TermBeforeLive(l, q), QueuedPending(l, q)
    PROVE  TermSorted(Tail(q)) /\ TermBeforeLive(l, Tail(q)) /\ QueuedPending(l, Tail(q))
<1> DEFINE t == Tail(q)
           m == Len(q) - 1
<1>1. /\ Len(t) = m /\ m \in Nat
      /\ \A j \in 1..m : t[j] = q[j + 1] /\ j + 1 \in 1..Len(q)
    OBVIOUS
<1>2. TermSorted(t)
    BY <1>1 DEF TermSorted
<1>3. TermBeforeLive(l, t)
    BY <1>1 DEF TermBeforeLive
<1>4. QueuedPending(l, t)
    <2> SUFFICES ASSUME NEW i \in 1..m, t[i].type \in Categories
                 PROVE  /\ \/ l[t[i].pid] = t[i].start
                           \/ \E j \in i + 1..m : IsTerm(t[j], t[i].pid, t[i].start)
                        /\ NoOlderTerm(t, t[i].pid, t[i].start, i + 1)
        BY <1>1 DEF QueuedPending
    <2>1. t[i] = q[i + 1] /\ i + 1 \in 1..Len(q)
        BY <1>1
    <2>2. /\ \/ l[q[i + 1].pid] = q[i + 1].start
             \/ \E j \in i + 2..Len(q) : IsTerm(q[j], q[i + 1].pid, q[i + 1].start)
          /\ NoOlderTerm(q, q[i + 1].pid, q[i + 1].start, i + 2)
        BY <2>1 DEF QueuedPending
    <2>3. NoOlderTerm(t, q[i + 1].pid, q[i + 1].start, i + 1)
        <3>1. i + 1 \in Nat \ {0} /\ (i + 1) + 1 = i + 2
            OBVIOUS
        <3>2. QED
            BY <2>2, <3>1, TailPending
    <2>4. \/ l[q[i + 1].pid] = q[i + 1].start
          \/ \E j \in i + 1..m : IsTerm(t[j], q[i + 1].pid, q[i + 1].start)
        <3>1. CASE \E j \in i + 2..Len(q) : IsTerm(q[j], q[i + 1].pid, q[i + 1].start)
            <4>1. PICK j \in i + 2..Len(q) : IsTerm(q[j], q[i + 1].pid, q[i + 1].start)
                BY <3>1
            <4>2. j - 1 \in i + 1..m /\ t[j - 1] = q[j]
                BY <1>1
            <4>3. QED
                BY <4>1, <4>2
        <3>2. QED
            BY <2>2, <3>1
    <2>5. QED
        BY <2>1, <2>3, <2>4
<1>5. QED
    BY <1>2, <1>3, <1>4

(* A worker taking the head of the source keeps RExtra when it is the     *)
(* only worker.  An exit it handles ends no process a match still holds:  *)
(* a matched start time g of the exit's PID is pending and no exit older  *)
(* than g is queued, so the head, the oldest exit of that PID, is g's own *)
(* exit or one newer than g.                                               *)
LEMMA TakeRExtra ==
    ASSUME RInv, NEW w, Workers = {w}, Take(w)
    PROVE  RExtra'
<1>0. /\ queue \in Seq(Event) /\ queue # <<>> /\ RExtra
      /\ live \in [Pids -> 0..MaxStart] /\ job \in [Workers -> Event]
      /\ markers \in [Categories -> [Pids -> 0..MaxStart]]
      /\ pc \in [Workers -> {"idle"} \cup Categories]
      /\ pc[w] = "idle" /\ queue' = Tail(queue)
      /\ live' = live /\ matched' = matched
    BY DEF RInv, WInv, TypeInv, Take
<1>1. PICK h \in Event : h = Head(queue)
    BY <1>0
<1>2. h = queue[1] /\ 1 \in 1..Len(queue)
    BY <1>0, <1>1
<1>3. TermSorted(queue') /\ TermBeforeLive(live', queue') /\ QueuedPending(live', queue')
    BY <1>0, TailQueue DEF RExtra
<1>4. matched' \subseteq Pids \X Starts \X Categories
    BY <1>0 DEF RExtra
(* A pending start time whose exit is not the head stays pending.         *)
<1>5. ASSUME NEW r, NEW g, PendingIn(live, queue, r, g), NoOlderTerm(queue, r, g, 1),
             ~IsTerm(h, r, g)
      PROVE  PendingIn(live', queue', r, g) /\ NoOlderTerm(queue', r, g, 1)
    <2>1. NoOlderTerm(queue, r, g, 1 + 1)
        BY <1>5 DEF NoOlderTerm
    <2>2. QED
        BY <1>0, <1>1, <1>5, <2>1, TailPending
(* The matches, when the head is not an exit and markers and ended stay. *)
<1>6. ASSUME h.type # "terminate", markers' = markers, ended' = ended
      PROVE  MatchedMarked'
    <2> SUFFICES ASSUME NEW x \in matched, <<x[1], x[2]>> \notin ended
                 PROVE  /\ markers[x[3]][x[1]] = x[2]
                        /\ PendingIn(live', queue', x[1], x[2])
                        /\ NoOlderTerm(queue', x[1], x[2], 1)
        BY <1>0, <1>6 DEF MatchedMarked
    <2>1. ~IsTerm(h, x[1], x[2])
        BY <1>6 DEF IsTerm
    <2>2. QED
        BY <1>0, <1>5, <2>1 DEF RExtra, MatchedMarked
<1>7. CASE h.type = "terminate"
    <2>1. markers' = Cleanup(h.pid) /\ ended' = ended \cup {<<h.pid, h.start>>}
          /\ pc' = pc
        BY <1>0, <1>1, <1>7 DEF Take, Categories
    <2>2. JobUnmarked'
        BY <1>0, <2>1 DEF JobUnmarked, Categories
    <2>3. MatchedMarked'
        <3> SUFFICES ASSUME NEW x \in matched, <<x[1], x[2]>> \notin ended'
                     PROVE  /\ markers'[x[3]][x[1]] = x[2]
                            /\ PendingIn(live', queue', x[1], x[2])
                            /\ NoOlderTerm(queue', x[1], x[2], 1)
            BY <1>0 DEF MatchedMarked
        <3>1. /\ x[1] \in Pids /\ x[2] \in Starts /\ x[3] \in Categories
              /\ <<x[1], x[2]>> \notin ended /\ <<x[1], x[2]>> # <<h.pid, h.start>>
            BY <1>0, <2>1 DEF RExtra
        <3>2. /\ markers[x[3]][x[1]] = x[2]
              /\ PendingIn(live, queue, x[1], x[2])
              /\ NoOlderTerm(queue, x[1], x[2], 1)
            BY <1>0, <3>1 DEF RExtra, MatchedMarked
        (* The head's exit is older than any start time pending at its PID  *)
        (* other than its own, which NoOlderTerm forbids.                   *)
        <3>3. x[1] # h.pid
            <4> SUFFICES ASSUME x[1] = h.pid PROVE FALSE
                OBVIOUS
            <4>1. h.start \in Nat /\ x[2] \in Nat /\ h.start # x[2]
                BY <1>1, <3>1 DEF Event, Starts
            <4>2. ~(h.start < x[2])
                BY <1>2, <1>7, <3>2 DEF NoOlderTerm
            <4>3. CASE live[x[1]] = x[2]
                <5>1. live[h.pid] # 0 /\ h.start < live[h.pid]
                    BY <1>0, <1>2, <1>7, <3>1, <4>3 DEF RExtra, TermBeforeLive, Starts
                <5>2. QED
                    BY <4>1, <4>2, <4>3, <5>1
            <4>4. CASE \E j \in 1..Len(queue) : IsTerm(queue[j], x[1], x[2])
                <5>1. PICK j \in 1..Len(queue) : IsTerm(queue[j], x[1], x[2])
                    BY <4>4
                <5>2. j # 1
                    BY <1>2, <4>1, <5>1 DEF IsTerm
                <5>3. h.start < x[2]
                    BY <1>0, <1>2, <1>7, <5>1, <5>2 DEF RExtra, TermSorted, IsTerm
                <5>4. QED
                    BY <4>2, <5>3
            <4>5. QED
                BY <3>2, <4>3, <4>4 DEF PendingIn
        <3>4. markers'[x[3]][x[1]] = markers[x[3]][x[1]]
            BY <1>0, <2>1, <3>1, <3>3 DEF Cleanup
        <3>5. ~IsTerm(h, x[1], x[2])
            BY <3>3 DEF IsTerm
        <3>6. QED
            BY <1>5, <3>2, <3>4, <3>5
    <2>4. QED
        BY <1>3, <1>4, <2>2, <2>3 DEF RExtra
<1>8. CASE h.type # "terminate" /\ pc' = pc
    <2>1. markers' = markers /\ ended' = ended
        BY <1>1, <1>8 DEF Take
    <2>2. JobUnmarked'
        BY <1>0, <1>8 DEF JobUnmarked, Categories
    <2>3. QED
        BY <1>3, <1>4, <1>6, <1>8, <2>1, <2>2 DEF RExtra
<1>9. CASE h.type # "terminate" /\ pc' # pc
    <2>1. /\ h.type \in Categories /\ ~IsMatched(h.type, h.pid)
          /\ pc' = [pc EXCEPT ![w] = h.type] /\ job' = [job EXCEPT ![w] = h]
          /\ markers' = markers /\ ended' = ended
        BY <1>0, <1>1, <1>9 DEF Take
    <2>2. /\ \/ live[h.pid] = h.start
             \/ \E j \in 1 + 1..Len(queue) : IsTerm(queue[j], h.pid, h.start)
          /\ NoOlderTerm(queue, h.pid, h.start, 1 + 1)
        BY <1>0, <1>2, <2>1 DEF RExtra, QueuedPending
    <2>3. PendingIn(live, queue, h.pid, h.start) /\ NoOlderTerm(queue, h.pid, h.start, 1)
        BY <1>2, <2>1, <2>2 DEF PendingIn, NoOlderTerm, IsTerm, Categories
    <2>4. PendingIn(live', queue', h.pid, h.start) /\ NoOlderTerm(queue', h.pid, h.start, 1)
        <3>1. PendingIn(live, Tail(queue), h.pid, h.start)
            <4>1. CASE live[h.pid] = h.start
                BY <4>1 DEF PendingIn
            <4>2. CASE \E j \in 1 + 1..Len(queue) : IsTerm(queue[j], h.pid, h.start)
                <5>1. PICK j \in 1 + 1..Len(queue) : IsTerm(queue[j], h.pid, h.start)
                    BY <4>2
                <5>2. j - 1 \in 1..Len(Tail(queue)) /\ Tail(queue)[j - 1] = queue[j]
                    BY <1>0, <5>1
                <5>3. QED
                    BY <5>1, <5>2 DEF PendingIn
            <4>3. QED
                BY <2>2, <4>1, <4>2
        <3>2. NoOlderTerm(Tail(queue), h.pid, h.start, 1)
            <4>1. 1 \in Nat \ {0}
                OBVIOUS
            <4>2. QED
                BY <1>0, <2>2, <4>1, TailPending
        <3>3. QED
            BY <1>0, <3>1, <3>2
    <2>5. JobUnmarked'
        <3> SUFFICES ASSUME NEW v \in Workers, pc'[v] \in Categories
                     PROVE  /\ markers'[pc'[v]][job'[v].pid] = 0
                            /\ PendingIn(live', queue', job'[v].pid, job'[v].start)
                            /\ NoOlderTerm(queue', job'[v].pid, job'[v].start, 1)
            BY DEF JobUnmarked
        <3>1. v = w /\ pc'[v] = h.type /\ job'[v] = h
            BY <1>0, <2>1
        <3>2. QED
            BY <2>1, <2>4, <3>1 DEF IsMatched
    <2>6. QED
        BY <1>3, <1>4, <1>6, <1>9, <2>1, <2>5 DEF RExtra
<1>10. QED
    BY <1>7, <1>8, <1>9

(* The only worker finishing its scan keeps RExtra: its job was unmarked, *)
(* so a match marks a start time no other open match holds.               *)
LEMMA FinishRExtra ==
    ASSUME RInv, NEW w, Workers = {w}, Finish(w)
    PROVE  RExtra'
<1> PICK e \in Event : e = job[w]
    BY DEF RInv, WInv, TypeInv
<1>0. /\ pc[w] \in Categories /\ e.type = pc[w] /\ RExtra
      /\ markers \in [Categories -> [Pids -> 0..MaxStart]]
      /\ pc \in [Workers -> {"idle"} \cup Categories]
      /\ pc' = [pc EXCEPT ![w] = "idle"]
      /\ UNCHANGED <<live, queue, ended>>
    BY DEF RInv, WInv, TypeInv, JobOpen, Finish
<1>1. /\ e.pid \in Pids /\ e.start \in Starts /\ e.type \in Categories
      /\ markers[e.type][e.pid] = 0
      /\ PendingIn(live, queue, e.pid, e.start)
      /\ NoOlderTerm(queue, e.pid, e.start, 1)
    BY <1>0 DEF RExtra, JobUnmarked, Event
<1>2. TermSorted(queue') /\ TermBeforeLive(live', queue') /\ QueuedPending(live', queue')
    BY <1>0 DEF RExtra
<1>3. JobUnmarked'
    BY <1>0 DEF JobUnmarked, Categories
<1>4. CASE UNCHANGED <<markers, matched>>
    BY <1>0, <1>2, <1>3, <1>4 DEF RExtra, MatchedMarked
<1>5. CASE /\ markers' = [markers EXCEPT ![e.type][e.pid] = e.start]
           /\ matched' = matched \cup {<<e.pid, e.start, e.type>>}
    <2>1. matched' \subseteq Pids \X Starts \X Categories
        BY <1>0, <1>1, <1>5 DEF RExtra
    <2>2. MatchedMarked'
        <3> SUFFICES ASSUME NEW x \in matched', <<x[1], x[2]>> \notin ended
                     PROVE  /\ markers'[x[3]][x[1]] = x[2]
                            /\ PendingIn(live, queue, x[1], x[2])
                            /\ NoOlderTerm(queue, x[1], x[2], 1)
            BY <1>0 DEF MatchedMarked
        <3>1. CASE x = <<e.pid, e.start, e.type>>
            BY <1>0, <1>1, <1>5, <3>1
        <3>2. CASE x \in matched
            <4>1. /\ x[1] \in Pids /\ x[2] \in Starts /\ x[3] \in Categories
                  /\ markers[x[3]][x[1]] = x[2]
                  /\ PendingIn(live, queue, x[1], x[2])
                  /\ NoOlderTerm(queue, x[1], x[2], 1)
                BY <1>0, <3>2 DEF RExtra, MatchedMarked
            <4>2. ~(x[3] = e.type /\ x[1] = e.pid)
                BY <1>1, <4>1 DEF Starts
            <4>3. QED
                BY <1>0, <1>1, <1>5, <4>1, <4>2
        <3>3. QED
            BY <1>5, <3>1, <3>2
    <2>3. QED
        BY <1>2, <1>3, <2>1, <2>2 DEF RExtra
<1>6. QED
    BY <1>4, <1>5 DEF Finish

(* The scan the only worker finishes is of a process not matched in that  *)
(* category: a match of its open job would have marked it.                *)
LEMMA FinishRescanFree ==
    ASSUME RInv, NEW w, Workers = {w}, Finish(w)
    PROVE  RescanFree
<1> PICK e \in Event : e = job[w]
    BY DEF RInv, WInv, TypeInv
<1>1. /\ pc[w] \in Categories /\ e.type = pc[w]
      /\ <<e.pid, e.start>> \notin ended
      /\ markers[e.type][e.pid] = 0
      /\ scanned' = {<<e.pid, e.start, e.type>>}
    BY DEF RInv, WInv, JobOpen, RExtra, JobUnmarked, Finish
<1>2. <<e.pid, e.start, e.type>> \notin matched
    <2> SUFFICES ASSUME <<e.pid, e.start, e.type>> \in matched PROVE FALSE
        OBVIOUS
    <2>1. markers[e.type][e.pid] = e.start
        BY <1>1 DEF RInv, RExtra, MatchedMarked
    <2>2. QED
        BY <1>1, <2>1 DEF Event, Starts
<1>3. QED
    BY <1>1, <1>2 DEF RescanFree

LEMMA InitRInv == Init => RInv
<1> SUFFICES ASSUME Init PROVE RInv
    OBVIOUS
<1>1. WInv
    BY InitWInv
<1>2. RExtra
    BY DEF Init, RExtra, TermSorted, TermBeforeLive, QueuedPending, JobUnmarked,
           MatchedMarked, Categories
<1>3. QED
    BY <1>1, <1>2 DEF RInv

LEMMA NextRInv ==
    ASSUME NEW w, Workers = {w}
    PROVE  RInv /\ [Next]_vars => RInv'
<1> SUFFICES ASSUME RInv, [Next]_vars PROVE RInv'
    OBVIOUS
<1>0. WInv'
    BY NextWInv DEF RInv
<1>1. ASSUME NEW p \in Pids, Spawn(p) PROVE RExtra'
    BY <1>1, SpawnRExtra
<1>2. ASSUME NEW p \in Pids, Exit(p) PROVE RExtra'
    BY <1>2, ExitRExtra
<1>3. ASSUME NEW p \in Pids, NEW q \in Pids, NEW c \in Categories, Touch(p, q, c)
      PROVE  RExtra'
    BY <1>3, TouchRExtra
<1>4. ASSUME NEW v \in Workers, Take(v) PROVE RExtra'
    BY <1>4, TakeRExtra
<1>5. ASSUME NEW v \in Workers, Finish(v) PROVE RExtra'
    BY <1>5, FinishRExtra
<1>6. CASE UNCHANGED vars
    <2>1. /\ live' = live /\ queue' = queue /\ markers' = markers /\ pc' = pc
          /\ job' = job /\ ended' = ended /\ matched' = matched
        BY <1>6 DEF vars
    <2>2. TermSorted(queue') /\ TermBeforeLive(live', queue') /\ QueuedPending(live', queue')
        BY <2>1 DEF RInv, RExtra
    <2>3. JobUnmarked' /\ MatchedMarked'
        BY <2>1 DEF RInv, RExtra, JobUnmarked, MatchedMarked
    <2>4. QED
        BY <1>0, <2>1, <2>2, <2>3 DEF RInv, RExtra
<1>7. QED
    BY <1>0, <1>1, <1>2, <1>3, <1>4, <1>5, <1>6 DEF Next, RInv

LEMMA NextRescanFree ==
    ASSUME NEW w, Workers = {w}
    PROVE  RInv /\ [Next]_vars => [RescanFree]_vars
<1> SUFFICES ASSUME RInv, [Next]_vars PROVE [RescanFree]_vars
    OBVIOUS
<1>1. ASSUME NEW v \in Workers, Finish(v) PROVE RescanFree
    BY <1>1, FinishRescanFree
<1>2. ASSUME NEW p \in Pids, Spawn(p) \/ Exit(p) PROVE scanned' = {}
    BY <1>2 DEF Spawn, Exit, Report
<1>3. ASSUME NEW p \in Pids, NEW q \in Pids, NEW c \in Categories, Touch(p, q, c)
      PROVE  scanned' = {}
    BY <1>3 DEF Touch, Report
<1>4. ASSUME NEW v \in Workers, Take(v) PROVE scanned' = {}
    BY <1>4 DEF Take
<1>5. CASE UNCHANGED vars
    BY <1>5
<1>6. QED
    BY <1>1, <1>2, <1>3, <1>4, <1>5 DEF Next, RescanFree

(* NoRescanAfterMatch, for the pipeline with one worker thread: a process *)
(* that an RWX allocation or mapping scan matched is never scanned again  *)
(* in that category while it lives, because the match's marker stays set  *)
(* until its TerminateProcess is handled (scanner.go ProcessEvent and     *)
(* isMatched).  With two workers TLC finds a process scanned twice: both  *)
(* workers take its events before either scan records its match.         *)
THEOREM SingleWorkerNoRescan ==
    ASSUME NEW w, Workers = {w}
    PROVE  Spec => NoRescanAfterMatch
<1>1. Init => RInv
    BY InitRInv
<1>2. RInv /\ [Next]_vars => RInv'
    BY NextRInv
<1>3. RInv /\ [Next]_vars => [RescanFree]_vars
    BY NextRescanFree
<1>4. QED
    BY <1>1, <1>2, <1>3, PTL DEF Spec, NoRescanAfterMatch
=============================================================================
