----------------------- MODULE PsProcessorThreadProofs -----------------------
(***************************************************************************)
(* The proof that a pipeline with one worker keeps every handled thread of *)
(* a live process in that process's thread map (ThreadsTracked).  On top   *)
(* of LInv, the inductive invariant says how the start times of the queued *)
(* events relate to each other, to the OS and to the handled history.      *)
(***************************************************************************)
EXTENDS PsProcessorLiveProofs

\* A create or rundown of a process, and a thread-family event.
IsCreate(e) == e.type \in ProcessTypes /\ ~IsExit(e)
IsThread(e) == e.type \in ThreadTypes

(* Facts about a queue q, given the last start time c, the OS's start     *)
(* times o, and the handled processes SL and threads ST.                  *)

\* No queued start time exceeds the last one handed out.
GenBound(q, c) == \A i \in 1..Len(q) : q[i].gen =< c

\* A queued create carries a start time later than every event before it.
GenOrder(q) ==
    \A i, j \in 1..Len(q) : i < j /\ IsCreate(q[j]) => q[i].gen < q[j].gen

\* Neither the process of e nor a thread of it is in the handled history.
Fresh(e, SL, ST) ==
    /\ <<e.pid, e.gen>> \notin SL
    /\ \A x \in ST : <<x[1], x[2]>> # <<e.pid, e.gen>>

\* A queued create's process is not handled yet.
CreateFresh(q, SL, ST) == \A i \in 1..Len(q) : IsCreate(q[i]) => Fresh(q[i], SL, ST)

\* A queued terminate's process no longer runs.
ExitStale(q, o) == \A i \in 1..Len(q) : IsExit(q[i]) => o[q[i].pid] # q[i].gen

\* No thread event of a process is queued behind that process's terminate.
NoThreadAfterExit(q) ==
    \A i, j \in 1..Len(q) :
       i < j /\ IsExit(q[i]) /\ IsThread(q[j]) /\ q[j].pid = q[i].pid
       => q[j].gen # q[i].gen

\* The create of process g of PID p is queued before position j.
CreatedBefore(q, j, p, g) ==
    \E i \in 1..j - 1 : IsCreate(q[i]) /\ q[i].pid = p /\ q[i].gen = g

\* A queued thread event belongs to a handled process or to one whose
\* create is ahead of it.
ThreadOfSeen(q, SL) ==
    \A j \in 1..Len(q) :
       IsThread(q[j]) =>
          <<q[j].pid, q[j].gen>> \in SL \/ CreatedBefore(q, j, q[j].pid, q[j].gen)

\* A process the OS runs is handled or has its create queued.
OsCreated(q, o, SL) ==
    \A p \in Pids : o[p] # 0 => <<p, o[p]>> \in SL \/ CreatedBefore(q, Len(q) + 1, p, o[p])

QueueFacts(q, c, o, SL, ST) ==
    /\ GenBound(q, c) /\ GenOrder(q) /\ CreateFresh(q, SL, ST) /\ ExitStale(q, o)
    /\ NoThreadAfterExit(q) /\ ThreadOfSeen(q, SL) /\ OsCreated(q, o, SL)

(* No start time the OS or the history holds exceeds the last one handed  *)
(* out.                                                                    *)
HistBound ==
    /\ \A p \in Pids : os[p] =< clock
    /\ \A x \in seenLive : x[2] =< clock
    /\ \A x \in seenThreads : x[2] =< clock

(* The handled history holds at most one process per PID.                 *)
SingleSeen == \A x, y \in seenLive : x[1] = y[1] => x = y

ThreadFacts ==
    /\ HistBound /\ SingleSeen /\ ThreadsTracked
    /\ \A v \in Workers : QueueFacts(queue[v], clock, os, seenLive, seenThreads)

TInv == LInv /\ ThreadFacts
-----------------------------------------------------------------------------
(* What an event carries: a PID and a start time, a start for a process  *)
(* or thread event.                                                       *)
LEMMA EventFields ==
    ASSUME NEW e \in Event
    PROVE  /\ e.pid \in Pids /\ e.tid \in Tids /\ e.gen \in 0..MaxStart
           /\ IsCreate(e) \/ IsExit(e) \/ IsThread(e) => e.gen \in Starts
BY DEF Event, StreamEvent, AccessEvent, IsCreate, IsExit, IsThread, ProcessTypes,
       ThreadTypes, OpenTypes, OtherTypes, Starts

(* Appending e keeps the queue facts when e respects them: a create later  *)
(* than all queued events and fresh, a terminate of a process the OS no   *)
(* longer runs, a thread event of a handled or queued-created process     *)
(* with no terminate of it queued, and every start the OS then holds      *)
(* either held before or the one e creates.                               *)
LEMMA AppendFacts ==
    ASSUME NEW q \in Seq(Event), NEW e \in Event, NEW c \in Nat, NEW c2 \in Nat,
           NEW o, NEW o2, NEW SL, NEW ST,
           QueueFacts(q, c, o, SL, ST), c =< c2, e.gen =< c2,
           IsCreate(e) => (\A i \in 1..Len(q) : q[i].gen < e.gen) /\ Fresh(e, SL, ST),
           ExitStale(q, o2), IsExit(e) => o2[e.pid] # e.gen,
           IsThread(e) =>
              /\ \A i \in 1..Len(q) : IsExit(q[i]) /\ q[i].pid = e.pid => q[i].gen # e.gen
              /\ <<e.pid, e.gen>> \in SL \/ CreatedBefore(q, Len(q) + 1, e.pid, e.gen),
           \A p \in Pids : o2[p] # 0 =>
              o2[p] = o[p] \/ (IsCreate(e) /\ e.pid = p /\ e.gen = o2[p])
    PROVE  QueueFacts(Append(q, e), c2, o2, SL, ST)
<1> USE ConstAssumption DEF ConstAssumption
<1> DEFINE r == Append(q, e)
           n == Len(q) + 1
<1>1. Len(r) = n /\ r[n] = e /\ \A i \in 1..Len(q) : r[i] = q[i]
    OBVIOUS
<1>2. \A i \in 1..Len(r) : r[i] \in Event /\ r[i].gen \in 0..MaxStart
    BY <1>1, EventFields
<1>3. \A i \in 1..Len(r) : i \in 1..Len(q) \/ i = n
    BY <1>1
<1>4. GenBound(r, c2)
    BY <1>1, <1>2, <1>3 DEF QueueFacts, GenBound
<1>5. GenOrder(r)
    <2> SUFFICES ASSUME NEW i \in 1..Len(r), NEW j \in 1..Len(r), i < j, IsCreate(r[j])
                 PROVE  r[i].gen < r[j].gen
        BY DEF GenOrder
    <2>1. CASE j = n
        BY <1>1, <2>1
    <2>2. CASE j \in 1..Len(q)
        BY <1>1, <2>2 DEF QueueFacts, GenOrder
    <2>3. QED
        BY <1>3, <2>1, <2>2
<1>6. CreateFresh(r, SL, ST)
    BY <1>1, <1>3 DEF QueueFacts, CreateFresh
<1>7. ExitStale(r, o2)
    BY <1>1, <1>3 DEF ExitStale
<1>8. NoThreadAfterExit(r)
    <2> SUFFICES ASSUME NEW i \in 1..Len(r), NEW j \in 1..Len(r), i < j, IsExit(r[i]),
                        IsThread(r[j]), r[j].pid = r[i].pid
                 PROVE  r[j].gen # r[i].gen
        BY DEF NoThreadAfterExit
    <2>1. CASE j = n
        BY <1>1, <2>1
    <2>2. CASE j \in 1..Len(q)
        BY <1>1, <2>2 DEF QueueFacts, NoThreadAfterExit
    <2>3. QED
        BY <1>3, <2>1, <2>2
<1>9. \A j \in 1..n : \A p, g : CreatedBefore(q, j, p, g) => CreatedBefore(r, j, p, g)
    BY <1>1 DEF CreatedBefore
<1>10. ThreadOfSeen(r, SL)
    <2> SUFFICES ASSUME NEW j \in 1..Len(r), IsThread(r[j])
                 PROVE  <<r[j].pid, r[j].gen>> \in SL \/ CreatedBefore(r, j, r[j].pid, r[j].gen)
        BY DEF ThreadOfSeen
    <2>1. CASE j = n
        BY <1>1, <1>9, <2>1
    <2>2. CASE j \in 1..Len(q)
        BY <1>1, <1>9, <2>2 DEF QueueFacts, ThreadOfSeen
    <2>3. QED
        BY <1>3, <2>1, <2>2
<1>11. OsCreated(r, o2, SL)
    <2> SUFFICES ASSUME NEW p \in Pids, o2[p] # 0
                 PROVE  <<p, o2[p]>> \in SL \/ CreatedBefore(r, Len(r) + 1, p, o2[p])
        BY DEF OsCreated
    <2>1. CASE o2[p] = o[p]
        <3>1. <<p, o[p]>> \in SL \/ CreatedBefore(q, n, p, o[p])
            BY <2>1 DEF QueueFacts, OsCreated
        <3>2. CreatedBefore(q, n, p, o[p]) => CreatedBefore(r, Len(r) + 1, p, o[p])
            BY <1>1 DEF CreatedBefore
        <3>3. QED
            BY <2>1, <3>1, <3>2
    <2>2. CASE IsCreate(e) /\ e.pid = p /\ e.gen = o2[p]
        BY <1>1, <2>2 DEF CreatedBefore
    <2>3. QED
        BY <2>1, <2>2
<1>12. QED
    BY <1>4, <1>5, <1>6, <1>7, <1>8, <1>10, <1>11 DEF QueueFacts

(* Handling the head h keeps the queue facts of the rest when the handled *)
(* history changes only by h: a create adds its own process, a terminate  *)
(* removes its own, and a handled thread belongs to a handled process.    *)
LEMMA TailFacts ==
    ASSUME NEW q \in Seq(Event), q # <<>>, NEW c, NEW o, NEW SL, NEW SL2, NEW ST, NEW ST2,
           QueueFacts(q, c, o, SL, ST),
           \A x \in SL2 : x \in SL \/ (IsCreate(Head(q)) /\ x = <<Head(q).pid, Head(q).gen>>),
           \A x \in SL : x \in SL2 \/ (IsExit(Head(q)) /\ x = <<Head(q).pid, Head(q).gen>>),
           IsCreate(Head(q)) => <<Head(q).pid, Head(q).gen>> \in SL2,
           \A x \in ST2 : x \in ST \/ <<x[1], x[2]>> \in SL
    PROVE  QueueFacts(Tail(q), c, o, SL2, ST2)
<1> USE ConstAssumption DEF ConstAssumption
<1> DEFINE r == Tail(q)
           h == Head(q)
<1>1. /\ Len(r) = Len(q) - 1 /\ 1 \in 1..Len(q) /\ q[1] = h
      /\ \A i \in 1..Len(r) : i + 1 \in 1..Len(q) /\ r[i] = q[i + 1]
    OBVIOUS
<1>2. \A i \in 1..Len(q) : q[i] \in Event /\ q[i].gen \in 0..MaxStart
    BY EventFields
<1>3. GenBound(r, c) /\ GenOrder(r) /\ ExitStale(r, o) /\ NoThreadAfterExit(r)
    <2>1. GenBound(r, c)
        BY <1>1 DEF QueueFacts, GenBound
    <2>2. GenOrder(r)
        <3> SUFFICES ASSUME NEW i \in 1..Len(r), NEW j \in 1..Len(r), i < j, IsCreate(r[j])
                     PROVE  r[i].gen < r[j].gen
            BY DEF GenOrder
        <3>1. i + 1 < j + 1
            OBVIOUS
        <3>2. QED
            BY <1>1, <3>1 DEF QueueFacts, GenOrder
    <2>3. ExitStale(r, o)
        BY <1>1 DEF QueueFacts, ExitStale
    <2>4. NoThreadAfterExit(r)
        <3> SUFFICES ASSUME NEW i \in 1..Len(r), NEW j \in 1..Len(r), i < j
                     PROVE  IsExit(r[i]) /\ IsThread(r[j]) /\ r[j].pid = r[i].pid
                            => r[j].gen # r[i].gen
            BY DEF NoThreadAfterExit
        <3>1. i + 1 < j + 1
            OBVIOUS
        <3>2. QED
            BY <1>1, <3>1 DEF QueueFacts, NoThreadAfterExit
    <2>5. QED
        BY <2>1, <2>2, <2>3, <2>4
(* A create queued behind the head is later than the head.                *)
<1>4. \A i \in 1..Len(r) : IsCreate(r[i]) => h.gen < r[i].gen
    <2> SUFFICES ASSUME NEW i \in 1..Len(r), IsCreate(r[i]) PROVE h.gen < r[i].gen
        OBVIOUS
    <2>1. 1 < i + 1
        OBVIOUS
    <2>2. QED
        BY <1>1, <2>1 DEF QueueFacts, GenOrder
<1>5. CreateFresh(r, SL2, ST2)
    <2> SUFFICES ASSUME NEW i \in 1..Len(r), IsCreate(r[i]) PROVE Fresh(r[i], SL2, ST2)
        BY DEF CreateFresh
    <2>1. Fresh(r[i], SL, ST)
        BY <1>1 DEF QueueFacts, CreateFresh
    <2>2. h.gen # r[i].gen
        BY <1>1, <1>2, <1>4
    <2>3. <<r[i].pid, r[i].gen>> \notin SL2
        BY <2>1, <2>2 DEF Fresh
    <2>4. \A x \in ST2 : <<x[1], x[2]>> # <<r[i].pid, r[i].gen>>
        BY <2>1 DEF Fresh
    <2>5. QED
        BY <2>3, <2>4 DEF Fresh
(* A create the rest has before position j the whole queue has before j+1, *)
(* and one the whole queue has is the head's or one the rest has.          *)
<1>6. ASSUME NEW j \in 1..Len(r) + 1, NEW p, NEW g, CreatedBefore(q, j + 1, p, g)
      PROVE  <<p, g>> \in SL2 \/ CreatedBefore(r, j, p, g)
    <2>1. PICK i \in 1..j : IsCreate(q[i]) /\ q[i].pid = p /\ q[i].gen = g
        BY <1>6 DEF CreatedBefore
    <2>2. CASE i = 1
        BY <1>1, <2>1, <2>2
    <2>3. CASE i # 1
        <3>1. i - 1 \in 1..j - 1 /\ r[i - 1] = q[i]
            BY <1>1, <2>3
        <3>2. QED
            BY <2>1, <3>1 DEF CreatedBefore
    <2>4. QED
        BY <2>2, <2>3
<1>7. ThreadOfSeen(r, SL2)
    <2> SUFFICES ASSUME NEW j \in 1..Len(r), IsThread(r[j])
                 PROVE  <<r[j].pid, r[j].gen>> \in SL2 \/ CreatedBefore(r, j, r[j].pid, r[j].gen)
        BY DEF ThreadOfSeen
    <2>1. <<r[j].pid, r[j].gen>> \in SL \/ CreatedBefore(q, j + 1, r[j].pid, r[j].gen)
        BY <1>1 DEF QueueFacts, ThreadOfSeen
    <2>2. ~(IsExit(h) /\ h.pid = r[j].pid /\ h.gen = r[j].gen)
        <3>1. 1 < j + 1
            OBVIOUS
        <3>2. QED
            BY <1>1, <3>1 DEF QueueFacts, NoThreadAfterExit
    <2>3. QED
        BY <1>6, <2>1, <2>2
<1>8. OsCreated(r, o, SL2)
    <2> SUFFICES ASSUME NEW p \in Pids, o[p] # 0
                 PROVE  <<p, o[p]>> \in SL2 \/ CreatedBefore(r, Len(r) + 1, p, o[p])
        BY DEF OsCreated
    <2>1. <<p, o[p]>> \in SL \/ CreatedBefore(q, Len(r) + 2, p, o[p])
        BY <1>1 DEF QueueFacts, OsCreated
    <2>2. ~(IsExit(h) /\ h.pid = p /\ h.gen = o[p])
        BY <1>1 DEF QueueFacts, ExitStale
    <2>3. QED
        BY <1>6, <2>1, <2>2
<1>9. QED
    BY <1>3, <1>5, <1>7, <1>8 DEF QueueFacts
-----------------------------------------------------------------------------
(* With one worker every step keeps ThreadFacts.                          *)

(* A process creation appends a create with a start time later than all  *)
(* the queue, the OS and the history hold.                                *)
LEMMA SpawnFacts ==
    ASSUME TInv, NEW w, Workers = {w}, NEW p \in Pids, NEW w0 \in Workers,
           SpawnProcess(p, w0)
    PROVE  ThreadFacts'
<1> USE ConstAssumption DEF ConstAssumption
<1>0. TypeOK /\ QueueFacts(queue[w], clock, os, seenLive, seenThreads) /\ HistBound
    BY DEF TInv, LInv, IInv, ThreadFacts
<1>1. PICK ty \in {"ProcessRundown", "ProcessRundownInternal", "CreateProcess",
                   "CreateProcessInternal"} :
            Emit(w, [type |-> ty, pid |-> p, tid |-> AnyTid, gen |-> clock + 1])
    BY DEF SpawnProcess
<1> DEFINE e == [type |-> ty, pid |-> p, tid |-> AnyTid, gen |-> clock + 1]
           q == queue[w]
<1>2. /\ e \in Event /\ IsCreate(e) /\ ~IsExit(e) /\ ~IsThread(e)
      /\ clock \in Nat /\ clock + 1 \in Starts /\ q \in Seq(Event)
      /\ queue'[w] = Append(q, e)
    BY <1>0, <1>1 DEF SpawnProcess, Emit, AnyTid, Event, StreamEvent, ProcessTypes,
       ThreadTypes, IsCreate, IsExit, IsThread, Starts, TypeOK
<1>3. \A i \in 1..Len(q) : q[i].gen < e.gen
    BY <1>0, <1>2, EventFields DEF QueueFacts, GenBound
<1>4. Fresh(e, seenLive, seenThreads)
    BY <1>0, <1>2 DEF HistBound, Fresh, TypeOK
<1>A. /\ os' = [os EXCEPT ![p] = clock + 1] /\ clock' = clock + 1
      /\ snap' = snap /\ seenLive' = seenLive /\ seenThreads' = seenThreads
    BY DEF SpawnProcess
<1>B. os'[p] = clock + 1 /\ \A r \in Pids \ {p} : os'[r] = os[r]
    BY <1>0, <1>A DEF TypeOK
<1>5. ExitStale(q, os')
    <2> SUFFICES ASSUME NEW i \in 1..Len(q), IsExit(q[i]) PROVE os'[q[i].pid] # q[i].gen
        BY DEF ExitStale
    <2>1. q[i].pid \in Pids
        BY <1>2, EventFields
    <2>2. CASE q[i].pid = p
        <3>1. q[i].gen \in Nat /\ q[i].gen < clock + 1
            BY <1>2, <1>3, EventFields
        <3>2. QED
            BY <1>B, <2>2, <3>1
    <2>3. CASE q[i].pid # p
        BY <1>0, <1>B, <2>1, <2>3 DEF QueueFacts, ExitStale
    <2>4. QED
        BY <2>2, <2>3
<1>6. \A r \in Pids : os'[r] # 0 => os'[r] = os[r] \/ (IsCreate(e) /\ e.pid = r /\ e.gen = os'[r])
    BY <1>2, <1>B
<1>7. QueueFacts(Append(q, e), clock + 1, os', seenLive, seenThreads)
    <2>1. clock + 1 \in Nat /\ clock =< clock + 1 /\ e.gen =< clock + 1
        BY <1>2
    <2>2. IsCreate(e) => (\A i \in 1..Len(q) : q[i].gen < e.gen) /\ Fresh(e, seenLive, seenThreads)
        BY <1>3, <1>4
    <2>3. /\ IsExit(e) => os'[e.pid] # e.gen
          /\ IsThread(e) =>
                /\ \A i \in 1..Len(q) : IsExit(q[i]) /\ q[i].pid = e.pid => q[i].gen # e.gen
                /\ <<e.pid, e.gen>> \in seenLive \/ CreatedBefore(q, Len(q) + 1, e.pid, e.gen)
        BY <1>2
    <2>4. QED
        BY <1>0, <1>2, <1>5, <1>6, <2>1, <2>2, <2>3, AppendFacts
<1>8. HistBound'
    <2>1. ASSUME NEW r \in Pids PROVE os'[r] =< clock + 1
        <3>1. os[r] \in Nat /\ os[r] =< clock
            BY <1>0 DEF HistBound, TypeOK
        <3>2. QED
            BY <1>2, <1>B, <3>1
    <2>2. \A x \in seenLive \cup seenThreads : x[2] \in Nat /\ x[2] =< clock
        BY <1>0 DEF HistBound, TypeOK, Starts
    <2>3. QED
        BY <1>2, <1>A, <2>1, <2>2 DEF HistBound
<1>9. QED
    BY <1>2, <1>7, <1>8, <1>A DEF TInv, ThreadFacts, SingleSeen, ThreadsTracked

(* A process exit appends its terminate; the OS no longer runs it.        *)
LEMMA ExitFacts ==
    ASSUME TInv, NEW w, Workers = {w}, NEW p \in Pids, NEW w0 \in Workers,
           ExitProcess(p, w0)
    PROVE  ThreadFacts'
<1> USE ConstAssumption DEF ConstAssumption
<1>0. TypeOK /\ QueueFacts(queue[w], clock, os, seenLive, seenThreads) /\ HistBound
    BY DEF TInv, LInv, IInv, ThreadFacts
<1> DEFINE e == [type |-> "TerminateProcess", pid |-> p, tid |-> AnyTid, gen |-> os[p]]
           q == queue[w]
<1>2. /\ e \in Event /\ ~IsCreate(e) /\ IsExit(e) /\ ~IsThread(e)
      /\ clock \in Nat /\ os[p] \in Starts /\ os[p] =< clock /\ q \in Seq(Event)
      /\ queue'[w] = Append(q, e)
    BY <1>0 DEF ExitProcess, Emit, AnyTid, Event, StreamEvent, ProcessTypes,
       ThreadTypes, IsCreate, IsExit, IsThread, Starts, TypeOK, HistBound
<1>A. /\ os' = [os EXCEPT ![p] = 0] /\ clock' = clock
      /\ snap' = snap /\ seenLive' = seenLive /\ seenThreads' = seenThreads
    BY DEF ExitProcess
<1>B. os'[p] = 0 /\ \A r \in Pids \ {p} : os'[r] = os[r]
    BY <1>0, <1>A DEF TypeOK
<1>5. ExitStale(q, os')
    <2> SUFFICES ASSUME NEW i \in 1..Len(q), IsExit(q[i]) PROVE os'[q[i].pid] # q[i].gen
        BY DEF ExitStale
    <2>1. q[i].pid \in Pids /\ q[i].gen \in Starts
        BY <1>2, EventFields
    <2>2. CASE q[i].pid = p
        BY <1>B, <2>1, <2>2 DEF Starts
    <2>3. CASE q[i].pid # p
        BY <1>0, <1>B, <2>1, <2>3 DEF QueueFacts, ExitStale
    <2>4. QED
        BY <2>2, <2>3
<1>7. QueueFacts(Append(q, e), clock, os', seenLive, seenThreads)
    <2>1. clock =< clock /\ e.gen =< clock
        BY <1>2
    <2>2. /\ IsExit(e) => os'[e.pid] # e.gen
          /\ \A r \in Pids : os'[r] # 0 =>
                os'[r] = os[r] \/ (IsCreate(e) /\ e.pid = r /\ e.gen = os'[r])
        BY <1>2, <1>B DEF Starts
    <2>3. /\ IsCreate(e) => (\A i \in 1..Len(q) : q[i].gen < e.gen) /\ Fresh(e, seenLive, seenThreads)
          /\ IsThread(e) =>
                /\ \A i \in 1..Len(q) : IsExit(q[i]) /\ q[i].pid = e.pid => q[i].gen # e.gen
                /\ <<e.pid, e.gen>> \in seenLive \/ CreatedBefore(q, Len(q) + 1, e.pid, e.gen)
        BY <1>2
    <2>4. QED
        BY <1>0, <1>2, <1>5, <2>1, <2>2, <2>3, AppendFacts
<1>8. HistBound'
    <2>1. ASSUME NEW r \in Pids PROVE os'[r] =< clock
        <3>1. os[r] \in Nat /\ os[r] =< clock /\ clock \in Nat
            BY <1>0 DEF HistBound, TypeOK
        <3>2. QED
            BY <1>B, <3>1
    <2>2. QED
        BY <1>0, <1>A, <2>1 DEF HistBound
<1>9. QED
    BY <1>2, <1>7, <1>8, <1>A DEF TInv, ThreadFacts, SingleSeen, ThreadsTracked

(* A thread or access event appended with the OS unchanged: a thread      *)
(* event carries the start of the live process it runs in.                *)
LEMMA EmitFacts ==
    ASSUME TInv, NEW w, Workers = {w}, NEW e \in Event, ~IsCreate(e), ~IsExit(e),
           IsThread(e) => os[e.pid] # 0 /\ e.gen = os[e.pid], e.gen =< clock,
           queue' = [queue EXCEPT ![w] = Append(queue[w], e)],
           UNCHANGED <<os, clock, snap, seenLive, seenThreads>>
    PROVE  ThreadFacts'
<1> USE ConstAssumption DEF ConstAssumption
<1>0. TypeOK /\ QueueFacts(queue[w], clock, os, seenLive, seenThreads)
    BY DEF TInv, LInv, IInv, ThreadFacts
<1> DEFINE q == queue[w]
<1>1. clock \in Nat /\ q \in Seq(Event) /\ queue'[w] = Append(q, e) /\ e.pid \in Pids
    BY <1>0, EventFields DEF TypeOK
<1>2. IsThread(e) =>
         /\ \A i \in 1..Len(q) : IsExit(q[i]) /\ q[i].pid = e.pid => q[i].gen # e.gen
         /\ <<e.pid, e.gen>> \in seenLive \/ CreatedBefore(q, Len(q) + 1, e.pid, e.gen)
    BY <1>0, <1>1 DEF QueueFacts, ExitStale, OsCreated
<1>3. QueueFacts(Append(q, e), clock, os, seenLive, seenThreads)
    <2>1. clock =< clock /\ ExitStale(q, os)
        BY <1>0, <1>1 DEF QueueFacts
    <2>2. /\ IsCreate(e) => (\A i \in 1..Len(q) : q[i].gen < e.gen) /\ Fresh(e, seenLive, seenThreads)
          /\ IsExit(e) => os[e.pid] # e.gen
          /\ \A r \in Pids : os[r] # 0 =>
                os[r] = os[r] \/ (IsCreate(e) /\ e.pid = r /\ e.gen = os[r])
        OBVIOUS
    <2>3. QED
        BY <1>0, <1>1, <1>2, <2>1, <2>2, AppendFacts
<1>4. QED
    BY <1>1, <1>3 DEF TInv, ThreadFacts, HistBound, SingleSeen, ThreadsTracked

(* Handling a process event: a terminate drops its process and threads    *)
(* from the history and the snapshot; a create writes its process, which  *)
(* no handled thread belongs to yet.                                      *)
LEMMA HandleProcessFacts ==
    ASSUME TInv, NEW w, Workers = {w}, NEW w0 \in Workers, HandleProcess(w0)
    PROVE  ThreadFacts'
<1> USE ConstAssumption DEF ConstAssumption
<1> DEFINE q == queue[w]
           e == Head(q)
<1>0. /\ TypeOK /\ QueueFacts(q, clock, os, seenLive, seenThreads) /\ HistBound
      /\ SingleSeen /\ ThreadsTracked /\ QueueLines
    BY DEF TInv, LInv, IInv, ThreadFacts
<1>1. PICK p \in Pids : p = e.pid
    BY <1>0, EventFields DEF HandleProcess, TypeOK
<1>2. /\ q # <<>> /\ q \in Seq(Event) /\ e \in Event /\ e.type \in ProcessTypes
      /\ e.gen \in Starts /\ queue'[w] = Tail(q)
      /\ UNCHANGED <<os, clock>>
      /\ Lines(q, p, SeenOf(p), os[p])
      /\ Fresh(e, seenLive, seenThreads) \/ IsExit(e)
    <2>1. /\ q # <<>> /\ q \in Seq(Event) /\ e \in Event /\ e.type \in ProcessTypes
          /\ queue'[w] = Tail(q) /\ UNCHANGED <<os, clock>>
        BY <1>0 DEF HandleProcess, TypeOK
    <2>2. IsCreate(e) \/ IsExit(e)
        BY <2>1 DEF IsCreate
    <2>3. 1 \in 1..Len(q) /\ q[1] = e
        BY <2>1
    <2>4. QED
        BY <1>0, <2>1, <2>2, <2>3, EventFields DEF QueueLines, QueueFacts, CreateFresh
<1>3. snap \in [Pids -> Entry \cup {NoProc}] /\ seenLive \subseteq Pids \X Starts
      /\ seenThreads \subseteq Pids \X Starts \X Tids
    BY <1>0 DEF TypeOK
<1>4. CASE IsExit(e)
    <2>1. /\ snap' = [snap EXCEPT ![p] = NoProc]
          /\ seenLive' = seenLive \ {<<p, e.gen>>}
          /\ seenThreads' = {x \in seenThreads : <<x[1], x[2]>> # <<p, e.gen>>}
        BY <1>1, <1>4 DEF HandleProcess, IsExit
    <2>2. SeenOf(p) \subseteq {e.gen}
        <3>1. PE(e, p)
            BY <1>1, <1>2 DEF PE
        <3>2. QED
            BY <1>2, <1>4, <3>1, TailExit
    <2>3. QueueFacts(queue'[w], clock', os', seenLive', seenThreads')
        <3>1. /\ \A x \in seenLive' : x \in seenLive \/ (IsCreate(e) /\ x = <<e.pid, e.gen>>)
              /\ \A x \in seenLive : x \in seenLive' \/ (IsExit(e) /\ x = <<e.pid, e.gen>>)
              /\ IsCreate(e) => <<e.pid, e.gen>> \in seenLive'
              /\ \A x \in seenThreads' : x \in seenThreads \/ <<x[1], x[2]>> \in seenLive
            BY <1>1, <1>4, <2>1 DEF IsCreate
        <3>2. QueueFacts(Tail(q), clock, os, seenLive', seenThreads')
            BY <1>0, <1>2, <3>1, TailFacts
        <3>3. QED
            BY <1>2, <3>2
    <2>4. HistBound' /\ SingleSeen'
        BY <1>0, <1>2, <2>1 DEF HistBound, SingleSeen
    <2>5. ThreadsTracked'
        <3> SUFFICES ASSUME NEW x \in seenThreads', <<x[1], x[2]>> \in seenLive'
                     PROVE  x[3] \in snap'[x[1]].threads
            BY DEF ThreadsTracked
        <3>1. x \in seenThreads /\ <<x[1], x[2]>> \in seenLive /\ x[1] \in Pids
            BY <1>3, <2>1
        <3>2. x[1] # p
            BY <1>3, <2>1, <2>2, <3>1 DEF SeenOf
        <3>3. QED
            BY <1>0, <1>3, <2>1, <3>1, <3>2 DEF ThreadsTracked
    <2>6. QED
        BY <2>3, <2>4, <2>5 DEF ThreadFacts
<1>5. CASE ~IsExit(e)
    <2>1. /\ \E start \in StartVal : snap' = Write(snap, p, start, e.gen)
          /\ seenLive' = seenLive \cup {<<p, e.gen>>}
          /\ seenThreads' = seenThreads
        <3>1. StartTimes(e) \subseteq StartVal /\ {e.gen} \subseteq StartVal
            BY <1>0, <1>1, <1>2 DEF StartTimes, Timestamp, StartVal, Starts, TypeOK
        <3>2. QED
            BY <1>1, <1>5, <3>1 DEF HandleProcess, IsExit
    <2>2. IsCreate(e) /\ Fresh(e, seenLive, seenThreads)
        BY <1>2, <1>5 DEF IsCreate
    <2>3. SeenOf(p) = {}
        <3>1. PE(e, p)
            BY <1>1, <1>2 DEF PE
        <3>2. QED
            BY <1>2, <1>5, <3>1, TailCreate
    <2>4. QueueFacts(queue'[w], clock', os', seenLive', seenThreads')
        <3>1. /\ \A x \in seenLive' : x \in seenLive \/ (IsCreate(e) /\ x = <<e.pid, e.gen>>)
              /\ \A x \in seenLive : x \in seenLive' \/ (IsExit(e) /\ x = <<e.pid, e.gen>>)
              /\ IsCreate(e) => <<e.pid, e.gen>> \in seenLive'
              /\ \A x \in seenThreads' : x \in seenThreads \/ <<x[1], x[2]>> \in seenLive
            BY <1>1, <2>1, <2>2
        <3>2. QueueFacts(Tail(q), clock, os, seenLive', seenThreads')
            BY <1>0, <1>2, <3>1, TailFacts
        <3>3. QED
            BY <1>2, <3>2
    <2>5. e.gen =< clock
        <3>1. 1 \in 1..Len(q) /\ q[1] = e
            BY <1>2
        <3>2. QED
            BY <1>0, <3>1 DEF QueueFacts, GenBound
    <2>6. HistBound'
        BY <1>0, <1>2, <2>1, <2>5 DEF HistBound
    <2>7. SingleSeen'
        BY <1>0, <1>3, <2>1, <2>3 DEF SingleSeen, SeenOf
    <2>8. ThreadsTracked'
        <3> SUFFICES ASSUME NEW x \in seenThreads', <<x[1], x[2]>> \in seenLive'
                     PROVE  x[3] \in snap'[x[1]].threads
            BY DEF ThreadsTracked
        <3>1. x \in seenThreads /\ x[1] \in Pids /\ x[2] \in Starts
            BY <1>3, <2>1
        <3>2. <<x[1], x[2]>> # <<p, e.gen>>
            BY <1>1, <2>2, <3>1 DEF Fresh
        <3>3. x[1] # p
            <4>1. <<x[1], x[2]>> \in seenLive
                BY <2>1, <3>2
            <4>2. QED
                BY <2>3, <3>1, <4>1 DEF SeenOf
        <3>4. snap'[x[1]] = snap[x[1]]
            <4>1. PICK start \in StartVal : snap' = Write(snap, p, start, e.gen)
                BY <2>1
            <4>2. QED
                BY <1>3, <3>1, <3>3, <4>1 DEF Write
        <3>5. QED
            BY <1>0, <2>1, <3>1, <3>2, <3>4 DEF ThreadsTracked
    <2>9. QED
        BY <2>4, <2>6, <2>7, <2>8 DEF ThreadFacts
<1>6. QED
    BY <1>4, <1>5

(* AddThread and RemoveThread on an entry the snapshot holds change only  *)
(* that entry's thread map, by the one thread.                            *)
LEMMA ThreadOpsEffect ==
    ASSUME NEW s \in [Pids -> Entry \cup {NoProc}], NEW p \in Pids, s[p] \in Entry,
           NEW t \in Tids
    PROVE  /\ AddThread(s, p, t) \in [Pids -> Entry \cup {NoProc}]
           /\ RemoveThread(s, p, t) \in [Pids -> Entry \cup {NoProc}]
           /\ AddThread(s, p, t)[p].threads = s[p].threads \cup {t}
           /\ RemoveThread(s, p, t)[p].threads = s[p].threads \ {t}
           /\ \A r \in Pids \ {p} : AddThread(s, p, t)[r] = s[r] /\ RemoveThread(s, p, t)[r] = s[r]
<1>1. s[p] # NoProc
    BY NoProcAssumption DEF NoProcAssumption
<1>2. /\ AddThread(s, p, t) = [s EXCEPT ![p] = [s[p] EXCEPT !.threads = s[p].threads \cup {t}]]
      /\ RemoveThread(s, p, t) = [s EXCEPT ![p] = [s[p] EXCEPT !.threads = s[p].threads \ {t}]]
    BY <1>1, Zenon DEF AddThread, RemoveThread
<1>3. /\ [s[p] EXCEPT !.threads = s[p].threads \cup {t}].threads = s[p].threads \cup {t}
      /\ [s[p] EXCEPT !.threads = s[p].threads \ {t}].threads = s[p].threads \ {t}
    BY Zenon DEF Entry
<1>4. SnapType(AddThread(s, p, t)) /\ SnapType(RemoveThread(s, p, t))
    BY ThreadOpsType DEF SnapType
<1>5. QED
    BY <1>2, <1>3, <1>4, Zenon DEF SnapType

(* Handling a thread event: its process is handled and in the snapshot,   *)
(* so FindAndPut returns the snapshot as it is and only that process's    *)
(* thread map changes, by exactly the event's thread.                     *)
LEMMA HandleThreadFacts ==
    ASSUME TInv, NEW w, Workers = {w}, NEW w0 \in Workers, HandleThread(w0)
    PROVE  ThreadFacts'
<1> USE ConstAssumption DEF ConstAssumption
<1> DEFINE q == queue[w]
           e == Head(q)
<1>0. /\ TypeOK /\ QueueFacts(q, clock, os, seenLive, seenThreads) /\ HistBound
      /\ SingleSeen /\ ThreadsTracked /\ LiveTracked
    BY DEF TInv, LInv, IInv, ThreadFacts
<1>1. PICK p \in Pids : p = e.pid
    BY <1>0, EventFields DEF HandleThread, TypeOK
<1>2. PICK t \in Tids : t = e.tid
    BY <1>0, EventFields DEF HandleThread, TypeOK
<1>3. /\ q # <<>> /\ q \in Seq(Event) /\ e \in Event /\ IsThread(e) /\ ~IsCreate(e)
      /\ ~IsExit(e) /\ e.gen \in Starts /\ queue'[w] = Tail(q)
      /\ os' = os /\ clock' = clock /\ seenLive' = seenLive
    <2>1. q # <<>> /\ q \in Seq(Event) /\ e \in Event /\ e.type \in ThreadTypes
        BY <1>0 DEF HandleThread, TypeOK
    <2>2. IsThread(e) /\ ~IsCreate(e) /\ ~IsExit(e)
        BY <2>1 DEF IsThread, IsCreate, IsExit, ThreadTypes, ProcessTypes
    <2>3. e.gen \in Starts
        BY <2>1, <2>2, EventFields
    <2>4. queue'[w] = Tail(q) /\ os' = os /\ clock' = clock /\ seenLive' = seenLive
        BY <1>0 DEF HandleThread, TypeOK
    <2>5. QED
        BY <2>1, <2>2, <2>3, <2>4
<1> DEFINE g == e.gen
<1>4. <<p, g>> \in seenLive /\ g =< clock
    <2>1. 1 \in 1..Len(q) /\ q[1] = e
        BY <1>3
    <2>2. ~CreatedBefore(q, 1, p, g)
        BY DEF CreatedBefore
    <2>3. QED
        BY <1>0, <1>1, <1>3, <2>1, <2>2 DEF QueueFacts, ThreadOfSeen, GenBound
<1>5. /\ snap \in [Pids -> Entry \cup {NoProc}] /\ snap[p] \in Entry
      /\ FindAndPut(snap, p) = snap
      /\ seenLive \subseteq Pids \X Starts /\ seenThreads \subseteq Pids \X Starts \X Tids
    BY <1>0, <1>4, NoProcAssumption DEF NoProcAssumption, LiveTracked, FindAndPut, TypeOK
<1>6. \/ /\ e.type = "TerminateThread"
         /\ snap' = RemoveThread(snap, p, t)
         /\ seenThreads' = seenThreads \ {<<p, g, t>>}
      \/ /\ e.type # "TerminateThread"
         /\ snap' = AddThread(snap, p, t)
         /\ seenThreads' = seenThreads \cup {<<p, g, t>>}
    BY <1>1, <1>2, <1>5 DEF HandleThread
(* Only p's thread map changes, by t.                                     *)
<1>7. /\ \A r \in Pids \ {p} : snap'[r] = snap[r]
      /\ snap'[p].threads \ {t} = snap[p].threads \ {t}
      /\ e.type # "TerminateThread" => t \in snap'[p].threads
    BY <1>5, <1>6, ThreadOpsEffect
<1>8. QueueFacts(queue'[w], clock', os', seenLive', seenThreads')
    <2>1. /\ \A x \in seenLive : x \in seenLive \/ (IsCreate(e) /\ x = <<e.pid, e.gen>>)
          /\ \A x \in seenLive : x \in seenLive \/ (IsExit(e) /\ x = <<e.pid, e.gen>>)
          /\ IsCreate(e) => <<e.pid, e.gen>> \in seenLive
          /\ \A x \in seenThreads' : x \in seenThreads \/ <<x[1], x[2]>> \in seenLive
        BY <1>1, <1>3, <1>4, <1>6
    <2>2. QueueFacts(Tail(q), clock, os, seenLive, seenThreads')
        BY <1>0, <1>3, <2>1, TailFacts
    <2>3. QED
        BY <1>3, <2>2
<1>9. HistBound' /\ SingleSeen'
    <2>1. \A x \in seenThreads' : x[2] =< clock
        BY <1>0, <1>4, <1>6 DEF HistBound
    <2>2. QED
        BY <1>0, <1>3, <2>1 DEF HistBound, SingleSeen
<1>10. ThreadsTracked'
    <2> SUFFICES ASSUME NEW x \in seenThreads', <<x[1], x[2]>> \in seenLive
                 PROVE  x[3] \in snap'[x[1]].threads
        BY <1>3 DEF ThreadsTracked
    <2>1. CASE x = <<p, g, t>>
        <3>1. e.type # "TerminateThread"
            BY <1>6, <2>1
        <3>2. QED
            BY <1>7, <2>1, <3>1
    <2>2. CASE x # <<p, g, t>>
        <3>1. x \in seenThreads /\ x[1] \in Pids /\ x[3] \in snap[x[1]].threads
            BY <1>0, <1>5, <1>6, <2>2 DEF ThreadsTracked
        <3>2. CASE x[1] # p
            BY <1>7, <3>1, <3>2
        <3>3. CASE x[1] = p
            <4>1. x[2] = g
                BY <1>0, <1>4, <3>3 DEF SingleSeen
            <4>2. x = <<x[1], x[2], x[3]>> /\ x[3] # t
                BY <1>5, <2>2, <3>1, <3>3, <4>1
            <4>3. QED
                BY <1>7, <3>1, <3>3, <4>2
        <3>4. QED
            BY <3>2, <3>3
    <2>3. QED
        BY <2>1, <2>2
<1>11. QED
    BY <1>8, <1>9, <1>10 DEF ThreadFacts

(* Handling an open inserts a stub only for a PID the snapshot lacks;     *)
(* handling any other event changes nothing but the queue.                *)
LEMMA HandleAccessFacts ==
    ASSUME TInv, NEW w, Workers = {w}, NEW w0 \in Workers,
           HandleOpen(w0) \/ HandleOther(w0)
    PROVE  ThreadFacts'
<1> DEFINE q == queue[w]
           e == Head(q)
<1>0. /\ TypeOK /\ QueueFacts(q, clock, os, seenLive, seenThreads) /\ HistBound
      /\ SingleSeen /\ ThreadsTracked /\ LiveTracked
    BY DEF TInv, LInv, IInv, ThreadFacts
<1>1. /\ q # <<>> /\ q \in Seq(Event) /\ e \in Event /\ ~IsCreate(e) /\ ~IsExit(e)
      /\ queue'[w] = Tail(q)
      /\ os' = os /\ clock' = clock /\ seenLive' = seenLive /\ seenThreads' = seenThreads
      /\ \A r \in Pids : snap[r] # NoProc => snap'[r] = snap[r]
    <2>1. /\ q # <<>> /\ q \in Seq(Event) /\ e \in Event /\ ~IsCreate(e) /\ ~IsExit(e)
          /\ queue'[w] = Tail(q)
          /\ os' = os /\ clock' = clock /\ seenLive' = seenLive /\ seenThreads' = seenThreads
          /\ snap' = snap \/ snap' = FindAndPut(snap, e.pid)
        BY <1>0 DEF HandleOpen, HandleOther, TypeOK, IsCreate, IsExit,
           OpenTypes, OtherTypes, ProcessTypes
    <2>2. e.pid \in Pids /\ SnapType(snap) /\ AnyTid \in Tids
        BY <1>0, <2>1, EventFields DEF TypeOK, SnapType, AnyTid
    <2>3. \A r \in Pids : snap[r] # NoProc => FindAndPut(snap, e.pid)[r] = snap[r]
        BY <2>2 DEF FindAndPut, SnapType
    <2>4. QED
        BY <2>1, <2>3
<1>2. QueueFacts(queue'[w], clock', os', seenLive', seenThreads')
    <2>1. QueueFacts(Tail(q), clock, os, seenLive, seenThreads)
        BY <1>0, <1>1, TailFacts
    <2>2. QED
        BY <1>1, <2>1
<1>3. ThreadsTracked'
    <2> SUFFICES ASSUME NEW x \in seenThreads, <<x[1], x[2]>> \in seenLive
                 PROVE  x[3] \in snap'[x[1]].threads
        BY <1>1 DEF ThreadsTracked
    <2>1. x[1] \in Pids /\ snap[x[1]] # NoProc /\ x[3] \in snap[x[1]].threads
        BY <1>0 DEF TypeOK, LiveTracked, ThreadsTracked
    <2>2. QED
        BY <1>1, <2>1
<1>4. QED
    BY <1>0, <1>1, <1>2, <1>3 DEF ThreadFacts, HistBound, SingleSeen

LEMMA InitTInv == Init => TInv
<1> SUFFICES ASSUME Init PROVE TInv
    OBVIOUS
<1>1. LInv
    BY InitLInv
<1>2. \A v \in Workers : QueueFacts(queue[v], clock, os, seenLive, seenThreads)
    BY DEF Init, QueueFacts, GenBound, GenOrder, CreateFresh, ExitStale,
           NoThreadAfterExit, ThreadOfSeen, OsCreated
<1>3. QED
    BY <1>1, <1>2 DEF Init, TInv, ThreadFacts, HistBound, SingleSeen, ThreadsTracked

LEMMA NextTInv ==
    ASSUME NEW w, Workers = {w}
    PROVE  TInv /\ [Next]_vars => TInv'
<1> SUFFICES ASSUME TInv, [Next]_vars PROVE TInv'
    OBVIOUS
<1> USE ConstAssumption DEF ConstAssumption
<1>0. LInv' /\ TypeOK /\ HistBound /\ ThreadsOfLive /\ AnyTid \in Tids
    BY NextLInv DEF TInv, LInv, IInv, ThreadFacts, AnyTid
<1> SUFFICES ThreadFacts'
    BY <1>0 DEF TInv
(* Steps that leave the queues, the OS, the snapshot and the history.    *)
<1>1. ASSUME UNCHANGED <<queue, os, clock, snap, seenLive, seenThreads>>
      PROVE  ThreadFacts'
    BY <1>1 DEF TInv, ThreadFacts, HistBound, SingleSeen, ThreadsTracked
<1>2. ASSUME NEW p \in Pids, NEW w0 \in Workers, SpawnProcess(p, w0) PROVE ThreadFacts'
    BY <1>2, SpawnFacts
<1>3. ASSUME NEW p \in Pids, NEW w0 \in Workers, ExitProcess(p, w0) PROVE ThreadFacts'
    BY <1>3, ExitFacts
<1>4. ASSUME NEW p \in Pids, NEW w0 \in Workers, AccessProcess(p, w0) PROVE ThreadFacts'
    <2>1. PICK ty \in OpenTypes \cup OtherTypes :
                Emit(w, [type |-> ty, pid |-> p, tid |-> AnyTid, gen |-> os[p]])
        BY <1>4 DEF AccessProcess
    <2> DEFINE e == [type |-> ty, pid |-> p, tid |-> AnyTid, gen |-> os[p]]
    <2>2. e \in Event /\ ~IsCreate(e) /\ ~IsExit(e) /\ ~IsThread(e) /\ e.gen =< clock
        BY <1>0 DEF Event, AccessEvent, TypeOK, HistBound, IsCreate, IsExit, IsThread,
           OpenTypes, OtherTypes, ProcessTypes, ThreadTypes
    <2>3. QED
        BY <1>4, <2>1, <2>2, EmitFacts DEF AccessProcess, Emit
<1>5. ASSUME NEW p \in Pids, NEW t \in Tids, NEW w0 \in Workers, SpawnThread(p, t, w0)
      PROVE  ThreadFacts'
    <2> DEFINE e == [type |-> IF booting THEN "ThreadRundown" ELSE "CreateThread",
                     pid |-> p, tid |-> t, gen |-> os[p]]
    <2>1. e \in Event /\ ~IsCreate(e) /\ ~IsExit(e) /\ os[p] # 0 /\ e.gen =< clock
        BY <1>0, <1>5 DEF SpawnThread, Event, StreamEvent, TypeOK, HistBound, Starts,
           IsCreate, IsExit, ProcessTypes, ThreadTypes
    <2>2. QED
        BY <1>5, <2>1, EmitFacts DEF SpawnThread, Emit
<1>6. ASSUME NEW p \in Pids, NEW t \in Tids, NEW w0 \in Workers, ExitThread(p, t, w0)
      PROVE  ThreadFacts'
    <2> DEFINE e == [type |-> "TerminateThread", pid |-> p, tid |-> t, gen |-> os[p]]
    <2>1. os[p] # 0
        BY <1>0, <1>6 DEF ExitThread, ThreadsOfLive
    <2>2. e \in Event /\ ~IsCreate(e) /\ ~IsExit(e) /\ e.gen =< clock
        BY <1>0, <2>1 DEF Event, StreamEvent, TypeOK, HistBound, Starts,
           IsCreate, IsExit, ProcessTypes, ThreadTypes
    <2>3. QED
        BY <1>6, <2>1, <2>2, EmitFacts DEF ExitThread, Emit
<1>7. ASSUME NEW w0 \in Workers, HandleProcess(w0) PROVE ThreadFacts'
    BY <1>7, HandleProcessFacts
<1>8. ASSUME NEW w0 \in Workers, HandleThread(w0) PROVE ThreadFacts'
    BY <1>8, HandleThreadFacts
<1>9. ASSUME NEW w0 \in Workers, HandleOpen(w0) \/ HandleOther(w0) PROVE ThreadFacts'
    BY <1>9, HandleAccessFacts
<1>10. QED
    BY <1>1, <1>2, <1>3, <1>4, <1>5, <1>6, <1>7, <1>8, <1>9
       DEF Next, Host, Pipeline, EndRundown, ProberQuery, vars

(* ThreadsTracked, for a pipeline with one worker: every thread whose      *)
(* create or rundown psProcessor.ProcessEvent has handled, of a process    *)
(* whose terminate it has not handled, is in that process's thread map in *)
(* the snapshot: no Write of a later rundown, FindAndPut of an open, or   *)
(* event of a reused PID drops it.  With two workers a ThreadRundown can  *)
(* be handled before its ProcessRundown (spec, section 5): FindAndPut      *)
(* inserts a stub holding the thread, and the rundown's Write, with the    *)
(* event timestamp as start, replaces the stub and drops the thread; so   *)
(* the hypothesis is the case the property is for.                        *)
THEOREM SingleWorkerThreadsTracked ==
    ASSUME NEW w, Workers = {w}
    PROVE  Spec => []ThreadsTracked
<1>1. Init => TInv
    BY InitTInv
<1>2. TInv /\ [Next]_vars => TInv'
    BY NextTInv
<1>3. TInv => ThreadsTracked
    BY DEF TInv, ThreadFacts
<1>4. QED
    BY <1>1, <1>2, <1>3, PTL DEF Spec
=============================================================================
