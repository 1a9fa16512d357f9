------------------------ MODULE PsProcessorLiveProofs ------------------------
(***************************************************************************)
(* The proof that a pipeline with one worker keeps in the snapshot every   *)
(* process whose create or rundown it has handled and whose terminate it   *)
(* has not (LiveTracked).  The queue is handled in the order the host      *)
(* reported, and per PID the host reports creates and terminates in        *)
(* alternation; the inductive invariant says how the handled history, the  *)
(* OS and the queued process events of each PID line up.                   *)
(***************************************************************************)
EXTENDS PsProcessorProofs

\* A process-family event of PID p, and a TerminateProcess.
PE(e, p) == e.type \in ProcessTypes /\ e.pid = p
IsExit(e) == e.type = "TerminateProcess"

\* b may be the next process event of a PID after a: create and terminate
\* alternate, and a terminate ends the process the create started.
Follows(a, b) == IF IsExit(a) THEN ~IsExit(b) ELSE IsExit(b) /\ b.gen = a.gen

\* Handling e first is consistent with S, the PID's handled live starts.
Opens(e, S) == IF IsExit(e) THEN S \subseteq {e.gen} ELSE S = {}

\* The OS start time of the PID once e is reported (0: no process).
Reports(e) == IF IsExit(e) THEN 0 ELSE e.gen

(* Per PID p, a queue q, the handled live starts S and the OS's start o.  *)
Alt(q, p) ==
    \A i, j \in 1..Len(q) :
       /\ i < j /\ PE(q[i], p) /\ PE(q[j], p)
       /\ \A k \in i + 1..j - 1 : ~PE(q[k], p)
       => Follows(q[i], q[j])
Front(q, p, S) ==
    \A i \in 1..Len(q) :
       PE(q[i], p) /\ (\A k \in 1..i - 1 : ~PE(q[k], p)) => Opens(q[i], S)
Back(q, p, o) ==
    \A i \in 1..Len(q) :
       PE(q[i], p) /\ (\A k \in i + 1..Len(q) : ~PE(q[k], p)) => o = Reports(q[i])
Quiet(q, p, S, o) ==
    (\A i \in 1..Len(q) : ~PE(q[i], p)) => S \subseteq {o}

Lines(q, p, S, o) == Alt(q, p) /\ Front(q, p, S) /\ Back(q, p, o) /\ Quiet(q, p, S, o)

\* The start times of PID p whose create was handled and terminate was not.
SeenOf(p) == {g \in Starts : <<p, g>> \in seenLive}

(* Per worker and PID: consecutive queued process events alternate; the   *)
(* first continues the handled history; the last reports the OS's state;  *)
(* with none queued, the history agrees with the OS.                       *)
QueueLines == \A v \in Workers, p \in Pids : Lines(queue[v], p, SeenOf(p), os[p])

LInv == IInv /\ QueueLines /\ LiveTracked
-----------------------------------------------------------------------------
(* A queued process event carries a start time: the access events, whose   *)
(* start may be 0, are of other types.                                     *)
LEMMA PEGen ==
    ASSUME NEW e \in Event, NEW p, PE(e, p)
    PROVE  e.gen \in Starts /\ Reports(e) \in 0..MaxStart
BY ConstAssumption DEF ConstAssumption, Event, StreamEvent, AccessEvent, PE,
       ProcessTypes, OpenTypes, OtherTypes, Reports, Starts

(* Appending an event of another PID, or of no process type, keeps the     *)
(* lines of p.                                                            *)
LEMMA AppendOther ==
    ASSUME NEW q \in Seq(Event), NEW e, NEW p, NEW S, NEW o,
           ~PE(e, p), Lines(q, p, S, o)
    PROVE  Lines(Append(q, e), p, S, o)
<1> DEFINE r == Append(q, e)
<1>1. Len(r) = Len(q) + 1 /\ \A i \in 1..Len(q) : r[i] = q[i]
    OBVIOUS
<1>2. ~PE(r[Len(q) + 1], p)
    OBVIOUS
<1>3. Alt(r, p)
    BY <1>1, <1>2 DEF Lines, Alt
<1>4. Front(r, p, S)
    BY <1>1, <1>2 DEF Lines, Front
<1>5. Back(r, p, o)
    <2> SUFFICES ASSUME NEW i \in 1..Len(r), PE(r[i], p),
                        \A k \in i + 1..Len(r) : ~PE(r[k], p)
                 PROVE  o = Reports(r[i])
        BY DEF Back
    <2>1. i \in 1..Len(q) /\ \A k \in i + 1..Len(q) : ~PE(q[k], p)
        BY <1>1, <1>2
    <2>2. QED
        BY <1>1, <2>1 DEF Lines, Back
<1>6. Quiet(r, p, S, o)
    BY <1>1 DEF Lines, Quiet
<1>7. QED
    BY <1>3, <1>4, <1>5, <1>6 DEF Lines

(* The create a host reports when PID p gets a new process: the last      *)
(* queued process event of p, if any, is a terminate (the OS has no        *)
(* process at p), and with none queued the history holds no process.     *)
LEMMA AppendCreate ==
    ASSUME NEW q \in Seq(Event), NEW e \in Event, NEW p, NEW S \in SUBSET Starts,
           PE(e, p), ~IsExit(e), Lines(q, p, S, 0)
    PROVE  Lines(Append(q, e), p, S, e.gen)
<1> DEFINE r == Append(q, e)
<1>1. Len(r) = Len(q) + 1 /\ \A i \in 1..Len(q) : r[i] = q[i]
    OBVIOUS
<1>2. r[Len(q) + 1] = e
    OBVIOUS
<1>3. Alt(r, p)
    <2> SUFFICES ASSUME NEW i \in 1..Len(r), NEW j \in 1..Len(r),
                        i < j, PE(r[i], p), PE(r[j], p),
                        \A k \in i + 1..j - 1 : ~PE(r[k], p)
                 PROVE  Follows(r[i], r[j])
        BY DEF Alt
    <2>1. CASE j \in 1..Len(q)
        BY <1>1, <2>1 DEF Lines, Alt
    <2>2. CASE j = Len(q) + 1
        <3>1. i \in 1..Len(q) /\ \A k \in i + 1..Len(q) : ~PE(q[k], p)
            BY <1>1, <2>2
        <3>2. 0 = Reports(q[i])
            BY <1>1, <3>1 DEF Lines, Back
        <3>3. q[i].gen \in Starts
            BY <1>1, <3>1, PEGen
        <3>4. IsExit(q[i])
            BY <3>2, <3>3 DEF Reports, Starts
        <3>5. QED
            BY <1>1, <1>2, <2>2, <3>1, <3>4 DEF Follows
    <2>3. QED
        BY <2>1, <2>2
<1>4. Front(r, p, S)
    <2> SUFFICES ASSUME NEW i \in 1..Len(r), PE(r[i], p),
                        \A k \in 1..i - 1 : ~PE(r[k], p)
                 PROVE  Opens(r[i], S)
        BY DEF Front
    <2>1. CASE i \in 1..Len(q)
        BY <1>1, <2>1 DEF Lines, Front
    <2>2. CASE i = Len(q) + 1
        <3>1. \A k \in 1..Len(q) : ~PE(q[k], p)
            BY <1>1, <2>2
        <3>2. S \subseteq {0}
            BY <3>1 DEF Lines, Quiet
        <3>3. S = {}
            BY <3>2 DEF Starts
        <3>4. QED
            BY <1>2, <2>2, <3>3 DEF Opens
    <2>3. QED
        BY <2>1, <2>2
<1>5. Back(r, p, e.gen)
    BY <1>1, <1>2 DEF Back, Reports
<1>6. Quiet(r, p, S, e.gen)
    BY <1>1, <1>2 DEF Quiet
<1>7. QED
    BY <1>3, <1>4, <1>5, <1>6 DEF Lines

(* The terminate a host reports when the process o of PID p exits: the    *)
(* last queued process event of p, if any, is the create of o, and with   *)
(* none queued the history holds at most o.                               *)
LEMMA AppendExit ==
    ASSUME NEW q \in Seq(Event), NEW e \in Event, NEW p, NEW S, NEW o \in Starts,
           PE(e, p), IsExit(e), e.gen = o, Lines(q, p, S, o)
    PROVE  Lines(Append(q, e), p, S, 0)
<1> DEFINE r == Append(q, e)
<1>1. Len(r) = Len(q) + 1 /\ \A i \in 1..Len(q) : r[i] = q[i]
    OBVIOUS
<1>2. r[Len(q) + 1] = e
    OBVIOUS
<1>3. Alt(r, p)
    <2> SUFFICES ASSUME NEW i \in 1..Len(r), NEW j \in 1..Len(r),
                        i < j, PE(r[i], p), PE(r[j], p),
                        \A k \in i + 1..j - 1 : ~PE(r[k], p)
                 PROVE  Follows(r[i], r[j])
        BY DEF Alt
    <2>1. CASE j \in 1..Len(q)
        BY <1>1, <2>1 DEF Lines, Alt
    <2>2. CASE j = Len(q) + 1
        <3>1. i \in 1..Len(q) /\ \A k \in i + 1..Len(q) : ~PE(q[k], p)
            BY <1>1, <2>2
        <3>2. o = Reports(q[i])
            BY <1>1, <3>1 DEF Lines, Back
        <3>3. ~IsExit(q[i]) /\ q[i].gen = o
            BY <3>2 DEF Reports, Starts
        <3>4. QED
            BY <1>1, <1>2, <2>2, <3>1, <3>3 DEF Follows
    <2>3. QED
        BY <2>1, <2>2
<1>4. Front(r, p, S)
    <2> SUFFICES ASSUME NEW i \in 1..Len(r), PE(r[i], p),
                        \A k \in 1..i - 1 : ~PE(r[k], p)
                 PROVE  Opens(r[i], S)
        BY DEF Front
    <2>1. CASE i \in 1..Len(q)
        BY <1>1, <2>1 DEF Lines, Front
    <2>2. CASE i = Len(q) + 1
        <3>1. \A k \in 1..Len(q) : ~PE(q[k], p)
            BY <1>1, <2>2
        <3>2. S \subseteq {o}
            BY <3>1 DEF Lines, Quiet
        <3>3. QED
            BY <1>2, <2>2, <3>2 DEF Opens
    <2>3. QED
        BY <2>1, <2>2
<1>5. Back(r, p, 0)
    BY <1>1, <1>2 DEF Back, Reports
<1>6. Quiet(r, p, S, 0)
    BY <1>1, <1>2 DEF Quiet
<1>7. QED
    BY <1>3, <1>4, <1>5, <1>6 DEF Lines
(* Handling the head leaves the alternation of the rest and its last      *)
(* event, whatever the head was.                                           *)
LEMMA TailShift ==
    ASSUME NEW q \in Seq(Event), q # <<>>, NEW p, NEW o, Alt(q, p), Back(q, p, o)
    PROVE  Alt(Tail(q), p) /\ Back(Tail(q), p, o)
<1> DEFINE r == Tail(q)
<1>1. Len(r) = Len(q) - 1 /\ \A i \in 1..Len(r) : i + 1 \in 1..Len(q) /\ r[i] = q[i + 1]
    OBVIOUS
<1>2. Alt(r, p)
    <2> SUFFICES ASSUME NEW i \in 1..Len(r), NEW j \in 1..Len(r),
                        i < j, PE(r[i], p), PE(r[j], p),
                        \A k \in i + 1..j - 1 : ~PE(r[k], p)
                 PROVE  Follows(r[i], r[j])
        BY DEF Alt
    <2>1. \A k \in (i + 1) + 1..(j + 1) - 1 : ~PE(q[k], p)
        <3> SUFFICES ASSUME NEW k \in (i + 1) + 1..(j + 1) - 1 PROVE ~PE(q[k], p)
            OBVIOUS
        <3>1. k - 1 \in i + 1..j - 1 /\ k - 1 \in 1..Len(r) /\ q[k] = r[k - 1]
            BY <1>1
        <3>2. QED
            BY <3>1
    <2>2. i + 1 \in 1..Len(q) /\ j + 1 \in 1..Len(q) /\ i + 1 < j + 1
        BY <1>1
    <2>3. Follows(q[i + 1], q[j + 1])
        BY <1>1, <2>1, <2>2 DEF Alt
    <2>4. QED
        BY <1>1, <2>3
<1>3. Back(r, p, o)
    <2> SUFFICES ASSUME NEW i \in 1..Len(r), PE(r[i], p),
                        \A k \in i + 1..Len(r) : ~PE(r[k], p)
                 PROVE  o = Reports(r[i])
        BY DEF Back
    <2>1. \A k \in (i + 1) + 1..Len(q) : ~PE(q[k], p)
        <3> SUFFICES ASSUME NEW k \in (i + 1) + 1..Len(q) PROVE ~PE(q[k], p)
            OBVIOUS
        <3>1. k - 1 \in i + 1..Len(r) /\ q[k] = r[k - 1]
            BY <1>1
        <3>2. QED
            BY <3>1
    <2>2. o = Reports(q[i + 1])
        BY <1>1, <2>1 DEF Back
    <2>3. QED
        BY <1>1, <2>2
<1>4. QED
    BY <1>2, <1>3

(* The first process event of p after the head, when the head is one:     *)
(* it follows the head.                                                   *)
LEMMA NextAfterHead ==
    ASSUME NEW q \in Seq(Event), q # <<>>, NEW p, Alt(q, p), PE(Head(q), p),
           NEW i \in 1..Len(Tail(q)), PE(Tail(q)[i], p),
           \A k \in 1..i - 1 : ~PE(Tail(q)[k], p)
    PROVE  Follows(Head(q), Tail(q)[i])
<1>1. 1 \in 1..Len(q) /\ i + 1 \in 1..Len(q) /\ 1 < i + 1 /\ q[1] = Head(q)
      /\ q[i + 1] = Tail(q)[i]
    OBVIOUS
<1>2. \A k \in 1 + 1..(i + 1) - 1 : ~PE(q[k], p)
    <2> SUFFICES ASSUME NEW k \in 1 + 1..(i + 1) - 1 PROVE ~PE(q[k], p)
        OBVIOUS
    <2>1. k - 1 \in 1..i - 1 /\ q[k] = Tail(q)[k - 1]
        OBVIOUS
    <2>2. QED
        BY <2>1
<1>3. QED
    BY <1>1, <1>2 DEF Alt

(* The head of process type of p, with no other after it, is the last.    *)
LEMMA HeadIsLast ==
    ASSUME NEW q \in Seq(Event), q # <<>>, NEW p, NEW o, Back(q, p, o), PE(Head(q), p),
           \A i \in 1..Len(Tail(q)) : ~PE(Tail(q)[i], p)
    PROVE  o = Reports(Head(q))
<1>1. \A k \in 1 + 1..Len(q) : ~PE(q[k], p)
    <2> SUFFICES ASSUME NEW k \in 1 + 1..Len(q) PROVE ~PE(q[k], p)
        OBVIOUS
    <2>1. k - 1 \in 1..Len(Tail(q)) /\ q[k] = Tail(q)[k - 1]
        OBVIOUS
    <2>2. QED
        BY <2>1
<1>2. QED
    BY <1>1 DEF Back
(* Handling an event that is not a process event of p keeps p's lines.    *)
LEMMA TailOther ==
    ASSUME NEW q \in Seq(Event), q # <<>>, NEW p, NEW S, NEW o,
           ~PE(Head(q), p), Lines(q, p, S, o)
    PROVE  Lines(Tail(q), p, S, o)
<1> DEFINE r == Tail(q)
<1>1. Alt(r, p) /\ Back(r, p, o)
    BY TailShift DEF Lines
<1>2. Front(r, p, S)
    <2> SUFFICES ASSUME NEW i \in 1..Len(r), PE(r[i], p),
                        \A k \in 1..i - 1 : ~PE(r[k], p)
                 PROVE  Opens(r[i], S)
        BY DEF Front
    <2>1. \A k \in 1..(i + 1) - 1 : ~PE(q[k], p)
        <3> SUFFICES ASSUME NEW k \in 1..(i + 1) - 1 PROVE ~PE(q[k], p)
            OBVIOUS
        <3>1. CASE k = 1
            BY <3>1
        <3>2. CASE k # 1
            <4>1. k - 1 \in 1..i - 1 /\ q[k] = r[k - 1]
                BY <3>2
            <4>2. QED
                BY <4>1
        <3>3. QED
            BY <3>1, <3>2
    <2>2. i + 1 \in 1..Len(q) /\ q[i + 1] = r[i]
        OBVIOUS
    <2>3. QED
        BY <2>1, <2>2 DEF Lines, Front
<1>3. Quiet(r, p, S, o)
    <2> SUFFICES ASSUME \A i \in 1..Len(r) : ~PE(r[i], p) PROVE S \subseteq {o}
        BY DEF Quiet
    <2>1. \A k \in 1..Len(q) : ~PE(q[k], p)
        <3> SUFFICES ASSUME NEW k \in 1..Len(q) PROVE ~PE(q[k], p)
            OBVIOUS
        <3>1. CASE k = 1
            BY <3>1
        <3>2. CASE k # 1
            <4>1. k - 1 \in 1..Len(r) /\ q[k] = r[k - 1]
                BY <3>2
            <4>2. QED
                BY <4>1
        <3>3. QED
            BY <3>1, <3>2
    <2>2. QED
        BY <2>1 DEF Lines, Quiet
<1>4. QED
    BY <1>1, <1>2, <1>3 DEF Lines

(* Handling the create of process g of p: the history held no process of  *)
(* p, and with g added it is what the rest of the queue continues.        *)
LEMMA TailCreate ==
    ASSUME NEW q \in Seq(Event), q # <<>>, NEW p, NEW S, NEW o,
           PE(Head(q), p), ~IsExit(Head(q)), Lines(q, p, S, o)
    PROVE  S = {} /\ Lines(Tail(q), p, {Head(q).gen}, o)
<1> DEFINE r == Tail(q)
           g == Head(q).gen
<1>1. Alt(r, p) /\ Back(r, p, o)
    BY TailShift DEF Lines
<1>2. S = {}
    <2>1. 1 \in 1..Len(q) /\ q[1] = Head(q) /\ \A k \in 1..1 - 1 : ~PE(q[k], p)
        OBVIOUS
    <2>2. QED
        BY <2>1 DEF Lines, Front, Opens
<1>3. Front(r, p, {g})
    <2> SUFFICES ASSUME NEW i \in 1..Len(r), PE(r[i], p),
                        \A k \in 1..i - 1 : ~PE(r[k], p)
                 PROVE  Opens(r[i], {g})
        BY DEF Front
    <2>1. Follows(Head(q), r[i])
        BY NextAfterHead DEF Lines
    <2>2. QED
        BY <2>1 DEF Follows, Opens
<1>4. Quiet(r, p, {g}, o)
    <2> SUFFICES ASSUME \A i \in 1..Len(r) : ~PE(r[i], p) PROVE {g} \subseteq {o}
        BY DEF Quiet
    <2>1. o = Reports(Head(q))
        BY HeadIsLast DEF Lines
    <2>2. QED
        BY <2>1 DEF Reports
<1>5. QED
    BY <1>1, <1>2, <1>3, <1>4 DEF Lines

(* Handling the terminate of process g of p: the history held at most g, *)
(* and with g removed it holds no process of p, as the rest expects.      *)
LEMMA TailExit ==
    ASSUME NEW q \in Seq(Event), q # <<>>, NEW p, NEW S, NEW o,
           PE(Head(q), p), IsExit(Head(q)), Lines(q, p, S, o)
    PROVE  S \subseteq {Head(q).gen} /\ Lines(Tail(q), p, {}, o)
<1> DEFINE r == Tail(q)
<1>1. Alt(r, p) /\ Back(r, p, o)
    BY TailShift DEF Lines
<1>2. S \subseteq {Head(q).gen}
    <2>1. 1 \in 1..Len(q) /\ q[1] = Head(q) /\ \A k \in 1..1 - 1 : ~PE(q[k], p)
        OBVIOUS
    <2>2. QED
        BY <2>1 DEF Lines, Front, Opens
<1>3. Front(r, p, {})
    <2> SUFFICES ASSUME NEW i \in 1..Len(r), PE(r[i], p),
                        \A k \in 1..i - 1 : ~PE(r[k], p)
                 PROVE  Opens(r[i], {})
        BY DEF Front
    <2>1. Follows(Head(q), r[i])
        BY NextAfterHead DEF Lines
    <2>2. QED
        BY <2>1 DEF Follows, Opens
<1>4. Quiet(r, p, {}, o)
    BY DEF Quiet
<1>5. QED
    BY <1>1, <1>2, <1>3, <1>4 DEF Lines
-----------------------------------------------------------------------------
(* The snapshot operations of the thread and open cases never drop an     *)
(* entry: FindAndPut only inserts, AddThread and RemoveThread only edit   *)
(* the thread map of an entry.                                            *)
LEMMA KeepsEntries ==
    ASSUME NEW s, SnapType(s), NEW p \in Pids, NEW t \in Tids, NEW q \in Pids,
           s[q] # NoProc
    PROVE  /\ FindAndPut(s, p)[q] # NoProc
           /\ AddThread(s, p, t)[q] # NoProc
           /\ RemoveThread(s, p, t)[q] # NoProc
<1> USE NoProcAssumption DEF NoProcAssumption
<1>1. FindAndPut(s, p)[q] = s[q]
    BY DEF SnapType, FindAndPut
<1>2. s[q] \in Entry
    BY DEF SnapType
<1>3. \A x \in SUBSET Tids : [s[q] EXCEPT !.threads = x] \in Entry
    BY <1>2 DEF Entry
<1>4. CASE q = p
    <2>1. [s[q] EXCEPT !.threads = s[q].threads \cup {t}] \in Entry
          /\ [s[q] EXCEPT !.threads = s[q].threads \ {t}] \in Entry
        BY <1>2, <1>3 DEF Entry
    <2>2. QED
        BY <1>1, <1>4, <2>1 DEF SnapType, AddThread, RemoveThread
<1>5. CASE q # p
    BY <1>1, <1>5 DEF SnapType, AddThread, RemoveThread
<1>6. QED
    BY <1>4, <1>5
(* The host reports an event of no process type: every PID keeps its lines. *)
LEMMA EmitKeepsLines ==
    ASSUME TypeOK, QueueLines, NEW w, Workers = {w}, NEW e \in Event,
           e.type \notin ProcessTypes,
           queue' = [queue EXCEPT ![w] = Append(queue[w], e)],
           os' = os, seenLive' = seenLive
    PROVE  QueueLines'
<1> SUFFICES ASSUME NEW v \in Workers, NEW p \in Pids
             PROVE  Lines(queue'[v], p, SeenOf(p)', os'[p])
    BY DEF QueueLines
<1>1. queue'[v] = Append(queue[w], e) /\ queue[w] \in Seq(Event)
    BY DEF TypeOK
<1>2. SeenOf(p)' = SeenOf(p) /\ os'[p] = os[p]
    BY DEF SeenOf
<1>3. Lines(queue[w], p, SeenOf(p), os[p])
    BY DEF QueueLines
<1>4. ~PE(e, p)
    BY DEF PE
<1>5. QED
    BY <1>1, <1>2, <1>3, <1>4, AppendOther

(* The worker handles an event of no process type: every PID keeps its    *)
(* lines.                                                                 *)
LEMMA HandleKeepsLines ==
    ASSUME TypeOK, QueueLines, NEW w, Workers = {w}, queue[w] # <<>>,
           Head(queue[w]).type \notin ProcessTypes,
           queue' = [queue EXCEPT ![w] = Tail(@)],
           os' = os, seenLive' = seenLive
    PROVE  QueueLines'
<1> SUFFICES ASSUME NEW v \in Workers, NEW p \in Pids
             PROVE  Lines(queue'[v], p, SeenOf(p)', os'[p])
    BY DEF QueueLines
<1>1. queue'[v] = Tail(queue[w]) /\ queue[w] \in Seq(Event)
    BY DEF TypeOK
<1>2. SeenOf(p)' = SeenOf(p) /\ os'[p] = os[p]
    BY DEF SeenOf
<1>3. Lines(queue[w], p, SeenOf(p), os[p])
    BY DEF QueueLines
<1>4. ~PE(Head(queue[w]), p)
    BY DEF PE
<1>5. QED
    BY <1>1, <1>2, <1>3, <1>4, TailOther

LEMMA InitLInv == Init => LInv
<1> SUFFICES ASSUME Init PROVE LInv
    OBVIOUS
<1>1. IInv
    BY InitIInv
<1>2. QueueLines
    <2> SUFFICES ASSUME NEW v \in Workers, NEW p \in Pids
                 PROVE  Lines(queue[v], p, SeenOf(p), os[p])
        BY DEF QueueLines
    <2>1. Len(queue[v]) = 0 /\ SeenOf(p) = {}
        BY DEF Init, SeenOf
    <2>2. QED
        BY <2>1 DEF Lines, Alt, Front, Back, Quiet
<1>3. LiveTracked
    BY DEF Init, LiveTracked
<1>4. QED
    BY <1>1, <1>2, <1>3 DEF LInv
(* The host starts a process at p: its create is the next process event   *)
(* of p, after p's last one, a terminate.                                 *)
LEMMA SpawnLInv ==
    ASSUME LInv, NEW w, Workers = {w}, NEW p \in Pids, NEW w0 \in Workers,
           SpawnProcess(p, w0)
    PROVE  QueueLines' /\ LiveTracked'
<1> USE ConstAssumption DEF ConstAssumption
<1>1. PICK ty \in {"ProcessRundown", "ProcessRundownInternal", "CreateProcess",
                   "CreateProcessInternal"} :
         Emit(w, [type |-> ty, pid |-> p, tid |-> AnyTid, gen |-> clock + 1])
    BY DEF SpawnProcess
<1> DEFINE e == [type |-> ty, pid |-> p, tid |-> AnyTid, gen |-> clock + 1]
<1>2. /\ e \in Event /\ PE(e, p) /\ ~IsExit(e) /\ e.gen = clock + 1
      /\ queue' = [queue EXCEPT ![w] = Append(queue[w], e)]
    <2>1. clock + 1 \in Starts /\ AnyTid \in Tids
        BY DEF SpawnProcess, AnyTid, Starts, LInv, IInv, TypeOK
    <2>2. e \in StreamEvent
        BY <2>1 DEF StreamEvent, ProcessTypes
    <2>3. QED
        BY <1>1, <2>2 DEF Emit, Event, PE, IsExit, ProcessTypes
<1>3. LiveTracked'
    BY DEF SpawnProcess, LInv, LiveTracked
<1>4. QueueLines'
    <2> SUFFICES ASSUME NEW v \in Workers, NEW r \in Pids
                 PROVE  Lines(queue'[v], r, SeenOf(r)', os'[r])
        BY DEF QueueLines
    <2>1. queue'[v] = Append(queue[w], e) /\ queue[w] \in Seq(Event)
        BY <1>2 DEF LInv, IInv, TypeOK
    <2>2. SeenOf(r)' = SeenOf(r) /\ SeenOf(r) \subseteq Starts
        BY DEF SpawnProcess, SeenOf
    <2>3. Lines(queue[w], r, SeenOf(r), os[r])
        BY DEF LInv, QueueLines
    <2>4. CASE r = p
        <3>1. os[r] = 0 /\ os'[r] = e.gen
            BY <1>2, <2>4 DEF SpawnProcess, LInv, IInv, TypeOK
        <3>2. QED
            BY <1>2, <2>1, <2>2, <2>3, <2>4, <3>1, AppendCreate
    <2>5. CASE r # p
        <3>1. os'[r] = os[r] /\ ~PE(e, r)
            BY <2>5 DEF SpawnProcess, PE
        <3>2. QED
            BY <1>2, <2>1, <2>2, <2>3, <3>1, AppendOther
    <2>6. QED
        BY <2>4, <2>5
<1>5. QED
    BY <1>3, <1>4

(* The process at p exits: its terminate is the next process event of p,  *)
(* after p's last one, the create of that process.                        *)
LEMMA ExitLInv ==
    ASSUME LInv, NEW w, Workers = {w}, NEW p \in Pids, NEW w0 \in Workers,
           ExitProcess(p, w0)
    PROVE  QueueLines' /\ LiveTracked'
<1> USE ConstAssumption DEF ConstAssumption
<1> DEFINE e == [type |-> "TerminateProcess", pid |-> p, tid |-> AnyTid, gen |-> os[p]]
<1>1. /\ os[p] \in Starts
      /\ e \in Event /\ PE(e, p) /\ IsExit(e) /\ e.gen = os[p]
      /\ queue' = [queue EXCEPT ![w] = Append(queue[w], e)]
    BY DEF ExitProcess, Emit, AnyTid, Event, StreamEvent, ProcessTypes, Starts,
           PE, IsExit, LInv, IInv, TypeOK
<1>2. LiveTracked'
    BY DEF ExitProcess, LInv, LiveTracked
<1>3. QueueLines'
    <2> SUFFICES ASSUME NEW v \in Workers, NEW r \in Pids
                 PROVE  Lines(queue'[v], r, SeenOf(r)', os'[r])
        BY DEF QueueLines
    <2>1. queue'[v] = Append(queue[w], e) /\ queue[w] \in Seq(Event)
        BY <1>1 DEF LInv, IInv, TypeOK
    <2>2. SeenOf(r)' = SeenOf(r)
        BY DEF ExitProcess, SeenOf
    <2>3. Lines(queue[w], r, SeenOf(r), os[r])
        BY DEF LInv, QueueLines
    <2>4. CASE r = p
        <3>1. os'[r] = 0
            BY <2>4 DEF ExitProcess, LInv, IInv, TypeOK
        <3>2. QED
            BY <1>1, <2>1, <2>2, <2>3, <2>4, <3>1, AppendExit
    <2>5. CASE r # p
        <3>1. os'[r] = os[r] /\ ~PE(e, r)
            BY <2>5 DEF ExitProcess, PE
        <3>2. QED
            BY <1>1, <2>1, <2>2, <2>3, <3>1, AppendOther
    <2>6. QED
        BY <2>4, <2>5
<1>4. QED
    BY <1>2, <1>3
(* psProcessor.ProcessEvent on the head's process event of PID p.  A      *)
(* create writes p's entry while the history held no process of p; a      *)
(* terminate removes p's entry, and the history held only that process.   *)
LEMMA HandleProcessLInv ==
    ASSUME LInv, NEW w, Workers = {w}, NEW w0 \in Workers, HandleProcess(w0)
    PROVE  QueueLines' /\ LiveTracked'
<1> DEFINE e == Head(queue[w])
<1>0. PICK p \in Pids : p = e.pid
    BY DEF HandleProcess, LInv, IInv, TypeOK, Event, StreamEvent, AccessEvent
<1>1. /\ queue[w] # <<>> /\ queue[w] \in Seq(Event)
      /\ e \in Event /\ e.type \in ProcessTypes /\ e.gen \in Starts
      /\ queue' = [queue EXCEPT ![w] = Tail(queue[w])]
      /\ queue'[w] = Tail(queue[w])
      /\ os' = os
    BY DEF HandleProcess, LInv, IInv, TypeOK, Event, StreamEvent, AccessEvent,
           ProcessTypes, OpenTypes, OtherTypes
<1>2. PE(e, p)
    BY <1>0, <1>1 DEF PE
<1>3. ASSUME NEW r \in Pids, r # p,
             seenLive' \cap ({r} \X Starts) = seenLive \cap ({r} \X Starts)
      PROVE  Lines(queue'[w], r, SeenOf(r)', os'[r])
    <2>1. SeenOf(r)' = SeenOf(r)
        BY <1>3 DEF SeenOf
    <2>2. ~PE(e, r) /\ Lines(queue[w], r, SeenOf(r), os[r])
        BY <1>0, <1>3 DEF PE, LInv, QueueLines
    <2>3. QED
        BY <1>1, <2>1, <2>2, TailOther
<1>4. CASE IsExit(e)
    <2>1. /\ snap' = [snap EXCEPT ![p] = NoProc]
          /\ seenLive' = seenLive \ {<<p, e.gen>>}
        BY <1>0, <1>4 DEF HandleProcess, IsExit
    <2>2. SeenOf(p) \subseteq {e.gen} /\ Lines(Tail(queue[w]), p, {}, os[p])
        BY <1>1, <1>2, <1>4, TailExit DEF LInv, QueueLines
    <2>3. SeenOf(p)' = {}
        BY <2>1, <2>2 DEF SeenOf
    <2>4. QueueLines'
        <3> SUFFICES ASSUME NEW v \in Workers, NEW r \in Pids
                     PROVE  Lines(queue'[v], r, SeenOf(r)', os'[r])
            BY DEF QueueLines
        <3>1. v = w
            OBVIOUS
        <3>2. CASE r = p
            BY <1>1, <2>2, <2>3, <3>1, <3>2
        <3>3. CASE r # p
            BY <1>3, <2>1, <3>1, <3>3
        <3>4. QED
            BY <3>2, <3>3
    <2>5. LiveTracked'
        <3> SUFFICES ASSUME NEW x \in seenLive' PROVE snap'[x[1]] # NoProc
            BY DEF LiveTracked
        <3>1. x \in seenLive /\ x \in Pids \X Starts
            BY <2>1 DEF LInv, IInv, TypeOK
        <3>2. x[1] # p
            BY <2>1, <2>2, <3>1 DEF SeenOf
        <3>3. QED
            BY <2>1, <3>1, <3>2 DEF LInv, LiveTracked, IInv, TypeOK
    <2>6. QED
        BY <2>4, <2>5
<1>5. CASE ~IsExit(e)
    <2>1. /\ \E start \in StartVal : snap' = Write(snap, p, start, e.gen)
          /\ seenLive' = seenLive \cup {<<p, e.gen>>}
        <3>1. StartTimes(e) \subseteq StartVal /\ {e.gen} \subseteq StartVal
            BY <1>0, <1>1 DEF StartTimes, Timestamp, StartVal, Starts, LInv, IInv, TypeOK
        <3>2. QED
            BY <1>0, <1>5, <3>1 DEF HandleProcess, IsExit
    <2>2. SeenOf(p) = {} /\ Lines(Tail(queue[w]), p, {e.gen}, os[p])
        BY <1>1, <1>2, <1>5, TailCreate DEF LInv, QueueLines
    <2>3. SeenOf(p)' = {e.gen}
        BY <1>1, <2>1, <2>2 DEF SeenOf
    <2>4. QueueLines'
        <3> SUFFICES ASSUME NEW v \in Workers, NEW r \in Pids
                     PROVE  Lines(queue'[v], r, SeenOf(r)', os'[r])
            BY DEF QueueLines
        <3>1. v = w
            OBVIOUS
        <3>2. CASE r = p
            BY <1>1, <2>2, <2>3, <3>1, <3>2
        <3>3. CASE r # p
            BY <1>3, <2>1, <3>1, <3>3
        <3>4. QED
            BY <3>2, <3>3
    <2>5. LiveTracked'
        <3>1. PICK start \in StartVal : snap' = Write(snap, p, start, e.gen)
            BY <2>1
        <3>2. snap \in [Pids -> Entry \cup {NoProc}]
            BY DEF LInv, IInv, TypeOK
        <3>3. snap'[p] \in Entry
            BY <1>1, <3>1, <3>2 DEF Write, Entry, Starts
        <3>4. \A r \in Pids : r # p => snap'[r] = snap[r]
            BY <3>1, <3>2 DEF Write
        <3>5. QED
            BY <2>1, <3>3, <3>4, NoProcAssumption
               DEF NoProcAssumption, LInv, LiveTracked, IInv, TypeOK
    <2>6. QED
        BY <2>4, <2>5
<1>6. QED
    BY <1>4, <1>5
(* With one worker every step keeps LInv.                                 *)
(* A step that leaves the queues, the OS and the handled history alone    *)
(* keeps every PID's lines; one that also leaves the snapshot keeps       *)
(* LiveTracked.                                                           *)
LEMMA Unmoved ==
    ASSUME LInv, queue' = queue, os' = os, seenLive' = seenLive, snap' = snap
    PROVE  QueueLines' /\ LiveTracked'
<1>1. \A p \in Pids : SeenOf(p)' = SeenOf(p)
    BY DEF SeenOf
<1>2. QueueLines'
    BY <1>1 DEF LInv, QueueLines
<1>3. LiveTracked'
    BY DEF LInv, LiveTracked
<1>4. QED
    BY <1>2, <1>3


LEMMA NextLInv ==
    ASSUME NEW w, Workers = {w}
    PROVE  LInv /\ [Next]_vars => LInv'
<1> SUFFICES ASSUME LInv, [Next]_vars PROVE LInv'
    OBVIOUS
<1> USE ConstAssumption DEF ConstAssumption
<1>0. IInv' /\ TypeOK /\ AnyTid \in Tids
    BY NextIInv DEF LInv, IInv, AnyTid
<1> SUFFICES QueueLines' /\ LiveTracked'
    BY <1>0 DEF LInv
<1>1. CASE EndRundown
    BY <1>1, Unmoved DEF EndRundown, LInv
<1>2. ASSUME NEW p \in Pids, NEW w0 \in Workers, SpawnProcess(p, w0)
      PROVE  QueueLines' /\ LiveTracked'
    BY <1>2, SpawnLInv
<1>3. ASSUME NEW p \in Pids, NEW w0 \in Workers, ExitProcess(p, w0)
      PROVE  QueueLines' /\ LiveTracked'
    BY <1>3, ExitLInv
<1>4. ASSUME NEW p \in Pids, NEW w0 \in Workers, AccessProcess(p, w0)
      PROVE  QueueLines' /\ LiveTracked'
    <2>1. PICK ty \in OpenTypes \cup OtherTypes :
                Emit(w, [type |-> ty, pid |-> p, tid |-> AnyTid, gen |-> os[p]])
        BY <1>4 DEF AccessProcess
    <2>2. [type |-> ty, pid |-> p, tid |-> AnyTid, gen |-> os[p]] \in Event
        BY <1>0 DEF Event, AccessEvent, TypeOK
    <2>3. QED
        BY <1>0, <1>4, <2>1, <2>2, EmitKeepsLines
           DEF AccessProcess, Emit, OpenTypes, OtherTypes, ProcessTypes, LInv, LiveTracked
<1>5. ASSUME NEW p \in Pids, NEW t \in Tids, NEW w0 \in Workers, SpawnThread(p, t, w0)
      PROVE  QueueLines' /\ LiveTracked'
    <2> DEFINE e == [type |-> IF booting THEN "ThreadRundown" ELSE "CreateThread",
                     pid |-> p, tid |-> t, gen |-> os[p]]
    <2>1. e \in Event /\ e.type \notin ProcessTypes
        BY <1>0, <1>5 DEF SpawnThread, Event, StreamEvent, ThreadTypes, ProcessTypes, Starts,
                 TypeOK
    <2>2. queue' = [queue EXCEPT ![w] = Append(queue[w], e)]
        BY <1>5 DEF SpawnThread, Emit
    <2>3. QED
        BY <1>0, <1>5, <2>1, <2>2, EmitKeepsLines DEF SpawnThread, LInv, LiveTracked
<1>6. ASSUME NEW p \in Pids, NEW t \in Tids, NEW w0 \in Workers, ExitThread(p, t, w0)
      PROVE  QueueLines' /\ LiveTracked'
    <2> DEFINE e == [type |-> "TerminateThread", pid |-> p, tid |-> t, gen |-> os[p]]
    <2>1. os[p] # 0
        BY <1>6 DEF ExitThread, LInv, IInv, ThreadsOfLive
    <2>2. e \in Event /\ e.type \notin ProcessTypes
        BY <1>0, <2>1 DEF Event, StreamEvent, ThreadTypes, ProcessTypes, Starts, TypeOK
    <2>3. queue' = [queue EXCEPT ![w] = Append(queue[w], e)]
        BY <1>6 DEF ExitThread, Emit
    <2>4. QED
        BY <1>0, <1>6, <2>2, <2>3, EmitKeepsLines DEF ExitThread, LInv, LiveTracked
<1>7. ASSUME NEW p \in Pids, ProberQuery(p)
      PROVE  QueueLines' /\ LiveTracked'
    BY <1>7, Unmoved DEF ProberQuery, LInv
<1>8. ASSUME NEW w0 \in Workers, HandleProcess(w0)
      PROVE  QueueLines' /\ LiveTracked'
    BY <1>8, HandleProcessLInv
<1>9. ASSUME NEW w0 \in Workers, HandleThread(w0)
      PROVE  QueueLines' /\ LiveTracked'
    <2> DEFINE e == Head(queue[w])
    <2>1. /\ queue[w] # <<>> /\ e \in Event /\ e.type \in ThreadTypes
          /\ e.pid \in Pids /\ e.tid \in Tids
          /\ queue' = [queue EXCEPT ![w] = Tail(@)]
        BY <1>0, <1>9 DEF HandleThread, TypeOK, Event, StreamEvent, AccessEvent, ThreadTypes,
                 OpenTypes, OtherTypes
    <2>2. QueueLines'
        BY <1>0, <1>9, <2>1, HandleKeepsLines DEF HandleThread, ThreadTypes, ProcessTypes,
           LInv
    <2>3. LiveTracked'
        <3> SUFFICES ASSUME NEW x \in seenLive' PROVE snap'[x[1]] # NoProc
            BY DEF LiveTracked
        <3>1. x \in seenLive /\ x[1] \in Pids /\ snap[x[1]] # NoProc
            BY <1>0, <1>9 DEF HandleThread, LInv, LiveTracked, TypeOK
        <3>2. SnapType(snap) /\ os \in [Pids -> 0..MaxStart]
            BY <1>0 DEF TypeOK, SnapType
        <3>3. SnapType(FindAndPut(snap, e.pid))
            BY <2>1, <3>2, FindAndPutType
        <3>4. FindAndPut(snap, e.pid)[x[1]] # NoProc
            BY <2>1, <3>1, <3>2, KeepsEntries
        <3>5. /\ AddThread(FindAndPut(snap, e.pid), e.pid, e.tid)[x[1]] # NoProc
              /\ RemoveThread(FindAndPut(snap, e.pid), e.pid, e.tid)[x[1]] # NoProc
            BY <2>1, <3>1, <3>3, <3>4, KeepsEntries
        <3>6. QED
            BY <1>9, <3>5 DEF HandleThread
    <2>4. QED
        BY <2>2, <2>3
<1>10. ASSUME NEW w0 \in Workers, HandleOpen(w0)
       PROVE  QueueLines' /\ LiveTracked'
    <2>1. /\ queue[w] # <<>> /\ Head(queue[w]).pid \in Pids
          /\ Head(queue[w]).type \notin ProcessTypes
        BY <1>0, <1>10 DEF HandleOpen, TypeOK, Event, StreamEvent, AccessEvent, OpenTypes,
                  ProcessTypes
    <2>2. QueueLines'
        BY <1>0, <1>10, <2>1, HandleKeepsLines DEF HandleOpen, LInv
    <2>3. LiveTracked'
        <3> SUFFICES ASSUME NEW x \in seenLive' PROVE snap'[x[1]] # NoProc
            BY DEF LiveTracked
        <3>1. x \in seenLive /\ x[1] \in Pids /\ snap[x[1]] # NoProc
            BY <1>0, <1>10 DEF HandleOpen, LInv, LiveTracked, TypeOK
        <3>2. SnapType(snap) /\ AnyTid \in Tids
            BY <1>0 DEF TypeOK, SnapType
        <3>3. FindAndPut(snap, Head(queue[w]).pid)[x[1]] # NoProc
            BY <2>1, <3>1, <3>2, KeepsEntries
        <3>4. QED
            BY <1>10, <3>3 DEF HandleOpen
    <2>4. QED
        BY <2>2, <2>3
<1>11. ASSUME NEW w0 \in Workers, HandleOther(w0)
       PROVE  QueueLines' /\ LiveTracked'
    <2>1. queue[w] # <<>> /\ Head(queue[w]).type \notin ProcessTypes
        BY <1>11 DEF HandleOther, OtherTypes, ProcessTypes
    <2>2. QED
        BY <1>0, <1>11, <2>1, HandleKeepsLines DEF HandleOther, LInv, LiveTracked
<1>12. CASE UNCHANGED vars
    BY <1>12, Unmoved DEF vars, LInv
<1>13. QED
    BY <1>1, <1>2, <1>3, <1>4, <1>5, <1>6, <1>7, <1>8, <1>9, <1>10, <1>11, <1>12
       DEF Next, Host, Pipeline

(* LiveTracked, for a pipeline with one worker: every process whose create *)
(* or rundown psProcessor.ProcessEvent has handled, and whose terminate it *)
(* has not, has an entry in the snapshot.  With two workers the old        *)
(* process's TerminateProcess can remove the new one (run                  *)
(* ps_reorder_remove), so the hypothesis is the case the property is for.  *)
THEOREM SingleWorkerLiveTracked ==
    ASSUME NEW w, Workers = {w}
    PROVE  Spec => []LiveTracked
<1>1. Init => LInv
    BY InitLInv
<1>2. LInv /\ [Next]_vars => LInv'
    BY NextLInv
<1>3. LInv => LiveTracked
    BY DEF LInv
<1>4. QED
    BY <1>1, <1>2, <1>3, PTL DEF Spec
=============================================================================
