---------------------------- MODULE ScannerProofs ----------------------------
(***************************************************************************)
(* Proofs about the YARA scanner model, for every value of the constants.  *)
(***************************************************************************)
EXTENDS Scanner, TLAPS

(* The part of the state the markers depend on, typed, together with the  *)
(* marker invariant itself.  MarkerOfLiveProcess alone is not inductive:   *)
(* CreateProcess needs to know that a free PID (live[p] = 0) carries no    *)
(* marker, which follows from the invariant only once live, rwxs and mmaps *)
(* are known to be functions on Pids.                                      *)
MInv ==
    /\ live \in [Pids -> 0..MaxStart]
    /\ clock \in 1..MaxStart
    /\ rwxs \in [Pids -> 0..MaxStart]
    /\ mmaps \in [Pids -> 0..MaxStart]
    /\ MarkerOfLiveProcess

LEMMA InitMInv == Init => MInv
BY ScannerAssumption DEF ScannerAssumption, Init, MInv, MarkerOfLiveProcess

(* Mark either leaves a marker map alone or sets the target's marker to    *)
(* the start time of the process at the target PID.                       *)
LEMMA MarkCases ==
    ASSUME NEW m, NEW pid, NEW res
    PROVE  \/ Mark(m, pid, res) = m
           \/ Mark(m, pid, res) = [m EXCEPT ![pid] = live[pid]]
BY DEF Mark

LEMMA NextMInv == MInv /\ [Next]_vars => MInv'
<1> USE ScannerAssumption DEF ScannerAssumption
<1> SUFFICES ASSUME MInv, [Next]_vars PROVE MInv'
    OBVIOUS
<1>1. ASSUME NEW p \in Pids, CreateProcess(p) PROVE MInv'
    <2>1. rwxs[p] = 0 /\ mmaps[p] = 0
        BY <1>1 DEF CreateProcess, MInv, MarkerOfLiveProcess
    <2>2. QED
        BY <1>1, <2>1 DEF CreateProcess, MInv, MarkerOfLiveProcess
<1>2. ASSUME NEW p \in Pids, TerminateProcess(p) PROVE MInv'
    BY <1>2 DEF TerminateProcess, MInv, MarkerOfLiveProcess
<1>3. ASSUME NEW p \in Pids, LoadImage(p) PROVE MInv'
    BY <1>3 DEF LoadImage, MInv, MarkerOfLiveProcess
<1>4. ASSUME NEW p \in Pids, CreateFile(p) PROVE MInv'
    BY <1>4 DEF CreateFile, MInv, MarkerOfLiveProcess
<1>5. ASSUME NEW p \in Pids, RegSetValue(p) PROVE MInv'
    BY <1>5 DEF RegSetValue, MInv, MarkerOfLiveProcess
<1>6. ASSUME NEW p \in Pids, NEW q \in Pids, VirtualAlloc(p, q) PROVE MInv'
    <2>1. UNCHANGED <<live, clock, mmaps>>
        BY <1>6 DEF VirtualAlloc
    <2>2. rwxs' = rwxs \/ rwxs' = [rwxs EXCEPT ![q] = live[q]]
        <3>1. CASE NoScan /\ UNCHANGED rwxs
            BY <3>1
        <3>2. CASE \E res \in Outcomes : rwxs' = Mark(rwxs, q, res)
            BY <3>2, MarkCases
        <3>3. QED
            BY <1>6, <3>1, <3>2 DEF VirtualAlloc
    <2>3. QED
        BY <2>1, <2>2 DEF MInv, MarkerOfLiveProcess
<1>7. ASSUME NEW p \in Pids, NEW q \in Pids, MapViewFile(p, q) PROVE MInv'
    <2>1. UNCHANGED <<live, clock, rwxs>>
        BY <1>7 DEF MapViewFile
    <2>2. mmaps' = mmaps \/ mmaps' = [mmaps EXCEPT ![q] = live[q]]
        <3>1. CASE NoScan /\ UNCHANGED mmaps
            BY <3>1
        <3>2. CASE \E res \in Outcomes : mmaps' = Mark(mmaps, q, res)
            BY <3>2, MarkCases
        <3>3. QED
            BY <1>7, <3>1, <3>2 DEF MapViewFile
    <2>3. QED
        BY <2>1, <2>2 DEF MInv, MarkerOfLiveProcess
<1>8. CASE UNCHANGED vars
    BY <1>8 DEF vars, MInv, MarkerOfLiveProcess
<1>9. QED
    BY <1>1, <1>2, <1>3, <1>4, <1>5, <1>6, <1>7, <1>8 DEF Next

(* Theorem: in every reachable state, a marker of s.rwxs or s.mmaps        *)
(* belongs to the process now holding its PID: the TerminateProcess        *)
(* cleanup of scanner.ProcessEvent runs before a PID can be reused, and    *)
(* the VirtualAlloc and MapViewFile cases only mark the live target.       *)
THEOREM MarkersOfLiveProcesses == Spec => []MarkerOfLiveProcess
<1>1. MInv => MarkerOfLiveProcess
    BY DEF MInv
<1>2. QED
    BY InitMInv, NextMInv, <1>1, PTL DEF Spec

-----------------------------------------------------------------------------
(* No rescan after a match.                                                *)

(* A matched RWX or mmap scan of the process at PID p leaves the marker of *)
(* its kind set to that process's start time for as long as it lives.     *)
MatchedMarked ==
    \A x \in matched :
       live[x[1]] = x[2] =>
          /\ x[3] = "alloc" => rwxs[x[1]] = x[2]
          /\ x[3] = "mmap" => mmaps[x[1]] = x[2]

(* The inductive invariant: start times are handed out in increasing      *)
(* order, so a new process never has the start time of a matched one.     *)
RInv ==
    /\ MInv
    /\ \A p \in Pids : live[p] =< clock
    /\ matched \subseteq Pids \X Starts \X Deduplicated
    /\ \A x \in matched : x[2] =< clock
    /\ MatchedMarked

LEMMA InitRInv == Init => RInv
BY InitMInv, ScannerAssumption DEF ScannerAssumption, Init, RInv, MatchedMarked

(* The event types whose scans the markers do not deduplicate change       *)
(* neither the markers nor the match history, and record no RWX or mmap    *)
(* scan.                                                                   *)
LEMMA OtherScans ==
    ASSUME NEW p \in Pids, LoadImage(p) \/ CreateFile(p) \/ RegSetValue(p)
    PROVE  /\ UNCHANGED <<live, clock, rwxs, mmaps, matched>>
           /\ scanned' = {}
BY DEF LoadImage, CreateFile, RegSetValue, NoScan, Record, Deduplicated

LEMMA NextRInv == RInv /\ [Next]_vars => RInv' /\ [RescanFree]_vars
<1> USE ScannerAssumption DEF ScannerAssumption
<1> SUFFICES ASSUME RInv, [Next]_vars PROVE RInv' /\ [RescanFree]_vars
    OBVIOUS
<1>0. MInv'
    BY NextMInv DEF RInv
<1>1. ASSUME NEW p \in Pids, CreateProcess(p) PROVE RInv' /\ RescanFree
    <2>1. matched' = matched /\ scanned' = {}
        BY <1>1 DEF CreateProcess, Record, Deduplicated
    <2>2. MatchedMarked'
        <3> SUFFICES ASSUME NEW x \in matched', live'[x[1]] = x[2]
                     PROVE  /\ x[3] = "alloc" => rwxs'[x[1]] = x[2]
                            /\ x[3] = "mmap" => mmaps'[x[1]] = x[2]
            BY DEF MatchedMarked
        <3>1. x \in matched
            BY <2>1
        <3>2. x[1] \in Pids /\ x[2] \in Starts /\ x[2] =< clock
            BY <3>1 DEF RInv
        <3>3. x[1] # p
            BY <1>1, <3>2 DEF CreateProcess, RInv, MInv
        <3>4. live[x[1]] = x[2]
            BY <1>1, <3>3 DEF CreateProcess
        <3>5. QED
            BY <1>1, <3>1, <3>4 DEF CreateProcess, RInv, MatchedMarked
    <2>3. \A q \in Pids : live'[q] =< clock'
        BY <1>1 DEF CreateProcess, RInv, MInv
    <2>4. \A x \in matched' : x[2] =< clock'
        BY <1>1, <2>1 DEF CreateProcess, RInv, MInv, Starts
    <2>5. QED
        BY <1>0, <2>1, <2>2, <2>3, <2>4 DEF RInv, RescanFree
<1>2. ASSUME NEW p \in Pids, TerminateProcess(p) PROVE RInv' /\ RescanFree
    <2>1. matched' = matched /\ scanned' = {}
        BY <1>2 DEF TerminateProcess, NoScan
    <2>2. QED
        BY <1>0, <1>2, <2>1 DEF TerminateProcess, RInv, MInv, MatchedMarked, RescanFree
<1>3. ASSUME NEW p \in Pids, LoadImage(p) \/ CreateFile(p) \/ RegSetValue(p)
      PROVE RInv' /\ RescanFree
    BY <1>0, <1>3, OtherScans DEF RInv, MatchedMarked, RescanFree
<1>4. ASSUME NEW p \in Pids, NEW q \in Pids, VirtualAlloc(p, q)
      PROVE RInv' /\ RescanFree
    <2>1. UNCHANGED <<live, clock, mmaps>>
        BY <1>4 DEF VirtualAlloc
    <2>2. CASE NoScan /\ UNCHANGED rwxs
        BY <1>0, <2>1, <2>2 DEF NoScan, RInv, MatchedMarked, RescanFree
    <2>3. CASE /\ ~IsRwxMatched(q)
               /\ \E res \in Outcomes :
                    /\ Record(q, live[q], "alloc", res)
                    /\ rwxs' = Mark(rwxs, q, res)
        <3>1. PICK res \in Outcomes :
                 /\ Record(q, live[q], "alloc", res)
                 /\ rwxs' = Mark(rwxs, q, res)
            BY <2>3
        <3>2. rwxs[q] = 0 /\ live[q] # 0
            BY <1>4, <2>3 DEF IsRwxMatched, VirtualAlloc
        <3>3. <<q, live[q], "alloc">> \notin matched
            BY <3>2 DEF RInv, MatchedMarked
        <3>4. scanned' = {<<q, live[q], "alloc">>}
            BY <3>1 DEF Record, Deduplicated
        <3>5. CASE res \in 1..MaxMatches
            <4>1. matched' = matched \cup {<<q, live[q], "alloc">>}
                BY <3>1, <3>5 DEF Record, Deduplicated
            <4>2. rwxs' = [rwxs EXCEPT ![q] = live[q]]
                BY <3>1, <3>5 DEF Mark
            <4>3. MatchedMarked'
                BY <2>1, <3>2, <4>1, <4>2 DEF RInv, MInv, MatchedMarked
            <4>4. matched' \subseteq Pids \X Starts \X Deduplicated
                BY <3>2, <4>1 DEF RInv, MInv, Deduplicated, Starts
            <4>5. \A x \in matched' : x[2] =< clock'
                BY <2>1, <4>1 DEF RInv
            <4>6. \A r \in Pids : live'[r] =< clock'
                BY <2>1 DEF RInv
            <4>7. RescanFree
                BY <3>3, <3>4 DEF RescanFree
            <4>8. QED
                BY <1>0, <4>3, <4>4, <4>5, <4>6, <4>7 DEF RInv
        <3>6. CASE res \notin 1..MaxMatches
            <4>1. matched' = matched /\ rwxs' = rwxs
                BY <3>1, <3>6 DEF Record, Mark
            <4>2. QED
                BY <1>0, <2>1, <3>3, <3>4, <4>1 DEF RInv, MatchedMarked, RescanFree
        <3>7. QED
            BY <3>5, <3>6
    <2>4. QED
        BY <1>4, <2>2, <2>3 DEF VirtualAlloc
<1>5. ASSUME NEW p \in Pids, NEW q \in Pids, MapViewFile(p, q)
      PROVE RInv' /\ RescanFree
    <2>1. UNCHANGED <<live, clock, rwxs>>
        BY <1>5 DEF MapViewFile
    <2>2. CASE NoScan /\ UNCHANGED mmaps
        BY <1>0, <2>1, <2>2 DEF NoScan, RInv, MatchedMarked, RescanFree
    <2>3. CASE /\ ~IsMmapMatched(q)
               /\ \E res \in Outcomes :
                    /\ Record(q, live[q], "mmap", res)
                    /\ mmaps' = Mark(mmaps, q, res)
        <3>1. PICK res \in Outcomes :
                 /\ Record(q, live[q], "mmap", res)
                 /\ mmaps' = Mark(mmaps, q, res)
            BY <2>3
        <3>2. mmaps[q] = 0 /\ live[q] # 0
            BY <1>5, <2>3 DEF IsMmapMatched, MapViewFile
        <3>3. <<q, live[q], "mmap">> \notin matched
            BY <3>2 DEF RInv, MatchedMarked
        <3>4. scanned' = {<<q, live[q], "mmap">>}
            BY <3>1 DEF Record, Deduplicated
        <3>5. CASE res \in 1..MaxMatches
            <4>1. matched' = matched \cup {<<q, live[q], "mmap">>}
                BY <3>1, <3>5 DEF Record, Deduplicated
            <4>2. mmaps' = [mmaps EXCEPT ![q] = live[q]]
                BY <3>1, <3>5 DEF Mark
            <4>3. MatchedMarked'
                BY <2>1, <3>2, <4>1, <4>2 DEF RInv, MInv, MatchedMarked
            <4>4. matched' \subseteq Pids \X Starts \X Deduplicated
                BY <3>2, <4>1 DEF RInv, MInv, Deduplicated, Starts
            <4>5. \A x \in matched' : x[2] =< clock'
                BY <2>1, <4>1 DEF RInv
            <4>6. \A r \in Pids : live'[r] =< clock'
                BY <2>1 DEF RInv
            <4>7. RescanFree
                BY <3>3, <3>4 DEF RescanFree
            <4>8. QED
                BY <1>0, <4>3, <4>4, <4>5, <4>6, <4>7 DEF RInv
        <3>6. CASE res \notin 1..MaxMatches
            <4>1. matched' = matched /\ mmaps' = mmaps
                BY <3>1, <3>6 DEF Record, Mark
            <4>2. QED
                BY <1>0, <2>1, <3>3, <3>4, <4>1 DEF RInv, MatchedMarked, RescanFree
        <3>7. QED
            BY <3>5, <3>6
    <2>4. QED
        BY <1>5, <2>2, <2>3 DEF MapViewFile
<1>6. CASE UNCHANGED vars
    BY <1>0, <1>6 DEF vars, RInv, MatchedMarked
<1>7. QED
    BY <1>1, <1>2, <1>3, <1>4, <1>5, <1>6 DEF Next

(* Theorem: once an RWX allocation scan or a section view scan of a        *)
(* process matched, scanner.Scan never scans that process for the same     *)
(* reason again, whatever events follow: the isRwxMatched/isMmapMatched    *)
(* guards together with the marker set on a match.                         *)
THEOREM NoRescan == Spec => NoRescanAfterMatch
<1>1. RInv /\ [Next]_vars => [RescanFree]_vars
    BY NextRInv
<1>2. RInv /\ [Next]_vars => RInv'
    BY NextRInv
<1>3. QED
    BY InitRInv, <1>1, <1>2, PTL DEF Spec, NoRescanAfterMatch, RescanFree

-----------------------------------------------------------------------------
(* The scanner implements ScanContract under the mapping MarkerState.      *)

LEMMA InitContract == Init => Contract!Init
BY DEF Init, Contract!Init, Contract!Categories, MarkerState

(* Setting the marker of a live PID in rwxs (mmaps) moves that PID's      *)
(* "alloc" ("mmap") row of the contract state to MATCHED.                 *)
LEMMA MarkAlloc ==
    ASSUME MInv, NEW q \in Pids, live[q] # 0,
           rwxs' = [rwxs EXCEPT ![q] = live[q]], mmaps' = mmaps
    PROVE  MarkerState' = [MarkerState EXCEPT !["alloc"][q] = "MATCHED"]
<1>1. rwxs' \in [Pids -> 0..MaxStart] /\ rwxs'[q] # 0
    BY DEF MInv
<1>2. \A p \in Pids \ {q} : rwxs'[p] = rwxs[p]
    BY DEF MInv
<1>3. QED
    BY <1>1, <1>2 DEF MarkerState

LEMMA MarkMmap ==
    ASSUME MInv, NEW q \in Pids, live[q] # 0,
           mmaps' = [mmaps EXCEPT ![q] = live[q]], rwxs' = rwxs
    PROVE  MarkerState' = [MarkerState EXCEPT !["mmap"][q] = "MATCHED"]
<1>1. mmaps' \in [Pids -> 0..MaxStart] /\ mmaps'[q] # 0
    BY DEF MInv
<1>2. \A p \in Pids \ {q} : mmaps'[p] = mmaps[p]
    BY DEF MInv
<1>3. QED
    BY <1>1, <1>2 DEF MarkerState

(* The steps that neither touch a marker nor make an RWX or mmap scan are  *)
(* Quiet steps of the contract.                                            *)
LEMMA QuietSteps ==
    ASSUME NEW p \in Pids, LoadImage(p) \/ CreateFile(p) \/ RegSetValue(p)
    PROVE  Contract!Quiet
<1>1. scanned' = {}
    BY DEF LoadImage, CreateFile, RegSetValue, NoScan, Record, Deduplicated
<1>2. UNCHANGED <<live, clock, rwxs, mmaps>>
    BY DEF LoadImage, CreateFile, RegSetValue
<1>3. QED
    BY <1>1, <1>2 DEF Contract!Quiet, MarkerState

LEMMA StepContract == MInv /\ [Next]_vars => [Contract!Next]_Contract!cvars
<1> SUFFICES ASSUME MInv, [Next]_vars PROVE [Contract!Next]_Contract!cvars
    OBVIOUS
<1>1. ASSUME NEW p \in Pids, CreateProcess(p) PROVE Contract!Start(p)
    <2>1. scanned' = {}
        BY <1>1 DEF CreateProcess, Record, Deduplicated
    <2>2. MarkerState' = MarkerState
        BY <1>1 DEF CreateProcess, MarkerState
    <2>3. QED
        BY <1>1, <2>1, <2>2 DEF CreateProcess, Contract!Start
<1>2. ASSUME NEW p \in Pids, TerminateProcess(p) PROVE Contract!Evict(p)
    <2>1. MarkerState' = [c \in Contract!Categories |->
                             [MarkerState[c] EXCEPT ![p] = "UNSEEN"]]
        BY <1>2 DEF TerminateProcess, MInv, MarkerState, Contract!Categories
    <2>2. QED
        BY <1>2, <2>1 DEF TerminateProcess, NoScan, Contract!Evict
<1>3. ASSUME NEW p \in Pids, LoadImage(p) \/ CreateFile(p) \/ RegSetValue(p)
      PROVE  Contract!Quiet
    BY <1>3, QuietSteps
<1>4. ASSUME NEW p \in Pids, NEW q \in Pids, VirtualAlloc(p, q)
      PROVE  Contract!Quiet \/ Contract!ScanOnce(q, "alloc")
    <2>1. CASE NoScan /\ UNCHANGED <<rwxs, live, clock, mmaps>>
        BY <2>1 DEF NoScan, Contract!Quiet, MarkerState
    <2>2. CASE /\ live[q] # 0
               /\ ~IsRwxMatched(q)
               /\ \E res \in Outcomes : /\ Record(q, live[q], "alloc", res)
                                        /\ rwxs' = Mark(rwxs, q, res)
               /\ UNCHANGED <<live, clock, mmaps>>
        <3>a. PICK res \in Outcomes : /\ Record(q, live[q], "alloc", res)
                                      /\ rwxs' = Mark(rwxs, q, res)
            BY <2>2
        <3>b. MarkerState["alloc"][q] = "UNSEEN"
            BY <2>2 DEF IsRwxMatched, MarkerState
        <3>c. scanned' = {<<q, live[q], "alloc">>}
            BY <3>a DEF Record, Deduplicated
        <3>d. \/ MarkerState' = MarkerState
              \/ MarkerState' = [MarkerState EXCEPT !["alloc"][q] = "MATCHED"]
            <4>1. CASE rwxs' = rwxs
                BY <2>2, <4>1 DEF MarkerState
            <4>2. CASE rwxs' = [rwxs EXCEPT ![q] = live[q]]
                BY <2>2, <4>2, MarkAlloc
            <4>3. QED
                BY <3>a, <4>1, <4>2, MarkCases
        <3>e. QED
            BY <2>2, <3>b, <3>c, <3>d DEF Contract!ScanOnce
    <2>3. QED
        BY <1>4, <2>1, <2>2 DEF VirtualAlloc, ScanTail
<1>5. ASSUME NEW p \in Pids, NEW q \in Pids, MapViewFile(p, q)
      PROVE  Contract!Quiet \/ Contract!ScanOnce(q, "mmap")
    <2>1. CASE NoScan /\ UNCHANGED <<mmaps, live, clock, rwxs>>
        BY <2>1 DEF NoScan, Contract!Quiet, MarkerState
    <2>2. CASE /\ live[q] # 0
               /\ ~IsMmapMatched(q)
               /\ \E res \in Outcomes : /\ Record(q, live[q], "mmap", res)
                                        /\ mmaps' = Mark(mmaps, q, res)
               /\ UNCHANGED <<live, clock, rwxs>>
        <3>a. PICK res \in Outcomes : /\ Record(q, live[q], "mmap", res)
                                      /\ mmaps' = Mark(mmaps, q, res)
            BY <2>2
        <3>b. MarkerState["mmap"][q] = "UNSEEN"
            BY <2>2 DEF IsMmapMatched, MarkerState
        <3>c. scanned' = {<<q, live[q], "mmap">>}
            BY <3>a DEF Record, Deduplicated
        <3>d. \/ MarkerState' = MarkerState
              \/ MarkerState' = [MarkerState EXCEPT !["mmap"][q] = "MATCHED"]
            <4>1. CASE mmaps' = mmaps
                BY <2>2, <4>1 DEF MarkerState
            <4>2. CASE mmaps' = [mmaps EXCEPT ![q] = live[q]]
                BY <2>2, <4>2, MarkMmap
            <4>3. QED
                BY <3>a, <4>1, <4>2, MarkCases
        <3>e. QED
            BY <2>2, <3>b, <3>c, <3>d DEF Contract!ScanOnce
    <2>3. QED
        BY <1>5, <2>1, <2>2 DEF MapViewFile, ScanTail
<1>6. CASE UNCHANGED vars
    BY <1>6 DEF vars, Contract!cvars, MarkerState
<1>7. QED
    BY <1>1, <1>2, <1>3, <1>4, <1>5, <1>6 DEF Next, Contract!Next, Contract!Categories

(* Theorem: the scanner implements the spec's per-PID contract: a PID is   *)
(* scanned for RWX allocations or suspicious views only while UNSEEN for   *)
(* that category (the isRwxMatched and isMmapMatched guards of Scan), a    *)
(* scan only moves it to MATCHED (the marker set on a match), and only the *)
(* TerminateProcess cleanup of ProcessEvent moves it back.                 *)
THEOREM ImplementsContract == Spec => ContractSpec
<1>1. Spec => []MInv
    BY InitMInv, NextMInv, PTL DEF Spec
<1>2. QED
    BY <1>1, InitContract, StepContract, PTL DEF Spec, ContractSpec, Contract!Spec

-----------------------------------------------------------------------------
(* Type correctness of the whole scanner state.  TypeOK is inductive as it *)
(* stands; the lemmas below say what the result operators of Scan return. *)

(* The value returned by a call that scans nothing is a Result.           *)
LEMMA IdleType == Idle \in Result /\ [Idle EXCEPT !.ret = "error"] \in Result
BY DEF Idle, Result, Rets, Outcomes, NotScanned, Steps, NoStep

(* emit, for n matches and any failure point it may meet, returns a Result: *)
(* it attempts only steps of matches 1..n and senders 0..NumSenders.      *)
LEMMA EmitType ==
    ASSUME NEW n \in 1..MaxMatches, NEW fail \in EmitFailures(n)
    PROVE  Emit(n, fail) \in Result
<1> USE ScannerAssumption DEF ScannerAssumption
<1>1. (1..n) \X (0..NumSenders) \subseteq Steps /\ fail \in Steps \cup {NoStep}
    BY DEF Steps, EmitFailures
<1>2. n \in Outcomes
    BY DEF Outcomes
<1>3. QED
    BY <1>1, <1>2 DEF Emit, Idle, Result, Rets, NotScanned

(* The tail of Scan returns a Result for every scan outcome.               *)
LEMMA ReturnsType ==
    ASSUME NEW res \in Outcomes \cup {NotScanned}, NEW visible
    PROVE  Returns(res, visible) \subseteq Result
<1> USE ScannerAssumption DEF ScannerAssumption
<1>1. CASE res \in {ScanError, ScanTimeout}
    BY <1>1 DEF Returns, Idle, Result, Rets, Outcomes, Steps, NoStep
<1>2. CASE res \in {0, NotScanned}
    BY <1>2 DEF Returns, Idle, Result, Rets, Outcomes, Steps, NoStep
<1>3. CASE res \notin {ScanError, ScanTimeout} /\ res \notin {0, NotScanned}
    <2>1. res \in 1..MaxMatches
        BY <1>3 DEF Outcomes
    <2>2. \A fail \in EmitFailures(res) : Emit(res, fail) \in Result
        BY <2>1, EmitType
    <2>3. QED
        BY <1>3, <2>2 DEF Returns
<1>4. QED
    BY <1>1, <1>2, <1>3

(* The scan history a step records keeps its type, and matched stays a     *)
(* subset of everScanned: a match is recorded only with its scan.          *)
LEMMA RecordType ==
    ASSUME TypeOK, NEW p \in Pids, NEW g \in Starts, NEW k \in Kinds, NEW res,
           Record(p, g, k, res)
    PROVE  /\ scanned' \subseteq Pids \X Starts \X Deduplicated
           /\ everScanned' \subseteq Pids \X Starts \X Deduplicated
           /\ matched' \subseteq everScanned'
BY DEF Record, TypeOK

LEMMA NextTypeOK == TypeOK /\ [Next]_vars => TypeOK'
<1> USE ScannerAssumption DEF ScannerAssumption
<1> SUFFICES ASSUME TypeOK, [Next]_vars PROVE TypeOK'
    OBVIOUS
<1>0. \A p \in Pids : live[p] # 0 => live[p] \in Starts
    BY DEF TypeOK, Starts
<1>1. ASSUME NEW p \in Pids, CreateProcess(p) PROVE TypeOK'
    <2>1. PICK res \in Outcomes : Record(p, clock + 1, "proc", res) /\ ScanTail(res)
        BY <1>1 DEF CreateProcess
    <2>2. clock + 1 \in Starts
        BY <1>1 DEF CreateProcess, TypeOK, Starts
    <2>3. result' \in Result
        BY <2>1, ReturnsType DEF ScanTail
    <2>4. QED
        BY <1>1, <2>1, <2>2, <2>3, RecordType DEF CreateProcess, TypeOK, Kinds, Starts
<1>2. ASSUME NEW p \in Pids, TerminateProcess(p) PROVE TypeOK'
    BY <1>2, IdleType DEF TerminateProcess, NoScan, TypeOK
<1>3. ASSUME NEW p \in Pids, LoadImage(p) PROVE TypeOK'
    <2>1. CASE NoScan
        BY <1>3, <2>1, IdleType DEF LoadImage, NoScan, TypeOK
    <2>2. ASSUME NEW res \in Outcomes, Record(p, live[p], "module", res), ScanTail(res)
          PROVE  TypeOK'
        BY <1>0, <1>3, <2>2, ReturnsType, RecordType DEF LoadImage, ScanTail, TypeOK, Kinds
    <2>3. CASE scanned' = {} /\ result' = [Idle EXCEPT !.ret = "error"]
               /\ UNCHANGED <<everScanned, matched>>
        BY <1>3, <2>3, IdleType DEF LoadImage, TypeOK
    <2>4. QED
        BY <1>3, <2>1, <2>2, <2>3 DEF LoadImage
<1>4. ASSUME NEW p \in Pids, CreateFile(p) PROVE TypeOK'
    <2>1. CASE NoScan
        BY <1>4, <2>1, IdleType DEF CreateFile, NoScan, TypeOK
    <2>2. ASSUME NEW res \in Outcomes, NEW k \in {"file", "ads"}, NEW v,
                 Record(p, live[p], k, res), result' \in Returns(res, v)
          PROVE  TypeOK'
        BY <1>0, <1>4, <2>2, ReturnsType, RecordType DEF CreateFile, TypeOK, Kinds
    <2>3. QED
        BY <1>4, <2>1, <2>2 DEF CreateFile, ScanTail
<1>5. ASSUME NEW p \in Pids, RegSetValue(p) PROVE TypeOK'
    <2>1. CASE NoScan
        BY <1>5, <2>1, IdleType DEF RegSetValue, NoScan, TypeOK
    <2>2. ASSUME NEW res \in Outcomes, Record(p, live[p], "registry", res),
                 result' \in Returns(res, FALSE)
          PROVE  TypeOK'
        BY <1>0, <1>5, <2>2, ReturnsType, RecordType DEF RegSetValue, TypeOK, Kinds
    <2>3. QED
        BY <1>5, <2>1, <2>2 DEF RegSetValue
<1>6. ASSUME NEW p \in Pids, NEW q \in Pids, VirtualAlloc(p, q) PROVE TypeOK'
    <2>1. CASE NoScan /\ UNCHANGED rwxs
        BY <1>6, <2>1, IdleType DEF VirtualAlloc, NoScan, TypeOK
    <2>2. ASSUME NEW res \in Outcomes, Record(q, live[q], "alloc", res), ScanTail(res),
                 rwxs' = Mark(rwxs, q, res)
          PROVE  TypeOK'
        <3>1. rwxs' \in [Pids -> 0..MaxStart]
            BY <2>2, MarkCases DEF TypeOK
        <3>2. QED
            BY <1>0, <1>6, <2>2, <3>1, ReturnsType, RecordType
               DEF VirtualAlloc, ScanTail, TypeOK, Kinds
    <2>3. QED
        BY <1>6, <2>1, <2>2 DEF VirtualAlloc
<1>7. ASSUME NEW p \in Pids, NEW q \in Pids, MapViewFile(p, q) PROVE TypeOK'
    <2>1. CASE NoScan /\ UNCHANGED mmaps
        BY <1>7, <2>1, IdleType DEF MapViewFile, NoScan, TypeOK
    <2>2. ASSUME NEW res \in Outcomes, Record(q, live[q], "mmap", res), ScanTail(res),
                 mmaps' = Mark(mmaps, q, res)
          PROVE  TypeOK'
        <3>1. mmaps' \in [Pids -> 0..MaxStart]
            BY <2>2, MarkCases DEF TypeOK
        <3>2. QED
            BY <1>0, <1>7, <2>2, <3>1, ReturnsType, RecordType
               DEF MapViewFile, ScanTail, TypeOK, Kinds
    <2>3. QED
        BY <1>7, <2>1, <2>2 DEF MapViewFile
<1>8. CASE UNCHANGED vars
    BY <1>8 DEF vars, TypeOK
<1>9. QED
    BY <1>1, <1>2, <1>3, <1>4, <1>5, <1>6, <1>7, <1>8 DEF Next

(* Type correctness: every reachable state of the scanner gives each       *)
(* variable its type; in particular every value ProcessEvent returns is a  *)
(* well-formed Result, emit attempting only steps of existing matches and  *)
(* senders, and only deduplicated RWX and mmap scans enter the history.    *)
THEOREM ScannerTypeCorrect == Spec => []TypeOK
<1>1. Init => TypeOK
    BY ScannerAssumption, IdleType DEF ScannerAssumption, Init, TypeOK, Starts
<1>2. QED
    BY <1>1, NextTypeOK, PTL DEF Spec

=============================================================================
