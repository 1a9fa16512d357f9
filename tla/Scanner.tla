------------------------------- MODULE Scanner -------------------------------
(***************************************************************************)
(* The YARA scanner of pkg/yara/scanner.go as it processes one event at a  *)
(* time.  Each action is one call of scanner.ProcessEvent for one event    *)
(* type: the TerminateProcess cleanup, the case of Scan for that type, the *)
(* common tail of Scan and, when there are matches, emit.  The host        *)
(* process table (live) changes in the same step as the event that         *)
(* reports the change, so the scanner always sees the process that holds   *)
(* the PID when the event is handled.                                      *)
(*                                                                         *)
(* What a YARA scan finds is abstracted to its outcome: an error, no       *)
(* match, or a number of matching rules.  The per-PID markers s.rwxs and   *)
(* s.mmaps map a PID to a memory address; only their presence is ever      *)
(* read, so the model stores instead the start time of the process that    *)
(* matched (0 = no marker), which lets the properties tell processes that  *)
(* reuse a PID apart.                                                      *)
(***************************************************************************)
EXTENDS Integers, FiniteSets

CONSTANTS
    Pids,          \* process identifiers
    SystemPid,     \* PID 4, the System process
    NumSenders,    \* how many alert senders FindAll returns
    MaxStart,      \* bound on the process start-time clock
    MaxMatches,    \* bound on the number of rules a single scan matches
    SectionRX,     \* the protection bits of sys.SectionRX
    SectionRWX,    \* the protection bits of sys.SectionRWX
    ProtBits,      \* every protection bit a section view may carry
    SkipFiles, SkipAllocs, SkipMmaps, SkipRegistry   \* Config flags

ASSUME ScannerAssumption ==
    /\ SystemPid \in Pids
    /\ NumSenders \in Nat
    /\ MaxStart \in Nat \ {0}
    /\ MaxMatches \in Nat \ {0}
    /\ SectionRX \cup SectionRWX \subseteq ProtBits
    /\ {SkipFiles, SkipAllocs, SkipMmaps, SkipRegistry} \subseteq BOOLEAN

VARIABLES
    live,         \* live[p]: start time of the process holding PID p, 0 if none
    clock,        \* the last start time handed out
    rwxs,         \* s.rwxs: start time of the process whose RWX scan matched
    mmaps,        \* s.mmaps: the same for suspicious section view mappings
    scanned,      \* history: the RWX or mmap <<pid, start, kind>> scanned by the last step
    everScanned,  \* history: every RWX or mmap <<pid, start, kind>> ever scanned
    matched,      \* history: those of them whose scan matched
    result        \* what the last ProcessEvent call did and returned

vars == <<live, clock, rwxs, mmaps, scanned, everScanned, matched, result>>

Starts == 1..MaxStart

\* The scan kinds, and those that the markers deduplicate; the histories
\* everScanned and matched only record the latter.
Kinds == {"proc", "module", "file", "ads", "alloc", "mmap", "registry"}

Deduplicated == {"alloc", "mmap"}

\* What one call of s.scan returns: an error (newInternalScanner or the
\* YARA scan failed), the timeout go-yara reports as an error once the
\* scan exceeds the ScanTimeout set by newInternalScanner (the matches
\* found so far are dropped with it), or the number of matching rules, 0
\* covering a process the config skips.  NotScanned stands for a call
\* that scanned nothing.
ScanError == -1

NotScanned == -2

ScanTimeout == -3

Outcomes == {ScanError, ScanTimeout} \cup (0..MaxMatches)

\* Every step emit may take: rendering the alert text of match i (k = 0)
\* and sending match i through the k-th sender.
Steps == (1..MaxMatches) \X (0..NumSenders)

\* <<i, k>> comes no later than <<j, l>> in emit's loop order.
NoLater(a, b) == a[1] < b[1] \/ (a[1] = b[1] /\ a[2] =< b[2])

\* The values ProcessEvent returns: (true, nil), (true, err), (false, err)
\* and (false, nil).
Rets == {"alert", "alertError", "error", "none"}

NoStep == <<0, 0>>

\* The record of one ProcessEvent call: the scan outcome, the value
\* returned, the emit steps attempted and the one that failed.
Result == [res : Outcomes \cup {NotScanned}, ret : Rets,
           attempted : SUBSET Steps, failed : Steps \cup {NoStep}]

Idle == [res |-> NotScanned, ret |-> "none", attempted |-> {}, failed |-> NoStep]

(***************************************************************************)
(* emit: with no sender registered it fails at once; otherwise, for each   *)
(* match in order, it renders the alert text and sends through each sender *)
(* in order, returning at the first step that fails.                       *)
(***************************************************************************)
\* Mutant: the match loop runs one match too far.
EmitOffByOne(n, fail) ==
    LET todo == (1..n + 1) \X (0..NumSenders) IN
    [Idle EXCEPT !.res = n,
                 !.ret = IF fail = NoStep THEN "alert" ELSE "alertError",
                 !.attempted = IF fail = NoStep THEN todo
                               ELSE {s \in todo : NoLater(s, fail)},
                 !.failed = fail]

Emit(n, fail) ==
    IF NumSenders = 0
    THEN [Idle EXCEPT !.res = n, !.ret = "alertError"]
    ELSE LET todo == (1..n) \X (0..NumSenders) IN
         [Idle EXCEPT
            !.res = n,
            !.ret = IF fail = NoStep THEN "alert" ELSE "alertError",
            !.attempted = IF fail = NoStep THEN todo
                          ELSE {s \in todo : NoLater(s, fail)},
            !.failed = fail]

\* The failure points emit may meet for n matches.
EmitFailures(n) == {NoStep} \cup ((1..n) \X (0..NumSenders))

(***************************************************************************)
(* The common tail of Scan.  res is the outcome of the scan (or NotScanned), *)
(* visible says whether its error reached Scan's own err variable.  An     *)
(* error returns (false, err); no match returns (false, nil); matches go   *)
(* to emit.                                                                *)
(***************************************************************************)
Returns(res, visible) ==
    IF res \in {ScanError, ScanTimeout}
    THEN {[Idle EXCEPT !.res = res, !.ret = IF visible THEN "error" ELSE "none"]}
    ELSE IF res \in {0, NotScanned}
    THEN {[Idle EXCEPT !.res = res]}
    ELSE {Emit(res, fail) : fail \in EmitFailures(res)}

\* The tail of a case whose scan error reaches err.
ScanTail(res) == result' \in Returns(res, TRUE)

\* The history of a scan of kind k of the process with start time g at
\* PID p.
Record(p, g, k, res) ==
    /\ scanned' = IF k \in Deduplicated THEN {<<p, g, k>>} ELSE {}
    /\ everScanned' = IF k \in Deduplicated
                      THEN everScanned \cup {<<p, g, k>>} ELSE everScanned
    /\ matched' = IF k \in Deduplicated /\ res \in 1..MaxMatches
                  THEN matched \cup {<<p, g, k>>} ELSE matched

\* A step that scans nothing and returns (false, nil).
NoScan ==
    /\ scanned' = {}
    /\ result' = Idle
    /\ UNCHANGED <<everScanned, matched>>

Init ==
    /\ live = [p \in Pids |-> IF p = SystemPid THEN 1 ELSE 0]
    /\ clock = 1
    /\ rwxs = [p \in Pids |-> 0]
    /\ mmaps = [p \in Pids |-> 0]
    /\ scanned = {}
    /\ everScanned = {}
    /\ matched = {}
    /\ result = Idle

(***************************************************************************)
(* CreateProcess: the child p is scanned by PID.                           *)
(***************************************************************************)
CreateProcess(p) ==
    /\ live[p] = 0
    /\ clock < MaxStart
    /\ clock' = clock + 1
    /\ live' = [live EXCEPT ![p] = clock + 1]
    /\ \E res \in Outcomes : Record(p, clock + 1, "proc", res) /\ ScanTail(res)
    /\ UNCHANGED <<rwxs, mmaps>>

(***************************************************************************)
(* TerminateProcess: ProcessEvent deletes both markers of the PID; Scan    *)
(* has no case for the type.                                               *)
(***************************************************************************)
\* Mutant: the cleanup forgets the mmap marker.
TerminateProcessKeepsMmaps(p) ==
    /\ p # SystemPid
    /\ live[p] # 0
    /\ live' = [live EXCEPT ![p] = 0]
    /\ rwxs' = [rwxs EXCEPT ![p] = 0]
    /\ NoScan
    /\ UNCHANGED <<clock, mmaps>>

TerminateProcess(p) ==
    /\ p # SystemPid
    /\ live[p] # 0
    /\ live' = [live EXCEPT ![p] = 0]
    /\ rwxs' = [rwxs EXCEPT ![p] = 0]
    /\ mmaps' = [mmaps EXCEPT ![p] = 0]
    /\ NoScan
    /\ UNCHANGED clock

(***************************************************************************)
(* LoadImage by process p.  Nothing is scanned when the signature type of  *)
(* the image is already known or the config skips the file.  Otherwise     *)
(* the signature comes from the cache or from sign.Check, whose error is   *)
(* kept in err; an unsigned, untrusted or unbacked load scans the process  *)
(* and the scan's error replaces it, any other load returns it.            *)
(***************************************************************************)
LoadImage(p) ==
    /\ live[p] # 0
    /\ \/ NoScan
       \/ \E res \in Outcomes : Record(p, live[p], "module", res) /\ ScanTail(res)
       \/ /\ scanned' = {}
          /\ result' = [Idle EXCEPT !.ret = "error"]
          /\ UNCHANGED <<everScanned, matched>>
    /\ UNCHANGED <<live, clock, rwxs, mmaps>>

(***************************************************************************)
(* CreateFile by process p.  A created PE file (by extension or by the     *)
(* file flags) is scanned by path.  A created alternate data stream is     *)
(* read and its data scanned in memory; the ADS branch declares a new err  *)
(* with :=, so the error of that scan never reaches Scan's err.  Every     *)
(* other case (SkipFiles, open disposition, skipped file or process, read  *)
(* error, empty stream) scans nothing.                                     *)
(***************************************************************************)
CreateFile(p) ==
    /\ live[p] # 0
    /\ \/ NoScan
       \/ /\ ~SkipFiles
          /\ \E res \in Outcomes : Record(p, live[p], "file", res) /\ ScanTail(res)
       \/ /\ ~SkipFiles
          /\ \E res \in Outcomes : Record(p, live[p], "ads", res) /\ result' \in Returns(res, FALSE)
    /\ UNCHANGED <<live, clock, rwxs, mmaps>>

\* Mutant: the VirtualAlloc case does not consult the RWX marker.
IsRwxMatchedNever(pid) == FALSE

\* s.isRwxMatched and s.isMmapMatched.
IsRwxMatched(pid) == rwxs[pid] # 0

IsMmapMatched(pid) == mmaps[pid] # 0

\* The marker update after a scan: set only when the scan matched.
Mark(m, pid, res) ==
    IF res \in 1..MaxMatches THEN [m EXCEPT ![pid] = live[pid]] ELSE m

(***************************************************************************)
(* VirtualAlloc by process caller in process target.  An RWX allocation    *)
(* by any process but System scans the target unless its RWX marker is     *)
(* set; a match sets the marker.                                           *)
(***************************************************************************)
VirtualAlloc(caller, target) ==
    /\ live[caller] # 0
    /\ live[target] # 0
    /\ \/ NoScan /\ UNCHANGED rwxs
       \/ /\ ~SkipAllocs
          /\ caller # SystemPid
          /\ ~IsRwxMatched(target)
          /\ \E res \in Outcomes :
                /\ Record(target, live[target], "alloc", res)
                /\ ScanTail(res)
                /\ rwxs' = Mark(rwxs, target, res)
    /\ UNCHANGED <<live, clock, mmaps>>

\* The protection test of the MapViewFile case: the view must carry a bit
\* of SectionRX and a bit of SectionRWX.
SuspiciousView(prot) == prot \cap SectionRX # {} /\ prot \cap SectionRWX # {}

(***************************************************************************)
(* MapViewFile by process caller of a view in process target, with         *)
(* protection prot.  The view is scanned (by file path when it has one, by *)
(* PID otherwise) when the caller is not System, the view is at least 4096 *)
(* bytes, its protection is suspicious, the target's mmap marker is unset, *)
(* the view is not a signed and trusted image and the config does not skip *)
(* its file.  A match sets the marker.  Size, signature and file are      *)
(* inputs only: the NoScan disjunct covers the views they exclude.         *)
(***************************************************************************)
MapViewFile(caller, target) ==
    /\ live[caller] # 0
    /\ live[target] # 0
    /\ \/ NoScan /\ UNCHANGED mmaps
       \/ /\ ~SkipMmaps
          /\ caller # SystemPid
          /\ \E prot \in SUBSET ProtBits : SuspiciousView(prot)
          /\ ~IsMmapMatched(target)
          /\ \E res \in Outcomes :
                /\ Record(target, live[target], "mmap", res)
                /\ ScanTail(res)
                /\ mmaps' = Mark(mmaps, target, res)
    /\ UNCHANGED <<live, clock, rwxs>>

(***************************************************************************)
(* RegSetValue by process p.  A non-empty binary value is scanned in       *)
(* memory; like the ADS branch, the case declares a new err with :=, so    *)
(* the scan's error is lost.  SkipRegistry, a skipped process, another     *)
(* value type or a value not attached to the event scan nothing.           *)
(***************************************************************************)
RegSetValue(p) ==
    /\ live[p] # 0
    /\ \/ NoScan
       \/ /\ ~SkipRegistry
          /\ \E res \in Outcomes : Record(p, live[p], "registry", res) /\ result' \in Returns(res, FALSE)
    /\ UNCHANGED <<live, clock, rwxs, mmaps>>

Next ==
    \E p \in Pids :
       \/ CreateProcess(p)
       \/ TerminateProcess(p)
       \/ LoadImage(p)
       \/ CreateFile(p)
       \/ RegSetValue(p)
       \/ \E q \in Pids : VirtualAlloc(p, q) \/ MapViewFile(p, q)

Spec == Init /\ [][Next]_vars

-----------------------------------------------------------------------------
(* Properties *)

\* Every variable has the type the scanner gives it.
TypeOK ==
    /\ live \in [Pids -> 0..MaxStart]
    /\ clock \in Starts
    /\ rwxs \in [Pids -> 0..MaxStart]
    /\ mmaps \in [Pids -> 0..MaxStart]
    /\ scanned \subseteq Pids \X Starts \X Deduplicated
    /\ everScanned \subseteq Pids \X Starts \X Deduplicated
    /\ matched \subseteq everScanned
    /\ result \in Result

\* A marker of s.rwxs or s.mmaps always belongs to the process that holds
\* the PID now: the TerminateProcess cleanup in ProcessEvent removes it
\* before the PID can be reused, so a new process is never exempt from the
\* RWX or mmap scan because of what its predecessor did.
MarkerOfLiveProcess ==
    \A p \in Pids :
       /\ rwxs[p] # 0 => rwxs[p] = live[p]
       /\ mmaps[p] # 0 => mmaps[p] = live[p]

\* The step of NoRescanAfterMatch: the RWX or mmap scan it makes, if any,
\* is not of a process already matched for that reason.
RescanFree == \A x \in scanned' : x[3] \in Deduplicated => x \notin matched

\* Once an RWX allocation scan or a mapping scan of a process matched, no
\* later event scans the same process for the same reason again: the
\* isRwxMatched and isMmapMatched guards of Scan hold for the whole life of
\* the process, whichever events come in between.
NoRescanAfterMatch == [][RescanFree]_vars

\* The contract: an error of a YARA scan is returned by ProcessEvent.
ScanErrorsSurface == result.res = ScanError => result.ret = "error"

\* The contract (section 5): a scan that exceeds its timeout returns empty
\* matches without an error.  scan returns go-yara's timeout error, and
\* Scan returns it from every case that keeps err.
TimeoutIsEmptyMatch == result.res = ScanTimeout => result.ret = "none"

\* The contract: an alert whose text rendered is offered to every sink,
\* a failing sink not keeping it from the others.  emit returns at the
\* first sender that fails.
AllSinksAttempted ==
    result.ret \in {"alert", "alertError"} /\ NumSenders > 0 =>
       \A i \in 1..result.res, k \in 1..NumSenders :
          <<i, 0>> # result.failed => <<i, k>> \in result.attempted

-----------------------------------------------------------------------------
(* The refinement of the spec's per-PID contract (ScanContract). *)

\* The contract state of a PID for a category: MATCHED while its marker
\* in s.rwxs or s.mmaps is set.
MarkerState ==
    [c \in {"alloc", "mmap"} |->
       [p \in Pids |->
          IF (IF c = "alloc" THEN rwxs[p] ELSE mmaps[p]) # 0
          THEN "MATCHED" ELSE "UNSEEN"]]

Contract == INSTANCE ScanContract WITH state <- MarkerState

\* The scanner implements the contract: a PID is scanned for RWX
\* allocations or suspicious views only while UNSEEN for that category, a
\* scan can only move it to MATCHED, and only the TerminateProcess cleanup
\* of ProcessEvent moves it back.
ContractSpec == Contract!Spec
=============================================================================
