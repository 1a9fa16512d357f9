---------------------------- MODULE ScanContract ----------------------------
(***************************************************************************)
(* What the YARA scanner promises about its deduplicated scans, as the    *)
(* spec states it (section 4.6): per PID and per scan category (an RWX     *)
(* allocation, a suspicious section view) a state machine UNSEEN ->        *)
(* MATCHED.  Only an UNSEEN PID is scanned for a category, a scan may move *)
(* it to MATCHED, and only the termination of the process holding the PID *)
(* evicts it back to UNSEEN.  Events of every other kind scan nothing this *)
(* contract constrains.  Scanner.tla implements this specification under   *)
(* the mapping Scanner!MarkerState.                                        *)
(***************************************************************************)
EXTENDS Naturals

CONSTANTS
    Pids,        \* process identifiers
    SystemPid,   \* the System process, live from the start and never ending
    MaxStart     \* bound on the process start-time clock

VARIABLES
    live,     \* live[p]: start time of the process holding PID p, 0 if none
    clock,    \* the last start time handed out
    state,    \* state[c][p]: "UNSEEN" or "MATCHED"
    scanned   \* the <<pid, start, category>> scanned by the last step, if any

cvars == <<live, clock, state, scanned>>

Categories == {"alloc", "mmap"}

Init ==
    /\ live = [p \in Pids |-> IF p = SystemPid THEN 1 ELSE 0]
    /\ clock = 1
    /\ state = [c \in Categories |-> [p \in Pids |-> "UNSEEN"]]
    /\ scanned = {}

\* A process starts at a free PID.
Start(p) ==
    /\ live[p] = 0
    /\ clock < MaxStart
    /\ clock' = clock + 1
    /\ live' = [live EXCEPT ![p] = clock + 1]
    /\ scanned' = {}
    /\ UNCHANGED state

\* A process ends: every category of its PID is evicted.
Evict(p) ==
    /\ p # SystemPid
    /\ live[p] # 0
    /\ live' = [live EXCEPT ![p] = 0]
    /\ state' = [c \in Categories |-> [state[c] EXCEPT ![p] = "UNSEEN"]]
    /\ scanned' = {}
    /\ UNCHANGED clock

\* The live process at p, UNSEEN for c, is scanned once for c and may be
\* found MATCHED.
ScanOnce(p, c) ==
    /\ live[p] # 0
    /\ state[c][p] = "UNSEEN"
    /\ scanned' = {<<p, live[p], c>>}
    /\ state' \in {state, [state EXCEPT ![c][p] = "MATCHED"]}
    /\ UNCHANGED <<live, clock>>

\* Any other event: no deduplicated scan, no change of state.
Quiet ==
    /\ scanned' = {}
    /\ UNCHANGED <<live, clock, state>>

Next ==
    \/ \E p \in Pids : Start(p) \/ Evict(p) \/ \E c \in Categories : ScanOnce(p, c)
    \/ Quiet

Spec == Init /\ [][Next]_cvars
=============================================================================
