\* The scanner on every event type, with the markers, the history and
\* the alert sends: type, marker ownership across PID reuse, deduplication,
\* and the refinement of the spec's per-PID contract (ScanContract).
CONSTANTS
    sys = sys
    p1 = p1
    p2 = p2
    rx = rx
    rwx = rwx
    guard = guard
    Pids <- MCPids
    SystemPid = sys
    NumSenders = 2
    MaxStart = 3
    MaxMatches = 1
    SectionRX = {rx}
    SectionRWX = {rwx}
    ProtBits = {rx, rwx}
    SkipFiles = FALSE
    SkipAllocs = FALSE
    SkipMmaps = FALSE
    SkipRegistry = FALSE
SPECIFICATION Spec
INVARIANTS TypeOK MarkerOfLiveProcess
PROPERTIES NoRescanAfterMatch ContractSpec
SYMMETRY UserPidSymmetry
