\* The spec: a scan that exceeds its timeout returns empty matches without
\* an error.  Expected to be violated: the timeout error is returned.
CONSTANTS
    sys = sys
    p1 = p1
    p2 = p2
    rx = rx
    rwx = rwx
    guard = guard
    Pids <- MCPids
    SystemPid = sys
    NumSenders = 2
    MaxStart = 3
    MaxMatches = 1
    SectionRX = {rx}
    SectionRWX = {rwx}
    ProtBits = {rx, rwx}
    SkipFiles = FALSE
    SkipAllocs = FALSE
    SkipMmaps = FALSE
    SkipRegistry = FALSE
SPECIFICATION Spec
INVARIANTS TimeoutIsEmptyMatch
SYMMETRY UserPidSymmetry
