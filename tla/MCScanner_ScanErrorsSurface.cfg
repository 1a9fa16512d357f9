\* Does every scan error reach the value ProcessEvent returns?
CONSTANTS
    sys = sys
    p1 = p1
    p2 = p2
    rx = rx
    rwx = rwx
    guard = guard
    Pids <- MCPids
    SystemPid = sys
    NumSenders = 2
    MaxStart = 3
    MaxMatches = 1
    SectionRX = {rx}
    SectionRWX = {rwx}
    ProtBits = {rx, rwx}
    SkipFiles = FALSE
    SkipAllocs = FALSE
    SkipMmaps = FALSE
    SkipRegistry = FALSE
SPECIFICATION Spec
INVARIANTS ScanErrorsSurface
SYMMETRY UserPidSymmetry
