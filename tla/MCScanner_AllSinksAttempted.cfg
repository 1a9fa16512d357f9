\* With two senders and two matches, is every sender tried for every alert?
CONSTANTS
    sys = sys
    p1 = p1
    p2 = p2
    rx = rx
    rwx = rwx
    guard = guard
    Pids <- MCPids
    SystemPid = sys
    NumSenders = 2
    MaxStart = 3
    MaxMatches = 2
    SectionRX = {rx}
    SectionRWX = {rwx}
    ProtBits = {rx, rwx}
    SkipFiles = FALSE
    SkipAllocs = FALSE
    SkipMmaps = FALSE
    SkipRegistry = FALSE
SPECIFICATION Spec
INVARIANTS AllSinksAttempted
SYMMETRY UserPidSymmetry
