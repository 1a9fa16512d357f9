\* Two pipeline workers (spec, section 5): a worker's RWX or mapping scan
\* is still running when the other handles the target's exit, and then
\* writes its marker: the PID keeps a marker of an ended process.
CONSTANTS
    sys = sys
    p1 = p1
    w1 = w1
    w2 = w2
    Pids <- MCPids
    SystemPid = sys
    Workers = {w1, w2}
    MaxStart = 4
    MaxQueue = 2
SPECIFICATION Spec
INVARIANTS NoMarkerOfEndedProcess
