\* One pipeline worker: the markers never outlive the exit of their
\* process, no matched process is rescanned, and a stale marker is
\* eventually cleared.
CONSTANTS
    sys = sys
    p1 = p1
    w1 = w1
    w2 = w2
    Pids <- MCPids
    SystemPid = sys
    Workers = {w1}
    MaxStart = 4
    MaxQueue = 2
SPECIFICATION Spec
INVARIANTS NoMarkerOfEndedProcess
PROPERTIES NoRescanAfterMatch StaleMarkerCleared
