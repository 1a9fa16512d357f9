\* One worker: the stream is handled in the order the OS reported it.
CONSTANTS
    p1 = p1
    p2 = p2
    t1 = t1
    t2 = t2
    w1 = w1
    w2 = w2
    Pids <- MCPids
    Tids <- MCTids
    Workers <- OneWorker
    MaxStart = 3
    MaxQueue = 3
    NoProc = NoProc
    EvtTime = EvtTime
SPECIFICATION Spec
INVARIANT TypeOK
INVARIANT LiveTracked
INVARIANT ThreadsTracked
SYMMETRY PidSymmetry
