\* One worker, checking the start time stored for each process.
CONSTANTS
    p1 = p1
    p2 = p2
    t1 = t1
    t2 = t2
    w1 = w1
    w2 = w2
    Pids <- MCPids
    Tids <- MCTids
    Workers <- OneWorker
    MaxStart = 3
    MaxQueue = 3
    NoProc = NoProc
    EvtTime = EvtTime
SPECIFICATION Spec
INVARIANT StartTimeFaithful
SYMMETRY PidSymmetry
