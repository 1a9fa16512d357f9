--------------------------- MODULE MCPsProcessor ---------------------------
(* Instantiates PsProcessor for TLC: two PIDs so that a PID is reused and  *)
(* two processes are live at once, one or two workers.                     *)
EXTENDS PsProcessor, TLC

CONSTANTS p1, p2, t1, t2, w1, w2

MCPids == {p1, p2}
MCTids == {t1, t2}
OneWorker == {w1}
TwoWorkers == {w1, w2}

PidSymmetry == Permutations(MCPids)
=============================================================================
