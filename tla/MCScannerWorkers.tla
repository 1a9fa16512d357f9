--------------------------- MODULE MCScannerWorkers ---------------------------
(* Small instances of ScannerWorkers for TLC: the System process and one   *)
(* more PID, reused by successive processes.                               *)
EXTENDS ScannerWorkers

CONSTANTS sys, p1, w1, w2

MCPids == {sys, p1}
=============================================================================
