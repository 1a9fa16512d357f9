------------------------------ MODULE MCScanner ------------------------------
(* Small instances of Scanner for TLC: the System process and two more      *)
(* PIDs, one of which is reused; two alert senders; two protection bits.   *)
EXTENDS Scanner, TLC

CONSTANTS sys, p1, p2, rx, rwx, guard

MCPids == {sys, p1, p2}

\* The user PIDs are interchangeable; System is not.
UserPidSymmetry == Permutations({p1, p2})
=============================================================================
