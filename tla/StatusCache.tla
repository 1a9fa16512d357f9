----------------------------- MODULE StatusCache -----------------------------
(***************************************************************************)
(* formatStatus of pkg/kstream/interceptors/util.go: the process-wide      *)
(* cache of formatted NT status messages.  Two statuses are answered       *)
(* before the lock; every other call holds mux for its whole body (defer   *)
(* mux.Unlock), so a call is one atomic step whatever the callers do.      *)
(* FormatMessage is modelled by what it does: it writes the system         *)
(* message of the status into the 300-unit buffer, or fails (a transient  *)
(* failure, or a message the buffer cannot hold).  A message is a          *)
(* sequence of characters; the UTF-16 decode is the identity on them and  *)
(* strings.ToLower is LowerChar applied to each.                           *)
(***************************************************************************)
EXTENDS Integers, Sequences, FiniteSetsExt

CONSTANTS
    Statuses,        \* the uint32 statuses the callers pass
    NotFound,        \* notFoundNTStatus
    Chars,           \* the characters of the system messages
    CR, LF,          \* '\r' and '\n'
    LowerChar,       \* unicode lower-casing of a character
    SysMsg,          \* status -> the system message FormatMessage writes
    BufLen,          \* len(b): make([]uint16, 300)
    SuccessMsg, KeyNotFoundMsg, UnknownMsg, \* the three constant messages
    None             \* no entry in resolvedStatuses

ASSUME StatusAssumption ==
    /\ {0, NotFound} \subseteq Statuses
    /\ {CR, LF} \subseteq Chars
    /\ LowerChar \in [Chars -> Chars]
    /\ SysMsg \in [Statuses -> Seq(Chars)]
    /\ BufLen \in Nat

VARIABLES
    resolvedStatuses,  \* status -> cached message, None when absent
    last               \* the last call: its status and the string returned

vars == <<resolvedStatuses, last>>

\* Mutant: the trim removes at most one terminator.
TrimLenOnce(b) ==
    IF Len(b) > 0 /\ b[Len(b)] \in {CR, LF} THEN Len(b) - 1 ELSE Len(b)

\* The trim loop: n is decremented while b[n-1] is '\r' or '\n'.
TrimLen(b) ==
    LET trim[n \in 0..Len(b)] ==
          IF n > 0 /\ b[n] \in {CR, LF} THEN trim[n - 1] ELSE n
    IN  trim[Len(b)]

\* strings.ToLower(string(utf16.Decode(b[:n]))).
Decoded(b, n) == [i \in 1..n |-> LowerChar[b[i]]]

Init ==
    /\ resolvedStatuses = [s \in Statuses |-> None]
    /\ last = [status |-> 0, msg |-> SuccessMsg]

\* Mutant: a failed FormatMessage is cached as "unknown".
FormatCachesUnknown(s) ==
    \/ /\ resolvedStatuses' = [resolvedStatuses EXCEPT ![s] = UnknownMsg]
       /\ last' = [status |-> s, msg |-> UnknownMsg]
    \/ /\ Len(SysMsg[s]) =< BufLen
       /\ LET m == Decoded(SysMsg[s], TrimLen(SysMsg[s]))
          IN  /\ resolvedStatuses' = [resolvedStatuses EXCEPT ![s] = m]
              /\ last' = [status |-> s, msg |-> m]

\* Mutant: no return after a failed FormatMessage, so the empty b[:0] is
\* cached and returned.
FormatNoErrReturn(s) ==
    \/ /\ resolvedStatuses' = [resolvedStatuses EXCEPT ![s] = <<>>]
       /\ last' = [status |-> s, msg |-> <<>>]
    \/ /\ Len(SysMsg[s]) =< BufLen
       /\ LET m == Decoded(SysMsg[s], TrimLen(SysMsg[s]))
          IN  /\ resolvedStatuses' = [resolvedStatuses EXCEPT ![s] = m]
              /\ last' = [status |-> s, msg |-> m]

\* FormatMessage into b, then the trim, the decode and the insert; on an
\* error (a transient one, or a message longer than b) "unknown" is
\* returned and nothing is cached.
Format(s) ==
    \/ /\ last' = [status |-> s, msg |-> UnknownMsg]
       /\ UNCHANGED resolvedStatuses
    \/ /\ Len(SysMsg[s]) =< BufLen
       /\ LET m == Decoded(SysMsg[s], TrimLen(SysMsg[s]))
          IN  /\ resolvedStatuses' = [resolvedStatuses EXCEPT ![s] = m]
              /\ last' = [status |-> s, msg |-> m]

\* Mutant: the cache is not consulted.
LookupSkipped(s) == Format(s)

\* Under mux: a cached message is returned, otherwise it is formatted.
Lookup(s) ==
    \/ /\ resolvedStatuses[s] # None
       /\ last' = [status |-> s, msg |-> resolvedStatuses[s]]
       /\ UNCHANGED resolvedStatuses
    \/ /\ resolvedStatuses[s] = None
       /\ Format(s)

\* formatStatus(status), one call: the two statuses answered before the
\* lock, then the locked body.
FormatStatus(s) ==
    \/ /\ s = 0
       /\ last' = [status |-> s, msg |-> SuccessMsg]
       /\ UNCHANGED resolvedStatuses
    \/ /\ s = NotFound
       /\ last' = [status |-> s, msg |-> KeyNotFoundMsg]
       /\ UNCHANGED resolvedStatuses
    \/ /\ s \notin {0, NotFound}
       /\ Lookup(s)

Next == \E s \in Statuses : FormatStatus(s)

Spec == Init /\ [][Next]_vars

-----------------------------------------------------------------------------
TypeOK ==
    /\ resolvedStatuses \in [Statuses -> Seq(Chars) \cup {None}]
    /\ last \in [status : Statuses,
                 msg : Seq(Chars) \cup {SuccessMsg, KeyNotFoundMsg, UnknownMsg}]

\* Reference for the trim: the length of the longest prefix after which
\* only '\r' and '\n' follow, and which does not itself end in one.
TrimmedLenRef(b) ==
    Min({k \in 0..Len(b) :
           \A i \in k + 1..Len(b) : b[i] \in {CR, LF}})

\* Every cached message is the system message of its status, lower-cased,
\* with all its terminating CR and LF removed: a failed FormatMessage is
\* never cached, and the trim loop stops exactly at the text.
CachedAreSystemMessages ==
    \A s \in Statuses :
       resolvedStatuses[s] # None =>
          resolvedStatuses[s] = Decoded(SysMsg[s], TrimmedLenRef(SysMsg[s]))

\* The cache only grows (the contract's "monotonic insert"), and once a
\* status is cached every call for it returns that message, even when
\* FormatMessage would now fail.
AnswersStable ==
    [][\A s \in Statuses :
          resolvedStatuses[s] # None =>
             /\ resolvedStatuses'[s] = resolvedStatuses[s]
             /\ last'.status = s => last'.msg = resolvedStatuses[s]]_vars
=============================================================================
