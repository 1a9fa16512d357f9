-------------------------- MODULE StatusCacheProofs --------------------------
(***************************************************************************)
(* Proofs about formatStatus and its cache of NT status messages          *)
(* (StatusCache), for every value of the constants that satisfies          *)
(* StatusAssumption.                                                       *)
(***************************************************************************)
EXTENDS StatusCache, TLAPS

(* The two statuses formatStatus answers before taking mux are never      *)
(* cached: only the locked body inserts, and it runs for the others.      *)
Unlocked == resolvedStatuses[0] = None /\ resolvedStatuses[NotFound] = None

(* Every cached message is what the successful FormatMessage branch       *)
(* computed for its status: the trimmed, decoded and lower-cased system    *)
(* message.  Whether TrimLen stops where TrimmedLenRef says (the rest of  *)
(* CachedAreSystemMessages) is a fact about a recursive function on every *)
(* input and is left to TLC.                                               *)
CachedFormatted ==
    \A s \in Statuses :
       resolvedStatuses[s] # None =>
          resolvedStatuses[s] = Decoded(SysMsg[s], TrimLen(SysMsg[s]))

CInv ==
    /\ DOMAIN resolvedStatuses = Statuses
    /\ Unlocked
    /\ CachedFormatted

\* The step predicate of AnswersStable.
Stable ==
    \A s \in Statuses :
       resolvedStatuses[s] # None =>
          /\ resolvedStatuses'[s] = resolvedStatuses[s]
          /\ last'.status = s => last'.msg = resolvedStatuses[s]

LEMMA InitCInv == Init => CInv
BY StatusAssumption DEF Init, CInv, Unlocked, CachedFormatted

(* One call of formatStatus(s) keeps CInv and changes no cached message,  *)
(* and a caller asking for a cached status gets that message.              *)
LEMMA StepCInv ==
    ASSUME CInv, NEW s \in Statuses, FormatStatus(s)
    PROVE  CInv' /\ Stable
<1> USE StatusAssumption
<1>1. CASE s \in {0, NotFound}
    <2>1. UNCHANGED resolvedStatuses /\ last'.status = s
        BY <1>1 DEF FormatStatus
    <2>2. resolvedStatuses[s] = None
        BY <1>1 DEF CInv, Unlocked
    <2>3. QED
        BY <2>1, <2>2 DEF CInv, Unlocked, CachedFormatted, Stable
<1>2. CASE s \notin {0, NotFound} /\ resolvedStatuses[s] # None
    <2>1. UNCHANGED resolvedStatuses
          /\ last' = [status |-> s, msg |-> resolvedStatuses[s]]
        BY <1>2 DEF FormatStatus, Lookup, Format
    <2>2. QED
        BY <2>1 DEF CInv, Unlocked, CachedFormatted, Stable
<1>3. CASE s \notin {0, NotFound} /\ resolvedStatuses[s] = None
    <2>1. Format(s)
        BY <1>3 DEF FormatStatus, Lookup
    <2>2. last'.status = s
        BY <2>1 DEF Format
    <2>3. CASE UNCHANGED resolvedStatuses
        BY <1>3, <2>2, <2>3 DEF CInv, Unlocked, CachedFormatted, Stable
    <2>4. CASE resolvedStatuses' =
                 [resolvedStatuses EXCEPT ![s] = Decoded(SysMsg[s], TrimLen(SysMsg[s]))]
        BY <1>3, <2>2, <2>4 DEF CInv, Unlocked, CachedFormatted, Stable
    <2>5. QED
        BY <2>1, <2>3, <2>4 DEF Format
<1>4. QED
    BY <1>1, <1>2, <1>3

LEMMA NextCInv == CInv /\ [Next]_vars => CInv' /\ [Stable]_vars
<1> SUFFICES ASSUME CInv, [Next]_vars PROVE CInv' /\ [Stable]_vars
    OBVIOUS
<1>1. CASE Next
    BY <1>1, StepCInv DEF Next
<1>2. CASE UNCHANGED vars
    BY <1>2 DEF vars, CInv, Unlocked, CachedFormatted
<1>3. QED
    BY <1>1, <1>2

(* AnswersStable: a cached message is never replaced or dropped, and once *)
(* a status is cached every formatStatus call for it returns that message *)
(* (the monotonic insert of spec section 5, under mux).                   *)
THEOREM StableAnswers == Spec => AnswersStable
<1>1. Init => CInv
    BY InitCInv
<1>2. CInv /\ [Next]_vars => CInv' /\ [Stable]_vars
    BY NextCInv
<1>3. QED
    BY <1>1, <1>2, PTL DEF Spec, AnswersStable, Stable

(* No failed FormatMessage is ever cached: every cached message is the    *)
(* formatted system message of its status.                                *)
THEOREM OnlyFormattedCached == Spec => []CachedFormatted
<1>1. Init => CInv
    BY InitCInv
<1>2. CInv /\ [Next]_vars => CInv'
    BY NextCInv
<1>3. QED
    BY <1>1, <1>2, PTL DEF Spec, CInv
=============================================================================
