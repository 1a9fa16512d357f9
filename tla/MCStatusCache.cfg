\* formatStatus under any sequence of calls: the cache holds only trimmed
\* system messages and answers a cached status the same way forever.
CONSTANTS
    cr = cr
    lf = lf
    success = success
    keyNotFound = keyNotFound
    unknown = unknown
    none = none
    Statuses <- MCStatuses
    NotFound = 3
    Chars <- MCChars
    CR = cr
    LF = lf
    LowerChar <- MCLowerChar
    SysMsg <- MCSysMsg
    BufLen = 4
    SuccessMsg = success
    KeyNotFoundMsg = keyNotFound
    UnknownMsg = unknown
    None = none
INIT Init
NEXT Next
INVARIANTS TypeOK CachedAreSystemMessages
PROPERTIES AnswersStable
