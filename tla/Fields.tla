------------------------------- MODULE Fields -------------------------------
(***************************************************************************)
(* The filter field catalog of pkg/filter/fields/fields_windows.go: the    *)
(* keys of the fields map with the deprecations their entries carry, the   *)
(* category predicates (IsPsField ... IsDNSField), the segment table of    *)
(* the pseudo-fields and the lookups built on it.  The catalog is constant *)
(* data; the only behaviour is a client asking one lookup after another,   *)
(* so the state is the current query and every property is a statement     *)
(* about the lookups for every query.  A field name is the sequence of its *)
(* dot-separated components (no component holds a dot), so the "x." prefix *)
(* tests of the code are tests on the leading components.  Descriptions,   *)
(* types, examples and arguments of the entries are left out.             *)
(***************************************************************************)
EXTENDS Sequences, FiniteSets, Functions, TLC

\* The names <<top>> \o r for each component sequence r of rests.
Under(top, rests) == {<<top>> \o r : r \in rests}

\* The segments map: every segment a bound field reference may carry.
Segments ==
    {"name", "path", "type", "entropy", "size", "md5", "address", "checksum",
     "pid", "cmdline", "exe", "args", "cwd", "sid", "sessionid", "username",
     "domain", "tid", "start_address", "user_stack_base", "user_stack_limit",
     "kernel_stack_base", "kernel_stack_limit", "offset", "symbol", "module",
     "allocation_size", "protection", "is_unbacked",
     "callsite_leading_assembly", "callsite_trailing_assembly"}

\* The allowedSegments map, each row in the order of the code.
AllowedSegments ==
    [f \in {<<"ps", "_ancestors">>, <<"ps", "_threads">>, <<"ps", "_modules">>, <<"ps", "_mmaps">>,
            <<"pe", "_sections">>, <<"thread", "_callstack">>} |->
       CASE f = <<"ps", "_ancestors">> ->
              <<"name", "pid", "cmdline", "exe", "args", "cwd", "sid",
                "sessionid", "username", "domain">>
         [] f = <<"ps", "_threads">> ->
              <<"tid", "start_address", "user_stack_base", "user_stack_limit",
                "kernel_stack_base", "kernel_stack_limit">>
         [] f = <<"ps", "_modules">> -> <<"path", "name", "address", "size", "checksum">>
         [] f = <<"ps", "_mmaps">> ->
              <<"address", "type", "address", "size", "protection", "path">>
         [] f = <<"pe", "_sections">> -> <<"name", "size", "entropy", "md5">>
         [] f = <<"thread", "_callstack">> ->
              <<"address", "offset", "symbol", "module", "allocation_size",
                "protection", "is_unbacked", "callsite_leading_assembly",
                "callsite_trailing_assembly">>]

\* allowedSegments[f]: the row of f, empty (nil) for any other field.
SegmentsOf(f) == IF f \in DOMAIN AllowedSegments THEN AllowedSegments[f] ELSE <<>>

\* Mutant: the loop returns the result of its first comparison.
IsSegmentAllowedFirstOnly(f, s) ==
    Len(SegmentsOf(f)) > 0 /\ SegmentsOf(f)[1] = s

\* IsSegmentAllowed: an empty row allows nothing; otherwise the loop looks
\* for s in the row.
IsSegmentAllowed(f, s) ==
    /\ Len(SegmentsOf(f)) # 0
    /\ \E i \in 1..Len(SegmentsOf(f)) : SegmentsOf(f)[i] = s

\* SegmentsHint: the segments of the row in order, the ", " join being
\* layout only.
SegmentsHint(f) == SegmentsOf(f)

\* IsSegment: a lookup of the segments map.
IsSegment(s) == s \in Segments

\* Mutant: the thread call stack pseudo-field is left out of the test.
IsPseudoFieldNoCallstack(f) ==
    f \in {<<"ps", "_ancestors">>, <<"ps", "_modules">>, <<"ps", "_threads">>, <<"ps", "_mmaps">>, <<"pe", "_sections">>}

\* IsPseudoField: the six pseudo-field variables.
IsPseudoField(f) ==
    f \in {<<"ps", "_ancestors">>, <<"ps", "_modules">>, <<"ps", "_threads">>, <<"ps", "_mmaps">>,
           <<"thread", "_callstack">>, <<"pe", "_sections">>}

(***************************************************************************)
(* The keys of the fields map, one definition per block of the map.        *)
(***************************************************************************)
\* The kevt.* entries of the fields map.
KevtFields ==
    Under("kevt", {<<"seq">>, <<"pid">>, <<"tid">>, <<"cpu">>,
       <<"name">>, <<"category">>, <<"desc">>, <<"host">>, <<"time">>,
       <<"time", "h">>, <<"time", "m">>, <<"time", "s">>,
       <<"time", "ns">>, <<"date">>, <<"date", "d">>, <<"date", "m">>,
       <<"date", "y">>, <<"date", "tz">>, <<"date", "week">>,
       <<"date", "weekday">>, <<"nparams">>, <<"arg">>})

\* The ps.* entries of the fields map.
PsFields ==
    Under("ps", {<<"pid">>, <<"ppid">>, <<"name">>, <<"comm">>,
       <<"cmdline">>, <<"exe">>, <<"args">>, <<"cwd">>, <<"sid">>,
       <<"sessionid">>, <<"domain">>, <<"username">>, <<"envs">>,
       <<"handles">>, <<"handle", "types">>, <<"dtb">>, <<"modules">>,
       <<"parent", "name">>, <<"parent", "pid">>, <<"parent", "comm">>,
       <<"parent", "cmdline">>, <<"parent", "exe">>, <<"parent", "args">>,
       <<"parent", "cwd">>, <<"parent", "sid">>, <<"parent", "domain">>,
       <<"parent", "username">>, <<"parent", "sessionid">>,
       <<"parent", "envs">>, <<"parent", "handles">>,
       <<"parent", "handle", "types">>, <<"parent", "dtb">>,
       <<"access", "mask">>, <<"access", "mask", "names">>,
       <<"access", "status">>, <<"sibling", "pid">>, <<"child", "pid">>,
       <<"sibling", "name">>, <<"child", "name">>, <<"sibling", "comm">>,
       <<"child", "cmdline">>, <<"sibling", "args">>, <<"child", "args">>,
       <<"sibling", "exe">>, <<"child", "exe">>, <<"sibling", "sid">>,
       <<"child", "sid">>, <<"sibling", "sessionid">>,
       <<"child", "sessionid">>, <<"sibling", "domain">>,
       <<"child", "domain">>, <<"sibling", "username">>,
       <<"child", "username">>, <<"uuid">>, <<"parent", "uuid">>,
       <<"child", "uuid">>, <<"child", "pe", "file", "name">>,
       <<"child", "is_wow64">>, <<"child", "is_packaged">>,
       <<"child", "is_protected">>, <<"is_wow64">>, <<"is_packaged">>,
       <<"is_protected">>, <<"parent", "is_wow64">>,
       <<"parent", "is_packaged">>, <<"parent", "is_protected">>,
       <<"ancestor">>})

\* The thread.* entries of the fields map.
ThreadFields ==
    Under("thread", {<<"prio">>, <<"io", "prio">>, <<"page", "prio">>,
       <<"kstack", "base">>, <<"kstack", "limit">>, <<"ustack", "base">>,
       <<"ustack", "limit">>, <<"entrypoint">>, <<"start_address">>,
       <<"pid">>, <<"teb_address">>, <<"access", "mask">>,
       <<"access", "mask", "names">>, <<"access", "status">>,
       <<"callstack", "summary">>, <<"callstack", "detail">>,
       <<"callstack", "modules">>, <<"callstack", "symbols">>,
       <<"callstack", "allocation_sizes">>,
       <<"callstack", "protections">>,
       <<"callstack", "callsite_leading_assembly">>,
       <<"callstack", "callsite_trailing_assembly">>,
       <<"callstack", "is_unbacked">>, <<"start_address", "symbol">>,
       <<"start_address", "module">>})

\* Mutant: image.is_dll is left out of the map while pe.is_dll still
\* names it as its replacement.
ImageFieldsNoIsDll ==
    Under("image", {<<"path">>, <<"name">>, <<"base", "address">>,
       <<"checksum">>, <<"size">>, <<"default", "address">>, <<"pid">>,
       <<"signature", "type">>, <<"signature", "level">>,
       <<"cert", "serial">>, <<"cert", "subject">>, <<"cert", "issuer">>,
       <<"cert", "after">>, <<"cert", "before">>,
       <<"is_driver_malicious">>, <<"is_driver_vulnerable">>,
       <<"is_driver">>, <<"is_exec">>, <<"is_dotnet">>})

\* The image.* entries of the fields map.
ImageFields ==
    Under("image", {<<"path">>, <<"name">>, <<"base", "address">>,
       <<"checksum">>, <<"size">>, <<"default", "address">>, <<"pid">>,
       <<"signature", "type">>, <<"signature", "level">>,
       <<"cert", "serial">>, <<"cert", "subject">>, <<"cert", "issuer">>,
       <<"cert", "after">>, <<"cert", "before">>,
       <<"is_driver_malicious">>, <<"is_driver_vulnerable">>,
       <<"is_dll">>, <<"is_driver">>, <<"is_exec">>, <<"is_dotnet">>})

\* The file.* entries of the fields map.
FileFields ==
    Under("file", {<<"object">>, <<"path">>, <<"name">>,
       <<"operation">>, <<"share", "mask">>, <<"io", "size">>,
       <<"offset">>, <<"type">>, <<"extension">>, <<"attributes">>,
       <<"status">>, <<"view", "base">>, <<"view", "size">>,
       <<"view", "type">>, <<"view", "protection">>,
       <<"is_driver_malicious">>, <<"is_driver_vulnerable">>,
       <<"is_dll">>, <<"is_driver">>, <<"is_exec">>, <<"pid">>, <<"key">>,
       <<"info_class">>, <<"info", "allocation_size">>,
       <<"info", "eof_size">>, <<"info", "is_disposition_delete_file">>})

\* The registry.* entries of the fields map.
RegistryFields ==
    Under("registry", {<<"path">>, <<"key", "name">>,
       <<"key", "handle">>, <<"value">>, <<"value", "type">>,
       <<"status">>})

\* The net.* entries of the fields map.
NetFields ==
    Under("net", {<<"dip">>, <<"sip">>, <<"dport">>, <<"sport">>,
       <<"dport", "name">>, <<"sport", "name">>, <<"l4", "proto">>,
       <<"size">>, <<"sip", "names">>, <<"dip", "names">>})

\* The handle.* entries of the fields map.
HandleFields ==
    Under("handle", {<<"id">>, <<"object">>, <<"name">>, <<"type">>})

\* The pe.* entries of the fields map.
PeFields ==
    Under("pe", {<<"nsections">>, <<"nsymbols">>, <<"address", "base">>,
       <<"address", "entrypoint">>, <<"symbols">>, <<"imports">>,
       <<"resources">>, <<"company">>, <<"copyright">>, <<"description">>,
       <<"file", "name">>, <<"file", "version">>, <<"product">>,
       <<"product", "version">>, <<"is_dll">>, <<"is_driver">>,
       <<"is_exec">>, <<"imphash">>, <<"is_dotnet">>, <<"anomalies">>,
       <<"is_signed">>, <<"is_trusted">>, <<"cert", "serial">>,
       <<"cert", "subject">>, <<"cert", "issuer">>, <<"cert", "after">>,
       <<"cert", "before">>, <<"is_modified">>,
       <<"ps", "child", "file", "name">>})

\* The mem.* entries of the fields map.
MemFields ==
    Under("mem", {<<"address">>, <<"size">>, <<"alloc">>, <<"type">>,
       <<"protection">>, <<"protection", "mask">>})

\* The dns.* entries of the fields map.
DNSFields ==
    Under("dns", {<<"name">>, <<"rr">>, <<"options">>, <<"rcode">>,
       <<"answers">>})

\* Every key of the fields map.
Catalog ==
    KevtFields \cup PsFields \cup ThreadFields \cup ImageFields \cup FileFields
    \cup RegistryFields \cup NetFields \cup HandleFields \cup PeFields
    \cup MemFields \cup DNSFields

\* The Deprecation of the entries that carry one: the fields that replace
\* the key.
Deprecations ==
    (<<"ps", "comm">> :> {<<"ps", "cmdline">>}) @@
    (<<"ps", "parent", "comm">> :> {<<"ps", "parent", "cmdline">>}) @@
    (<<"ps", "sibling", "pid">> :> {<<"ps", "child", "pid">>}) @@
    (<<"ps", "sibling", "name">> :> {<<"ps", "child", "name">>}) @@
    (<<"ps", "sibling", "comm">> :> {<<"ps", "child", "cmdline">>}) @@
    (<<"ps", "sibling", "args">> :> {<<"ps", "child", "args">>}) @@
    (<<"ps", "sibling", "exe">> :> {<<"ps", "child", "exe">>}) @@
    (<<"ps", "sibling", "sid">> :> {<<"ps", "child", "sid">>}) @@
    (<<"ps", "sibling", "sessionid">> :> {<<"ps", "child", "sessionid">>}) @@
    (<<"ps", "sibling", "domain">> :> {<<"ps", "child", "domain">>}) @@
    (<<"ps", "sibling", "username">> :> {<<"ps", "child", "username">>}) @@
    (<<"thread", "entrypoint">> :> {<<"thread", "start_address">>}) @@
    (<<"pe", "is_dll">> :> {<<"file", "is_dll">>, <<"image", "is_dll">>}) @@
    (<<"pe", "is_driver">> :> {<<"file", "is_driver">>, <<"image", "is_driver">>}) @@
    (<<"pe", "is_exec">> :> {<<"file", "is_exec">>, <<"image", "is_exec">>}) @@
    (<<"pe", "ps", "child", "file", "name">> :> {<<"ps", "child", "pe", "file", "name">>})

\* IsField: a key of the fields map or a pseudo-field.
IsField(name) == name \in Catalog \/ IsPseudoField(name)

\* PsChildPeFilename, the ps.child.pe.file.name field.
PsChildPeFilename == <<"ps", "child", "pe", "file", "name">>

\* strings.HasPrefix(string(f), p ".") for the components p of a prefix.
HasPrefix(f, p) == Len(f) > Len(p) /\ SubSeq(f, 1, Len(p)) = p

\* The top-level components the category predicates test.
-----------------------------------------------------------------------------
(* A client asking one lookup after another. *)

\* The fields asked about: the pseudo-fields, every key of the map and
\* pe.timestamp, a declared Field the map lacks; the segments, and one
\* that is none.
QueryFields ==
    DOMAIN AllowedSegments \cup Catalog \cup {<<"pe", "timestamp">>}

Queries == [f : QueryFields, s : Segments \cup {"bogus"}]

VARIABLE query

Init == query \in Queries

Next == \E q \in Queries : query' = q

Spec == Init /\ [][Next]_query

\* The segment table of the field catalog contract (spec section 6), the
\* reference the lookups are checked against.
SpecSegmentTable ==
    [f \in DOMAIN AllowedSegments |->
       CASE f = <<"ps", "_ancestors">> ->
              {"name", "pid", "cmdline", "exe", "args", "cwd", "sid",
               "sessionid", "username", "domain"}
         [] f = <<"ps", "_threads">> ->
              {"tid", "start_address", "user_stack_base", "user_stack_limit",
               "kernel_stack_base", "kernel_stack_limit"}
         [] f = <<"ps", "_modules">> -> {"path", "name", "address", "size", "checksum"}
         [] f = <<"ps", "_mmaps">> -> {"address", "type", "size", "protection", "path"}
         [] f = <<"pe", "_sections">> -> {"name", "size", "entropy", "md5"}
         [] f = <<"thread", "_callstack">> ->
              {"address", "offset", "symbol", "module", "allocation_size",
               "protection", "is_unbacked", "callsite_leading_assembly",
               "callsite_trailing_assembly"}]

\* IsSegmentAllowed accepts exactly the segments the contract's table lists
\* for a pseudo-field, and nothing for any other field.
SegmentTableAsSpecified ==
    IsSegmentAllowed(query.f, query.s) <=>
       query.f \in DOMAIN SpecSegmentTable /\ query.s \in SpecSegmentTable[query.f]

\* A segment the filter accepts on a field is a known segment (IsSegment)
\* and the field is a known field and a pseudo-field: the three tables
\* (segments, allowedSegments, the pseudo-field list) agree.
SegmentsOnlyOnPseudoFields ==
    IsSegmentAllowed(query.f, query.s) =>
       IsSegment(query.s) /\ IsField(query.f) /\ IsPseudoField(query.f)

\* The deprecation contract (spec sections 4.5 and 8): a deprecated entry
\* of the fields map names at least one replacement, and every replacement
\* is a field IsField recognises and is not itself deprecated, so the rule
\* engine rewrites an expression in one step.
DeprecationsResolve ==
    query.f \in DOMAIN Deprecations =>
       /\ query.f \in Catalog
       /\ Deprecations[query.f] # {}
       /\ \A g \in Deprecations[query.f] :
             IsField(g) /\ g \notin DOMAIN Deprecations
=============================================================================
