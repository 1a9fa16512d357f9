----------------------------- MODULE FieldsProofs -----------------------------
(***************************************************************************)
(* Proofs about the segment tables of the filter field catalog (Fields):   *)
(* the lookups agree with the contract's table for every field name and   *)
(* every segment, not only for the queries TLC enumerates.                *)
(***************************************************************************)
EXTENDS Fields, TLAPS

\* The six pseudo-fields, the keys of allowedSegments.
Pseudo == {<<"ps", "_ancestors">>, <<"ps", "_threads">>, <<"ps", "_modules">>,
           <<"ps", "_mmaps">>, <<"pe", "_sections">>, <<"thread", "_callstack">>}

LEMMA PseudoKeys ==
    /\ DOMAIN AllowedSegments = Pseudo
    /\ DOMAIN SpecSegmentTable = Pseudo
    /\ \A f : IsPseudoField(f) <=> f \in Pseudo
BY DEF AllowedSegments, SpecSegmentTable, IsPseudoField, Pseudo

(* IsSegmentAllowed(f, s) holds exactly when s is in f's row of the spec's *)
(* table, for every f and s.                                               *)
LEMMA SegmentLookup ==
    ASSUME NEW f, NEW s
    PROVE  IsSegmentAllowed(f, s) <=>
              f \in DOMAIN SpecSegmentTable /\ s \in SpecSegmentTable[f]
<1>1. CASE f = <<"ps", "_ancestors">>
    BY <1>1 DEF IsSegmentAllowed, SegmentsOf, AllowedSegments, SpecSegmentTable
<1>2. CASE f = <<"ps", "_threads">>
    BY <1>2 DEF IsSegmentAllowed, SegmentsOf, AllowedSegments, SpecSegmentTable
<1>3. CASE f = <<"ps", "_modules">>
    <2>1. SegmentsOf(f) = <<"path", "name", "address", "size", "checksum">>
        BY <1>3, Zenon DEF SegmentsOf, AllowedSegments
    <2>2. f \in DOMAIN SpecSegmentTable /\ SpecSegmentTable[f] = {"path", "name", "address", "size", "checksum"}
        BY <1>3, Zenon DEF SpecSegmentTable, AllowedSegments
    <2>3. QED
        BY <2>1, <2>2 DEF IsSegmentAllowed
<1>4. CASE f = <<"ps", "_mmaps">>
    <2>1. SegmentsOf(f) = <<"address", "type", "address", "size", "protection", "path">>
        BY <1>4, Zenon DEF SegmentsOf, AllowedSegments
    <2>2. f \in DOMAIN SpecSegmentTable /\ SpecSegmentTable[f] = {"address", "type", "size", "protection", "path"}
        BY <1>4, Zenon DEF SpecSegmentTable, AllowedSegments
    <2>3. QED
        BY <2>1, <2>2 DEF IsSegmentAllowed
<1>5. CASE f = <<"pe", "_sections">>
    BY <1>5 DEF IsSegmentAllowed, SegmentsOf, AllowedSegments, SpecSegmentTable
<1>6. CASE f = <<"thread", "_callstack">>
    BY <1>6 DEF IsSegmentAllowed, SegmentsOf, AllowedSegments, SpecSegmentTable
<1>7. CASE f \notin Pseudo
    <2>1. SegmentsOf(f) = <<>>
        BY <1>7, PseudoKeys DEF SegmentsOf
    <2>2. QED
        BY <1>7, <2>1, PseudoKeys DEF IsSegmentAllowed
<1>8. QED
    BY <1>1, <1>2, <1>3, <1>4, <1>5, <1>6, <1>7 DEF Pseudo
(* Every row of the spec's table lists known segments only.               *)
LEMMA RowsAreSegments ==
    \A f \in DOMAIN SpecSegmentTable : SpecSegmentTable[f] \subseteq Segments
<1> SUFFICES ASSUME NEW f \in Pseudo PROVE SpecSegmentTable[f] \subseteq Segments
    BY PseudoKeys
<1>1. CASE f = <<"ps", "_ancestors">>
    BY <1>1, Zenon DEF SpecSegmentTable, AllowedSegments, Segments
<1>2. CASE f = <<"ps", "_threads">>
    BY <1>2, Zenon DEF SpecSegmentTable, AllowedSegments, Segments
<1>3. CASE f = <<"ps", "_modules">>
    BY <1>3, Zenon DEF SpecSegmentTable, AllowedSegments, Segments
<1>4. CASE f = <<"ps", "_mmaps">>
    BY <1>4, Zenon DEF SpecSegmentTable, AllowedSegments, Segments
<1>5. CASE f = <<"pe", "_sections">>
    BY <1>5, Zenon DEF SpecSegmentTable, AllowedSegments, Segments
<1>6. CASE f = <<"thread", "_callstack">>
    BY <1>6, Zenon DEF SpecSegmentTable, AllowedSegments, Segments
<1>7. QED
    BY <1>1, <1>2, <1>3, <1>4, <1>5, <1>6 DEF Pseudo

(* SegmentTableAsSpecified: the allowedSegments lookup of                 *)
(* fields_windows.go (IsSegmentAllowed's loop over the row) accepts       *)
(* exactly the segments of the contract's table, for every field name and *)
(* segment, not only the ones TLC enumerates.                             *)
THEOREM SegmentTable == Spec => []SegmentTableAsSpecified
<1>1. SegmentTableAsSpecified /\ SegmentTableAsSpecified'
    BY SegmentLookup DEF SegmentTableAsSpecified
<1>2. QED
    BY <1>1, PTL DEF Spec

(* SegmentsOnlyOnPseudoFields: a segment IsSegmentAllowed accepts is in   *)
(* the segments map, and the field carrying it is a field IsField knows   *)
(* and a pseudo-field, for every field name and segment: the three tables *)
(* of fields_windows.go agree.                                            *)
THEOREM SegmentsAgree == Spec => []SegmentsOnlyOnPseudoFields
<1>1. ASSUME NEW f, NEW s, IsSegmentAllowed(f, s)
      PROVE  IsSegment(s) /\ IsField(f) /\ IsPseudoField(f)
    <2>1. f \in DOMAIN SpecSegmentTable /\ s \in SpecSegmentTable[f]
        BY <1>1, SegmentLookup
    <2>2. IsPseudoField(f)
        BY <2>1, PseudoKeys
    <2>3. QED
        BY <2>1, <2>2, RowsAreSegments DEF IsSegment, IsField
<1>2. SegmentsOnlyOnPseudoFields /\ SegmentsOnlyOnPseudoFields'
    BY <1>1 DEF SegmentsOnlyOnPseudoFields
<1>3. QED
    BY <1>2, PTL DEF Spec
=============================================================================
