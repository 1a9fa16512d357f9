\* Every lookup of the segment table against the contract's table, the
\* agreement of the segment, pseudo-field and field tables and the
\* deprecation contract, for every query.
SPECIFICATION Spec
INVARIANTS SegmentTableAsSpecified SegmentsOnlyOnPseudoFields
           DeprecationsResolve
