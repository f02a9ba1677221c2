\* Two handler tasks whose update_by_query requests interleave per
\* document.  TAG_ARCHIVED and TAG_ESCALATED are the evebox.* members of
\* the tag pairs; histories are explored up to three entries over both documents.
CONSTANTS
    e1 = e1
    e2 = e2
    g1 = g1
    NotAlert = NotAlert
    Clients = {c1, c2}
    Events <- MCEvents
    GroupKeys <- MCGroupKeys
    GroupOf <- MCGroupOf
    TsOf <- MCTsOf
    Times <- MCTimes
    TAG_ARCHIVED = "evebox.archived"
    TAG_ESCALATED = "evebox.escalated"
    MaxHistory = 3

SPECIFICATION Spec
CONSTRAINT HistoryBound
SYMMETRY ClientSymmetry

INVARIANT TypeOK
INVARIANT GroupArchiveRecordedOnce
INVARIANT EscalatedMarkerMatchesHistory
