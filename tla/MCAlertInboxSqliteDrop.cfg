\* The SQLite inbox against the listing of spec.md 4.2: a group whose
\* bare rowid comes from its oldest row is dropped by the outer join.
CONSTANTS
    e1 = e1  e2 = e2  e3 = e3  e4 = e4
    NotAlert = NotAlert
    None = None
    Events <- MCEvents
    GroupKeys <- MCGroupKeys
    GroupOf <- MCGroupOf
    TsOf <- MCTsOf
    Times <- MCTimes
    TagOptions <- MCTagOptions
    TAG_ARCHIVED = "evebox.archived"
    TAG_ESCALATED = "evebox.escalated"
    SigSize = 2
    SrcSize = 2
    DstSize = 2
SPECIFICATION Spec
VIEW StoreView

PROPERTY SqliteInboxComplete
