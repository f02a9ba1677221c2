\* archive_by_alert_group racing another workflow call on the same
\* document: the version conflict Elasticsearch skips with
\* conflicts=proceed is not reported to the caller.
CONSTANTS
    e1 = e1
    e2 = e2
    g1 = g1
    NotAlert = NotAlert
    Clients = {c1, c2}
    Events <- MCEvents
    GroupKeys <- MCGroupKeys
    GroupOf <- MCGroupOf
    TsOf <- MCTsOf
    Times <- MCTimes
    TAG_ARCHIVED = "evebox.archived"
    TAG_ESCALATED = "evebox.escalated"
    MaxHistory = 3

SPECIFICATION Spec
CONSTRAINT HistoryBound

PROPERTY ArchiveGroupEffective
