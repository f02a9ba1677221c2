\* One handler task: escalate an event by id, then de-escalate its alert
\* group.
CONSTANTS
    e1 = e1
    e2 = e2
    g1 = g1
    NotAlert = NotAlert
    Clients = {c1}
    Events <- MCEvents
    GroupKeys <- MCGroupKeys
    GroupOf <- MCGroupOf
    TsOf <- MCTsOf
    Times <- MCTimes
    TAG_ARCHIVED = "evebox.archived"
    TAG_ESCALATED = "evebox.escalated"
    MaxHistory = 3

SPECIFICATION Spec
CONSTRAINT HistoryBound

PROPERTY DeescalateGroupEffective
