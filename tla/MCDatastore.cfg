\* One caller, two alerts of one group, every workflow and query call of
\* the facade; histories explored up to three entries over both documents.
CONSTANTS
    e1 = e1
    e2 = e2
    g1 = g1
    NotAlert = NotAlert
    BadTs = BadTs
    Caller = Caller
    Events <- MCEvents
    GroupKeys <- MCGroupKeys
    GroupOf <- MCGroupOf
    TsOf <- MCTsOf
    Times <- MCTimes
    TAG_ARCHIVED = "evebox.archived"
    TAG_ESCALATED = "evebox.escalated"
    MaxHistory = 2
    QueryStrings <- MCQueryStrings
    AlertLoopBound = 2
    EventLoopBound = 2
SPECIFICATION Spec
CONSTRAINT HistoryBound
INVARIANT ArchivedAgree
PROPERTY QueryLoopsEnd
PROPERTY EventQueryKeepsFragments
