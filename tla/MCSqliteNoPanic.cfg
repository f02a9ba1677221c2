\* alert_query under a commit that holds the exclusive lock longer than
\* the retry budget of retry_query_loop (scaled from 100 to 2).
CONSTANTS
    e1 = e1
    e2 = e2
    e3 = e3
    g1 = g1
    NotAlert = NotAlert
    BadTs = BadTs
    Clients = {c1}
    Events <- MCEvents
    GroupKeys <- MCGroupKeys
    GroupOf <- MCGroupOf
    TsOf <- MCTsOf
    Times <- MCTimes
    WriteRetryTicks = 2
    QueryRetries = 2

SPECIFICATION Spec

INVARIANT NoPanic
