\* One handler task racing the importer: client statements are atomic, so a
\* second client adds no interleaving the database lock does not already
\* give.  The retry ceilings are scaled down from 100 to 2: the loops have
\* the same control at any ceiling.
CONSTANTS
    e1 = e1
    e2 = e2
    e3 = e3
    g1 = g1
    NotAlert = NotAlert
    BadTs = BadTs
    Clients = {c1}
    Events <- MCEvents
    GroupKeys <- MCGroupKeys
    GroupOf <- MCGroupOf
    TsOf <- MCTsOf
    Times <- MCTimes
    WriteRetryTicks = 2
    QueryRetries = 2

SPECIFICATION Spec

INVARIANT TypeOK
PROPERTY CallsReturn
