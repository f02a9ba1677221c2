\* The Elasticsearch inbox against the listing of spec.md 4.2: four alerts
\* in three groups, every workflow call through both stores, the tag lists
\* the web client sends, with and without a minimum timestamp.  Terms
\* sizes at least the number of buckets of each level, so no bucket is cut.
CONSTANTS
    e1 = e1  e2 = e2  e3 = e3  e4 = e4
    NotAlert = NotAlert
    None = None
    Events <- MCEvents
    GroupKeys <- MCGroupKeys
    GroupOf <- MCGroupOf
    TsOf <- MCTsOf
    Times <- MCTimes
    TagOptions <- MCTagOptions
    TAG_ARCHIVED = "evebox.archived"
    TAG_ESCALATED = "evebox.escalated"
    SigSize = 2
    SrcSize = 2
    DstSize = 2
SPECIFICATION Spec
VIEW StoreView
PROPERTY EsInboxComplete
