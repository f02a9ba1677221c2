\* Eight documents indexed in any order, every sub-report and an unknown
\* one, with and without a minimum timestamp; the code's aggregation sizes.
CONSTANTS
    d1 = d1  d2 = d2  d3 = d3  d4 = d4  d5 = d5  d6 = d6  d7 = d7  d8 = d8
    None = None
    Docs <- MCDocs
    Doc <- MCDoc
    Times <- MCTimes
    Unassigned = 0
    TopSize = 10000
    SubSize = 10
SPECIFICATION Spec
PROPERTY LatestMessagePerClient
PROPERTY ServersCounted
PROPERTY MacIpReportsAgree
