\* Stats events at five instants with counter values 0..2; one reset is
\* enough to meet the Elasticsearch derivative of a smaller value.
CONSTANTS
    Timestamps = {0, 20, 50, 70, 100}
    Values = {0, 1, 2}
    Intervals = {30, 60, 90}
    MaxSamples = 4
    VersionFetchMayFail = FALSE
SPECIFICATION Spec

PROPERTY EsDerivFollowsResetRule
