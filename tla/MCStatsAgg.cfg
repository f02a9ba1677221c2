\* Stats events at five instants with counter values 0..2 (a reset is a
\* smaller value after a larger one); bucket lengths below, at and above
\* one minute, the last not a whole number of minutes.
CONSTANTS
    Timestamps = {0, 20, 50, 70, 100}
    Values = {0, 1, 2}
    Intervals = {30, 60, 90}
    MaxSamples = 4
    VersionFetchMayFail = TRUE
SPECIFICATION Spec
INVARIANT TypeOK
INVARIANT StatsAggBackendsAgree
PROPERTY SqliteDerivFollowsResetRule
