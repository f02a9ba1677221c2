------------------------------ MODULE StatsAgg ------------------------------
(***************************************************************************)
(* The stats graphs of both event stores: stats_agg (the maximum of a     *)
(* counter per time bucket) and stats_agg_deriv (its per-bucket           *)
(* increase), in src/src/sqlite/eventstore.rs and                          *)
(* src/src/elastic/eventstore.rs.  Each store's computation is a pure      *)
(* operator over the stored stats events; the state is the set of stats    *)
(* events the importer has stored and the last reply a handler returned.  *)
(*                                                                         *)
(* A stats event is a pair <<ts, value>>: its timestamp in whole seconds   *)
(* and the counter value at the requested field.  Intervals are whole      *)
(* seconds (time::Duration of the request).                                *)
(***************************************************************************)
EXTENDS Integers, Sequences, SequencesExt, FiniteSets

CONSTANTS
    Timestamps,   \* seconds at which stats events may be stored
    Values,       \* counter values of the requested field
    Intervals,    \* requested bucket lengths, in seconds
    MaxSamples,   \* bound on the number of stored stats events
    VersionFetchMayFail  \* whether client.get_version() may fail

ASSUME Timestamps \subseteq Nat /\ Values \subseteq Nat
ASSUME Intervals \subseteq Nat \ {0}

VARIABLES
    samples,  \* the stored stats events
    reply,    \* the data array of the last stats reply, with its request
    versionCached  \* the Elasticsearch client holds the backend's version

vars == <<samples, reply, versionCached>>

Sample == Timestamps \X Values
Row == Nat \X Nat            \* <<bucket key (s), value>>
Backends == {"sqlite", "elastic"}
Kinds == {"agg", "deriv"}

TypeOK ==
    /\ samples \subseteq Sample
    /\ Cardinality(samples) <= MaxSamples
    /\ reply \in [backend : Backends, kind : Kinds, interval : Intervals,
                  status : {"ok", "error", "panic"}, data : Seq(Row)] \cup {<<>>}
    /\ versionCached \in BOOLEAN

ByKey(a, b) == a[1] < b[1]
Larger(x, y) == IF x >= y THEN x ELSE y

-----------------------------------------------------------------------------
(* SQLite store                                                             *)

\* sqlite_format_interval: Duration::whole_seconds.
SqliteFormatInterval(i) == i

\* Mutant: the bucket key rounds the timestamp up to the next bucket.
SqliteBucketKeyCeil(t, i) ==
    ((t + SqliteFormatInterval(i) - 1) \div SqliteFormatInterval(i)) * SqliteFormatInterval(i)

\* The bucket key of get_stats: (timestamp / 1000000000 / :interval) * :interval.
SqliteBucketKey(t, i) == (t \div SqliteFormatInterval(i)) * SqliteFormatInterval(i)

\* get_stats: SELECT key, MAX(field) ... GROUP BY key ORDER BY key.  Only
\* buckets holding at least one stats event produce a row.
SqliteGetStats(S, i) ==
    LET keys == {SqliteBucketKey(p[1], i) : p \in S}
        MaxAt(k) == Max({p[2] : p \in {q \in S : SqliteBucketKey(q[1], i) = k}})
    IN SetToSortSeq({<<k, MaxAt(k)>> : k \in keys}, ByKey)

\* stats_agg: the rows as they are.
SqliteStatsAgg(S, i) == SqliteGetStats(S, i)

\* Mutant: the counter-reset test is strict, so an unchanged counter is
\* reported as its raw value.
SqliteStatsAggDerivStrict(S, i) ==
    LET rows == SqliteGetStats(S, i)
    IN [j \in 1..(Len(rows) - 1) |->
          <<rows[j + 1][1], IF rows[j][2] < rows[j + 1][2]
                              THEN rows[j + 1][2] - rows[j][2]
                              ELSE rows[j + 1][2]>>]

\* Mutant: the subtraction without the counter-reset test.
SqliteStatsAggDerivNoReset(S, i) ==
    LET rows == SqliteGetStats(S, i)
    IN [j \in 1..(Len(rows) - 1) |-> <<rows[j + 1][1], rows[j + 1][2] - rows[j][2]>>]

\* stats_agg_deriv: skip the first row; for every later row report the
\* increase over the previous row, or the raw value when it is smaller.
SqliteStatsAggDeriv(S, i) ==
    LET rows == SqliteGetStats(S, i)
    IN [j \in 1..(Len(rows) - 1) |->
          <<rows[j + 1][1], IF rows[j][2] <= rows[j + 1][2]
                              THEN rows[j + 1][2] - rows[j][2]
                              ELSE rows[j + 1][2]>>]

-----------------------------------------------------------------------------
(* Elasticsearch store                                                      *)

\* elastic_format_interval: "<s>s" below one minute, else "<whole minutes>m";
\* the bucket length, in seconds, that string denotes.
EsFormatInterval(i) == IF i < 60 THEN i ELSE (i \div 60) * 60

\* date_histogram on @timestamp with that fixed_interval: buckets from the
\* first to the last key, empty ones included, each with the field values
\* its max aggregation reads (none when the bucket is empty: null).
EsHistogram(S, i) ==
    LET w == EsFormatInterval(i)
        keys == {(p[1] \div w) * w : p \in S}
        InBucket(k) == {p[2] : p \in {q \in S : (q[1] \div w) * w = k}}
    IN IF S = {} THEN <<>>
       ELSE LET lo == Min(keys)
                n == (Max(keys) - lo) \div w + 1
            IN [j \in 1..n |->
                  LET k == lo + (j - 1) * w
                  IN <<k, InBucket(k)>>]

\* A bucket's value as the handler decodes it: value.unwrap_or(0.0) as u64.
EsValue(vs) == IF vs = {} THEN 0 ELSE Max(vs)

\* stats_agg: one row per histogram bucket.
EsStatsAgg(S, i) ==
    LET h == EsHistogram(S, i) IN [j \in DOMAIN h |-> <<h[j][1], EsValue(h[j][2])>>]

\* The derivative pipeline aggregation: none on the first bucket and next
\* to an empty one, otherwise the difference to the previous bucket.  The
\* handler reads it as unwrap_or(0.0) as u64, which saturates a negative
\* difference to 0.
EsDerivative(h, j) ==
    IF j = 1 \/ h[j][2] = {} \/ h[j - 1][2] = {} THEN 0
    ELSE Larger(Max(h[j][2]) - Max(h[j - 1][2]), 0)

\* stats_agg_deriv: one row per histogram bucket, the first included.
EsStatsAggDeriv(S, i) ==
    LET h == EsHistogram(S, i) IN [j \in DOMAIN h |-> <<h[j][1], EsDerivative(h, j)>>]

\* client.get_version() (not under src/; spec.md 4.2): the cached major
\* version, or a request to the backend, which may fail, and whose answer
\* is cached.  The outcomes: whether the version is known.
GetVersion ==
    IF versionCached THEN {TRUE}
    ELSE {TRUE} \cup (IF VersionFetchMayFail THEN {FALSE} ELSE {})

\* stats_agg: get_version()? returns the error; otherwise the histogram
\* request with the interval field of that version, and its rows.
EsStatsAggCall(i) ==
    \E known \in GetVersion :
        /\ versionCached' = (versionCached \/ known)
        /\ reply' = [backend |-> "elastic", kind |-> "agg", interval |-> i,
                     status |-> IF known THEN "ok" ELSE "error",
                     data |-> IF known THEN EsStatsAgg(samples, i) ELSE <<>>]

\* stats_agg_deriv: get_version().unwrap() panics the handler task when
\* the version is not known; otherwise the request and its rows.
EsStatsAggDerivCall(i) ==
    \E known \in GetVersion :
        /\ versionCached' = (versionCached \/ known)
        /\ reply' = [backend |-> "elastic", kind |-> "deriv", interval |-> i,
                     status |-> IF known THEN "ok" ELSE "panic",
                     data |-> IF known THEN EsStatsAggDeriv(samples, i) ELSE <<>>]

-----------------------------------------------------------------------------

Init ==
    /\ samples = {}
    /\ reply = <<>>
    /\ versionCached = FALSE

\* The importer stores a stats event.
RecordStats(t, v) ==
    /\ Cardinality(samples) < MaxSamples
    /\ <<t, v>> \notin samples
    /\ samples' = samples \cup {<<t, v>>}
    /\ UNCHANGED <<reply, versionCached>>

\* A SQLite stats handler answers from the stored events.
Answer(b, k, i, data) ==
    /\ reply' = [backend |-> b, kind |-> k, interval |-> i, status |-> "ok", data |-> data]
    /\ UNCHANGED <<samples, versionCached>>

\* An Elasticsearch stats handler answers from the indexed events.
EsAnswer(k, i) ==
    /\ IF k = "agg" THEN EsStatsAggCall(i) ELSE EsStatsAggDerivCall(i)
    /\ UNCHANGED samples

Next ==
    \/ \E t \in Timestamps, v \in Values : RecordStats(t, v)
    \/ \E i \in Intervals :
          \/ Answer("sqlite", "agg", i, SqliteStatsAgg(samples, i))
          \/ Answer("sqlite", "deriv", i, SqliteStatsAggDeriv(samples, i))
          \/ EsAnswer("agg", i)
          \/ EsAnswer("deriv", i)

Spec == Init /\ [][Next]_vars

-----------------------------------------------------------------------------
(* Reference definitions, from spec.md 4.3 and 8: a bucket is the set of   *)
(* stats events whose timestamp divided by the interval is the same; its   *)
(* value is their maximum; the derivative of two adjacent buckets is the   *)
(* later value minus the former, or the later raw value when it is smaller *)
(* (a counter reset), and is never negative.                               *)

ByTime(a, b) == a[1] < b[1] \/ (a[1] = b[1] /\ a[2] < b[2])

\* Buckets of a time-ordered sequence of stats events, built by one scan.
RECURSIVE RefBuckets(_, _)
RefBuckets(seq, i) ==
    IF seq = <<>> THEN <<>>
    ELSE LET rest == RefBuckets(Tail(seq), i)
             n == Head(seq)[1] \div i
         IN IF rest # <<>> /\ rest[1][1] = n * i
              THEN <<<<n * i, Larger(Head(seq)[2], rest[1][2])>>>> \o Tail(rest)
              ELSE <<<<n * i, Head(seq)[2]>>>> \o rest

Delta(former, later) == IF later < former THEN later ELSE later - former

RECURSIVE RefDeriv(_)
RefDeriv(rows) ==
    IF Len(rows) < 2 THEN <<>>
    ELSE <<<<rows[2][1], Delta(rows[1][2], rows[2][2])>>>> \o RefDeriv(Tail(rows))

RefStats(S, i) == RefBuckets(SetToSortSeq(S, ByTime), i)

\* Every bucket between the first and the last holds a stats event, and the
\* Elasticsearch bucket length is the requested one.
Comparable(S, i) ==
    /\ EsFormatInterval(i) = i
    /\ \A j \in DOMAIN EsHistogram(S, i) : EsHistogram(S, i)[j][2] # {}

\* The step answers a request of backend b and kind k.
Answers(b, k) ==
    /\ samples' = samples
    /\ reply' # <<>>
    /\ reply'.backend = b
    /\ reply'.kind = k

-----------------------------------------------------------------------------
(* Properties                                                              *)

\* The SQLite stats_agg_deriv reply follows the counter-reset rule of the
\* spec over the buckets of get_stats: adjacent buckets, the increase, or
\* the later raw value after a reset, never negative.
SqliteDerivFollowsResetRule ==
    [][Answers("sqlite", "deriv")
         => reply'.data = RefDeriv(RefStats(samples, reply'.interval))]_vars

\* Every Elasticsearch stats_agg_deriv request is answered (spec.md 7:
\* backend failures are surfaced, never panicked on), and the reply follows
\* the same rule on every bucket after the first, wherever its buckets are
\* the same as SQLite's.
EsDerivFollowsResetRule ==
    [][Answers("elastic", "deriv") =>
         /\ reply'.status # "panic"
         /\ reply'.status = "ok" /\ reply'.data # <<>> /\ Comparable(samples, reply'.interval)
              => Tail(reply'.data) = RefDeriv(RefStats(samples, reply'.interval))]_vars

\* Both stores draw the same stats_agg graph: wherever the Elasticsearch
\* buckets are the requested ones and none is empty, the date_histogram max
\* aggregation and SQLite's GROUP BY on the bucket key give the same rows.
StatsAggBackendsAgree ==
    \A i \in Intervals :
        Comparable(samples, i) => EsStatsAgg(samples, i) = SqliteStatsAgg(samples, i)

=============================================================================
