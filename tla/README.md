# TLA+ models of EveBox's event stores

EveBox stores Suricata EVE events and serves them to analysts. An analyst works
an inbox of alert groups. An alert group is the set of alerts that share a
signature, source IP and destination IP, seen within a time window. The
analyst archives, escalates, de-escalates or comments on a whole group, or on
a single event by id.

## The system and how its parts interact

| Part | Source | What it does |
|---|---|---|
| Datastore facade | `src/src/datastore.rs` | Sends each call to the Elasticsearch store or the SQLite store. Calls the SQLite store lacks return `Unimplemented`. |
| Elasticsearch event store | `src/src/elastic/eventstore.rs` | Workflow calls are `_update_by_query` requests with `conflicts=proceed`. Each carries a painless script that adds or removes tags and appends one entry to `evebox.history`. The inbox query filters on the tags `archived`/`evebox.archived` and `escalated`/`evebox.escalated`. |
| SQLite event store | `src/src/sqlite/eventstore.rs` | An `events` table with `archived` and `escalated` columns. Most writes run once on a mutex-guarded connection. `archive_by_alert_group` runs in `retry_execute_loop` (any error is retried for 1000 ms). `alert_query` and `event_query` run in `retry_query_loop` (lock errors are retried up to 100 times). |
| SQLite importer | not under `src/` (spec.md) | Inserts batches in a transaction on its own connection and commits. This is the writer the retry loops contend with. |
| Submit handler | `src/src/server/api/submit.rs` | Decodes posted lines, hands each to the importer, and commits. |
| Inbox | `alert_query` in both stores | Lists alert groups with their count, escalated count, oldest and newest timestamp, and newest event. SQLite uses a grouped subquery joined back to `events`. Elasticsearch uses three nested `terms` aggregations. |
| DHCP report | `src/src/elastic/report/dhcp.rs` | Five Elasticsearch sub-reports (`ack`, `request`, `servers`, `mac`, `ip`). Each is a zero-hit search with a `terms` aggregation over the DHCP events of a window. |
| Server main | `src/src/server/main.rs` | Configuration and startup. |

Several HTTP handler tasks run concurrently. Each model calls one of them a
*client*. The clients share the store with the importer. On Elasticsearch they
also share it with each other, document by document.

## Modules

- **`Workflow`** is the SQLite store's workflow state with every call as one
  atomic step, as `AlertInbox` uses it between two inbox queries.
  - Every stored event has an `archived` flag and an `escalated` flag.
  - An import makes a batch of events visible at once.
  - Every call changes the flags of one event, or of the events of one group
    inside a window, in one atomic step.
  - Nothing clears `archived`.
- **`SqliteWorkflow`** models the SQLite store: the table (`present`,
  `archived`, `escalated`), the importer's lock `dbLock`, and per client a
  `pc` for the retry loop it is in, with `tries` and `ret`.
  - Every workflow method is one action. Its guards come from the code's
    early returns: timestamp parse errors, lock errors, `EventNotFound`.
  - `RetryExecuteLoop` and `RetryQueryLoop` are the two loops, step by step.
  - `MatchesGroup` is the WHERE clause of the group updates, translated on
    its own from lines 457-484.
- **`EsWorkflow`** models the Elasticsearch store.
  - State: `tags` and `history` per document, and per client the call in
    flight (`op`) with the snapshot Elasticsearch took (`pending`: document →
    version).
  - `UpdateByQuery` is the request and its snapshot.
  - `ApplyScript` runs the painless script on one document, or skips the
    document on a version conflict.
  - `RespondOk` is the reply reaching the handler. A dropped connection ends
    the same step with an Err; the store's state is the same either way.
  - The length of a document's history is its version, since every script run
    appends exactly one entry.
- **`StatsAgg`** models the stats graphs of both stores as pure operators.
  - SQLite: `get_stats` buckets with `(ts / interval) * interval`, `MAX` per
    bucket, and the derivative with its counter-reset branch.
  - Elasticsearch: `date_histogram` with the interval rounded by
    `elastic_format_interval`, empty buckets included, and the derivative
    pipeline read with `unwrap_or(0.0) as u64`.
  - The state is the set of stored stats events (`RecordStats`), the last
    handler reply (`Answer`, `EsAnswer`), and whether the Elasticsearch
    client holds the backend's version (`versionCached`).
  - The version request (`GetVersion`) is cached after its first success
    and may fail before that when `VersionFetchMayFail` is TRUE.
    `EsStatsAggCall` returns its error (`?`, line 943) and
    `EsStatsAggDerivCall` panics on it (`.unwrap()`, line 1018).
  - A reference (`RefBuckets`, `RefDeriv`) is built by one recursive scan
    from the rule of spec.md 4.3 and 8.
- **`AlertInbox`** models the inbox of both stores.
  - Every workflow call (`WorkflowCall`) changes both stores at once: the
    SQLite flags through `Workflow`'s actions (`SqliteCall`), and the
    Elasticsearch tags through `EsWorkflow`'s script (`EsCall`), by id or by
    group, with the tag sets the code writes.
  - `SqliteAlertQuery` is the WHERE clause (`SqliteMatches`), the grouped
    subquery, and the outer join (`SqliteJoin`). The bare `rowid` that SQLite
    puts beside `min()` and `max()` comes from a row at either extreme
    (`BareRowCandidates`), so the action chooses it with `\E`.
  - `EsAlertQuery` is `build_inbox_query` (`EsMatches`) with the
    signatures > sources > destinations aggregation (`EsGroups`). Each level
    keeps its `size` buckets with the most documents (`TermsBuckets`).
  - The Elasticsearch tags are exactly what the scripts wrote: by id only
    `evebox.archived` / `evebox.escalated`, by group both the short and the
    long tag.
  - `reply` is the last answer. A view on the store state keeps one state per
    store configuration, because every reply is checked on the step that
    produces it.
- **`Submit`** models `handler_new`.
  - `ReadLine` is one turn of the read loop: read error, EOF, a line that
    decodes and is submitted, or a line that does not decode.
  - `LeaveLoop` is the early return on `count == 0`.
  - `Commit` is the commit, with its Ok and Err replies.
  - The importer is not under `src/`. It is modelled from the spec as a queue
    whose `submit` may fail and whose commit stores the queue.
- **`Datastore`** models the facade composed with both stores. The same
  caller's calls go through a facade of each variant side by side.
  - The SQLite variant is `SqliteWorkflow` and the Elasticsearch variant is
    `EsWorkflow`, both instantiated with the caller as their only client.
  - `SqliteArm` is the SQLite variant's match. The comment and report arms
    are `Unimplemented`.
  - `QueryCall` forwards read-only calls. For `alert_query` and
    `event_query` with a query string, the SQLite store first runs its
    query-string loop (`AlertQueryStringStep`, `EventQueryStringStep`).
  - The parser (`queryparser`) is not under `src/`. `ParseQueryString` is
    modelled from spec.md 4.4 over fragments of kind `kv_int`, `kv_str`,
    `text`, `blank` and `stuck`. A `stuck` fragment is one the parser fails
    to consume.
- **`DhcpReport`** models `dhcp_report` and its five sub-reports.
  - The state is the set of indexed documents (`indexed`, grown by `Index`)
    and the last answer (`reply`).
  - `DhcpReport(what, min)` is one call. `Matching` holds the common
    filters. `LatestByMac` models `ack` and `request`: each `client_mac`
    bucket contributes its newest top hit. `ServersData`, `MacData` and
    `IpData` model the other three.
  - `Terms` is a terms aggregation of a given size. The `mac` and `ip`
    sub-aggregations have no `size`, so they keep Elasticsearch's default
    of 10. Both reports drop 0.0.0.0 only after the cut.
  - `mac` and `ip` read every `dhcp.type = reply` document, offers and naks
    included, as an assignment. The properties take them as the code does.
- **`MCSqliteWorkflow`**, **`MCEsWorkflow`**, **`MCAlertInbox`**,
  **`MCDhcpReport`** and **`MCDatastore`** give the constants concrete values for TLC.

## Runs

| Run | What it checks | Result |
|---|---|---|
| `sqlite_workflow` | `TypeOK`. `CallsReturn`: every retry loop a handler enters ends, even if the importer holds the lock for ever. | pass |
| `sqlite_alert_panic` | `NoPanic` | violated: `alert_query` unwraps `retry_query_loop`'s error and panics after the last retry |
| `es_workflow` | `TypeOK`. `GroupArchiveRecordedOnce`: concurrent or repeated group archives record one entry per event. `EscalatedMarkerMatchesHistory`: the `evebox.escalated` tag agrees with the last escalation entry of the history. | pass |
| `es_lost_archive` | `ArchiveGroupEffective` | violated: a concurrent escalate-by-id bumps an event's version, the group archive skips it as a conflict, and the call still returns Ok |
| `stats` | `TypeOK`. `SqliteDerivFollowsResetRule`: each SQLite derivative reply equals the reference. `StatsAggBackendsAgree`: both stores give the same `stats_agg` rows where the buckets coincide. | pass |
| `stats_es_deriv_reset` | `EsDerivFollowsResetRule`: every Elasticsearch derivative request is answered, with the reference derivative | violated: a counter going from 2 to 1 gives an Elasticsearch derivative of 0, and the spec requires 1. This cfg keeps the version request reliable (`VersionFetchMayFail = FALSE`) so that the trace shows the reset. With TRUE, the same property is violated in one step by the `unwrap` panic. |
| `es_deescalate_skew` | `DeescalateGroupEffective` | violated: escalate by id adds one tag, and de-escalate by group requires both, so the event stays escalated |
| `es_inbox_archived_view` | `EsInboxComplete`: Elasticsearch lists exactly the groups with an alert matching the options, read as spec.md 4.2 reads them | violated: an alert archived by id carries only `evebox.archived`, and `build_inbox_query` filters the positive tag `archived` without rewriting it (line 429), so the archived view misses it |
| `sqlite_inbox_bare_row` | `SqliteInboxComplete` | violated: when the bare `rowid` comes from the group's oldest row, the join on `maxts` drops the whole group |
| `submit` | `TypeOK`. `CountReportsStored`: a 200 reply's Count is the number of events stored. `AcceptedStoredOn200`: a 200 reply leaves no accepted event uncommitted. `UnreadableEndsImport`: an unreadable line ends the import, so no event after it is queued and its error is pushed. `HandlerReturns`: every request is answered. | pass |
| `dhcp_report` | `LatestMessagePerClient`: the `ack` and `request` reports list each client once, with its newest message in the window. `ServersCounted`: the `servers` report counts every reply of every server in the window. `MacIpReportsAgree`: client m lists address a in the `mac` report exactly when a lists m in the `ip` report. | pass |
| `facade_parity` | `ArchivedAgree`: through the facade, both stores agree on which events are archived after any sequence of calls. `QueryLoopsEnd`: both SQLite query-string loops end, even on a stuck fragment. `EventQueryKeepsFragments`: `event_query` keeps a filter for every fragment that yields an element. | pass |

## Bounds, and why they are enough

- **SQLite model:**
  - Three events: two alerts of one group with timestamps 1 and 2, and one
    non-alert. Windows range over {1, 2} plus a malformed bound.
  - This covers a window that takes part of a group, all of it, or none, and
    a non-alert event that a group update must not touch.
  - One client. Every client statement is atomic against the importer, which
    is the only party holding a lock across steps. A second client adds
    interleavings of atomic statements that commute with respect to the
    properties.
  - The retry ceilings are scaled from 100 to 2. What matters is that the
    ceiling is reached while the importer keeps the lock.
- **Elasticsearch model:**
  - Two events of one group and two clients, so two requests can overlap on
    one document. Symmetry over the clients.
  - At most 3 history entries in all (`HistoryBound`). That is enough for
    escalate, then de-escalate, then a repeat.

- **Stats model:**
  - Up to 4 stats events at 0, 20, 50, 70 and 100 s, with values 0..2.
  - Intervals of 30, 60 and 90 s. 90 s is where Elasticsearch's rounding
    ("1m") makes the buckets differ.
  - This reaches a reset, equal values, empty buckets and several events in
    one bucket.
  - In the `stats` run the version request may fail until it first
    succeeds, so that both failure branches and the cached path are reached.

- **Inbox model:**
  - Four alerts in three groups. Two groups share signature and source, so
    the destination level of the terms aggregation has two buckets.
  - One group has two alerts at different times. That is the case in which
    the bare `rowid` matters.
  - Tag lists `[]`, `["-archived"]`, `["escalated"]` and `["archived"]`,
    each with and without a minimum timestamp.
  - Every by-id and by-group call, so that an alert can be tagged by either
    path.
  - Terms sizes of 2 at every level, so that no bucket is cut and the
    violation is the tag filter's. The cap itself (more than 500
    destinations) is listed as a hazard.
- **Submit model:** bodies of up to three lines of every kind, with every
  outcome of `submit` and `commit`.
- **DHCP model:**
  - Eight documents: two clients, two servers, three addresses and
    0.0.0.0, and one flow record.
  - One client is acked by two servers at the same instant, so the newest
    top hit is a tie.
  - One client gets a 0.0.0.0 nak, so 0.0.0.0 appears as a bucket in both
    the `mac` and the `ip` aggregation.
  - Documents are indexed in every order. Reports run with and without a
    minimum timestamp that cuts off the older half.
  - The code's own sizes, 10000 and the default 10. No bucket is cut, so
    the cut is listed as a hazard.
- **Facade model:**
  - Two alerts of one group, histories of up to two entries in all.
  - Query strings of up to three fragments of every kind.
  - The loop bounds 128 and 100 are both scaled to 2. A string of three
    fragments is parsed to its end, and a stuck fragment runs both loops
    into their bounds.

## Fairness

The SQLite retry loops are weakly fair: a tokio task that sleeps 10 ms is
polled again. The importer gets no fairness, because a transaction may hold
the lock for as long as it likes. That is exactly the case in which
`CallsReturn` needs the bounded loops.

- The submit handler's steps are weakly fair: the handler task runs its loop
  and awaits only the importer.
- The query-string loops are weakly fair for the same reason.
- The Elasticsearch, stats, inbox and DHCP models check only safety and
  action properties.

The version cache is modelled from spec.md 5 and 11 (cached, refreshed on
demand): the client that holds it is not under `src/`.
The stats model also assumes how Elasticsearch computes a derivative next to
an empty bucket. It takes the derivative to be null there. The properties
compare the stores only where no bucket is empty.

## Not modelled

- **Elasticsearch:** `event_query`, `histogram`, `agg`, `flow_histogram` and
  `get_sensors`. They build read-only requests and reshape the JSON
  replies, with no state of their own. `PROJECT.json` lists three hazards
  among them:
  - `histogram` falls back to version 6 when the version request fails;
  - `flow_histogram` always uses `interval`, whatever the version;
  - `get_sensors` returns at most the 10 hosts with the most events.
- **Elasticsearch:** `query_string_to_filters`. A parse error drops every
  filter of the query string. Its parser is not under `src/`.
- **SQLite:** the rows of `event_query`, a plain filtered SELECT.
- **Concurrent submit requests.** Each request has its own importer queue,
  so two requests meet only at the store, which `SqliteWorkflow` models.
- **The `alert_query` loop's break on a blank fragment.** The loop stops at
  the first fragment that yields neither key nor value, and drops the
  fragments after it. `AlertQueryStringStep` models this. No run states the
  spec's "only the offending fragment is dropped" against it, because the
  parser is modelled from the spec: whether it produces such a fragment
  mid-string is not established.
- **DHCP report:** the query-string filter and the ECS field mapping
  (`map_field`). Also not checked: the cut of the sub-aggregations at 10,
  which loses a real address once 0.0.0.0 takes a bucket. Showing it needs
  a violation run with a scaled size, and the project is at its limit of
  twelve runs.
- **The version numbers themselves.** `StatsAgg` models whether the
  version request succeeds. It does not model which interval field name the
  request carries, since no property tells the field names apart.
- **Submit errors returned to the client.** The handler never returns the
  errors it collects. `UnreadableEndsImport` checks that they are pushed and
  that the import stops at an unreadable line. A 200 reply carrying no error
  is the code's current intent (the TODO at `submit.rs:84`), so no property
  requires an error reply.
- **SQLite errors opening a connection.** `alert_query` unwraps
  `connection_builder.open()` (line 77); `event_query` (271) and
  `archive_by_alert_group` (486) return its error. No model opens
  connections: the error comes before any state changes.
- **The missing retry of SQLite's escalate/de-escalate and by-id writes.**
  They run once and return a lock error, where spec.md says writes retry.
  `SqliteWorkflow` models them that way. No run states the spec against
  them: that needs a violation run beyond the limit of twelve.
- **DHCP report errors.** The `?` on each sub-report's search is not
  modelled: an error ends the handler with no state changed.
- **Out of scope:** server startup, configuration, sessions and bookmarks.

Hazards and findings are listed in `PROJECT.json`.
