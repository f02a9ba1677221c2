----------------------------- MODULE AlertInbox -----------------------------
(***************************************************************************)
(* The inbox: alert_query of the SQLite store (src/src/sqlite/eventstore.rs)*)
(* and of the Elasticsearch store (build_inbox_query and alert_query in    *)
(* src/src/elastic/eventstore.rs).  A reply holds one row per alert group. *)
(*                                                                         *)
(* Both stores hold the same events and receive the same workflow calls.   *)
(* The SQLite store keeps the archived and escalated columns, which its    *)
(* single UPDATE statements set exactly as the Workflow steps do.  The     *)
(* Elasticsearch store keeps each document's tags array, changed by the    *)
(* scripts of EsWorkflow, one request applied at a time: by-id calls add   *)
(* or remove one tag (TAG_ARCHIVED, TAG_ESCALATED), group calls the pair   *)
(* (TAGS_ARCHIVED, TAGS_ESCALATED) under their must_not / filter guards.   *)
(* Group keys are records of integers [sig, src, dst] so that the terms    *)
(* aggregations can order their buckets by key, as Elasticsearch does.     *)
(***************************************************************************)
EXTENDS Integers, FiniteSets, FiniteSetsExt

CONSTANTS
    Events, GroupKeys, NotAlert, GroupOf, TsOf, Times,
    None,           \* an absent timestamp_gte
    TAG_ARCHIVED, TAG_ESCALATED,  \* the tags the by-id calls write
    TagOptions,     \* the tag lists a client may send (as sets)
    SigSize, SrcSize, DstSize  \* the terms aggregation sizes (2000, 1000, 500)

VARIABLES
    present, archived, escalated,  \* the events and the SQLite columns
    esTags,   \* esTags[d]: the _source.tags array of Elasticsearch document d
    reply     \* the last alert_query answer

vars == <<present, archived, escalated, esTags, reply>>

WF == INSTANCE Workflow

\* The Elasticsearch scripts and queries, for one request at a time.
ES == INSTANCE EsWorkflow
        WITH tags <- esTags, history <- [d \in Events |-> <<>>],
             pc <- <<>>, op <- <<>>, pending <- <<>>, Clients <- {}, MaxHistory <- 0

Options == [tags : TagOptions, gte : Times \cup {None}]

Alerts == {e \in Events : GroupOf[e] # NotAlert}
Members(M, g) == {e \in M : GroupOf[e] = g}
TsSet(S) == {TsOf[e] : e \in S}

-----------------------------------------------------------------------------
(* SQLite                                                                   *)

\* The WHERE clause: event_type = 'alert', the tag filters, timestamp >= .
SqliteMatches(e, o) ==
    /\ present[e] /\ e \in Alerts
    /\ "archived" \in o.tags => archived[e]
    /\ "-archived" \in o.tags => ~archived[e]
    /\ "escalated" \in o.tags => escalated[e]
    /\ o.gte # None => TsOf[e] >= o.gte

\* The grouped subquery selects the bare column events.rowid next to both
\* min(timestamp) and max(timestamp): SQLite takes it from a row holding
\* one of the two extremes, and which one is not specified.
BareRowCandidates(S) ==
    {e \in S : TsOf[e] \in {Min(TsSet(S)), Max(TsSet(S))}}

\* Mutant: the outer join compares a.timestamp with b.mints.
SqliteJoinMin(S, r) == TsOf[r] = Min(TsSet(S))

\* The outer join keeps the group only if the bare row is a newest one:
\* a.rowid = b.rowid AND a.timestamp = b.maxts.
SqliteJoin(S, r) == TsOf[r] = Max(TsSet(S))

SqliteRows(o, bare) ==
    LET M == {e \in Events : SqliteMatches(e, o)}
    IN {[key |-> g, count |-> Cardinality(Members(M, g)),
         escalatedCount |-> Cardinality({e \in Members(M, g) : escalated[e]}),
         minTs |-> Min(TsSet(Members(M, g))), maxTs |-> TsOf[bare[g]],
         event |-> bare[g]] :
           g \in {k \in GroupKeys : Members(M, k) # {} /\ SqliteJoin(Members(M, k), bare[k])}}

SqliteAlertQuery(o) ==
    LET M == {e \in Events : SqliteMatches(e, o)}
    IN \E bare \in [GroupKeys -> Events] :
          /\ \A g \in GroupKeys : Members(M, g) # {} => bare[g] \in BareRowCandidates(Members(M, g))
          /\ reply' = [backend |-> "sqlite", opts |-> o, rows |-> SqliteRows(o, bare)]
          /\ UNCHANGED <<present, archived, escalated, esTags>>

-----------------------------------------------------------------------------
(* Elasticsearch                                                            *)

Tags(e) == esTags[e]

\* build_inbox_query: event_type exists and is "alert", @timestamp >= gte;
\* "-t" is a must_not on t ("-archived" rewritten to evebox.archived),
\* "escalated" a filter on evebox.escalated, any other tag a filter on it.
EsMatches(e, o) ==
    /\ present[e] /\ e \in Alerts
    /\ o.gte # None => TsOf[e] >= o.gte
    /\ \A t \in o.tags :
          CASE t = "-archived"  -> "evebox.archived" \notin Tags(e)
            [] t = "escalated"  -> "evebox.escalated" \in Tags(e)
            [] OTHER            -> t \in Tags(e)

\* A terms aggregation of the given size over the doc_count of each key
\* keeps the buckets with the largest doc_count, ties broken by the smaller
\* key.
TermsBuckets(cnt, size) ==
    {k \in DOMAIN cnt : Cardinality({j \in DOMAIN cnt : cnt[j] > cnt[k] \/ (cnt[j] = cnt[k] /\ j < k)}) < size}

\* The signatures > sources > destinations aggregation: the groups whose
\* buckets survive all three levels.
EsGroups(M) ==
    LET SigDocs(s) == {e \in M : GroupOf[e].sig = s}
        SrcDocs(s, a) == {e \in SigDocs(s) : GroupOf[e].src = a}
        DstDocs(s, a, d) == {e \in SrcDocs(s, a) : GroupOf[e].dst = d}
        sigs == TermsBuckets([s \in {GroupOf[e].sig : e \in M} |-> Cardinality(SigDocs(s))], SigSize)
    IN UNION {UNION {
         {g \in GroupKeys : g.sig = s /\ g.src = a /\
             g.dst \in TermsBuckets([d \in {GroupOf[e].dst : e \in SrcDocs(s, a)} |->
                                        Cardinality(DstDocs(s, a, d))], DstSize)} :
           a \in TermsBuckets([x \in {GroupOf[e].src : e \in SigDocs(s)} |->
                                  Cardinality(SrcDocs(s, x))], SrcSize)} :
         s \in sigs}

\* alert_query flattens the buckets: doc_count, the escalated filter's
\* doc_count, the newest top hit as event and maxTs, the oldest's @timestamp.
EsAlertQuery(o) ==
    LET M == {e \in Events : EsMatches(e, o)}
    IN \E newest \in [GroupKeys -> Events] :
          /\ \A g \in GroupKeys : Members(M, g) # {} =>
                newest[g] \in {e \in Members(M, g) : TsOf[e] = Max(TsSet(Members(M, g)))}
          /\ reply' = [backend |-> "elastic", opts |-> o,
                       rows |-> {[key |-> g, count |-> Cardinality(Members(M, g)),
                                  escalatedCount |-> Cardinality({e \in Members(M, g) :
                                                       "evebox.escalated" \in Tags(e)}),
                                  minTs |-> Min(TsSet(Members(M, g))),
                                  maxTs |-> TsOf[newest[g]],
                                  event |-> newest[g]] : g \in EsGroups(M)}]
          /\ UNCHANGED <<present, archived, escalated, esTags>>

-----------------------------------------------------------------------------

Init == WF!Init /\ esTags = [d \in Events |-> {}] /\ reply = <<>>

\* The importer commits a batch to both stores; a new document has no tags.
Import(batch) == WF!Import(batch) /\ UNCHANGED <<esTags, reply>>

\* The SQLite store's UPDATE for a call: one row by rowid (zero rows is
\* EventNotFound and changes nothing), or the rows of the group and window.
\* The comment calls are Unimplemented there.
SqliteCall(c) ==
    CASE c.name = "archive_event_by_id" /\ present[c.id]    -> WF!SetArchived(c.id)
      [] c.name = "escalate_event_by_id" /\ present[c.id]   -> WF!SetEscalated(c.id, TRUE)
      [] c.name = "deescalate_event_by_id" /\ present[c.id] -> WF!SetEscalated(c.id, FALSE)
      [] c.name = "archive_by_alert_group"    -> WF!ArchiveGroup(c.w.g, c.w.lo, c.w.hi)
      [] c.name = "escalate_by_alert_group"   -> WF!SetEscalatedGroup(c.w.g, c.w.lo, c.w.hi, TRUE)
      [] c.name = "deescalate_by_alert_group" -> WF!SetEscalatedGroup(c.w.g, c.w.lo, c.w.hi, FALSE)
      [] OTHER -> UNCHANGED <<present, archived, escalated>>

\* The Elasticsearch store's _update_by_query for a call: the script runs on
\* every stored document the query selects.
EsCall(c) ==
    esTags' = [d \in Events |-> IF present[d] /\ ES!Matches(d, c) THEN ES!ScriptTagsAfter(d, c)
                                ELSE esTags[d]]

\* A workflow call made through the facade of each store.
WorkflowCall(c) == SqliteCall(c) /\ EsCall(c) /\ UNCHANGED reply

Next ==
    \/ \E batch \in SUBSET Events : Import(batch)
    \/ \E c \in ES!Calls : WorkflowCall(c)
    \/ \E o \in Options : SqliteAlertQuery(o) \/ EsAlertQuery(o)

Spec == Init /\ [][Next]_vars

\* A reply is checked on the step that produces it; the state of the store
\* alone decides what can happen next.
StoreView == <<present, archived, escalated, esTags>>

-----------------------------------------------------------------------------
(* Reference, from spec.md 4.2 and 4.3: the listing holds one record per   *)
(* (signature, source, destination) triple among the matching alerts, with *)
(* their count, the count of escalated ones, the newest member as event    *)
(* and the oldest and newest timestamps.  "archived", "-archived" and      *)
(* "escalated" select on the workflow flags, which every call has set as   *)
(* the spec's workflow operations do (the SQLite columns).                 *)

RefMatches(e, o) ==
    /\ present[e] /\ e \in Alerts
    /\ o.gte # None => TsOf[e] >= o.gte
    /\ "archived" \in o.tags => archived[e]
    /\ "-archived" \in o.tags => ~archived[e]
    /\ "escalated" \in o.tags => escalated[e]

RefGroup(o, g) == {e \in Events : RefMatches(e, o) /\ GroupOf[e] = g}

\* The step is a query of backend b, answered from the current flags.
Answers(b) ==
    /\ UNCHANGED <<present, archived, escalated, esTags>>
    /\ reply' # <<>>
    /\ reply'.backend = b

\* For the rows of a reply the given options select.
Listed(o) == {g \in GroupKeys : RefGroup(o, g) # {}}

-----------------------------------------------------------------------------
(* Properties                                                              *)

\* Whatever sequence of by-id and group calls set the workflow state, the
\* Elasticsearch alert_query lists, for each tag list the client sends,
\* exactly the alert groups with an alert that state selects: the pseudo-
\* tags "archived" and "escalated" are rewritten to the tags the calls
\* write (spec.md 4.2), and the three terms aggregations drop no group.
EsInboxComplete ==
    [][Answers("elastic") => {r.key : r \in reply'.rows} = Listed(reply'.opts)]_vars

\* The SQLite inbox lists every alert group that has a matching alert.
SqliteInboxComplete ==
    [][Answers("sqlite") => {r.key : r \in reply'.rows} = Listed(reply'.opts)]_vars

=============================================================================
