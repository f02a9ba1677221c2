----------------------------- MODULE Datastore -----------------------------
(***************************************************************************)
(* The datastore facade of src/src/datastore.rs composed with both event   *)
(* stores.  The facade matches on its variant and forwards each call to    *)
(* the store's method, or returns DatastoreError::Unimplemented.  The      *)
(* spec (section 1) asks the two stores for the same observable workflow   *)
(* semantics, so this module runs one caller's calls against a facade of  *)
(* each variant side by side: the SQLite store as SqliteWorkflow and the   *)
(* Elasticsearch store as EsWorkflow, each with the caller as its only     *)
(* client.  The caller waits for both stores to answer before it makes     *)
(* the next call.  Every event is stored in both and no import runs, so    *)
(* neither store sees lock contention: what differs is only what the      *)
(* stores do with a call.                                                  *)
(***************************************************************************)
EXTENDS Integers, Sequences, SequencesExt, FiniteSets

CONSTANTS
    Events, GroupKeys, NotAlert, GroupOf, TsOf, Times,
    BadTs, TAG_ARCHIVED, TAG_ESCALATED, MaxHistory,
    Caller,  \* the handler task making the calls
    QueryStrings,    \* the query strings a caller sends, as fragment sequences
    AlertLoopBound,  \* alert_query's iteration bound (128)
    EventLoopBound   \* event_query's iteration bound (100)

VARIABLES
    call,                                          \* the call in flight, or <<>>
    sArchived, sEscalated, sPc, sArgs, sTries, sRet, \* the SQLite store
    esTags, esHistory, esPc, esOp, esPending,       \* the Elasticsearch store
    result,                                        \* the facade's answers
    qloop,     \* "none", or the SQLite query-string loop running
    qinput,    \* the query string of that call
    qpos,      \* the position of the fragment the loop parses next
    qcounter,  \* the loop's iteration counter
    qfilters   \* the filters the loop has pushed; they are AND-joined,
               \* so their order and repetition do not matter

sqliteVars == <<sArchived, sEscalated, sPc, sArgs, sTries, sRet>>
esVars == <<esTags, esHistory, esPc, esOp, esPending>>
queryVars == <<qloop, qinput, qpos, qcounter, qfilters>>
vars == <<call, sqliteVars, esVars, result, queryVars>>

SQ == INSTANCE SqliteWorkflow
        WITH present <- [e \in Events |-> TRUE], archived <- sArchived,
             escalated <- sEscalated, dbLock <- "free", batch <- {},
             pc <- sPc, args <- sArgs, tries <- sTries, ret <- sRet,
             Clients <- {Caller}, WriteRetryTicks <- 0, QueryRetries <- 0

ES == INSTANCE EsWorkflow
        WITH tags <- esTags, history <- esHistory, pc <- esPc, op <- esOp,
             pending <- esPending, Clients <- {Caller}

\* The read-only calls of the facade, and those its SQLite arm lacks.
QueryOps == {"get_event_by_id", "alert_query", "event_query", "histogram",
             "agg", "flow_histogram", "report_dhcp"}
SqliteUnimplemented == {"comment_event_by_id", "comment_by_alert_group",
                        "histogram", "agg", "flow_histogram", "report_dhcp"}

Init ==
    /\ call = <<>>
    /\ result = [b \in {"sqlite", "elastic"} |-> "none"]
    /\ sArchived = [e \in Events |-> FALSE] /\ sEscalated = [e \in Events |-> FALSE]
    /\ sPc = [c \in {Caller} |-> "idle"] /\ sArgs = [c \in {Caller} |-> <<>>]
    /\ sTries = [c \in {Caller} |-> 0] /\ sRet = [c \in {Caller} |-> "none"]
    /\ ES!Init
    /\ qloop = "none" /\ qinput = <<>> /\ qpos = 1 /\ qcounter = 0 /\ qfilters = {}

-----------------------------------------------------------------------------
(* The facade's SQLite arm: each workflow method of Datastore::SQLite, or  *)
(* Unimplemented for the comment calls.                                    *)

\* Mutant: the SQLite arm of archive_event_by_id forwards to
\* escalate_event_by_id.
SqliteArmSwapped(c) ==
    CASE c.name = "archive_event_by_id"       -> SQ!EscalateEventById(Caller, c.id)
      [] c.name = "escalate_event_by_id"      -> SQ!EscalateEventById(Caller, c.id)
      [] c.name = "deescalate_event_by_id"    -> SQ!DeescalateEventById(Caller, c.id)
      [] c.name = "archive_by_alert_group"    -> SQ!ArchiveByAlertGroup(Caller, c.w.g, c.w.lo, c.w.hi)
      [] c.name = "escalate_by_alert_group"   -> SQ!EscalateByAlertGroup(Caller, c.w.g, c.w.lo, c.w.hi)
      [] c.name = "deescalate_by_alert_group" -> SQ!DeescalateByAlertGroup(Caller, c.w.g, c.w.lo, c.w.hi)
      [] OTHER -> UNCHANGED sqliteVars

SqliteArm(c) ==
    CASE c.name = "archive_event_by_id"       -> SQ!ArchiveEventById(Caller, c.id)
      [] c.name = "escalate_event_by_id"      -> SQ!EscalateEventById(Caller, c.id)
      [] c.name = "deescalate_event_by_id"    -> SQ!DeescalateEventById(Caller, c.id)
      [] c.name = "archive_by_alert_group"    -> SQ!ArchiveByAlertGroup(Caller, c.w.g, c.w.lo, c.w.hi)
      [] c.name = "escalate_by_alert_group"   -> SQ!EscalateByAlertGroup(Caller, c.w.g, c.w.lo, c.w.hi)
      [] c.name = "deescalate_by_alert_group" -> SQ!DeescalateByAlertGroup(Caller, c.w.g, c.w.lo, c.w.hi)
      [] OTHER -> UNCHANGED sqliteVars

\* The caller makes a workflow call through both facades: the Elasticsearch
\* arm posts its _update_by_query, the SQLite arm runs its statement or
\* enters its retry loop, or is Unimplemented.
WorkflowCall(c) ==
    /\ call = <<>> /\ qloop = "none"
    /\ call' = c
    /\ ES!UpdateByQuery(Caller, c)
    /\ SqliteArm(c)
    /\ result' = [sqlite |-> IF c.name \in SqliteUnimplemented THEN "unimplemented" ELSE "none",
                  elastic |-> "none"]
    /\ UNCHANGED queryVars

-----------------------------------------------------------------------------
(* Query strings.  The parser, crate::sqlite::queryparser, is not under    *)
(* src/; from spec.md 4.4 a query string is a sequence of fragments:       *)
(* "kv_int" (key:value with a numeric value), "kv_str" (key:value),        *)
(* "text" (a free-text term), "blank" (a fragment yielding neither a key  *)
(* nor a value, such as a stray delimiter) and "stuck" (a blank fragment   *)
(* the parser fails to consume, the defect the iteration bounds of both   *)
(* loops guard against).  parse_query_string returns the first element    *)
(* and the remainder.                                                      *)

FragmentKinds == {"kv_int", "kv_str", "text", "blank", "stuck"}

\* parse_query_string on the query string from fragment i on.
ParseQueryString(s, i) ==
    [key |-> s[i] \in {"kv_int", "kv_str"},
     num |-> s[i] = "kv_int",
     val |-> s[i] \notin {"blank", "stuck"},
     frag |-> i,
     rem |-> IF s[i] = "stuck" THEN i ELSE i + 1]

\* The filter the loops push for a parsed element: json_extract(...) = ?
\* for a key with a value that parses as i64, json_extract(...) LIKE ?
\* for another key, events.source LIKE ? for a free-text term.
FilterOf(p) ==
    [kind |-> IF p.key THEN (IF p.num THEN "eq" ELSE "like_key") ELSE "like_source",
     frag |-> p.frag]

\* A read-only call: the Elasticsearch arm answers it; the SQLite arm is
\* Unimplemented, answers it, or, for alert_query and event_query with a
\* query string, first runs its query-string loop.  No store changes.
QueryCall(q, qs) ==
    /\ call = <<>> /\ qloop = "none"
    /\ IF q \in {"alert_query", "event_query"} /\ qs # <<>>
         THEN /\ qloop' = IF q = "alert_query" THEN "alert" ELSE "event"
              /\ qinput' = qs /\ qpos' = 1 /\ qcounter' = 0 /\ qfilters' = {}
              /\ result' = [sqlite |-> "none", elastic |-> "ok"]
         ELSE /\ result' = [sqlite |-> IF q \in SqliteUnimplemented THEN "unimplemented" ELSE "ok",
                            elastic |-> "ok"]
              /\ UNCHANGED queryVars
    /\ UNCHANGED <<call, sqliteVars, esVars>>

\* The loop has ended: the SQLite store runs its SELECT and answers.
EndQueryLoop ==
    /\ qloop' = "none" /\ qinput' = <<>> /\ qpos' = 1 /\ qcounter' = 0 /\ qfilters' = {}
    /\ result' = [result EXCEPT !.sqlite = "ok"]

\* One turn of alert_query's loop: counter += 1 and stop past the bound;
\* parse; push the element's filter, or stop when it has neither a key nor
\* a value (the end of the string, or a blank fragment).
AlertQueryStringStep ==
    /\ qloop = "alert"
    /\ IF qcounter + 1 > AlertLoopBound \/ qpos > Len(qinput)
         THEN EndQueryLoop
         ELSE LET p == ParseQueryString(qinput, qpos) IN
                IF p.key \/ p.val
                  THEN qfilters' = qfilters \cup {FilterOf(p)} /\ qpos' = p.rem
                       /\ qcounter' = qcounter + 1 /\ UNCHANGED <<qloop, qinput, result>>
                  ELSE EndQueryLoop
    /\ UNCHANGED <<call, sqliteVars, esVars>>

\* Mutant: event_query's loop stops at a blank fragment, as alert_query's.
EventQueryStringStepBreak ==
    /\ qloop = "event"
    /\ IF qpos > Len(qinput) \/ qcounter > EventLoopBound
         THEN EndQueryLoop
         ELSE LET p == ParseQueryString(qinput, qpos) IN
                IF p.key \/ p.val
                  THEN qfilters' = qfilters \cup {FilterOf(p)} /\ qpos' = p.rem
                       /\ qcounter' = qcounter + 1 /\ UNCHANGED <<qloop, qinput, result>>
                  ELSE EndQueryLoop
    /\ UNCHANGED <<call, sqliteVars, esVars>>

\* Mutant: event_query's loop without counter += 1.
EventQueryStringStepNoCount ==
    /\ qloop = "event"
    /\ IF qpos > Len(qinput) \/ qcounter > EventLoopBound
         THEN EndQueryLoop
         ELSE LET p == ParseQueryString(qinput, qpos) IN
                /\ qfilters' = IF p.key \/ p.val THEN qfilters \cup {FilterOf(p)} ELSE qfilters
                /\ qpos' = p.rem
                /\ UNCHANGED <<qloop, qinput, qcounter, result>>
    /\ UNCHANGED <<call, sqliteVars, esVars>>

\* One turn of event_query's loop: stop when the string is used up or the
\* counter is past the bound; parse; push the element's filter if it has a
\* key or a value; go on with the remainder; counter += 1.
EventQueryStringStep ==
    /\ qloop = "event"
    /\ IF qpos > Len(qinput) \/ qcounter > EventLoopBound
         THEN EndQueryLoop
         ELSE LET p == ParseQueryString(qinput, qpos) IN
                /\ qfilters' = IF p.key \/ p.val THEN qfilters \cup {FilterOf(p)} ELSE qfilters
                /\ qpos' = p.rem /\ qcounter' = qcounter + 1
                /\ UNCHANGED <<qloop, qinput, result>>
    /\ UNCHANGED <<call, sqliteVars, esVars>>

-----------------------------------------------------------------------------

\* The SQLite store runs a step of its retry loop.
SqliteStep ==
    /\ SQ!RetryExecuteLoop(Caller)
    /\ UNCHANGED <<call, esVars, result, queryVars>>

\* Elasticsearch applies the script to one document, or answers.
EsStep ==
    /\ \/ \E d \in Events : ES!ApplyScript(Caller, d)
       \/ ES!RespondOk(Caller)
    /\ UNCHANGED <<call, sqliteVars, result, queryVars>>

\* Both stores have answered the call.
Settled == esPc[Caller] = "idle" /\ SQ!ClientIdle(Caller)

CallReturns ==
    /\ call # <<>>
    /\ Settled
    /\ call' = <<>>
    /\ result' = [sqlite |-> IF result.sqlite = "unimplemented" THEN "unimplemented"
                             ELSE sRet[Caller],
                  elastic |-> "ok"]
    /\ UNCHANGED <<sqliteVars, esVars, queryVars>>

Next ==
    \/ \E c \in ES!Calls : WorkflowCall(c)
    \/ \E q \in QueryOps, qs \in QueryStrings : QueryCall(q, qs)
    \/ AlertQueryStringStep
    \/ EventQueryStringStep
    \/ SqliteStep
    \/ EsStep
    \/ CallReturns

\* The query-string loops run inside the handler task without awaiting.
Spec == Init /\ [][Next]_vars
        /\ WF_vars(AlertQueryStringStep) /\ WF_vars(EventQueryStringStep)

HistoryBound == ES!HistoryBound

-----------------------------------------------------------------------------
(* Properties                                                              *)

\* Once both stores have answered, an event is archived in the SQLite
\* store exactly when its Elasticsearch document carries the archived tag:
\* through any sequence of by-id and by-group archives, the group update's
\* archived = 0 guard and the must_not on the tags included.
ArchivedAgree ==
    call = <<>> => \A e \in Events : sArchived[e] = (TAG_ARCHIVED \in esTags[e])

\* Every query-string loop ends, even when the parser hands back its input
\* unconsumed: the iteration bounds of alert_query and event_query.
QueryLoopsEnd == (qloop # "none") ~> (qloop = "none")

\* The filter event_query builds for each fragment of spec.md 4.4.
RefFilterKind(k) ==
    CASE k = "kv_int" -> "eq" [] k = "kv_str" -> "like_key" [] OTHER -> "like_source"

\* Unless its iteration bound cut it short (the loop left with input still
\* unparsed and its counter past the bound), event_query's loop pushes a
\* filter for every fragment of the query string that yields an element
\* and for nothing else: a blank fragment is dropped and the rest kept.
\* (A stuck fragment makes the loop run into the bound.)
EventQueryKeepsFragments ==
    [][qloop = "event" /\ qloop' = "none"
       /\ (qpos > Len(qinput) \/ qcounter <= EventLoopBound)
         => qfilters = {[kind |-> RefFilterKind(qinput[i]), frag |-> i] :
                                 i \in {j \in DOMAIN qinput : qinput[j] \notin {"blank", "stuck"}}}]_vars

=============================================================================
