----------------------------- MODULE EsWorkflow -----------------------------
(***************************************************************************)
(* The workflow calls of the Elasticsearch event store                     *)
(* (src/src/elastic/eventstore.rs).  Every call is one _update_by_query    *)
(* request with conflicts=proceed carrying a painless script.  The model   *)
(* follows what Elasticsearch does with such a request: it takes a         *)
(* snapshot of the matching documents and their versions, then updates    *)
(* them one at a time; a document whose version changed since the         *)
(* snapshot is a version conflict and is skipped.  Concurrent handler      *)
(* tasks are Clients; their per-document steps interleave.                 *)
(*                                                                         *)
(* Every successful script run appends exactly one history entry, so the  *)
(* length of a document's evebox.history stands for its version.  A        *)
(* history entry keeps the action; its "via" field is a ghost recording    *)
(* whether a by-id or a by-group call wrote it (the code writes username   *)
(* and timestamp there, which no property tells apart).                    *)
(***************************************************************************)
EXTENDS Integers, Sequences, FiniteSets, Functions

CONSTANTS
    Events, GroupKeys, NotAlert, GroupOf, TsOf, Times,
    Clients,
    TAG_ARCHIVED,    \* tag archive_event_by_id adds (elastic/mod.rs)
    TAG_ESCALATED,   \* tag (de)escalate_event_by_id adds or removes
    MaxHistory       \* bound on the history of a document

\* The tag pairs the group calls add or remove, and the literal tags
\* build_inbox_query filters on (spec.md 4.3 lists the four names).
TAGS_ARCHIVED == {"archived", "evebox.archived"}
TAGS_ESCALATED == {"escalated", "evebox.escalated"}
TagNames == TAGS_ARCHIVED \cup TAGS_ESCALATED

ASSUME TAG_ARCHIVED \in TAGS_ARCHIVED /\ TAG_ESCALATED \in TAGS_ESCALATED

VARIABLES
    tags,     \* tags[d]: the _source.tags array of document d, as a set
    history,  \* history[d]: _source.evebox.history of document d
    pc,       \* "idle", or "updating" while the request is being applied
    op,       \* the call a client is making
    pending   \* snapshot still to apply: document -> version at snapshot

vars == <<tags, history, pc, op, pending>>

Actions == {"archived", "escalated", "de-escalated", "comment"}
Entry == [action : Actions, via : {"id", "group"}]
Window == [g : GroupKeys, lo : Times, hi : Times]

ByIdOps == {"archive_event_by_id", "escalate_event_by_id",
            "deescalate_event_by_id", "comment_event_by_id"}
GroupOps == {"archive_by_alert_group", "escalate_by_alert_group",
             "deescalate_by_alert_group", "comment_by_alert_group"}
Calls == [name : ByIdOps, id : Events] \cup [name : GroupOps, w : Window]

TypeOK ==
    /\ tags \in [Events -> SUBSET TagNames]
    /\ history \in [Events -> Seq(Entry)]
    /\ pc \in [Clients -> {"idle", "updating"}]
    /\ op \in [Clients -> Calls \cup {<<>>}]
    /\ \A c \in Clients : \E D \in SUBSET Events : pending[c] \in [D -> 0..MaxHistory]

Version(d) == Len(history[d])

-----------------------------------------------------------------------------
(* What each call sends: the script (add or remove), its params.tags and   *)
(* params.action, and the query selecting the documents.                   *)

\* Mutant: deescalate_event_by_id calls add_tag_by_query (a copy of
\* escalate_event_by_id left unchanged).
ScriptKindCopyPaste(name) ==
    IF name = "deescalate_by_alert_group" THEN "remove" ELSE "add"

ScriptKind(name) ==
    IF name \in {"deescalate_event_by_id", "deescalate_by_alert_group"}
      THEN "remove" ELSE "add"

ScriptTags(name) ==
    CASE name = "archive_event_by_id"       -> {TAG_ARCHIVED}
      [] name = "escalate_event_by_id"      -> {TAG_ESCALATED}
      [] name = "deescalate_event_by_id"    -> {TAG_ESCALATED}
      [] name = "archive_by_alert_group"    -> TAGS_ARCHIVED
      [] name = "escalate_by_alert_group"   -> TAGS_ESCALATED
      [] name = "deescalate_by_alert_group" -> TAGS_ESCALATED
      [] OTHER                              -> {}

ScriptAction(name) ==
    CASE name \in {"archive_event_by_id", "archive_by_alert_group"} -> "archived"
      [] name \in {"escalate_event_by_id", "escalate_by_alert_group"} -> "escalated"
      [] name \in {"deescalate_event_by_id", "deescalate_by_alert_group"} -> "de-escalated"
      [] OTHER -> "comment"

\* build_alert_group_filter: event_type exists and is "alert", @timestamp
\* in [min, max], src_ip, dest_ip and signature_id equal the group's.
AlertGroupFilter(d, w) ==
    /\ GroupOf[d] = w.g
    /\ w.lo <= TsOf[d]
    /\ TsOf[d] <= w.hi

\* Mutant: add_tags_by_alert_group without its must_not clause.
AddTagsByAlertGroupQueryNoMustNot(d, w, ts) == AlertGroupFilter(d, w)

\* add_tags_by_alert_group: the filter, and must_not any of the tags added.
AddTagsByAlertGroupQuery(d, w, ts) == AlertGroupFilter(d, w) /\ tags[d] \cap ts = {}

\* remove_tags_by_alert_group: the filter, and a term filter per tag.
RemoveTagsByAlertGroupQuery(d, w, ts) == AlertGroupFilter(d, w) /\ ts \subseteq tags[d]

Matches(d, call) ==
    IF call.name \in ByIdOps
      THEN d = call.id
      ELSE IF ScriptKind(call.name) = "add"
        THEN AddTagsByAlertGroupQuery(d, call.w, ScriptTags(call.name))
        ELSE RemoveTagsByAlertGroupQuery(d, call.w, ScriptTags(call.name))

\* The painless scripts of add_tags_by_query and remove_tags_by_query: add
\* each tag not yet present, or remove it; then, unconditionally, append
\* params.action to evebox.history.
AddTagsScript(d, ts) == tags[d] \cup ts
RemoveTagsScript(d, ts) == tags[d] \ ts

ScriptTagsAfter(d, call) ==
    IF ScriptKind(call.name) = "add"
      THEN AddTagsScript(d, ScriptTags(call.name))
      ELSE RemoveTagsScript(d, ScriptTags(call.name))

\* Mutant: the handler's name is written as the history action instead of
\* the ACTION_* constant.
ScriptEntryHandlerName(call) ==
    [action |-> call.name,
     via |-> IF call.name \in ByIdOps THEN "id" ELSE "group"]

ScriptEntry(call) ==
    [action |-> ScriptAction(call.name),
     via |-> IF call.name \in ByIdOps THEN "id" ELSE "group"]

-----------------------------------------------------------------------------

Init ==
    /\ tags = [d \in Events |-> {}]
    /\ history = [d \in Events |-> <<>>]
    /\ pc = [c \in Clients |-> "idle"]
    /\ op = [c \in Clients |-> <<>>]
    /\ pending = [c \in Clients |-> <<>>]

\* A handler posts its _update_by_query; Elasticsearch snapshots the
\* matching documents with their versions.
UpdateByQuery(c, call) ==
    /\ pc[c] = "idle"
    /\ pc' = [pc EXCEPT ![c] = "updating"]
    /\ op' = [op EXCEPT ![c] = call]
    /\ pending' = [pending EXCEPT ![c] =
                     [d \in {x \in Events : Matches(x, call)} |-> Version(d)]]
    /\ UNCHANGED <<tags, history>>

\* (A post that fails before Elasticsearch sees it returns Err and changes
\* nothing: a stuttering step.)

\* Elasticsearch processes one snapshotted document: it runs the script if
\* the document's version is still the snapshot's, otherwise it counts a
\* version conflict and, with conflicts=proceed, goes on.
ApplyScript(c, d) ==
    /\ pc[c] = "updating"
    /\ d \in DOMAIN pending[c]
    /\ IF Version(d) = pending[c][d]
         THEN /\ tags' = [tags EXCEPT ![d] = ScriptTagsAfter(d, op[c])]
              /\ history' = [history EXCEPT ![d] = Append(@, ScriptEntry(op[c]))]
         ELSE UNCHANGED <<tags, history>>
    /\ pending' = [pending EXCEPT ![c] = Restrict(@, DOMAIN @ \ {d})]
    /\ UNCHANGED <<pc, op>>

\* The response arrives once every snapshotted document was processed.
Respond(c) ==
    /\ pc[c] = "updating"
    /\ DOMAIN pending[c] = {}
    /\ pc' = [pc EXCEPT ![c] = "idle"]
    /\ op' = [op EXCEPT ![c] = <<>>]
    /\ pending' = [pending EXCEPT ![c] = <<>>]
    /\ UNCHANGED <<tags, history>>

\* add_tags_by_query reads "updated" and only logs a zero count;
\* remove_tags_by_query ignores the body: the call returns Ok.  Version
\* conflicts, reported in the body, are not looked at.  (A response lost
\* after Elasticsearch did the work makes the same step return Err; the
\* model records no return value, so it is this step too.)
RespondOk(c) == Respond(c)

Next ==
    \E c \in Clients :
        \/ \E call \in Calls : UpdateByQuery(c, call)
        \/ \E d \in Events : ApplyScript(c, d)
        \/ RespondOk(c)

Spec == Init /\ [][Next]_vars

\* Bound on the histories TLC explores: entries over all documents.
HistoryBound == SumFunction([d \in Events |-> Len(history[d])]) <= MaxHistory

-----------------------------------------------------------------------------
(* Properties                                                              *)

\* Repeating archive_by_alert_group, even concurrently, records the group
\* archive of a document once: the must_not guard excludes documents already
\* archived, and a concurrent archive that snapshotted the same document
\* meets a version conflict instead of appending a second entry.
GroupArchiveRecordedOnce ==
    \A d \in Events :
        Cardinality({i \in 1..Len(history[d]) :
                        history[d][i] = [action |-> "archived", via |-> "group"]}) <= 1

\* The inbox's escalated marker (the evebox.escalated tag that the
\* escalatedCount aggregation and the "escalated" filter read) agrees with
\* the audit trail: it is set exactly when the last escalation entry of the
\* document's history is "escalated".
LastEscalation(d) ==
    LET idx == {i \in 1..Len(history[d]) :
                   history[d][i].action \in {"escalated", "de-escalated"}}
    IN IF idx = {} THEN "none"
       ELSE history[d][CHOOSE i \in idx : \A j \in idx : j <= i].action

EscalatedMarkerMatchesHistory ==
    \A d \in Events : ("evebox.escalated" \in tags[d]) <=> (LastEscalation(d) = "escalated")

\* When archive_by_alert_group returns Ok, every alert of the group inside
\* the window is archived in the inbox's sense: it carries evebox.archived,
\* the tag build_inbox_query's "-archived" excludes.
GroupDone(c, name) == RespondOk(c) /\ op[c].name = name
GroupDocs(c) == {d \in Events : AlertGroupFilter(d, op[c].w)}

ArchiveGroupEffective ==
    [][\A c \in Clients :
         GroupDone(c, "archive_by_alert_group")
           => \A d \in GroupDocs(c) : "evebox.archived" \in tags'[d]]_vars

\* When deescalate_by_alert_group returns Ok, no alert of the group inside
\* the window is still escalated in the inbox's sense (carries
\* evebox.escalated, which escalatedCount counts).
DeescalateGroupEffective ==
    [][\A c \in Clients :
         GroupDone(c, "deescalate_by_alert_group")
           => \A d \in GroupDocs(c) : "evebox.escalated" \notin tags'[d]]_vars

=============================================================================
