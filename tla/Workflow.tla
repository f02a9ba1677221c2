------------------------------ MODULE Workflow ------------------------------
(***************************************************************************)
(* The SQLite store's workflow state with each call as one atomic step:   *)
(* every stored event carries two flags, archived and escalated; an event  *)
(* appears when the importer commits it; each workflow call is one UPDATE  *)
(* of one event, or of every event of an alert group inside a time window. *)
(* AlertInbox takes these steps between two inbox queries.                 *)
(***************************************************************************)
EXTENDS Integers, FiniteSets

CONSTANTS
    Events,      \* identifiers of the events that may ever be stored
    GroupKeys,   \* (signature_id, src_ip, dest_ip) triples, abstracted
    NotAlert,    \* group of an event whose event_type is not "alert"
    GroupOf,     \* GroupOf[e]: alert group of event e, or NotAlert
    TsOf,        \* TsOf[e]: timestamp of event e
    Times        \* the timestamps events and windows are drawn from

ASSUME NotAlert \notin GroupKeys
ASSUME GroupOf \in [Events -> GroupKeys \cup {NotAlert}]
ASSUME TsOf \in [Events -> Times]

VARIABLES present, archived, escalated

wvars == <<present, archived, escalated>>

\* The events of alert group g whose timestamp lies in [lo, hi].
InGroup(e, g, lo, hi) ==
    /\ present[e]
    /\ GroupOf[e] = g
    /\ lo <= TsOf[e]
    /\ TsOf[e] <= hi

Init ==
    /\ present = [e \in Events |-> FALSE]
    /\ archived = [e \in Events |-> FALSE]
    /\ escalated = [e \in Events |-> FALSE]

\* A batch of new events becomes visible at once, unflagged.
Import(batch) ==
    /\ batch # {}
    /\ \A e \in batch : ~present[e]
    /\ present' = [e \in Events |-> present[e] \/ e \in batch]
    /\ UNCHANGED <<archived, escalated>>

SetArchived(e) ==
    /\ present[e]
    /\ archived' = [archived EXCEPT ![e] = TRUE]
    /\ UNCHANGED <<present, escalated>>

SetEscalated(e, v) ==
    /\ present[e]
    /\ escalated' = [escalated EXCEPT ![e] = v]
    /\ UNCHANGED <<present, archived>>

ArchiveGroup(g, lo, hi) ==
    /\ archived' = [e \in Events |-> archived[e] \/ InGroup(e, g, lo, hi)]
    /\ UNCHANGED <<present, escalated>>

SetEscalatedGroup(g, lo, hi, v) ==
    /\ escalated' = [e \in Events |->
                        IF InGroup(e, g, lo, hi) THEN v ELSE escalated[e]]
    /\ UNCHANGED <<present, archived>>

Next ==
    \/ \E batch \in SUBSET Events : Import(batch)
    \/ \E e \in Events : SetArchived(e) \/ \E v \in BOOLEAN : SetEscalated(e, v)
    \/ \E g \in GroupKeys, lo, hi \in Times :
          \/ ArchiveGroup(g, lo, hi)
          \/ \E v \in BOOLEAN : SetEscalatedGroup(g, lo, hi, v)

Spec == Init /\ [][Next]_wvars

=============================================================================
