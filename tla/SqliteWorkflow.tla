--------------------------- MODULE SqliteWorkflow ---------------------------
(***************************************************************************)
(* The SQLite event store (src/src/sqlite/eventstore.rs): the events table *)
(* with its archived and escalated columns, the workflow calls that update *)
(* them, the reads that select from it, and the retry loops wrapped around *)
(* both.  Concurrent HTTP handler tasks are Clients; the importer, which   *)
(* writes new rows through its own connection, is the only other writer.  *)
(*                                                                         *)
(* SQLite locking is abstracted to the database lock the importer holds:   *)
(* "reserved" while its transaction inserts rows (other writers get        *)
(* SQLITE_BUSY) and "exclusive" while it commits (readers get SQLITE_BUSY  *)
(* too).  A client statement is one atomic step: it never holds the lock  *)
(* across steps.                                                           *)
(***************************************************************************)
EXTENDS Integers, FiniteSets

CONSTANTS
    Events, GroupKeys, NotAlert, GroupOf, TsOf, Times,
    BadTs,           \* a min/max timestamp string parse_eve_timestamp rejects
    Clients,         \* concurrent request handler tasks
    WriteRetryTicks, \* retry_execute_loop: 1000 ms ceiling / 10 ms sleep
    QueryRetries     \* retry_query_loop: retries allowed on a lock error (100)

ASSUME BadTs \notin Times
ASSUME WriteRetryTicks \in Nat /\ QueryRetries \in Nat

VARIABLES
    present, archived, escalated,  \* the events table
    dbLock,   \* "free", or the importer's "reserved" / "exclusive" lock
    batch,    \* rows the importer's open transaction has inserted
    pc,       \* "idle" or the retry loop a client is in
    args,     \* the alert group a client's archive call is about
    tries,    \* failed attempts of the current retry loop
    ret       \* what the client's last call returned

vars == <<present, archived, escalated, dbLock, batch, pc, args, tries, ret>>

Bounds == Times \cup {BadTs}
Results == {"none", "ok", "found", "not_found", "busy", "parse_error", "panic"}
GroupArgs == [g : GroupKeys, lo : Times, hi : Times]

TypeOK ==
    /\ present \in [Events -> BOOLEAN]
    /\ archived \in [Events -> BOOLEAN]
    /\ escalated \in [Events -> BOOLEAN]
    /\ dbLock \in {"free", "reserved", "exclusive"}
    /\ batch \subseteq Events
    /\ pc \in [Clients -> {"idle", "archive_group", "alert_query", "event_query"}]
    /\ args \in [Clients -> GroupArgs \cup {<<>>}]
    /\ tries \in [Clients -> 0..(WriteRetryTicks + QueryRetries + 1)]
    /\ ret \in [Clients -> Results]

Init ==
    /\ present = [e \in Events |-> FALSE]
    /\ archived = [e \in Events |-> FALSE]
    /\ escalated = [e \in Events |-> FALSE]
    /\ dbLock = "free"
    /\ batch = {}
    /\ pc = [c \in Clients |-> "idle"]
    /\ args = [c \in Clients |-> <<>>]
    /\ tries = [c \in Clients |-> 0]
    /\ ret = [c \in Clients |-> "none"]

\* A statement on a client connection, given the importer's lock.
WriteBlocked == dbLock # "free"
ReadBlocked == dbLock = "exclusive"

\* The WHERE clause of the group UPDATEs over the stored rows:
\* json_extract(source, '$.event_type') = 'alert' and signature_id, src_ip
\* and dest_ip equal to the group's (GroupOf), timestamp >= min and
\* timestamp <= max.  (The archived = 0 / escalated = 0|1 terms are in
\* the actions.)
MatchesGroup(e, a) ==
    /\ present[e]
    /\ GroupOf[e] = a.g
    /\ TsOf[e] >= a.lo
    /\ TsOf[e] <= a.hi

\* Mutant: the attempt counter is not reset between calls and the final
\* attempt is counted too.
ReturnCountingAttempt(c, r) ==
    /\ pc' = [pc EXCEPT ![c] = "idle"]
    /\ ret' = [ret EXCEPT ![c] = r]
    /\ tries' = [tries EXCEPT ![c] = @ + 1]
    /\ args' = [args EXCEPT ![c] = <<>>]

Return(c, r) ==
    /\ pc' = [pc EXCEPT ![c] = "idle"]
    /\ ret' = [ret EXCEPT ![c] = r]
    /\ tries' = [tries EXCEPT ![c] = 0]
    /\ args' = [args EXCEPT ![c] = <<>>]

ClientIdle(c) == pc[c] = "idle"

-----------------------------------------------------------------------------
(* Importer (through its own connection).                                  *)

ImportBegin ==
    /\ dbLock = "free"
    /\ \E b \in SUBSET {e \in Events : ~present[e]} :
          /\ b # {}
          /\ batch' = b
    /\ dbLock' = "reserved"
    /\ UNCHANGED <<present, archived, escalated, pc, args, tries, ret>>

ImportCommitStart ==
    /\ dbLock = "reserved"
    /\ dbLock' = "exclusive"
    /\ UNCHANGED <<present, archived, escalated, batch, pc, args, tries, ret>>

ImportCommitEnd ==
    /\ dbLock = "exclusive"
    /\ present' = [e \in Events |-> present[e] \/ e \in batch]
    /\ batch' = {}
    /\ dbLock' = "free"
    /\ UNCHANGED <<archived, escalated, pc, args, tries, ret>>

-----------------------------------------------------------------------------
(* archive_event_by_id, escalate_event_by_id, deescalate_event_by_id: one  *)
(* UPDATE ... WHERE rowid = ? on the mutex-guarded connection, no retry;   *)
(* zero changed rows is EventNotFound.                                     *)

SetFlagById(c, e, flag, v) ==
    /\ ClientIdle(c)
    /\ IF WriteBlocked
         THEN /\ ret' = [ret EXCEPT ![c] = "busy"]
              /\ UNCHANGED <<archived, escalated>>
         ELSE /\ ret' = [ret EXCEPT ![c] = IF present[e] THEN "ok" ELSE "not_found"]
              /\ IF flag = "archived"
                   THEN /\ archived' = [archived EXCEPT ![e] = present[e] \/ @]
                        /\ UNCHANGED escalated
                   ELSE /\ escalated' = [escalated EXCEPT ![e] = IF present[e] THEN v ELSE @]
                        /\ UNCHANGED archived
    /\ UNCHANGED <<present, dbLock, batch, pc, args, tries>>

ArchiveEventById(c, e) == SetFlagById(c, e, "archived", TRUE)
EscalateEventById(c, e) == SetFlagById(c, e, "escalated", TRUE)
DeescalateEventById(c, e) == SetFlagById(c, e, "escalated", FALSE)

\* get_event_by_id: SELECT ... WHERE rowid = ? on the guarded connection.
GetEventById(c, e) ==
    /\ ClientIdle(c)
    /\ ret' = [ret EXCEPT ![c] = IF ReadBlocked THEN "busy"
                                 ELSE IF present[e] THEN "found" ELSE "none"]
    /\ UNCHANGED <<present, archived, escalated, dbLock, batch, pc, args, tries>>

-----------------------------------------------------------------------------
(* escalate_by_alert_group, deescalate_by_alert_group: both timestamps are *)
(* parsed first, then one UPDATE on the guarded connection, no retry.  The *)
(* escalated = 0 / escalated = 1 guard only narrows which rows count.      *)

SetEscalatedByAlertGroup(c, g, lo, hi, v) ==
    /\ ClientIdle(c)
    /\ IF lo = BadTs \/ hi = BadTs
         THEN /\ ret' = [ret EXCEPT ![c] = "parse_error"]
              /\ UNCHANGED escalated
         ELSE IF WriteBlocked
         THEN /\ ret' = [ret EXCEPT ![c] = "busy"]
              /\ UNCHANGED escalated
         ELSE /\ escalated' = [e \in Events |->
                    IF MatchesGroup(e, [g |-> g, lo |-> lo, hi |-> hi]) /\ escalated[e] # v
                      THEN v ELSE escalated[e]]
              /\ ret' = [ret EXCEPT ![c] = "ok"]
    /\ UNCHANGED <<present, archived, dbLock, batch, pc, args, tries>>

EscalateByAlertGroup(c, g, lo, hi) == SetEscalatedByAlertGroup(c, g, lo, hi, TRUE)
DeescalateByAlertGroup(c, g, lo, hi) == SetEscalatedByAlertGroup(c, g, lo, hi, FALSE)

-----------------------------------------------------------------------------
(* archive_by_alert_group: parse both timestamps, open a new connection,   *)
(* then retry_execute_loop: retry any error every 10 ms until more than    *)
(* 1000 ms have elapsed since the first attempt.                           *)

ArchiveByAlertGroup(c, g, lo, hi) ==
    /\ ClientIdle(c)
    /\ IF lo = BadTs \/ hi = BadTs
         THEN /\ ret' = [ret EXCEPT ![c] = "parse_error"]
              /\ UNCHANGED <<pc, args>>
         ELSE /\ pc' = [pc EXCEPT ![c] = "archive_group"]
              /\ args' = [args EXCEPT ![c] = [g |-> g, lo |-> lo, hi |-> hi]]
              /\ UNCHANGED ret
    /\ UNCHANGED <<present, archived, escalated, dbLock, batch, tries>>

\* Mutant: retry_execute_loop without its 1000 ms ceiling: it sleeps and
\* retries for as long as the statement fails.
RetryExecuteLoopNoCeiling(c) ==
    /\ pc[c] = "archive_group"
    /\ ~WriteBlocked
    /\ archived' = [e \in Events |->
             archived[e] \/ (MatchesGroup(e, args[c]) /\ ~archived[e])]
    /\ Return(c, "ok")
    /\ UNCHANGED <<present, escalated, dbLock, batch>>

RetryExecuteLoop(c) ==
    /\ pc[c] = "archive_group"
    /\ IF ~WriteBlocked
         THEN /\ archived' = [e \in Events |->
                    archived[e] \/ (MatchesGroup(e, args[c]) /\ ~archived[e])]
              /\ Return(c, "ok")
         ELSE IF tries[c] > WriteRetryTicks
         THEN /\ Return(c, "busy")
              /\ UNCHANGED archived
         ELSE /\ tries' = [tries EXCEPT ![c] = @ + 1]
              /\ UNCHANGED <<archived, pc, args, ret>>
    /\ UNCHANGED <<present, escalated, dbLock, batch>>

-----------------------------------------------------------------------------
(* alert_query and event_query: build the SELECT, open a new connection,   *)
(* then retry_query_loop: retry while the error mentions "lock" and fewer  *)
(* than 100 retries were made.  alert_query unwraps the loop's result, so  *)
(* its final error is a panic of the handler task; event_query returns it. *)

StartQuery(c, q) ==
    /\ ClientIdle(c)
    /\ pc' = [pc EXCEPT ![c] = q]
    /\ UNCHANGED <<present, archived, escalated, dbLock, batch, args, tries, ret>>

AlertQuery(c) == StartQuery(c, "alert_query")
EventQuery(c) == StartQuery(c, "event_query")

RetryQueryLoop(c) ==
    /\ pc[c] \in {"alert_query", "event_query"}
    /\ IF ~ReadBlocked
         THEN Return(c, "ok")
         ELSE IF tries[c] < QueryRetries
         THEN /\ tries' = [tries EXCEPT ![c] = @ + 1]
              /\ UNCHANGED <<pc, args, ret>>
         ELSE Return(c, IF pc[c] = "alert_query" THEN "panic" ELSE "busy")
    /\ UNCHANGED <<present, archived, escalated, dbLock, batch>>

-----------------------------------------------------------------------------

ImporterNext == ImportBegin \/ ImportCommitStart \/ ImportCommitEnd

ClientNext(c) ==
    \/ \E e \in Events :
          \/ ArchiveEventById(c, e)
          \/ EscalateEventById(c, e)
          \/ DeescalateEventById(c, e)
          \/ GetEventById(c, e)
    \/ \E g \in GroupKeys, lo, hi \in Bounds :
          \/ ArchiveByAlertGroup(c, g, lo, hi)
          \/ EscalateByAlertGroup(c, g, lo, hi)
          \/ DeescalateByAlertGroup(c, g, lo, hi)
    \/ AlertQuery(c)
    \/ EventQuery(c)
    \/ RetryExecuteLoop(c)
    \/ RetryQueryLoop(c)

Next == ImporterNext \/ \E c \in Clients : ClientNext(c)

\* A started retry loop keeps running: the tokio task is polled again after
\* each 10 ms sleep.  The importer gets no fairness: a long transaction may
\* hold the lock for as long as it likes.
Fairness == \A c \in Clients : WF_vars(RetryExecuteLoop(c) \/ RetryQueryLoop(c))

Spec == Init /\ [][Next]_vars /\ Fairness

-----------------------------------------------------------------------------
(* Properties                                                              *)

\* Every call a handler starts returns, even while the importer holds the
\* database lock for ever: the retry loops of retry_execute_loop and
\* retry_query_loop are bounded.
CallsReturn == \A c \in Clients : (pc[c] # "idle") ~> (pc[c] = "idle")

\* No request handler panics: alert_query must report a persistent lock
\* error as an error, not unwrap it (spec.md section 7).
NoPanic == \A c \in Clients : ret[c] # "panic"

=============================================================================
