------------------------------- MODULE Submit -------------------------------
(***************************************************************************)
(* The bulk submit handler, handler_new in src/src/server/api/submit.rs:  *)
(* it reads the posted body line by line, decodes each line as an EVE      *)
(* event, hands the event to the datastore's importer, and commits.       *)
(*                                                                         *)
(* A body is a sequence of line kinds: "event" (a line that decodes),      *)
(* "garbage" (a line that does not) and "unreadable" (bytes that are not   *)
(* UTF-8, on which read_line fails).  Event i of the body is named by its *)
(* position.  The importer is not under src/: from spec.md 5 it queues one *)
(* event per submit call (a call that may fail) and its commit stores the  *)
(* queue and returns how many events it stored, or fails.                  *)
(***************************************************************************)
EXTENDS Integers, Sequences, SequencesExt, FiniteSets

CONSTANTS
    MaxLines    \* the longest body the model posts

LineKinds == {"event", "garbage", "unreadable"}

VARIABLES
    body,    \* the lines of the request body
    pc,      \* "read" (the loop), "commit", "done" (the handler returned)
    pos,     \* the next line read_line returns
    count,   \* the handler's count of decoded events
    errors,  \* positions of the lines the handler pushed an error for
    queue,   \* positions of the events the importer accepted
    stored,  \* positions of the events the commit stored
    reply    \* the response: its status and "Count"

vars == <<body, pc, pos, count, errors, queue, stored, reply>>

TypeOK ==
    /\ body \in BoundedSeq(LineKinds, MaxLines)
    /\ pc \in {"read", "commit", "done"}
    /\ pos \in 1..(MaxLines + 1)
    /\ count \in 0..MaxLines
    /\ errors \subseteq 1..MaxLines /\ queue \subseteq 1..MaxLines
    /\ stored \subseteq queue
    /\ reply \in [status : {200, 500}, count : 0..MaxLines] \cup {<<>>}

\* get_importer is Some for both stores, so the handler always reaches the
\* read loop with an empty importer queue.
Init ==
    /\ body \in BoundedSeq(LineKinds, MaxLines)
    /\ pc = "read" /\ pos = 1 /\ count = 0
    /\ errors = {} /\ queue = {} /\ stored = {}
    /\ reply = <<>>

\* Mutant: the early return tests count <= 1, so a body of one event is
\* answered without a commit.
LeaveLoopAtOne ==
    IF count <= 1
      THEN pc' = "done" /\ reply' = [status |-> 200, count |-> 0]
      ELSE pc' = "commit" /\ UNCHANGED reply

\* After the loop: nothing decoded returns {"Count": 0} without a commit,
\* otherwise the handler goes on to importer.commit().
LeaveLoop ==
    IF count = 0
      THEN pc' = "done" /\ reply' = [status |-> 200, count |-> 0]
      ELSE pc' = "commit" /\ UNCHANGED reply

\* Mutant: the n == 0 test of the EOF is missing; read_line keeps returning
\* Ok(0) and the loop never ends.
ReadLineNoEof ==
    /\ pc = "read"
    /\ CASE pos > Len(body) ->
              UNCHANGED <<pc, pos, count, errors, queue, reply>>
         [] body[pos] = "unreadable" ->
              errors' = errors \cup {pos} /\ LeaveLoop /\ UNCHANGED <<pos, count, queue>>
         [] body[pos] = "garbage" ->
              errors' = errors \cup {pos} /\ pos' = pos + 1
              /\ UNCHANGED <<pc, count, queue, reply>>
         [] body[pos] = "event" ->
              /\ count' = count + 1 /\ pos' = pos + 1
              /\ \E accepted \in BOOLEAN :
                    queue' = IF accepted THEN queue \cup {pos} ELSE queue
              /\ UNCHANGED <<pc, errors, reply>>
    /\ UNCHANGED <<body, stored>>

\* Mutant: a read_line error pushes its error and skips the line, as a
\* decode error does, instead of breaking out of the loop.
ReadLineSkipUnreadable ==
    /\ pc = "read"
    /\ CASE pos > Len(body) ->
              LeaveLoop /\ UNCHANGED <<pos, count, errors, queue>>
         [] body[pos] \in {"unreadable", "garbage"} ->
              errors' = errors \cup {pos} /\ pos' = pos + 1
              /\ UNCHANGED <<pc, count, queue, reply>>
         [] body[pos] = "event" ->
              /\ count' = count + 1 /\ pos' = pos + 1
              /\ \E accepted \in BOOLEAN :
                    queue' = IF accepted THEN queue \cup {pos} ELSE queue
              /\ UNCHANGED <<pc, errors, reply>>
    /\ UNCHANGED <<body, stored>>

\* One turn of the loop: read_line fails (error, break), returns 0 (EOF,
\* break), or returns a line that decodes (count += 1, importer.submit,
\* whose error is only logged) or does not (error pushed, loop goes on).
ReadLine ==
    /\ pc = "read"
    /\ CASE pos > Len(body) ->
              LeaveLoop /\ UNCHANGED <<pos, count, errors, queue>>
         [] body[pos] = "unreadable" ->
              errors' = errors \cup {pos} /\ LeaveLoop /\ UNCHANGED <<pos, count, queue>>
         [] body[pos] = "garbage" ->
              errors' = errors \cup {pos} /\ pos' = pos + 1
              /\ UNCHANGED <<pc, count, queue, reply>>
         [] body[pos] = "event" ->
              /\ count' = count + 1 /\ pos' = pos + 1
              /\ \E accepted \in BOOLEAN :
                    queue' = IF accepted THEN queue \cup {pos} ELSE queue
              /\ UNCHANGED <<pc, errors, reply>>
    /\ UNCHANGED <<body, stored>>

\* Mutant: the reply carries the handler's own count instead of the n the
\* commit returned.
CommitReportsReceived ==
    /\ pc = "commit"
    /\ \/ stored' = queue /\ reply' = [status |-> 200, count |-> count]
       \/ UNCHANGED stored /\ reply' = [status |-> 500, count |-> 0]
    /\ pc' = "done"
    /\ UNCHANGED <<body, pos, count, errors, queue>>

\* Mutant: the commit stores every event the handler counted, those whose
\* submit failed included.
CommitStoresCounted ==
    /\ pc = "commit"
    /\ \/ stored' = {i \in 1..(pos - 1) : body[i] = "event"}
          /\ reply' = [status |-> 200, count |-> Cardinality(stored')]
       \/ UNCHANGED stored /\ reply' = [status |-> 500, count |-> 0]
    /\ pc' = "done"
    /\ UNCHANGED <<body, pos, count, errors, queue>>

\* importer.commit(): Ok(n) answers {"Count": n}, Err answers 500.
Commit ==
    /\ pc = "commit"
    /\ \/ stored' = queue /\ reply' = [status |-> 200, count |-> Cardinality(queue)]
       \/ UNCHANGED stored /\ reply' = [status |-> 500, count |-> 0]
    /\ pc' = "done"
    /\ UNCHANGED <<body, pos, count, errors, queue>>

\* The handler has returned; the process serves other requests.
Returned == pc = "done" /\ UNCHANGED vars

Next == ReadLine \/ Commit \/ Returned

Spec == Init /\ [][Next]_vars /\ WF_vars(ReadLine \/ Commit)

-----------------------------------------------------------------------------
(* Properties                                                              *)

\* The handler answers every request: the read loop ends at the end of the
\* body or at the first unreadable line, and the commit returns.
HandlerReturns == <>(pc = "done")

\* A 200 reply's "Count" is the number of events of the body now stored:
\* the commit's n, not the handler's count, which includes events whose
\* importer.submit failed.
CountReportsStored ==
    reply # <<>> /\ reply.status = 200 => reply.count = Cardinality(stored)

\* A 200 reply means every event the importer accepted is stored: the early
\* return skips the commit only when nothing was queued.
AcceptedStoredOn200 ==
    reply # <<>> /\ reply.status = 200 => stored = queue

\* A line read_line fails on ends the import (submit.rs:53, "can't
\* continue"): no event after the first unreadable line is queued, so none
\* is committed, and once the handler has returned an error was pushed for
\* that line; the events before it are committed and answered 200.
UnreadableEndsImport ==
    \A j \in 1..Len(body) :
        body[j] = "unreadable" /\ (\A k \in 1..(j - 1) : body[k] # "unreadable") =>
            /\ \A i \in queue : i < j
            /\ pc = "done" => j \in errors

=============================================================================
