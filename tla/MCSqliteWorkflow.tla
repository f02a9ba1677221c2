-------------------------- MODULE MCSqliteWorkflow --------------------------
(***************************************************************************)
(* Model of SqliteWorkflow for TLC: two alert events of one alert group at *)
(* different timestamps, so that windows can cover one or both of them,    *)
(* and one non-alert event that no group call may touch.                   *)
(***************************************************************************)
EXTENDS SqliteWorkflow, TLC

CONSTANTS e1, e2, e3, g1

MCEvents == {e1, e2, e3}
MCGroupKeys == {g1}
MCGroupOf == (e1 :> g1) @@ (e2 :> g1) @@ (e3 :> NotAlert)
MCTsOf == (e1 :> 1) @@ (e2 :> 2) @@ (e3 :> 2)
MCTimes == 1..2

=============================================================================
