---------------------------- MODULE MCEsWorkflow ----------------------------
(***************************************************************************)
(* Model of EsWorkflow for TLC: two alert documents of one alert group at  *)
(* different timestamps, so that a window covers one or both of them.      *)
(***************************************************************************)
EXTENDS EsWorkflow, TLC

CONSTANTS e1, e2, g1

MCEvents == {e1, e2}
MCGroupKeys == {g1}
MCGroupOf == (e1 :> g1) @@ (e2 :> g1)
MCTsOf == (e1 :> 1) @@ (e2 :> 2)
MCTimes == 1..2
ClientSymmetry == Permutations(Clients)

=============================================================================
