---------------------------- MODULE MCDatastore ----------------------------
(***************************************************************************)
(* Datastore for TLC: two alerts of one group at different timestamps,    *)
(* stored in both stores; query strings of up to three fragments of      *)
(* every kind.  The loop bounds 128 and 100 are scaled to 2: a string    *)
(* of three fragments is parsed to its end by event_query's loop, and a    *)
(* stuck fragment runs both loops into their bounds.                       *)
(***************************************************************************)
EXTENDS Datastore, TLC

CONSTANTS e1, e2, g1

MCEvents == {e1, e2}
MCGroupKeys == {g1}
MCGroupOf == (e1 :> g1) @@ (e2 :> g1)
MCTsOf == (e1 :> 1) @@ (e2 :> 2)
MCTimes == 1..2
MCQueryStrings == BoundedSeq({"kv_int", "kv_str", "text", "blank", "stuck"}, 3)

=============================================================================
