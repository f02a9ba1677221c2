---------------------------- MODULE MCAlertInbox ----------------------------
(***************************************************************************)
(* Alert groups for checking AlertInbox: g1 and g2 share the signature and *)
(* the source and differ in destination, g3 has another signature.  e1    *)
(* and e2 are alerts of g1 at different times, e3 of g2, e4 of g3.         *)
(***************************************************************************)
EXTENDS AlertInbox, TLC

CONSTANTS e1, e2, e3, e4

MCEvents == {e1, e2, e3, e4}
G1 == [sig |-> 1, src |-> 1, dst |-> 1]
G2 == [sig |-> 1, src |-> 1, dst |-> 2]
G3 == [sig |-> 2, src |-> 1, dst |-> 1]
MCGroupKeys == {G1, G2, G3}
MCGroupOf == e1 :> G1 @@ e2 :> G1 @@ e3 :> G2 @@ e4 :> G3
MCTsOf == e1 :> 1 @@ e2 :> 2 @@ e3 :> 2 @@ e4 :> 1
MCTimes == 1..2
MCTagOptions == {{}, {"-archived"}, {"escalated"}, {"archived"}}

=============================================================================
