---------------------------- MODULE MCDhcpReport ----------------------------
(***************************************************************************)
(* Documents for checking DhcpReport.  Clients 1 and 2, servers 11 and 12, *)
(* addresses 1 to 3 and 0.0.0.0 (0).  Client 1 requests and is acked 1 at *)
(* time 1 and 2 at time 2; client 2 is acked 2 and 1 by two servers at    *)
(* the same time, then nak'ed with 0.0.0.0; a flow record is not DHCP.    *)
(***************************************************************************)
EXTENDS DhcpReport, TLC

CONSTANTS d1, d2, d3, d4, d5, d6, d7, d8

Rec(et, ty, dt, mac, ip, src, ts) ==
    [event_type |-> et, type |-> ty, dhcp_type |-> dt, mac |-> mac, ip |-> ip, src |-> src, ts |-> ts]

MCDocs == {d1, d2, d3, d4, d5, d6, d7, d8}
MCDoc ==
    d1 :> Rec("dhcp", "request", "request", 1, 0, 0, 1) @@
    d2 :> Rec("dhcp", "reply", "ack", 1, 1, 11, 1) @@
    d3 :> Rec("dhcp", "reply", "ack", 1, 2, 11, 2) @@
    d4 :> Rec("dhcp", "reply", "ack", 2, 2, 11, 1) @@
    d5 :> Rec("dhcp", "reply", "ack", 2, 1, 12, 1) @@
    d6 :> Rec("dhcp", "reply", "nak", 2, 0, 12, 2) @@
    d7 :> Rec("dhcp", "request", "request", 2, 0, 0, 2) @@
    d8 :> Rec("flow", "reply", "ack", 1, 3, 11, 2)
MCTimes == {2}

=============================================================================
