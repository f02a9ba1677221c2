----------------------------- MODULE DhcpReport -----------------------------
(***************************************************************************)
(* The DHCP report of the Elasticsearch store, dhcp_report in              *)
(* src/src/elastic/report/dhcp.rs, answered from the documents indexed so  *)
(* far.  Each sub-report adds its own term filter to the common filters,  *)
(* runs one zero-hit search with a terms aggregation, and reshapes the     *)
(* buckets into {data: [...]}.                                             *)
(*                                                                         *)
(* A document is a record Doc[d] of the fields the reports read:           *)
(* event_type, dhcp.type ("request" or "reply"), dhcp.dhcp_type (the       *)
(* message: "discover", "request", "ack", "nak", ...), dhcp.client_mac,   *)
(* dhcp.assigned_ip, src_ip and @timestamp.  Addresses and MACs are        *)
(* integers so that terms buckets order by key as Elasticsearch orders     *)
(* keyword terms; Unassigned stands for "0.0.0.0", the smallest address.   *)
(* map_dhcp_event copies fields of the newest hit, so an entry of the ack  *)
(* and request reports is that document.                                   *)
(***************************************************************************)
EXTENDS Integers, FiniteSets, FiniteSetsExt

CONSTANTS
    Docs,        \* the documents the index may hold
    Doc,         \* their fields
    Times,       \* the min_timestamp values a client sends
    None,        \* an absent min_timestamp
    Unassigned,  \* the address "0.0.0.0"
    TopSize,     \* "size" of the outer terms aggregations (10000)
    SubSize      \* size of the inner terms aggregations, unset: the default 10

Reports == {"ack", "request", "servers", "mac", "ip"}

VARIABLES
    indexed,  \* the documents in the index
    reply     \* the last answer: the report asked for and its data, or an error

vars == <<indexed, reply>>

-----------------------------------------------------------------------------

\* Mutant: dhcp_report forgets the timestamp_gte filter.
MatchingNoMin(min) ==
    {d \in indexed : Doc[d].event_type = "dhcp"}

\* The common filters of dhcp_report: event_type = dhcp and, with a
\* min_timestamp, @timestamp >= it.  (The query string is not modelled.)
Matching(min) ==
    {d \in indexed : Doc[d].event_type = "dhcp" /\ (min # None => Doc[d].ts >= min)}

\* A terms aggregation of the given size over the doc_count of each key:
\* the buckets with the largest doc_count, ties broken by the smaller key.
Terms(cnt, size) ==
    {k \in DOMAIN cnt : Cardinality({j \in DOMAIN cnt : cnt[j] > cnt[k] \/ (cnt[j] = cnt[k] /\ j < k)}) < size}

\* The doc_count of each value of field f among the documents S.
CountBy(S, f) == [v \in {Doc[d][f] : d \in S} |-> Cardinality({d \in S : Doc[d][f] = v})]

\* Mutant: the top_hits sub-aggregation sorts @timestamp ascending.
NewestAsc(S) == {d \in S : Doc[d].ts = Min({Doc[x].ts : x \in S})}

\* The "latest" top_hits: size 1 sorted by @timestamp descending; among
\* documents with the same timestamp any one may come first.
Newest(S) == {d \in S : Doc[d].ts = Max({Doc[x].ts : x \in S})}

\* dhcp_report_ack and dhcp_report_request: the documents of message kind
\* msg, a client_mac terms aggregation, and for each bucket its newest
\* document, reshaped by map_dhcp_event.
LatestByMac(min, msg) ==
    LET S == {d \in Matching(min) : Doc[d].dhcp_type = msg}
        Of(m) == {d \in S : Doc[d].mac = m}
    IN {data \in SUBSET S :
          /\ {Doc[d].mac : d \in data} = Terms(CountBy(S, "mac"), TopSize)
          /\ \A d \in data : d \in Newest(Of(Doc[d].mac))
          /\ \A d1, d2 \in data : Doc[d1].mac = Doc[d2].mac => d1 = d2}

\* The replies (dhcp.type = reply) of the common filters.
Replies(min) == {d \in Matching(min) : Doc[d].type = "reply"}

\* servers: a src_ip terms aggregation over the replies; each bucket
\* becomes {ip: key, count: doc_count}.
ServersData(min) ==
    LET cnt == CountBy(Replies(min), "src")
    IN {[ip |-> s, count |-> cnt[s]] : s \in Terms(cnt, TopSize)}

\* mac: client_mac buckets over the replies, each with an assigned_ip
\* sub-aggregation of the default size; 0.0.0.0 is dropped from the
\* sub-buckets after Elasticsearch has cut them to size.
MacData(min) ==
    LET S == Replies(min)
        Of(m) == {d \in S : Doc[d].mac = m}
    IN {[mac |-> m, addrs |-> Terms(CountBy(Of(m), "ip"), SubSize) \ {Unassigned}] :
          m \in Terms(CountBy(S, "mac"), TopSize)}

\* Mutant: the ip report keeps the 0.0.0.0 bucket.
IpDataNoSkip(min) ==
    LET S == Replies(min)
        Of(a) == {d \in S : Doc[d].ip = a}
    IN {[ip |-> a, macs |-> Terms(CountBy(Of(a), "mac"), SubSize)] :
          a \in Terms(CountBy(S, "ip"), TopSize)}

\* ip: assigned_ip buckets over the replies, each with a client_mac
\* sub-aggregation of the default size; the 0.0.0.0 bucket is skipped
\* after Elasticsearch has cut the outer buckets to size.
IpData(min) ==
    LET S == Replies(min)
        Of(a) == {d \in S : Doc[d].ip = a}
    IN {[ip |-> a, macs |-> Terms(CountBy(Of(a), "mac"), SubSize)] :
          a \in Terms(CountBy(S, "ip"), TopSize) \ {Unassigned}}

\* dhcp_report: the sub-report named by what, or "No DHCP report for what".
DhcpReport(what, min) ==
    /\ reply' \in
         CASE what = "ack"     -> {[what |-> what, min |-> min, data |-> D] : D \in LatestByMac(min, "ack")}
           [] what = "request" -> {[what |-> what, min |-> min, data |-> D] : D \in LatestByMac(min, "request")}
           [] what = "servers" -> {[what |-> what, min |-> min, data |-> ServersData(min)]}
           [] what = "mac"     -> {[what |-> what, min |-> min, data |-> MacData(min)]}
           [] what = "ip"      -> {[what |-> what, min |-> min, data |-> IpData(min)]}
           [] OTHER            -> {[what |-> what, min |-> min, data |-> "error"]}
    /\ UNCHANGED indexed

\* The importer indexes one more document between reports.
Index(d) ==
    /\ d \notin indexed
    /\ indexed' = indexed \cup {d}
    /\ UNCHANGED reply

Init == indexed = {} /\ reply = <<>>

Next ==
    \/ \E d \in Docs : Index(d)
    \/ \E what \in Reports \cup {"leases"}, min \in Times \cup {None} : DhcpReport(what, min)

Spec == Init /\ [][Next]_vars

-----------------------------------------------------------------------------
(* Reference, from the reports' doc comments and spec.md 6: the replies   *)
(* in the window; the newest ack or request of each client; the servers   *)
(* with their reply counts; for each client the addresses it was         *)
(* assigned, and for each address the clients it was assigned to.        *)

RefDhcp(min) ==
    {d \in indexed : Doc[d].event_type = "dhcp" /\ (min = None \/ Doc[d].ts >= min)}

RefMessages(min, msg) == {d \in RefDhcp(min) : Doc[d].dhcp_type = msg}

RefReplies(min) == {d \in RefDhcp(min) : Doc[d].type = "reply"}

\* The step answers report w.
Answers(w) == UNCHANGED indexed /\ reply' # <<>> /\ reply'.what = w

-----------------------------------------------------------------------------
(* Properties                                                              *)

\* The ack and request reports list, for every client with such a message
\* in the window, exactly one document: its newest, as the top_hits of its
\* client_mac bucket gives it.
LatestMessagePerClient ==
    [][\A w \in {"ack", "request"} : Answers(w) =>
         LET S == RefMessages(reply'.min, w)
         IN /\ {Doc[d].mac : d \in reply'.data} = {Doc[d].mac : d \in S}
            /\ \A d \in reply'.data :
                  d \in S /\ \A x \in S : Doc[x].mac = Doc[d].mac => Doc[x].ts <= Doc[d].ts
            /\ Cardinality(reply'.data) = Cardinality({Doc[d].mac : d \in S})]_vars

\* The servers report counts, for every address that sent a DHCP reply in
\* the window, exactly its replies.
ServersCounted ==
    [][Answers("servers") =>
         reply'.data = {[ip |-> s, count |-> Cardinality({d \in RefReplies(reply'.min) : Doc[d].src = s})] :
                          s \in {Doc[d].src : d \in RefReplies(reply'.min)}}]_vars

\* The mac report and the ip report of the same window tell the same
\* story: client m lists address a exactly when address a lists client m,
\* and a real address appears in one report exactly when it appears in
\* the other.  The mac report drops 0.0.0.0 from its sub-buckets, the ip
\* report skips its 0.0.0.0 bucket.
MacIpReportsAgree ==
    [][Answers("mac") =>
         LET ips == IpData(reply'.min)
         IN /\ UNION {e.addrs : e \in reply'.data} = {e.ip : e \in ips}
            /\ \A e \in reply'.data, f \in ips : f.ip \in e.addrs <=> e.mac \in f.macs]_vars

=============================================================================
