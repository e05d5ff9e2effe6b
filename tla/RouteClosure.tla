---------------------------- MODULE RouteClosure ----------------------------
\* The closure of a route and the questions asked about it
\* (canonical_spatial_topology_identity.py): one work, due once, that blocks the route, and
\* queries that name its endpoints in any order and any way.
EXTENDS CanonicalLedger

Route == "topology_route_0001"
Sites == {"site_1", "site_2"}

RouteRecord ==
  [schema |-> "topology", clock |-> 0, access |-> "available", process |-> "active",
   work |-> TRUE, history |-> <<>>, ancestry |-> NoSource]

\* Three calls, closures and queries in any order.
RouteInit ==
  /\ plan = <<"route", "route", "route">>
  /\ record = RouteRecord
  /\ ledger = <<>>

\* _expected_r1
Closed(rec) ==
  [rec EXCEPT !.access = "blocked", !.process = "succeeded", !.clock = 1, !.work = FALSE,
              !.history = <<[source |-> rec, prior |-> rec.access]>>, !.ancestry = rec]

\* validate_canonical_envelope
ValidRoute(rec) == rec \in {RouteRecord, Closed(RouteRecord)}

\* resolve_next_due: only R0 owns the boundary, and only its own.
ResolveClosure ==
  /\ record.schema = "topology"
  /\ \E source \in {RouteRecord, Closed(RouteRecord), Unknown} :
       Resolve("route", "close", source, record, record,
               ValidRoute(record) /\ record = RouteRecord /\ source = record,
               Closed(record), record)

\* evaluate_route_access: the pair is compared in the canonical order of its members.
Eligible(rec, route, ends) ==
  /\ route = Route /\ Len(ends) = 2
  /\ \A i \in DOMAIN ends : ends[i] \in Sites
  /\ ends[1] # ends[2]
  /\ rec.access = "available"

\* Both orders of the pair, and a request for each early return.
Asked ==
  [forward |-> [route |-> Route, ends |-> <<"site_1", "site_2">>],
   reverse |-> [route |-> Route, ends |-> <<"site_2", "site_1">>],
   foreign |-> [route |-> "another_route", ends |-> <<"site_1", "site_2">>],
   one |-> [route |-> Route, ends |-> <<"site_1">>],
   unknown |-> [route |-> Route, ends |-> <<"site_1", "unknown">>],
   twice |-> [route |-> Route, ends |-> <<"site_1", "site_1">>]]

\* A query reads canonical truth and changes none of it.
Query ==
  /\ record.schema = "topology"
  /\ \E q \in DOMAIN Asked :
       Resolve("route", q, NoSource, record, record,
               ValidRoute(record) /\ Eligible(record, Asked[q].route, Asked[q].ends),
               record, record)

RouteNext == ResolveClosure \/ Query
=============================================================================
