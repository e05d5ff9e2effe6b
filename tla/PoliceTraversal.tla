-------------------------- MODULE PoliceTraversal --------------------------
\* The police unit's traversal A -E_AB-> B -E_BC-> C, as kernel.py, contention.py and
\* deployment_opportunity.py all resolve it: an edge is entered on a capacity lease, which is
\* held until the unit leaves the edge. Effects only; each kernel adds its own gates.
EXTENDS Integers, FiniteSets

Police == "police_dispatch_C_t0"
NoTraversal == [state |-> "none", segment |-> "none", at |-> "A"]

\* New admission: the edge is open and has a free unit of capacity.
Admits(rec, edge) ==
  LET route == rec.routes[edge]
  IN route.open /\ Cardinality(route.leases) < route.capacity

MayEnterAB(rec) == rec.police.availability = "available" /\ Admits(rec, "AB")
MayEnter(rec, edge) == rec.dispatch.state = "active" /\ Admits(rec, edge)
On(rec, edge) == rec.dispatch.state = "active" /\ rec.dispatch.segment = edge

EnterAB(rec) ==
  [rec EXCEPT !.police.availability = "reserved",
              !.routes.AB.leases = @ \cup {Police},
              !.dispatch = [state |-> "active", segment |-> "AB", at |-> "A"]]

\* Mutant: the lease stays on the edge that is left.
ExitABMutated(rec) ==
  [rec EXCEPT !.police.location = "B",
              !.dispatch = [@ EXCEPT !.segment = "none", !.at = "B"]]

ExitAB(rec) ==
  [rec EXCEPT !.routes.AB.leases = @ \ {Police},
              !.police.location = "B",
              !.dispatch = [@ EXCEPT !.segment = "none", !.at = "B"]]

EnterBC(rec) ==
  [rec EXCEPT !.routes.BC.leases = @ \cup {Police},
              !.dispatch.segment = "BC"]

ArriveC(rec) ==
  [rec EXCEPT !.routes.BC.leases = @ \ {Police},
              !.police = [@ EXCEPT !.location = "C", !.availability = "deployed"],
              !.C.police = 1]
=============================================================================
