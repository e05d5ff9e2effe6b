----------------------- MODULE CanonicalTransactions -----------------------
\* Every canonical kernel behind one record and one ledger: which scenario runs is fixed at
\* the start, what evidence and proposals it is handed is not.
EXTENDS AshCrossing, BridgeContention, DeploymentOpportunity, LiveCommitment,
        CommitmentInterference, AgentSelection, BridgeRoundTrip, OccupancyTransition, RouteClosure

Init ==
  \/ AshInit \/ ContentionInit \/ DeploymentInit \/ LiveInit
  \/ InterferenceInit \/ SelectionInit \/ RoundTripInit \/ TransitInit \/ RouteInit

Next ==
  \/ AshNext \/ ContentionNext \/ DeploymentNext \/ LiveNext
  \/ CommitOne \/ ApplySelection \/ ApplyProposal \/ ResolveNextDue \/ RouteNext

Spec == Init /\ [][Next]_canonVars

Entries == {ledger[i] : i \in DOMAIN ledger}
Accepted(id) == \E e \in Entries : e.id = id /\ e.accepted
Ended == plan = <<>>
Crosses(rec) == rec.schema \in {"ash_crossing", "contention", "deployment"}

\* The steps that adjudicate what an outsider hands in, and what they have accepted.
Adjudicated ==
  {e \in Entries : e.step \in {"destroy AB", "evidence", "select", "apply", Evidence.B, Evidence.C}}
Spent == {e \in Adjudicated : e.accepted}

-----------------------------------------------------------------------------
\* Nobody's means are lost or doubled, whatever fails on the way, and what is reserved is
\* reserved by a commitment that is still active (the terminal dispositions of every kernel).
AshAccounted ==
  LET during(state, n) == IF state = "active" THEN n ELSE 0
      spent(state) == IF state = "none" THEN 1 ELSE 0
  IN /\ record.gang.reserved = during(record.seizure, 5)
     /\ record.gang.available + record.gang.reserved = 6
     /\ record.gang.supply = spent(record.seizure)
     /\ record.rival.reserved = during(record.defense, 3)
     /\ record.rival.available + record.rival.reserved = 4
     /\ record.rival.supply = spent(record.defense)

LiveAccounted ==
  /\ record.gang.available + record.C.personnel = 6
  /\ record.C.presence = IF record.claim.state = "succeeded" THEN record.C.personnel ELSE 0
  /\ record.gang.supply = IF record.claim.state \in {"active", "succeeded"} THEN 0 ELSE 1
  /\ record.world <=> record.crew = "reserved"

SelectionAccounted ==
  /\ record.commitments = {record.active} \ {NoAction}
  /\ record.route.leases = record.commitments \cap {Remote}
  /\ record.transport + Cardinality(record.route.leases) = 1
  /\ record.localCapacity <=> record.active # Local
  /\ record.disposition = "accepted" <=> record.active # NoAction

ReservationAccounted ==
  /\ record.reservation = "reserved" <=> record.commitment = "active"
  /\ record.owner = Transition <=> record.reservation = "reserved"
  /\ record.owned = IF record.reservation = "reserved" THEN {"reservation"} ELSE {}

ResourcesAccounted ==
  /\ Crosses(record) => (record.police.availability = "reserved" <=> record.dispatch.state = "active")
  /\ OfAsh => AshAccounted
  /\ OfDeployment => /\ record.world <=> record.crew = "reserved"
                     /\ record.world <=> record.aircraft = "reserved"
                     /\ record.world <=> record.deployment # NotDeployed
  /\ OfLive => LiveAccounted
  /\ record.schema = "interference" => record.available + Cardinality(record.allocations) = 1
  /\ record.schema = "selection" => SelectionAccounted
  /\ record.schema = "occupancy" => ReservationAccounted

\* A lease is held exactly while its holder is on the edge, also on an edge that fire,
\* destruction or a closure has shut meanwhile, and the unit stands where its last edge led
\* (the route leases of kernel.py, contention.py and deployment_opportunity.py); a subject is
\* between two places exactly while the work that lets it arrive is due, and nothing that an
\* interrupted construction leaves behind would pass for a record (fault_atomicity_results).
LeasesFollowTraversal ==
  /\ Crosses(record) =>
       /\ \A edge \in {"AB", "BC"} : record.routes[edge].leases =
            IF record.dispatch.state = "active" /\ record.dispatch.segment = edge
            THEN {Police} ELSE {}
       /\ record.dispatch.state \in {"active", "failed"} =>
            record.police.location = record.dispatch.at
  /\ record.schema = "occupancy" =>
       /\ record.work = "complete" <=> record.place = "in_transition"
       /\ record.place # "origin" => record.access = "available"
       /\ record.work # "none" =>
            \A n \in 1..Len(Writes(record)) - 1 :
              ~ValidRow(Candidate(record, Writes(record), n))

\* Only causes decide how a scenario ends: C falls to the gang unless the police came or
\* accepted evidence stopped it, the police come unless a route was shut first, the fire shuts
\* E_AB unless accepted evidence contained it, and the second commitment finds nothing left; a subject arrives by the start
\* and the completion alone, and a closed route answers no query, whatever the order of its ends.
CausesDecideOutcome ==
  Ended =>
    /\ OfAsh => /\ record.C.police = 1 <=> ~Accepted("fire spread") /\ ~Accepted("close E_BC")
                /\ record.C.owner = "gang" <=> record.C.police = 0
                /\ record.C.gang = IF record.C.owner = "gang" THEN 74 ELSE 62
                /\ record.seizure # "active" /\ record.dispatch.state # "active"
    /\ OfContention => /\ record.dispatch.state = "active" <=>
                              ~(ledger[1].id = Destruction /\ ledger[1].accepted)
                       /\ record.routes.AB.open <=> ~Accepted(Destruction)
    /\ OfDeployment /\ Len(ledger) > 2 =>
         /\ record.C.police = 1 <=> Accepted(Containment)
         /\ record.C.owner = "gang" <=> ~Accepted(Containment) /\ ~Accepted(Disruption)
         /\ record.deployment = "D" => record.C.owner = "gang"
    /\ OfLive => /\ record.C.owner = "gang" <=> ~Accepted(Early)
                 /\ record.C.owner = "gang" <=> record.claim.state = "succeeded"
    /\ record.schema = "occupancy" =>
         /\ record.place = "destination" <=> Accepted("complete")
         /\ record.commitment = "failed" <=> Accepted("start") /\ record.access = "blocked"
    /\ record.schema = "topology" =>
         \A i, j \in DOMAIN ledger :
           /\ ledger[i].post.access = "blocked" /\ j > i => ~ledger[j].accepted
           /\ ledger[i].id = "forward" /\ ledger[j].id = "reverse" =>
                ledger[i].pre = ledger[j].pre <=> ledger[i].accepted = ledger[j].accepted
    /\ record.schema = "interference" =>
         \A i \in DOMAIN ledger : ledger[i].accepted <=> i = 1

\* A run spends at most one piece of evidence, made from the very record of its batch, however
\* often it or another one is handed in, and a refusal leaves no trace but its disposition
\* (the batch binding gates; "a rejected action acquires no resource and creates no commitment",
\* Bounded Agent Commitment Selection Proof - Draft.md:173-174).
EvidenceSpentOnce ==
  /\ Cardinality(Spent) <= 1
  /\ \A e \in Spent : e.source = e.batch /\ e.post # e.pre
  /\ \A e \in Adjudicated \ Spent :
       e.post = IF e.step = "select" THEN [e.pre EXCEPT !.disposition = "rejected"] ELSE e.pre
=============================================================================
