--------------------------- MODULE LiveCommitment ---------------------------
\* The crew's arrival into a live commitment (live_commitment.py): the gang prepares and
\* starts a claim on C while the crew travels; from t0/27 the crew may hand in evidence that
\* the relay is disabled, before or after the claim resolves at t0/40.
EXTENDS CanonicalLedger

Early == "physical_disable_claim_relay_C_live_0001"
Late == "physical_disable_claim_relay_C_live_0002"
ClaimStateOf(id) == IF id = Early THEN "active" ELSE "succeeded"
NoClaim == [state |-> "none", personnel |-> 0, supply |-> 0]

LiveRecord ==
  [schema |-> "live", clock |-> 0, world |-> FALSE,
   crew |-> "available", aircraft |-> "available", deployment |-> "none",
   gang |-> [available |-> 6, supply |-> 1],
   C |-> [intelligence |-> FALSE, personnel |-> 0, presence |-> 0, ingress |-> FALSE,
          perimeter |-> FALSE, relay |-> FALSE, resistance |-> 36,
          owner |-> "contested", gang |-> 64, rival |-> 36],
   claim |-> NoClaim,
   history |-> <<>>,
   dispositions |-> {}]

Prehistory ==
  <<"deploy", "survey", "marshal", "ingress", "perimeter", "relay", "claim", "arrival">>

\* run_branch(control, early, late), and an early evidence handed in twice.
LiveInit ==
  /\ plan \in {Prehistory \o rest :
                 rest \in {<<"resolve claim">>, <<"evidence", "resolve claim">>,
                           <<"resolve claim", "evidence">>,
                           <<"evidence", "evidence", "resolve claim">>}}
  /\ record = LiveRecord
  /\ ledger = <<>>

OfLive == record.schema = "live"

LiveDeployment ==
  /\ OfLive
  /\ Resolve("deploy", "deploy", record, record, record,
       record.crew = "available" /\ record.aircraft = "available" /\ record.deployment = "none",
       [record EXCEPT !.crew = "reserved", !.aircraft = "reserved", !.world = TRUE,
                      !.deployment = "active"],
       record)

\* _canonical_action with _history_effect: the area changes, and the step's name joins the
\* completed history. No gate reads the clock.
HistoryAction(step, t, gate, area) ==
  LET pre == AdvanceClock(record, t)
  IN /\ OfLive
     /\ Autonomous(step, pre, gate, [pre EXCEPT !.C = area, !.history = Append(@, step)], pre)

Survey ==
  HistoryAction("survey", 4, ~record.C.intelligence, [record.C EXCEPT !.intelligence = TRUE])

Marshal ==
  LET pre == AdvanceClock(record, 8)
  IN /\ OfLive
     /\ Autonomous("marshal", pre, pre.C.intelligence /\ pre.gang.available >= 6,
          [pre EXCEPT !.gang.available = @ - 6, !.C.personnel = 6,
                      !.history = Append(@, "marshal")],
          pre)

SecureIngress ==
  HistoryAction("ingress", 12, record.C.personnel >= 6 /\ ~record.C.ingress, [record.C EXCEPT !.ingress = TRUE])

EstablishPerimeter ==
  HistoryAction("perimeter", 16, record.C.ingress /\ ~record.C.perimeter, [record.C EXCEPT !.perimeter = TRUE])

ActivateRelay ==
  HistoryAction("relay", 20, record.C.perimeter /\ ~record.C.relay, [record.C EXCEPT !.relay = TRUE])

StartClaim ==
  LET pre == AdvanceClock(record, 21)
  IN /\ OfLive
     /\ Autonomous("claim", pre,
          /\ pre.C.relay /\ pre.C.perimeter /\ pre.C.ingress /\ pre.C.personnel >= 6
          /\ pre.gang.supply >= 1 /\ pre.claim = NoClaim,
          [pre EXCEPT !.gang.supply = @ - 1,
                      !.claim = [state |-> "active", personnel |-> 6, supply |-> 1]],
          pre)

\* Rarrival: the scheduler's clock advance alone, derived from the deployment.
PhysicalAccess(rec) == rec.world /\ rec.deployment = "active" /\ rec.clock >= 27

Arrive ==
  LET pre == AdvanceClock(record, 27)
  IN /\ OfLive
     /\ Autonomous("arrival", pre, TRUE, pre, pre)

\* Mutant: the source record of the evidence is not compared.
ApplyRelayEvidenceMutated ==
  /\ OfLive
  /\ Due("evidence")
  /\ \E p \in Proposals({Early, Late}, record) :
       Resolve("evidence", p.id, p.source, record, record,
         /\ p.exact /\ p.id \notin record.dispositions
         /\ PhysicalAccess(record)
         /\ record.claim.state = ClaimStateOf(p.id)
         /\ record.C.relay
         /\ p.id = Late => record.C.owner = "gang",
         [record EXCEPT !.C.relay = FALSE, !.dispositions = @ \cup {p.id}],
         record)

\* A physical proposal is a transaction of its own: it advances no clock.
ApplyRelayEvidence ==
  /\ OfLive
  /\ Due("evidence")
  /\ \E p \in Proposals({Early, Late}, record) :
       Resolve("evidence", p.id, p.source, record, record,
         /\ p.exact /\ p.source = record /\ p.id \notin record.dispositions
         /\ PhysicalAccess(record)
         /\ record.claim.state = ClaimStateOf(p.id)
         /\ record.C.relay
         /\ p.id = Late => record.C.owner = "gang",
         [record EXCEPT !.C.relay = FALSE, !.dispositions = @ \cup {p.id}],
         record)

\* The claim's terminal resolution: a refused claim releases what it reserved.
ResolveClaim ==
  LET pre == AdvanceClock(record, 40)
  IN /\ OfLive
     /\ Autonomous("resolve claim", pre,
          /\ pre.claim.state = "active" /\ pre.claim.personnel >= 6
          /\ pre.C.relay /\ pre.C.perimeter /\ pre.C.ingress
          /\ pre.C.resistance <= 36 /\ pre.C.owner = "contested",
          [pre EXCEPT !.C = [@ EXCEPT !.owner = "gang", !.gang = 72, !.rival = 28,
                                      !.presence = pre.claim.personnel],
                      !.claim.state = "succeeded"],
          [pre EXCEPT !.gang = [available |-> @.available + pre.claim.personnel,
                                supply |-> @.supply + pre.claim.supply],
                      !.C.personnel = 0,
                      !.claim.state = "failed"])

LiveNext ==
  \/ LiveDeployment \/ Survey \/ Marshal \/ SecureIngress \/ EstablishPerimeter \/ ActivateRelay
  \/ StartClaim \/ Arrive \/ ApplyRelayEvidence \/ ResolveClaim
=============================================================================
