----------------------- MODULE DeploymentOpportunity -----------------------
\* The crew's deployment (deployment_opportunity.py): one crew and one aircraft go to B, C or
\* D; where they are they may hand in one piece of physical evidence, and the city goes on.
EXTENDS CanonicalLedger, PoliceTraversal

Containment == "physical_contain_fire_B_deployment_0001"
Disruption == "physical_disrupt_seizure_C_deployment_0001"
ContractOf == [B |-> Containment, C |-> Disruption]
NotDeployed == "none"
Deploy == [B |-> "deploy B", C |-> "deploy C", D |-> "deploy D"]
Evidence == [B |-> "evidence B", C |-> "evidence C"]

DeploymentRecord ==
  [schema |-> "deployment", clock |-> 0,
   crew |-> "available", aircraft |-> "available", world |-> FALSE, deployment |-> NotDeployed,
   fire |-> [intensity |-> 4, contained |-> FALSE],
   routes |-> [AB |-> [open |-> TRUE, capacity |-> 1, leases |-> {}],
               BC |-> [open |-> TRUE, capacity |-> 2, leases |-> {}]],
   police |-> [location |-> "A", availability |-> "available", dispatch |-> "none"],
   dispatch |-> NoTraversal,
   C |-> [police |-> 0, owner |-> "contested", gang |-> 62, rival |-> 38, disrupted |-> FALSE],
   dispositions |-> {}]

\* run_branch(destination), and run_exclusivity_rejection: a second request at t0/01.
DeploymentPlan(destination) ==
  <<Deploy[destination]>>
  \o (IF destination = "B" THEN <<Evidence.B>> ELSE <<>>)
  \o <<"fire spreads", "enter AB">>
  \o (IF destination = "C" THEN <<Evidence.C>> ELSE <<>>)
  \o <<"exit AB", "enter BC", "arrive C", "seize">>

DeploymentInit ==
  /\ plan \in {DeploymentPlan(d) : d \in {"B", "C", "D"}} \cup {<<Deploy.B, Deploy.C>>}
  /\ record = DeploymentRecord
  /\ ledger = <<>>

OfDeployment == record.schema = "deployment"

\* accept_deployment: the driver's requests are bound to the record they are resolved on.
AcceptDeployment ==
  LET pre == AdvanceClock(record, IF ledger = <<>> THEN 0 ELSE 1)
  IN /\ OfDeployment
     /\ \E d \in {"B", "C", "D"} :
          Resolve(Deploy[d], Deploy[d], pre, pre, pre,
            pre.crew = "available" /\ pre.aircraft = "available" /\ pre.deployment = NotDeployed,
            [pre EXCEPT !.crew = "reserved", !.aircraft = "reserved", !.world = TRUE,
                        !.deployment = d],
            pre)

\* apply_physical_proposal at t0/05 in B or t0/25 in C: exact fields, exact source, unseen,
\* and an active deployment to that domain whose interaction is available from t0/05.
ApplyPhysicalEvidence ==
  /\ OfDeployment
  /\ \E domain \in {"B", "C"} :
       LET pre == AdvanceClock(record, IF domain = "B" THEN 5 ELSE 25)
           id == ContractOf[domain]
       IN /\ Due(Evidence[domain])
          /\ \E p \in Proposals({Containment, Disruption}, pre) :
               Resolve(Evidence[domain], p.id, p.source, pre, pre,
                 /\ p.exact /\ p.source = pre
                 /\ p.id = id /\ id \notin pre.dispositions
                 /\ pre.world /\ pre.deployment = domain /\ pre.clock >= 5,
                 [pre EXCEPT !.fire.contained = @ \/ domain = "B",
                             !.C.disrupted = @ \/ domain = "C",
                             !.dispositions = @ \cup {id}],
                 pre)

\* Mutant: the fire spreads whatever has been contained.
FireSpreadsMutated ==
  LET pre == AdvanceClock(record, 10)
  IN /\ OfDeployment
     /\ Autonomous("fire spreads", pre, pre.fire.intensity = 4,
          [pre EXCEPT !.fire.intensity = 5,
                      !.routes.AB = [@ EXCEPT !.open = FALSE, !.capacity = 0]],
          pre)

FireSpreads ==
  LET pre == AdvanceClock(record, 10)
  IN /\ OfDeployment
     /\ Autonomous("fire spreads", pre, pre.fire.intensity = 4 /\ ~pre.fire.contained,
          [pre EXCEPT !.fire.intensity = 5,
                      !.routes.AB = [@ EXCEPT !.open = FALSE, !.capacity = 0]],
          pre)

ResolvePoliceEntryAB ==
  LET pre == AdvanceClock(record, 20)
  IN /\ OfDeployment
     /\ Autonomous("enter AB", pre, MayEnterAB(pre), EnterAB(pre),
          [pre EXCEPT !.police.dispatch = "failed_gate"])

\* run_branch resolves the rest of the traversal only while the dispatch is active.
SkipTraversal ==
  /\ OfDeployment
  /\ \E step \in {"exit AB", "enter BC", "arrive C"} : Due(step)
  /\ record.dispatch.state # "active"
  /\ plan' = Tail(plan)
  /\ UNCHANGED <<record, ledger>>

ResolvePoliceExitAB ==
  LET pre == AdvanceClock(record, 75)
  IN /\ OfDeployment
     /\ record.dispatch.state = "active"
     /\ Autonomous("exit AB", pre,
          /\ On(pre, "AB") /\ Police \in pre.routes.AB.leases
          /\ pre.police.availability = "reserved",
          ExitAB(pre), pre)

\* A refused entry leaves the unit reserved at B: this kernel has no failure effect here.
ResolvePoliceEntryBC ==
  LET pre == AdvanceClock(record, 80)
  IN /\ OfDeployment
     /\ record.dispatch.state = "active"
     /\ Autonomous("enter BC", pre, MayEnter(pre, "BC") /\ pre.police.location = "B",
          EnterBC(pre), pre)

ResolvePoliceArrivalC ==
  LET pre == AdvanceClock(record, 135)
  IN /\ OfDeployment
     /\ record.dispatch.state = "active"
     /\ Autonomous("arrive C", pre, On(pre, "BC") /\ Police \in pre.routes.BC.leases,
          [ArriveC(pre) EXCEPT !.dispatch = [state |-> "success", segment |-> "none", at |-> "C"]],
          pre)

ResolveGangSeizure ==
  LET pre == AdvanceClock(record, 160)
  IN /\ OfDeployment
     /\ Autonomous("seize", pre,
          ~pre.C.disrupted /\ pre.C.police = 0 /\ pre.C.owner = "contested",
          [pre EXCEPT !.C = [@ EXCEPT !.owner = "gang", !.gang = 74, !.rival = 26]], pre)

DeploymentNext ==
  \/ AcceptDeployment \/ ApplyPhysicalEvidence \/ FireSpreads \/ ResolvePoliceEntryAB
  \/ SkipTraversal \/ ResolvePoliceExitAB \/ ResolvePoliceEntryBC \/ ResolvePoliceArrivalC
  \/ ResolveGangSeizure
=============================================================================
