---------------------------- MODULE AshCrossing ----------------------------
\* The reference kernel (kernel.py): the fire, the police dispatch over E_AB and E_BC, the
\* seizure of C and its defense, in the order of run_scenario.
EXTENDS CanonicalLedger, PoliceTraversal

AshRecord ==
  [schema |-> "ash_crossing", clock |-> 0,
   fire |-> [intensity |-> 4, fuel |-> 1],
   routes |-> [AB |-> [open |-> TRUE, capacity |-> 1, leases |-> {}],
               BC |-> [open |-> TRUE, capacity |-> 2, leases |-> {}]],
   police |-> [location |-> "A", availability |-> "available", dispatch |-> "none"],
   dispatch |-> NoTraversal,
   gang |-> [available |-> 6, reserved |-> 0, supply |-> 1, equipment |-> 1, intelligence |-> 1],
   rival |-> [available |-> 4, reserved |-> 0, supply |-> 1],
   seizure |-> "none", defense |-> "none", front |-> FALSE,
   C |-> [police |-> 0, owner |-> "contested", gang |-> 62, rival |-> 38]]

\* run_scenario(include_fire, close_e_bc_at_t1): a snapshot opens each boundary.
AshPlan(fire, close) ==
  (IF fire THEN <<"fire spread">> ELSE <<>>)
  \o <<"dispatch", "defend", "begin seizure", "derive", "t1">>
  \o (IF close THEN <<"close E_BC">> ELSE <<>>)
  \o <<"exit AB", "enter BC", "t2", "arrive C", "complete seizure", "derive">>

AshInit ==
  /\ \E fire, close \in BOOLEAN : plan = AshPlan(fire, close)
  /\ record = AshRecord
  /\ ledger = <<>>

OfAsh == record.schema = "ash_crossing"

\* Kernel.snapshot sets the clock; the gates read the world, the snapshot is only observed.
Snapshot ==
  /\ OfAsh
  /\ \E t \in {1, 2} : /\ Due(<<"t1", "t2">>[t])
                       /\ record' = AdvanceClock(record, t)
  /\ plan' = Tail(plan)
  /\ UNCHANGED ledger

FireSpread ==
  /\ OfAsh
  /\ Autonomous("fire spread", record, TRUE,
       [record EXCEPT !.fire = [intensity |-> @.intensity + 1, fuel |-> @.fuel - 1],
                      !.routes.AB = [@ EXCEPT !.open = FALSE, !.capacity = 0]],
       record)

CloseBC ==
  /\ OfAsh
  /\ Autonomous("close E_BC", record, TRUE,
       [record EXCEPT !.routes.BC = [@ EXCEPT !.open = FALSE, !.capacity = 0]], record)

PoliceDispatch ==
  /\ OfAsh
  /\ Autonomous("dispatch", record, MayEnterAB(record), EnterAB(record),
       [record EXCEPT !.police = [@ EXCEPT !.availability = "available", !.dispatch = "failed_gate"]])

RivalDefend ==
  /\ OfAsh
  /\ Autonomous("defend", record, record.rival.available >= 3 /\ record.rival.supply >= 1,
       [record EXCEPT !.rival = [available |-> @.available - 3, reserved |-> @.reserved + 3,
                                 supply |-> @.supply - 1],
                      !.defense = "active"],
       record)

GangBeginSeize ==
  /\ OfAsh
  /\ Autonomous("begin seizure", record,
       /\ record.gang.available >= 5 /\ record.gang.equipment >= 1
       /\ record.gang.intelligence >= 1 /\ record.gang.supply >= 1
       /\ record.C.gang >= 60,
       [record EXCEPT !.gang = [@ EXCEPT !.available = @ - 5, !.reserved = @ + 5, !.supply = @ - 1],
                      !.seizure = "active"],
       record)

DerivedState ==
  /\ OfAsh
  /\ Autonomous("derive", record, record.C.gang >= 70 /\ record.C.police = 0,
       [record EXCEPT !.C.owner = "gang", !.front = TRUE], record)

\* police_progress_t1 and police_arrive_t2 return at once without an active dispatch.
NotTraversing ==
  /\ OfAsh
  /\ \E step \in {"exit AB", "enter BC", "arrive C"} : Due(step)
  /\ record.dispatch.state # "active"
  /\ plan' = Tail(plan)
  /\ UNCHANGED <<record, ledger>>

PoliceExitAB ==
  /\ OfAsh
  /\ record.dispatch.state = "active"
  /\ Autonomous("exit AB", record, On(record, "AB"), ExitAB(record), record)

\* Mutant: the failed entry ends the dispatch and forgets the unit.
PoliceEnterBCMutated ==
  /\ OfAsh
  /\ record.dispatch.state = "active"
  /\ Autonomous("enter BC", record, MayEnter(record, "BC"), EnterBC(record),
       [record EXCEPT !.routes.BC.leases = @ \ {Police},
                      !.dispatch = [state |-> "failed", segment |-> "none", at |-> "B"]])

\* The failed entry releases the unit at B and ends the dispatch.
PoliceEnterBC ==
  /\ OfAsh
  /\ record.dispatch.state = "active"
  /\ Autonomous("enter BC", record, MayEnter(record, "BC"), EnterBC(record),
       [record EXCEPT !.routes.BC.leases = @ \ {Police},
                      !.dispatch = [state |-> "failed", segment |-> "none", at |-> "B"],
                      !.police = [@ EXCEPT !.location = "B", !.availability = "available"]])

PoliceArrive ==
  /\ OfAsh
  /\ record.dispatch.state = "active"
  /\ Autonomous("arrive C", record, On(record, "BC"),
       [ArriveC(record) EXCEPT !.dispatch.state = "succeeded"], record)

\* Both outcomes of the seizure release both reservations; the supplies are spent.
GangCompleteSeize ==
  LET transfer == 14 - 2
      Ended(outcome) ==
        [record EXCEPT !.gang = [@ EXCEPT !.available = @ + record.gang.reserved, !.reserved = 0],
                       !.rival = [@ EXCEPT !.available = @ + record.rival.reserved, !.reserved = 0],
                       !.seizure = outcome, !.defense = "expired"]
  IN /\ OfAsh
     /\ Autonomous("complete seizure", record, record.seizure = "active" /\ record.C.police = 0,
          [Ended("succeeded") EXCEPT !.C = [@ EXCEPT !.gang = @ + transfer, !.rival = @ - transfer]],
          Ended("failed"))

AshNext ==
  \/ Snapshot \/ FireSpread \/ CloseBC \/ PoliceDispatch \/ RivalDefend \/ GangBeginSeize
  \/ DerivedState \/ NotTraversing \/ PoliceExitAB \/ PoliceEnterBC \/ PoliceArrive
  \/ GangCompleteSeize
=============================================================================
