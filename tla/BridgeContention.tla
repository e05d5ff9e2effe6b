-------------------------- MODULE BridgeContention --------------------------
\* The bridge contention (contention.py): a physical destruction of E_AB and the police entry
\* of E_AB are both bound to R0 and resolved one after the other on the working record, in the
\* order the case gives; the entered edge is then left at t1/15.
EXTENDS CanonicalLedger, PoliceTraversal

Destruction == "physical_destroy_E_AB_contention_0001"

ContentionRecord ==
  [schema |-> "contention", clock |-> 0,
   routes |-> [AB |-> [open |-> TRUE, capacity |-> 1, leases |-> {}, bridge |-> "intact"],
               BC |-> [open |-> TRUE, capacity |-> 2, leases |-> {}]],
   police |-> [location |-> "A", availability |-> "available", dispatch |-> "none"],
   dispatch |-> NoTraversal,
   dispositions |-> {}]

ContentionInit ==
  /\ plan \in {<<"destroy AB", "enter AB">>, <<"enter AB", "destroy AB", "exit AB">>}
  /\ record = ContentionRecord
  /\ ledger = <<>>

OfContention == record.schema = "contention"

\* physical_authorization_gates binds the proposal to the batch, never to the working record;
\* _physical_working_gates revalidates the bridge. The batch's own dispositions are R0's.
DestroyBridge ==
  /\ OfContention
  /\ \E p \in Proposals({Destruction}, ContentionRecord) :
       Resolve("destroy AB", p.id, p.source, ContentionRecord, record,
         /\ p.exact /\ p.source = ContentionRecord
         /\ p.id \notin ContentionRecord.dispositions
         /\ record.routes.AB.bridge = "intact" /\ record.routes.AB.open,
         [record EXCEPT !.routes.AB =
            [@ EXCEPT !.open = FALSE, !.capacity = 0, !.bridge = "destroyed"]],
         record)

\* make_police_entry_proposal is always bound to R0.
PoliceEntersBridge ==
  /\ OfContention
  /\ Resolve("enter AB", "enter AB", ContentionRecord, ContentionRecord, record,
       MayEnterAB(record), EnterAB(record),
       [record EXCEPT !.police = [location |-> "A", availability |-> "available",
                                  dispatch |-> "failed_gate"]])

\* A lease outlives the destruction of its edge: no gate of the exit reads the route's state.
\* run_case resolves the exit only after an accepted entry.
PoliceLeavesBridge ==
  LET pre == AdvanceClock(record, 15)
  IN /\ OfContention
     /\ Autonomous("exit AB", pre,
          /\ On(pre, "AB") /\ Police \in pre.routes.AB.leases
          /\ pre.police.availability = "reserved",
          ExitAB(pre), pre)
     /\ ledger[1].accepted

ContentionNext == DestroyBridge \/ PoliceEntersBridge \/ PoliceLeavesBridge
=============================================================================
