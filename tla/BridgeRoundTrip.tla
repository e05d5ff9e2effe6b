-------------------------- MODULE BridgeRoundTrip --------------------------
\* The persistence round trip (roundtrip.py): proposals read from files are applied, one
\* command after the other, to the record the previous command wrote.
EXTENDS CanonicalLedger

BridgeRecord ==
  [schema |-> "round_trip", clock |-> 0, open |-> TRUE, capacity |-> 1, bridge |-> "intact",
   dispositions |-> {}]

RoundTripInit ==
  /\ plan = <<"apply", "apply">>
  /\ record = BridgeRecord
  /\ ledger = <<>>

\* The contract does not fix the proposal's id: any unseen one will do.
ApplyProposal ==
  /\ record.schema = "round_trip"
  /\ Due("apply")
  /\ \E p \in Proposals({"physical_destroy_E_AB_0001", "another_proposal"}, record) :
       Resolve("apply", p.id, p.source, record, record,
         /\ p.exact /\ p.source = record /\ p.id \notin record.dispositions
         /\ record.bridge = "intact" /\ record.open /\ record.capacity >= 1,
         [record EXCEPT !.open = FALSE, !.capacity = 0, !.bridge = "destroyed",
                        !.dispositions = @ \cup {p.id}],
         record)
=============================================================================
