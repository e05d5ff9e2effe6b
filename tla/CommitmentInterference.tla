----------------------- MODULE CommitmentInterference -----------------------
\* Two independent commitments over one shared unit (shared_state_interference.py), resolved
\* in the order of a queue that the fixture gives.
EXTENDS CanonicalLedger

Commitments == {"X", "Y"}
CommitStep == [X |-> "commit X", Y |-> "commit Y"]

SharedRecord(scheduled) ==
  [schema |-> "interference", clock |-> 0,
   available |-> 1, allocations |-> {},
   commitments |-> [c \in Commitments |-> IF c \in scheduled THEN "due" ELSE "not_scheduled"],
   dispositions |-> {}]

\* run_fixture: the queue holds each scheduled commitment exactly once.
InterferenceInit ==
  /\ \E queue \in {<<"X">>, <<"Y">>, <<"X", "Y">>, <<"Y", "X">>} :
       /\ plan = [i \in DOMAIN queue |-> CommitStep[queue[i]]]
       /\ record = SharedRecord({queue[i] : i \in DOMAIN queue})
  /\ ledger = <<>>

\* _commit_one: every commitment of the batch is bound to R0 and revalidated on the working
\* record; whoever comes second finds no unit.
CommitOne ==
  /\ record.schema = "interference"
  /\ \E c \in Commitments :
       LET r0 == IF ledger = <<>> THEN record ELSE ledger[1].batch
           Terminal(outcome) == [record EXCEPT !.commitments[c] = outcome,
                                               !.dispositions = @ \cup {c}]
       IN Resolve(CommitStep[c], c, r0, r0, record,
            record.commitments[c] = "due" /\ record.available >= 1,
            [Terminal("succeeded") EXCEPT !.available = @ - 1, !.allocations = @ \cup {c}],
            Terminal("failed"))
=============================================================================
