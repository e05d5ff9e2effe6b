--------------------------- MODULE AgentSelection ---------------------------
\* Bounded selection (bounded_agent_selection.py): an agent ranks two actions over what it
\* perceives and proposes a commitment, which the canonical layer alone creates.
EXTENDS CanonicalLedger

Remote == "secure_remote_capacity"
Local == "stabilize_local_capacity"
NoAction == "none"

SelectionRecord(open, hidden, value) ==
  [schema |-> "selection", clock |-> 0, hidden |-> hidden, value |-> value,
   route |-> [open |-> open, capacity |-> 1, leases |-> {}],
   transport |-> 1, transportUnit |-> "available", localUnit |-> "available",
   localCapacity |-> TRUE, active |-> NoAction, commitments |-> {}, disposition |-> "none"]

SelectionInit ==
  /\ plan = <<"select">>
  /\ \E open \in BOOLEAN, hidden \in {"H_alpha", "H_beta"}, value \in {7, 8} :
       record = SelectionRecord(open, hidden, value)
  /\ ledger = <<>>

\* _action_gates over project_perception, which leaves the hidden fact out.
Feasible(rec) ==
  {a \in {Remote, Local} :
     /\ rec.active = NoAction
     /\ a = Remote => /\ rec.route.open /\ rec.route.capacity >= 1
                      /\ rec.transport >= 1 /\ rec.transportUnit = "available"
     /\ a = Local => rec.localCapacity /\ rec.localUnit = "available"}

\* Opportunity value less risk less travel.
Score(rec, a) == IF a = Remote THEN rec.value - 1 - 2 ELSE 5 - 1 - 0

\* select_action: the highest score, and of equal scores the first action id.
Selected(rec) ==
  IF Feasible(rec) = {} THEN NoAction
  ELSE CHOOSE a \in Feasible(rec) : \A b \in Feasible(rec) \ {a} :
         \/ Score(rec, a) > Score(rec, b)
         \/ Score(rec, a) = Score(rec, b) /\ a = Remote

\* The reservations of an accepted commitment.
Reserve(rec, a) ==
  LET owned == [rec EXCEPT !.active = a, !.commitments = @ \cup {a}, !.disposition = "accepted"]
  IN IF a = Remote
     THEN [owned EXCEPT !.transport = 0, !.transportUnit = a,
                        !.route = [@ EXCEPT !.capacity = 0, !.leases = @ \cup {a}]]
     ELSE [owned EXCEPT !.localUnit = a, !.localCapacity = FALSE]

\* apply_selection_proposal: whatever is proposed, the selection is made again here and the
\* proposal must be that selection, over this very record. A rejection is recorded as well.
ApplySelection ==
  /\ record.schema = "selection"
  /\ \E p \in Proposals({Remote, Local, NoAction}, record) :
       Resolve("select", p.id, p.source, record, record,
         p.exact /\ p.source = record /\ p.id = Selected(record) /\ p.id # NoAction,
         Reserve(record, p.id),
         [record EXCEPT !.disposition = "rejected"])
=============================================================================
