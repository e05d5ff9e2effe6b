------------------------ MODULE CanonicalResolution ------------------------
(***************************************************************************)
(* The runtimes over a canonical record: each holds its own copy of the    *)
(* authority and a local representation that is inspected densely, jumped  *)
(* over, promoted and demoted.  Runtimes are forked from one another, and  *)
(* a caller may present any boundary it has kept to the resolver.          *)
(***************************************************************************)
EXTENDS CanonicalPayloads

CONSTANTS Runtimes,     \* the runtimes a run may have
          First,        \* the one that opens R0
          InputBound    \* inputs offered, a bound for TLC

ASSUME RuntimeAssumption == First \in Runtimes /\ InputBound \in Nat

VARIABLES
  payload,    \* the payload of this run
  inputs,     \* external_input_sequence, the same for every runtime
  runtime     \* per existing runtime its record, cursor, profile, display, marks

vars == <<payload, inputs, runtime>>

\* Every boundary that can be written down: what is or was due, of any record.
Boundaries ==
  [p \in Payloads |->
     LET items == UNION {s.schedule : s \in Stages[p]}
     IN {NoBoundary}
        \cup {Boundary(s, i.time, i.phase, {i.work}, FALSE) : s \in Stages[p], i \in items}
        \cup IF p # "external_input" THEN {}
             ELSE {Boundary(s, TimeQ, 0, {}, TRUE) : s \in Stages[p]}]

MinimalRuntime(record, cursor) ==
  [record |-> record, cursor |-> cursor, profile |-> "minimal", display |-> NoBoundary,
   marked |-> FALSE, tampered |-> FALSE]

Live == DOMAIN runtime

Init ==
  /\ payload \in Payloads
  /\ inputs \in UNION {[1..n -> Evidence] : n \in 0..InputBound}
  /\ payload # "external_input" => inputs = <<>>
  /\ runtime = [h \in {First} |-> MinimalRuntime(Genesis(payload), 0)]

\* minimal_runtime and every operation demand a valid record, and in the oldest
\* payload R0 itself.
Usable(record) == Valid(record) /\ (payload = "lod" => record = Genesis("lod"))

\* _require_clean_runtime
Clean(h) ==
  /\ Usable(runtime[h].record) /\ ~runtime[h].marked
  /\ CursorValid(runtime[h].record, inputs, runtime[h].cursor)

Updates(h, r) == runtime' = [runtime EXCEPT ![h] = r] /\ UNCHANGED <<payload, inputs>>
Opens(h, record, cursor) ==
  /\ h \notin Live
  /\ Usable(record) /\ CursorValid(record, inputs, cursor)
  /\ runtime' = [g \in Live \cup {h} |-> IF g = h THEN MinimalRuntime(record, cursor)
                                         ELSE runtime[g]]
  /\ UNCHANGED <<payload, inputs>>

-----------------------------------------------------------------------------
(* Local representation *)

DenseInspection(h) == Clean(h) /\ Updates(h, [runtime[h] EXCEPT !.profile = "dense"])

BoundaryJump(h) == Clean(h) /\ Updates(h, [runtime[h] EXCEPT !.profile = "boundary_jump"])

Promote(h) ==
  LET r == runtime[h] IN
  /\ Clean(h) /\ Executes(r.record, inputs, r.cursor)
  /\ Updates(h, [r EXCEPT !.profile = "promoted",
                          !.display = NextExecution(r.record, inputs, r.cursor)])

Demote(h) == Clean(h) /\ Updates(h, [runtime[h] EXCEPT !.profile = "demoted", !.display = NoBoundary])

-----------------------------------------------------------------------------
(* Authority *)

\* The boundary is the one the promotion displayed.
AdvanceMutated(h) ==
  LET r == runtime[h]
      boundary == IF r.display # NoBoundary THEN r.display
                  ELSE NextExecution(r.record, inputs, r.cursor)
      given == IF boundary.input /\ r.cursor < Len(inputs) THEN <<inputs[r.cursor + 1]>>
               ELSE <<>>
  IN /\ Clean(h) /\ Executes(r.record, inputs, r.cursor)
     /\ Resolves(r.record, boundary, given)
     /\ Updates(h, [r EXCEPT !.record = Resolved(@, boundary),
                             !.cursor = IF boundary.input THEN @ + 1 ELSE @])

\* advance_runtime, finish_at_next_boundary: the display is left as it was.
Advance(h) ==
  LET r == runtime[h]
      boundary == NextExecution(r.record, inputs, r.cursor)
      given == IF boundary.input THEN <<inputs[r.cursor + 1]>> ELSE <<>>
  IN /\ Clean(h) /\ Executes(r.record, inputs, r.cursor)
     /\ Resolves(r.record, boundary, given)
     /\ Updates(h, [r EXCEPT !.record = Resolved(@, boundary),
                             !.cursor = IF boundary.input THEN @ + 1 ELSE @])

\* A runtime is opened on the record of another, at any cursor (cursor_reset_witness).
Fork(h, g) == \E cursor \in 0..Len(inputs) : Opens(g, runtime[h].record, cursor)

\* A caller resolves a boundary it has kept, of whatever record, and opens the result.
Resume(h, g) ==
  \E boundary \in Boundaries[payload], given \in {<<>>} \cup {<<q>> : q \in Evidence} :
    /\ Resolves(runtime[h].record, boundary, given)
    /\ Opens(g, Resolved(runtime[h].record, boundary), 0)

\* A local representation tries to carry authority, or writes some (the adversaries
\* of runtime_fail_closed_results).  One of it per run, a bound.
Tamper(h) ==
  /\ \A g \in Live : ~runtime[g].tampered
  /\ \/ Updates(h, [runtime[h] EXCEPT !.marked = TRUE, !.tampered = TRUE])
     \/ Updates(h, [runtime[h] EXCEPT !.record.clock = (@ + 1) % 5, !.tampered = TRUE])

Next ==
  \E h \in Live :
    \/ DenseInspection(h) \/ BoundaryJump(h) \/ Promote(h) \/ Demote(h)
    \/ Advance(h) \/ Tamper(h)
    \/ \E g \in Runtimes : Fork(h, g) \/ Resume(h, g)

\* The coordinator of a runtime goes on to its next boundary.
Spec == Init /\ [][Next]_vars /\ \A h \in Runtimes : WF_vars(h \in Live /\ Advance(h))

-----------------------------------------------------------------------------
(* Properties *)

Authentic == {h \in Live : ~runtime[h].tampered}

\* There is one history: however two runtimes were inspected, jumped, promoted,
\* demoted, forked and resumed, and whatever another one tried, their ledgers agree
\* as far as both go, and equal ledgers mean equal records; only an input that one
\* has accepted and the other has not sets them apart (equivalence_oracle).
OneHistory ==
  \A h, g \in Authentic :
    LET r == runtime[h].record  s == runtime[g].record IN
    r.accepted = s.accepted /\ Len(r.ledger) <= Len(s.ledger) =>
      /\ r.ledger = SubSeq(s.ledger, 1, Len(r.ledger))
      /\ r.ledger = s.ledger => r = s

\* The ledger explains the record: each entry names the record that the entries
\* before it made, nothing that record had scheduled was due earlier, the gate was
\* judged by its state, and every commitment was resolved once or is still scheduled,
\* not before the clock (next_consequential_boundary, _transition).
LedgerExplains ==
  \A h \in Authentic :
    LET r == runtime[h].record
        resolved == {r.ledger[i].work : i \in DOMAIN r.ledger}
    IN /\ \A i \in DOMAIN r.ledger :
            LET e == r.ledger[i]  source == e.source[2] IN
            /\ source.ledger = SubSeq(r.ledger, 1, i - 1)
            /\ \A j \in source.schedule : ~Before(j, e)
            /\ e.work \in Works =>
                 e.passes = (IF payload = "chronological" /\ e.work # "z"
                             THEN source.slot = "available"
                             ELSE source.accepted = {})
       /\ Cardinality(resolved) = Len(r.ledger)
       /\ \A w \in Works :
            (r.outcome[w] = "pending") = (\E i \in r.schedule : i.work = w /\ i.time >= r.clock)
       /\ {w \in Works : r.outcome[w] \in {"succeeded", "failed_gate"}} = resolved \cap Works

\* A runtime comes to the end of its work whatever was displayed in it, unless it is
\* tampered with or is offered an input that cannot be admitted.
Admissible == \A i \in DOMAIN inputs : inputs[i] = "Q" \/ (i > 1 /\ inputs[i] = "bad_Q")
Settles ==
  \A h \in Runtimes :
    h \in Live /\ Admissible ~>
      h \in Live /\ (runtime[h].tampered \/ NextBoundary(runtime[h].record) = NoBoundary)

=============================================================================
