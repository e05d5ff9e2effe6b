------------------------- MODULE CanonicalPayloads -------------------------
(***************************************************************************)
(* The canonical records of the four frozen resolution payloads, the       *)
(* boundary each record is due for, and the one resolver of each:          *)
(* causal_lod_equivalence, record_relative_chronological_resolution,       *)
(* same_clock_successor_semantics and external_input_boundary.             *)
(*                                                                         *)
(* A record is its clock, its schedule, the states its gates read, the     *)
(* outcome of each commitment, the one resource it reserves, the inputs it *)
(* has accepted and its causal ledger.  A hash is an injective name of the *)
(* whole record.                                                           *)
(***************************************************************************)
EXTENDS Naturals, Sequences, FiniteSets

Payloads == {"lod", "chronological", "same_clock", "external_input"}
Works == {"alpha", "x", "y", "z"}

\* The decision times, in the order of their tokens: t0/00, t0/30, t1/00, t1/30, t2/00.
Times == 0..4
TimeQ == 1

Item(time, phase, work) == [time |-> time, phase |-> phase, work |-> work]

Hash(record) == <<"sha256", record>>
Unbound == <<>>

\* The schedule of R0.
FirstSchedule(p) ==
  CASE p = "lod" -> {Item(2, 0, "alpha")}
    [] p = "external_input" -> {Item(2, 0, "alpha")}
    [] p = "chronological" -> {Item(2, 0, "x"), Item(3, 0, "y"), Item(4, 0, "z")}
    [] p = "same_clock" -> {Item(2, 10, "x")}

Genesis(p) ==
  [payload |-> p, clock |-> 0, schedule |-> FirstSchedule(p),
   slot |-> "available", token |-> "enabled",
   unit |-> IF p = "same_clock" THEN "available" ELSE "reserved",
   outcome |-> [w \in Works |->
                  IF \E i \in FirstSchedule(p) : i.work = w THEN "pending" ELSE "absent"],
   accepted |-> {}, ledger |-> <<>>]

\* The gate of a commitment, as its record answers it now.  The two gates that no
\* transition of a payload touches always answer yes.
Passes(record, work) ==
  CASE record.payload = "chronological" /\ work \in {"x", "y"} -> record.slot = "available"
    [] record.payload = "external_input" -> record.token = "enabled"
    [] record.payload = "same_clock" /\ work = "x" -> record.unit = "available"
    [] OTHER -> TRUE

Before(i, j) == i.time < j.time \/ (i.time = j.time /\ i.phase < j.phase)

\* A boundary: the record it was discovered from, and what is due there.  The
\* boundary of the oldest payload does not name its record.
Boundary(record, time, phase, due, input) ==
  [source |-> IF record.payload = "lod" THEN Unbound ELSE Hash(record),
   time |-> time, phase |-> phase, due |-> due, input |-> input]
NoBoundary == [source |-> Unbound, time |-> 0, phase |-> 0, due |-> {}, input |-> FALSE]

\* The next one is the first of the schedule.
NextBoundaryMutated(record) ==
  LET candidates == {i \in record.schedule : i.time >= record.clock}
  IN IF candidates = {} THEN NoBoundary
     ELSE LET i == CHOOSE i \in candidates : \A j \in candidates : ~Before(i, j)
          IN Boundary(record, i.time, i.phase, {i.work}, FALSE)

\* next_consequential_boundary: all that is due at the earliest time and phase.
NextBoundary(record) ==
  LET candidates == {i \in record.schedule : i.time >= record.clock}
      first == CHOOSE i \in candidates : \A j \in candidates : ~Before(j, i)
      due == {i.work : i \in {j \in candidates : ~Before(first, j)}}
  IN IF candidates = {} THEN NoBoundary
     ELSE Boundary(record, first.time, first.phase, due, FALSE)

-----------------------------------------------------------------------------
(* Successors *)

Entry(record, work, time, phase, passes) ==
  [source |-> Hash(record), work |-> work, time |-> time, phase |-> phase, passes |-> passes]

\* _transition, _construct_alpha_successor, _expected_r1, _expected_r2
Settled(record, time, phase, work) ==
  LET passes == Passes(record, work)
      created == IF record.payload = "same_clock" /\ work = "x" THEN {Item(2, 20, "y")} ELSE {}
      outcome == [record.outcome EXCEPT ![work] = IF passes THEN "succeeded" ELSE "failed_gate"]
  IN [record EXCEPT
        !.clock = time,
        !.schedule = {i \in @ : i.work # work} \cup created,
        !.slot = IF record.payload = "chronological" /\ work \in {"x", "y"} /\ passes
                 THEN "allocated_to_x" ELSE @,
        !.unit = CASE record.payload = "same_clock" -> "consumed"
                   [] record.payload = "external_input" -> "available"
                   [] work \in {"alpha", "z"} /\ passes -> "available"
                   [] OTHER -> @,
        !.outcome = [w \in Works |-> IF \E i \in created : i.work = w THEN "pending"
                                     ELSE outcome[w]],
        !.ledger = Append(@, Entry(record, work, time, phase, passes))]

\* The input is not entered among the accepted ones.
InputSettledMutated(record) ==
  [record EXCEPT !.clock = TimeQ, !.token = "disabled",
                 !.ledger = Append(@, Entry(record, "Q", TimeQ, 0, TRUE))]

\* _construct_input_successor: the physical consequence disables the gate token.
InputSettled(record) ==
  [record EXCEPT !.clock = TimeQ, !.token = "disabled", !.accepted = {"Q"},
                 !.ledger = Append(@, Entry(record, "Q", TimeQ, 0, TRUE))]

\* The records a payload may hold: the frozen stages, by the times the code writes.
Stages ==
  [p \in Payloads |->
     LET R0 == Genesis(p)
         Rx == Settled(R0, 2, IF p = "same_clock" THEN 10 ELSE 0, "x")
         Ry == Settled(Rx, IF p = "same_clock" THEN 2 ELSE 3,
                       IF p = "same_clock" THEN 20 ELSE 0, "y")
     IN CASE p = "lod" -> {R0, Settled(R0, 2, 0, "alpha")}
          [] p = "external_input" ->
               {R0, InputSettled(R0), Settled(InputSettled(R0), 2, 0, "alpha"),
                Settled(R0, 2, 0, "alpha")}
          [] p = "same_clock" -> {R0, Rx, Ry}
          [] p = "chronological" -> {R0, Rx, Ry, Settled(Ry, 4, 0, "z")}]

\* validate_canonical_envelope: byte for byte one of the stages.
Valid(record) == record \in Stages[record.payload]

-----------------------------------------------------------------------------
(* External inputs: evidence Q, another form of it, and evidence of something else *)

Evidence == {"Q", "bad_Q", "foreign"}
InputId(q) == IF q = "foreign" THEN "foreign" ELSE "Q"
Accepted(record, q) == InputId(q) \in record.accepted

\* admit_external_input_candidate
Admits(record, q) == q = "Q" /\ record = Genesis("external_input")

\* _validate_replay_cursor
CursorValid(record, inputs, cursor) ==
  cursor <= Len(inputs) /\ \A i \in 1..cursor : Accepted(record, inputs[i])

Waiting(record, inputs, cursor) == cursor < Len(inputs) /\ ~Accepted(record, inputs[cursor + 1])

\* next_execution_boundary has an answer: an input that waits can be admitted.
Executes(record, inputs, cursor) ==
  CursorValid(record, inputs, cursor)
  /\ (Waiting(record, inputs, cursor) => Admits(record, inputs[cursor + 1]))

NextExecution(record, inputs, cursor) ==
  IF Waiting(record, inputs, cursor) THEN Boundary(record, TimeQ, 0, {}, TRUE)
  ELSE NextBoundary(record)

\* resolve_next_due, resolve_execution_boundary: whether the boundary is the one
\* this very record is due for, and what it is resolved to.
Resolves(record, boundary, inputs) ==
  /\ Valid(record)
  /\ record.payload = "lod" => record = Genesis("lod")
  /\ Executes(record, inputs, 0)
  /\ boundary = NextExecution(record, inputs, 0)
  /\ boundary # NoBoundary
  /\ ~boundary.input => inputs = <<>> /\ Cardinality(boundary.due) = 1
  /\ record.payload = "same_clock" /\ boundary.due = {"x"} => Passes(record, "x")

Resolved(record, boundary) ==
  IF boundary.input THEN InputSettled(record)
  ELSE Settled(record, boundary.time, boundary.phase, CHOOSE w \in boundary.due : TRUE)

=============================================================================
