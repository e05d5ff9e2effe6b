-------------------- MODULE ExternalEvidenceArbitration --------------------
(***************************************************************************)
(* Concurrent external evidence arbitration: evidence (Q) is admitted      *)
(* against the record it names, a sealed set of admitted members becomes   *)
(* one batch (BEXT) whatever the order they are presented in, and the      *)
(* batch is resolved in private working state up to one publication.       *)
(*                                                                         *)
(* The functions are pure; the program around them holds the record, the   *)
(* members it was given, and one call.  It is free here: it submits altered *)
(* evidence, presents any sequence, alters batches, injects the faults.    *)
(* A resolution is one action per step of its loop and per fault point.    *)
(* Operators named ...Mutated are definitions with a plausible mistake.    *)
(***************************************************************************)
EXTENDS Naturals, Sequences, FiniteSets, Functions

CONSTANTS Inputs, Rank,
          PresentationBound    \* members presented at once; a bound for TLC

VARIABLES
  head,      \* the canonical record the program holds
  members,   \* the members admission returned to it
  batch,     \* the batch and the member map construction returned to it
  map,
  call,      \* the resolution in progress
  answer     \* "" or the disposition the last call was rejected with

vars == <<head, members, batch, map, call, answer>>

\* What the record means to the law: who has the slot and what is spent.
Law == INSTANCE ExternalArbitrationLaw
         WITH owner <- head.owner,
              spent <- {head.inputs[k] : k \in DOMAIN head.inputs},
              ledger <- {head.ledger[k].input : k \in DOMAIN head.ledger}
None == Law!None
Unknown == "unknown"   \* an id of no row of the table
Fixtures == Law!Fixtures

ASSUME ArbitrationAssumption ==
  /\ Rank \in [Inputs -> Nat]
  /\ \A i, j \in Inputs : Rank[i] = Rank[j] => i = j
  /\ Inputs # {} /\ {None, Unknown} \cap Inputs = {}
  /\ PresentationBound \in Nat

-----------------------------------------------------------------------------
(* Records *)

\* The domain, the physical event and the owner of an input are its row of the
\* frozen domain table: the input id stands for them.
Genesis == [owner |-> None, inputs |-> <<>>, events |-> <<>>, ledger |-> <<>>]

\* The ledger entry of one adjudicated member.
Adjudicated(i, observed) ==
  [input |-> i, observed |-> observed,
   disposition |-> IF observed = None THEN "mutation_committed" ELSE "failed_gate"]

\* The input ids of S in canonical order (time, phase and priority are equal).
IsOrdering(s, S) ==
  /\ s \in Seq(S)
  /\ \A i \in S : \E k \in DOMAIN s : s[k] = i
  /\ \A j, k \in DOMAIN s : j < k => Rank[s[j]] < Rank[s[k]]

Orderings(S) == {s \in [1 .. Cardinality(S) -> S] : IsOrdering(s, S)}
Ordered(S) == CHOOSE s \in Orderings(S) : TRUE

\* A set of ids can be sorted.
ASSUME OrderingAssumption == \A S \in SUBSET Inputs : Orderings(S) # {}

\* The lawful successors, regenerated for exact comparison.
Successor(S) ==
  LET ids == Ordered(S) IN
  [owner |-> ids[1], inputs |-> ids, events |-> ids,
   ledger |-> [k \in DOMAIN ids |-> Adjudicated(ids[k], IF k = 1 THEN None ELSE ids[1])]]

Successors == {Successor(S) : S \in Fixtures}
IsRecord(r) == r = Genesis \/ r \in Successors

-----------------------------------------------------------------------------
(* Admission *)

\* Evidence: the ids and the record it names, and whether each group of its other
\* fields, its bytes and its two receipts are exactly the frozen ones.
Evidence == [input : Inputs \cup {Unknown}, event : Inputs \cup {Unknown},
             shape : BOOLEAN, digest : BOOLEAN, source : {"genesis", "other"},
             payload : {"genesis", "other"}, time : BOOLEAN, contract : BOOLEAN,
             bytes : BOOLEAN, receipts : BOOLEAN]

Exact(i) ==
  [input |-> i, event |-> i, shape |-> TRUE, digest |-> TRUE, source |-> "genesis",
   payload |-> "genesis", time |-> TRUE, contract |-> TRUE, bytes |-> TRUE,
   receipts |-> TRUE]

Gate(holds, reject) == [holds |-> holds, reject |-> reject]

Passes(gates) == \A k \in DOMAIN gates : gates[k].holds

\* The rejection of the first gate that fails.
Rejection(gates) ==
  LET failed == {k \in DOMAIN gates : ~gates[k].holds}
  IN gates[CHOOSE k \in failed : \A j \in failed : k <= j].reject

\* One test of the ids, of the pair of them.
AdmissionGatesMutated(record, q) ==
  <<Gate(IsRecord(record), "exact_canonical_record_required"),
    Gate(q.input \notin Range(record.inputs) \/ q.event \notin Range(record.events),
         "input_id_already_adjudicated"),
    Gate(record = Genesis, "source_record_mismatch")>>

\* admit_external_input_candidate, gate by gate.  Replay is looked at first.
AdmissionGates(record, q) ==
  <<Gate(IsRecord(record), "exact_canonical_record_required"),
    Gate(q.input \notin Range(record.inputs), "input_id_already_adjudicated"),
    Gate(q.event \notin Range(record.events), "physical_event_id_already_adjudicated"),
    Gate(record = Genesis, "source_record_mismatch"),
    Gate(q.input \in Inputs, "q_shape_mismatch"),
    Gate(q.shape, "q_shape_mismatch"),
    Gate(q.digest, "evidence_digest_mismatch"),
    Gate(q.source = "genesis", "source_record_mismatch"),
    Gate(q.payload = "genesis", "source_raw_payload_mismatch"),
    Gate(q.time, "occurrence_time_mismatch"),
    Gate(q.contract /\ q.event = q.input, "consequence_contract_mismatch"),
    Gate(record.owner = None, "shared_slot_unavailable_at_admission"),
    Gate(q.bytes, "q_shape_mismatch"),
    Gate(q.receipts, "detached_receipt_mismatch")>>

-----------------------------------------------------------------------------
(* Batches *)

\* An admitted member; exact: its other fields are those of its admission.
MemberValues == [input : Inputs, event : Inputs, exact : BOOLEAN]
AdmittedMember(i) == [input |-> i, event |-> i, exact |-> TRUE]

\* A fixture: the set of ids it requires, allowed or not (a fourth one, or an
\* allowed one with a key of the caller's).
FixtureValues == [ids : SUBSET Inputs, allowed : BOOLEAN]

Distinct(s) == \A j, k \in DOMAIN s : s[j] = s[k] => j = k
InputsOf(presented) == [k \in DOMAIN presented |-> presented[k].input]
EventsOf(presented) == [k \in DOMAIN presented |-> presented[k].event]

ConstructionGates(record, fixture, presented) ==
  <<Gate(record = Genesis, "exact_canonical_record_required"),
    Gate(fixture.allowed /\ fixture.ids \in Fixtures, "fixture_set_mismatch"),
    Gate(Distinct(InputsOf(presented)), "duplicate_input_id"),
    Gate(Distinct(EventsOf(presented)), "duplicate_physical_event_id"),
    Gate(/\ Range(InputsOf(presented)) = fixture.ids
         /\ Range(EventsOf(presented)) = fixture.ids, "fixture_set_mismatch"),
    Gate(\A k \in DOMAIN presented : presented[k] = AdmittedMember(presented[k].input),
         "member_source_mismatch")>>

\* A batch.  extra: a field the schema does not have.
NoBatch == [ids |-> <<>>, digest |-> {}, source |-> "other", extra |-> FALSE]

BatchOf(presented) ==
  [ids |-> Ordered(Range(InputsOf(presented))), digest |-> Range(presented),
   source |-> "genesis", extra |-> FALSE]

FaultPoints == {"after_qa_provisional_mutation", "after_qb_ordinary_gate_evaluation",
                "during_replay_barrier_construction", "during_batch_ledger_construction",
                "after_complete_r1_before_validation",
                "after_complete_r1_validation_before_publication"}

\* What resolve_external_batch tests before any working state exists.  given is the
\* map from input ids to members, as a set with one member for each id.
ResolutionGates(record, b, given, fault) ==
  LET ids == {m.input : m \in given} IN
  <<Gate(record = Genesis, "exact_canonical_record_required"),
    Gate(fault \in FaultPoints \cup {None}, "partial_execution_fault"),
    Gate(ids = Range(b.ids), "member_shape_mismatch"),
    Gate(b.source = "genesis", "provisional_identity_type_mismatch"),
    Gate(b.digest = given, "member_set_digest_mismatch"),
    Gate(b.ids = Ordered(ids) /\ ~b.extra, "batch_shape_mismatch"),
    Gate(\A m \in given : m = AdmittedMember(m.input), "member_shape_mismatch")>>

-----------------------------------------------------------------------------
(* The program *)

\* at: where the call is; next: the position in the batch; the rest is its private
\* working state.
Idle ==
  [at |-> "idle", next |-> 1, fault |-> None, owner |-> None, results |-> <<>>,
   inputs |-> <<>>, events |-> <<>>, ledger |-> <<>>]

Places == {"idle", "member", "barrier", "ledger", "validation", "publication"}

Outcomes == [input : Inputs, observed : Inputs \cup {None},
             disposition : {"mutation_committed", "failed_gate"}]

\* What a call is rejected with.
Dispositions ==
  {"exact_canonical_record_required", "input_id_already_adjudicated",
   "physical_event_id_already_adjudicated", "source_record_mismatch", "q_shape_mismatch",
   "evidence_digest_mismatch", "source_raw_payload_mismatch", "occurrence_time_mismatch",
   "consequence_contract_mismatch", "shared_slot_unavailable_at_admission",
   "detached_receipt_mismatch", "fixture_set_mismatch", "duplicate_input_id",
   "duplicate_physical_event_id", "member_source_mismatch", "partial_execution_fault",
   "member_shape_mismatch", "provisional_identity_type_mismatch",
   "member_set_digest_mismatch", "batch_shape_mismatch", "candidate_publication_invalid"}

Calls == [at : Places, next : Nat, fault : FaultPoints \cup {None, Unknown},
          owner : Inputs \cup {None}, results : Seq(Outcomes), inputs : Seq(Inputs),
          events : Seq(Inputs), ledger : Seq(Outcomes)]

\* An exception: the working state is garbage, nothing else changes.
Raise(disposition) ==
  /\ call' = Idle
  /\ answer' = disposition
  /\ UNCHANGED <<head, members, batch, map>>

TypeOK ==
  /\ members \subseteq {AdmittedMember(i) : i \in Inputs}
  /\ \A k \in DOMAIN batch.ids : batch.ids[k] \in Inputs
  /\ map \subseteq members
  /\ call \in Calls
  /\ answer \in Dispositions \cup {""}

Init ==
  /\ head = Genesis
  /\ members = {}
  /\ batch = NoBatch
  /\ map = {}
  /\ call = Idle
  /\ answer = ""

Admit(q) ==
  /\ call.at = "idle"
  /\ IF Passes(AdmissionGates(head, q))
     THEN /\ members' = members \cup {AdmittedMember(q.input)}
          /\ answer' = ""
          /\ UNCHANGED <<head, batch, map, call>>
     ELSE Raise(Rejection(AdmissionGates(head, q)))

Construct(fixture, presented) ==
  /\ call.at = "idle"
  /\ IF Passes(ConstructionGates(head, fixture, presented))
     THEN /\ batch' = BatchOf(presented)
          /\ map' = Range(presented)
          /\ answer' = ""
          /\ UNCHANGED <<head, members, call>>
     ELSE Raise(Rejection(ConstructionGates(head, fixture, presented)))

Begin(b, m, fault) ==
  /\ call.at = "idle"
  /\ IF Passes(ResolutionGates(head, b, m, fault))
     THEN /\ call' = [Idle EXCEPT !.at = "member", !.fault = fault]
          /\ UNCHANGED <<head, members, batch, map, answer>>
     ELSE Raise(Rejection(ResolutionGates(head, b, m, fault)))

-----------------------------------------------------------------------------
(* One resolution *)

Member == batch.ids[call.next]
IsFirst(i) == \A j \in Inputs : Rank[i] <= Rank[j]

\* The fault points inside the loop are those of input A, when it gets the slot, and
\* of input B, when it does not.
LoopFault(i, passed) ==
  \/ call.fault = "after_qa_provisional_mutation" /\ IsFirst(i) /\ passed
  \/ call.fault = "after_qb_ordinary_gate_evaluation" /\ ~IsFirst(i) /\ ~passed

Fault == Raise("partial_execution_fault")

\* A member is given the slot whoever has it.
EvaluateMutated ==
  /\ call.at = "member" /\ call.next <= Len(batch.ids)
  /\ IF LoopFault(Member, call.owner = None)
     THEN Fault
     ELSE /\ call' = [call EXCEPT !.next = @ + 1,
                                  !.owner = Member,
                                  !.results = Append(@, Adjudicated(Member, call.owner))]
          /\ UNCHANGED <<head, members, batch, map, answer>>

\* One member against the working state: the first finds the slot free, the others
\* fail the ordinary gate and are adjudicated all the same.
Evaluate ==
  /\ call.at = "member" /\ call.next <= Len(batch.ids)
  /\ IF LoopFault(Member, call.owner = None)
     THEN Fault
     ELSE /\ call' = [call EXCEPT !.next = @ + 1,
                                  !.owner = IF @ = None THEN Member ELSE @,
                                  !.results = Append(@, Adjudicated(Member, call.owner))]
          /\ UNCHANGED <<head, members, batch, map, answer>>

FaultOr(point, next) ==
  IF call.fault = point THEN Fault
  ELSE call' = next /\ UNCHANGED <<head, members, batch, map, answer>>

EndLoop ==
  /\ call.at = "member" /\ call.next > Len(batch.ids)
  /\ FaultOr("during_replay_barrier_construction", [call EXCEPT !.at = "barrier"])

\* Only the members that changed the state are spent.
BarrierMutated ==
  LET committed(r) == r.disposition = "mutation_committed"
      spent == SelectSeq(call.results, committed)
  IN /\ call.at = "barrier"
     /\ FaultOr("during_batch_ledger_construction",
                [call EXCEPT !.at = "ledger",
                             !.inputs = [k \in DOMAIN spent |-> spent[k].input],
                             !.events = [k \in DOMAIN spent |-> spent[k].input]])

\* Every member is spent, whatever its outcome.
Barrier ==
  LET ids == [k \in DOMAIN call.results |-> call.results[k].input]
  IN /\ call.at = "barrier"
     /\ FaultOr("during_batch_ledger_construction",
                [call EXCEPT !.at = "ledger", !.inputs = ids, !.events = ids])

Candidate == [owner |-> call.owner, inputs |-> call.inputs, events |-> call.events,
              ledger |-> call.ledger]

Ledger ==
  /\ call.at = "ledger"
  /\ FaultOr("after_complete_r1_before_validation",
             [call EXCEPT !.at = "validation", !.ledger = call.results])

\* _validate_candidate_successor: ancestry, boundary and members of the ledger.
Validate ==
  /\ call.at = "validation"
  /\ IF Candidate.ledger # call.results
     THEN Raise("candidate_publication_invalid")
     ELSE FaultOr("after_complete_r1_validation_before_publication",
                  [call EXCEPT !.at = "publication"])

\* The one place a successor leaves the resolver; its caller makes it the head.
Publish ==
  /\ call.at = "publication"
  /\ head' = Candidate
  /\ call' = Idle
  /\ UNCHANGED <<members, batch, map, answer>>

Resolve == Evaluate \/ EndLoop \/ Barrier \/ Ledger \/ Validate \/ Publish

-----------------------------------------------------------------------------
(* The inputs of the calls *)

\* Evidence with one alteration.
Submitted(i) ==
  LET q == Exact(i) IN
  {q} \cup {[q EXCEPT !.input = Unknown]} \cup {[q EXCEPT !.event = e] : e \in Inputs \cup {Unknown}}
    \cup {[q EXCEPT !.shape = FALSE], [q EXCEPT !.digest = FALSE],
          [q EXCEPT !.source = "other"], [q EXCEPT !.payload = "other"],
          [q EXCEPT !.time = FALSE], [q EXCEPT !.contract = FALSE],
          [q EXCEPT !.bytes = FALSE], [q EXCEPT !.receipts = FALSE]}

\* A member as it was admitted, or with an event or a field of the caller's.
Altered(m) == {m, [m EXCEPT !.exact = FALSE]} \cup {[m EXCEPT !.event = e] : e \in Inputs}

Presentations ==
  LET values == UNION {Altered(m) : m \in members} IN
  UNION {[1 .. n -> values] : n \in 0 .. PresentationBound}

FixtureChoices ==
  {[ids |-> S, allowed |-> TRUE] : S \in Fixtures} \cup {[ids |-> Inputs, allowed |-> FALSE]}

\* The batch as constructed, or altered in one field, with its map or another.
BatchChoices ==
  {batch, [batch EXCEPT !.source = "other"], [batch EXCEPT !.extra = TRUE],
   [batch EXCEPT !.digest = {}], [batch EXCEPT !.ids = [k \in DOMAIN @ |-> @[Len(@) + 1 - k]]]}
MapChoices ==
  {map} \cup {map \ {m} : m \in map}
    \cup {(map \ {m}) \cup {[m EXCEPT !.exact = FALSE]} : m \in map}

Next ==
  \/ \E i \in Inputs : \E q \in Submitted(i) : Admit(q)
  \/ \E f \in FixtureChoices, p \in Presentations : Construct(f, p)
  \/ \E b \in BatchChoices, m \in MapChoices, f \in FaultPoints \cup {None, Unknown} :
       Begin(b, m, f)
  \/ Resolve

Spec == Init /\ [][Next]_vars

-----------------------------------------------------------------------------
(* Properties *)

\* The record is the genesis or one of the successors regenerated from the frozen
\* inputs: the slot has the first owner of the set, its ledger one committed member
\* and the others as failed at the gate the winner closed (_stage).
PublishedIsLawful == IsRecord(head)

\* Every variable has its type, and whatever its outcome, adjudicated evidence is
\* spent: under any alteration it is rejected as a replay, by its input id or,
\* renamed, by its physical event.
EvidenceIsSpent ==
  TypeOK /\ \A k \in DOMAIN head.ledger :
    \A q \in Submitted(head.ledger[k].input) :
      /\ ~Passes(AdmissionGates(head, q))
      /\ Rejection(AdmissionGates(head, q)) =
           IF q.input = Unknown THEN "physical_event_id_already_adjudicated"
           ELSE "input_id_already_adjudicated"

\* Seen through the record alone, admission, construction, the working state, the
\* rejections and the faults are nothing: one set is adjudicated in one step.
ImplementsLaw == Law!Spec

=============================================================================
