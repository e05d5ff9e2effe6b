----------------- MODULE ExternalEvidenceArbitration_proofs -----------------
(***************************************************************************)
(* For every set of inputs and every canonical order of them: the record   *)
(* published is lawful, published once and as a whole, and the arbitration *)
(* implements its law.                                                     *)
(***************************************************************************)
EXTENDS ExternalEvidenceArbitration, TLAPS

\* A batch is the canonical order of a fixture, and its map the members of it.
BatchInv ==
  \/ batch = NoBatch /\ map = {}
  \/ \E S \in Fixtures : /\ batch.ids = Ordered(S)
                         /\ map = {AdmittedMember(i) : i \in S}
                         /\ batch.source = "genesis"

Working == call.at # "idle"

\* What the working state has become at each place of a resolution.
CallInv ==
  Working =>
    /\ head = Genesis
    /\ batch.source = "genesis"
    /\ call.next \in 1 .. Len(batch.ids) + 1
    /\ call.owner = IF call.next = 1 THEN None ELSE batch.ids[1]
    /\ call.results = [k \in 1 .. call.next - 1 |->
                         Adjudicated(batch.ids[k], IF k = 1 THEN None ELSE batch.ids[1])]
    /\ call.at # "member" => call.next = Len(batch.ids) + 1
    /\ call.at \in {"ledger", "validation", "publication"} =>
         call.inputs = batch.ids /\ call.events = batch.ids
    /\ call.at \in {"validation", "publication"} => call.ledger = call.results

\* The lawful successor of the batch in progress is what its working state ends in.
IInv == BatchInv /\ CallInv /\ call \in Calls

-----------------------------------------------------------------------------
(* Ordering *)

LEMMA OrderedIsOrdering ==
  ASSUME NEW S \in SUBSET Inputs
  PROVE  IsOrdering(Ordered(S), S)
  BY OrderingAssumption DEF Ordered, Orderings

LEMMA FixturesAreInputs ==
  ASSUME NEW S \in Fixtures
  PROVE  S \in SUBSET Inputs /\ S # {}
  BY ArbitrationAssumption DEF Fixtures, Law!Fixtures

LEMMA OrderedFirst ==
  ASSUME NEW S \in Fixtures
  PROVE  /\ Ordered(S) \in Seq(S)
         /\ Len(Ordered(S)) \in Nat \ {0}
         /\ {Ordered(S)[k] : k \in DOMAIN Ordered(S)} = S
         /\ Ordered(S)[1] = Law!First(S)
<1> DEFINE s == Ordered(S)
<1>1. S \in SUBSET Inputs /\ S # {}
  BY FixturesAreInputs
<1>2. IsOrdering(s, S)
  BY <1>1, OrderedIsOrdering
<1>3. s \in Seq(S) /\ Len(s) \in Nat \ {0} /\ DOMAIN s = 1 .. Len(s)
  BY <1>1, <1>2 DEF IsOrdering
<1>4. {s[k] : k \in DOMAIN s} = S
  BY <1>2, <1>3 DEF IsOrdering
<1>5. s[1] \in S /\ \A j \in S : Rank[s[1]] <= Rank[j]
  <2>1. s[1] \in S
    BY <1>3
  <2>2. SUFFICES ASSUME NEW j \in S PROVE Rank[s[1]] <= Rank[j]
    BY <2>1
  <2>3. PICK k \in DOMAIN s : s[k] = j
    BY <1>2 DEF IsOrdering
  <2>4. CASE k = 1
    BY <2>1, <2>3, <2>4, <1>1, ArbitrationAssumption
  <2>5. CASE k # 1
    <3>1. Rank[s[1]] < Rank[s[k]]
      BY <2>5, <1>2, <1>3 DEF IsOrdering
    <3>2. Rank[s[1]] \in Nat /\ Rank[s[k]] \in Nat
      BY <2>1, <2>3, <1>1, ArbitrationAssumption
    <3>3. QED
      BY <3>1, <3>2, <2>3
  <2>6. QED
    BY <2>4, <2>5
<1>6. s[1] = Law!First(S)
  <2>1. \A i, j \in S : (\A k \in S : Rank[i] <= Rank[k]) /\ (\A k \in S : Rank[j] <= Rank[k])
                          => i = j
    BY <1>1, ArbitrationAssumption
  <2>2. QED
    BY <2>1, <1>5 DEF Law!First
<1>7. QED
  BY <1>3, <1>4, <1>6

-----------------------------------------------------------------------------
(* The gates *)

\* A resolution that begins does so on the genesis and on a constructed batch.
LEMMA ResolutionPasses ==
  ASSUME NEW record, NEW b, NEW given, NEW fault,
         Passes(ResolutionGates(record, b, given, fault))
  PROVE  record = Genesis /\ b.source = "genesis"
<1> DEFINE gates == ResolutionGates(record, b, given, fault)
<1>1. DOMAIN gates = 1 .. 7
  BY DEF ResolutionGates
<1>2. gates[1].holds /\ gates[4].holds
  BY <1>1 DEF Passes
<1>3. gates[1].holds = (record = Genesis) /\ gates[4].holds = (b.source = "genesis")
  BY DEF ResolutionGates, Gate
<1>4. QED
  BY <1>2, <1>3

LEMMA ConstructionPasses ==
  ASSUME NEW record, NEW fixture, NEW presented,
         Passes(ConstructionGates(record, fixture, presented))
  PROVE  /\ fixture.ids \in Fixtures
         /\ Range(InputsOf(presented)) = fixture.ids
         /\ \A k \in DOMAIN presented : presented[k] = AdmittedMember(presented[k].input)
<1> DEFINE gates == ConstructionGates(record, fixture, presented)
<1>1. DOMAIN gates = 1 .. 6
  BY DEF ConstructionGates
<1>2. gates[2].holds /\ gates[5].holds /\ gates[6].holds
  BY <1>1 DEF Passes
<1>3. /\ gates[2].holds = (fixture.allowed /\ fixture.ids \in Fixtures)
      /\ gates[5].holds = (/\ Range(InputsOf(presented)) = fixture.ids
                           /\ Range(EventsOf(presented)) = fixture.ids)
      /\ gates[6].holds = (\A k \in DOMAIN presented :
                             presented[k] = AdmittedMember(presented[k].input))
  BY DEF ConstructionGates, Gate
<1>4. QED
  BY <1>2, <1>3

-----------------------------------------------------------------------------
(* The invariant *)

LEMMA IdleCall ==
  /\ Idle \in Calls /\ Idle.at = "idle"
  /\ \A f \in FaultPoints \cup {None, Unknown} :
       LET begun == [Idle EXCEPT !.at = "member", !.fault = f] IN
       /\ begun \in Calls /\ begun.at = "member" /\ begun.next = 1
       /\ begun.owner = None /\ begun.results = <<>>
<1>1. \A S : <<>> \in Seq(S)
  OBVIOUS
<1>2. Idle \in Calls /\ Idle.at = "idle"
  BY <1>1 DEF Idle, Calls, Places
<1>3. Idle.next = 1 /\ Idle.owner = None /\ Idle.results = <<>>
  BY DEF Idle
<1>4. ASSUME NEW f \in FaultPoints \cup {None, Unknown}
      PROVE  LET begun == [Idle EXCEPT !.at = "member", !.fault = f] IN
             /\ begun \in Calls /\ begun.at = "member" /\ begun.next = 1
             /\ begun.owner = None /\ begun.results = <<>>
  BY <1>2, <1>3 DEF Calls, Places
<1>5. QED
  BY <1>2, <1>4

LEMMA InitIInv == Init => IInv
  BY IdleCall DEF Init, IInv, BatchInv, CallInv, Working

LEMMA RaiseIInv == IInv /\ (\E d : Raise(d)) => IInv'
  BY IdleCall DEF IInv, BatchInv, CallInv, Working, Raise

\* A constructed batch is not empty.
LEMMA BatchNotEmpty ==
  ASSUME BatchInv, batch.source = "genesis"
  PROVE  \E S \in Fixtures : /\ batch.ids = Ordered(S)
                             /\ map = {AdmittedMember(i) : i \in S}
                             /\ batch.ids \in Seq(S)
                             /\ Len(batch.ids) \in Nat \ {0}
                             /\ {batch.ids[k] : k \in DOMAIN batch.ids} = S
                             /\ batch.ids[1] = Law!First(S)
                             /\ S \subseteq Inputs
<1>1. PICK S \in Fixtures : batch.ids = Ordered(S) /\ map = {AdmittedMember(i) : i \in S}
  BY DEF BatchInv, NoBatch
<1>2. QED
  BY <1>1, OrderedFirst, FixturesAreInputs

LEMMA FaultOrIInv ==
  ASSUME IInv, NEW point, NEW next, FaultOr(point, next),
         ~Raise("partial_execution_fault")
  PROVE  call' = next /\ UNCHANGED <<head, members, batch, map>>
  BY DEF FaultOr, Fault

LEMMA NextIInv == IInv /\ [Next]_vars => IInv'
<1> SUFFICES ASSUME IInv, [Next]_vars PROVE IInv'
  OBVIOUS
<1>1. CASE \E d : Raise(d)
  BY <1>1, RaiseIInv
<1> SUFFICES ASSUME ~\E d : Raise(d) PROVE IInv'
  BY <1>1
<1>2. CASE \E i \in Inputs : \E q \in Submitted(i) : Admit(q)
  BY <1>2 DEF Admit, IInv, BatchInv, CallInv, Working
<1>3. ASSUME NEW f \in FixtureChoices, NEW p \in Presentations, Construct(f, p)
      PROVE  IInv'
  <2>1. /\ Passes(ConstructionGates(head, f, p))
        /\ batch' = BatchOf(p) /\ map' = Range(p) /\ UNCHANGED <<head, call>>
    BY <1>3 DEF Construct
  <2>2. /\ f.ids \in Fixtures
        /\ Range(InputsOf(p)) = f.ids
        /\ \A k \in DOMAIN p : p[k] = AdmittedMember(p[k].input)
    BY <2>1, ConstructionPasses
  <2>3. batch'.ids = Ordered(f.ids) /\ batch'.source = "genesis"
    BY <2>1, <2>2 DEF BatchOf
  <2>4. map' = {AdmittedMember(i) : i \in f.ids}
    <3>1. map' = {p[k] : k \in DOMAIN p}
      BY <2>1 DEF Range
    <3>2. f.ids = {p[k].input : k \in DOMAIN p}
      BY <2>2 DEF Range, InputsOf
    <3>3. QED
      BY <3>1, <3>2, <2>2
  <2>5. BatchInv'
    BY <2>2, <2>3, <2>4 DEF BatchInv
  <2>6. QED
    BY <2>1, <2>5, <1>3 DEF IInv, CallInv, Working, Construct
<1>4. ASSUME NEW b \in BatchChoices, NEW m \in MapChoices,
             NEW f \in FaultPoints \cup {None, Unknown}, Begin(b, m, f)
      PROVE  IInv'
  <2>1. /\ Passes(ResolutionGates(head, b, m, f))
        /\ call' = [Idle EXCEPT !.at = "member", !.fault = f]
        /\ UNCHANGED <<head, members, batch, map>>
    BY <1>4 DEF Begin
  <2>2. head = Genesis /\ b.source = "genesis"
    BY <2>1, ResolutionPasses
  <2>3. batch.source = "genesis"
    BY <2>2 DEF BatchChoices, BatchInv, IInv, NoBatch
  <2>4. Len(batch.ids) \in Nat
    BY <2>3, BatchNotEmpty DEF IInv
  <2>5. CallInv'
    <3>1. /\ call'.at = "member" /\ call'.next = 1
          /\ call'.owner = None /\ call'.results = <<>>
      BY <2>1, IdleCall
    <3>2. call'.results = [k \in 1 .. call'.next - 1 |->
                            Adjudicated(batch.ids[k], IF k = 1 THEN None ELSE batch.ids[1])]
      BY <3>1
    <3>3. QED
      BY <2>1, <2>2, <2>3, <2>4, <3>1, <3>2 DEF CallInv, Working
  <2>6. QED
    BY <2>1, <2>5, IdleCall DEF IInv, BatchInv
<1>5. CASE Evaluate
  <2> DEFINE observed == call.owner
             next == call.next
             owner == IF observed = None THEN Member ELSE observed
             results == Append(call.results, Adjudicated(Member, observed))
  <2>1. /\ call.at = "member" /\ next <= Len(batch.ids)
        /\ call' = [call EXCEPT !.next = next + 1, !.owner = owner, !.results = results]
        /\ UNCHANGED <<head, members, batch, map>>
    BY <1>5 DEF Evaluate, Fault
  <2>2. CallInv /\ Working /\ call \in Calls /\ BatchInv
    BY <2>1 DEF IInv, Working
  <2>3. PICK S \in Fixtures : /\ batch.ids \in Seq(S) /\ S \subseteq Inputs
                              /\ Len(batch.ids) \in Nat \ {0}
    BY <2>2, BatchNotEmpty DEF CallInv
  <2>4. batch.ids[1] \in Inputs /\ batch.ids[1] # None
    BY <2>3, ArbitrationAssumption
  <2>5. next \in 1 .. Len(batch.ids) /\ Member \in Inputs
    BY <2>1, <2>2, <2>3 DEF CallInv, Member
  <2>6. owner = batch.ids[1] /\ observed \in Inputs \cup {None}
        /\ observed = IF next = 1 THEN None ELSE batch.ids[1]
    BY <2>2, <2>4 DEF CallInv, Member
  <2>7. Adjudicated(Member, observed) \in Outcomes
    BY <2>5, <2>6 DEF Adjudicated, Outcomes
  <2>8. call.results \in Seq(Outcomes) /\ Len(call.results) = next - 1
    <3>1. call.results \in Seq(Outcomes)
      BY <2>2 DEF Calls
    <3>2. DOMAIN call.results = 1 .. next - 1
      BY <2>2 DEF CallInv
    <3>3. QED
      BY <3>1, <3>2, <2>5, <2>3
  <2>9. results = [k \in 1 .. next |->
                     Adjudicated(batch.ids[k], IF k = 1 THEN None ELSE batch.ids[1])]
    <3>1. results \in Seq(Outcomes) /\ Len(results) = next
      BY <2>5, <2>7, <2>8
    <3>2. ASSUME NEW k \in 1 .. next
          PROVE  results[k] = Adjudicated(batch.ids[k], IF k = 1 THEN None ELSE batch.ids[1])
      <4>1. CASE k = next
        BY <4>1, <2>5, <2>6, <2>7, <2>8 DEF Member
      <4>2. CASE k # next
        <5>1. results[k] = call.results[k] /\ k \in 1 .. next - 1
          BY <4>2, <3>2, <2>5, <2>7, <2>8
        <5>2. QED
          BY <5>1, <2>2 DEF CallInv
      <4>3. QED
        BY <4>1, <4>2
    <3>3. QED
      BY <3>1, <3>2, <2>5
  <2>10. call' \in Calls /\ call'.at = "member" /\ call'.next = next + 1
         /\ call'.owner = owner /\ call'.results = results
    <3>1. owner \in Inputs \cup {None} /\ results \in Seq(Outcomes) /\ next + 1 \in Nat
      BY <2>3, <2>4, <2>5, <2>6, <2>7, <2>8
    <3>2. QED
      BY <2>1, <2>2, <3>1 DEF Calls
  <2>11. CallInv'
    BY <2>1, <2>2, <2>3, <2>5, <2>6, <2>9, <2>10 DEF CallInv, Working
  <2>12. QED
    BY <2>1, <2>2, <2>10, <2>11 DEF IInv, BatchInv
<1>6. CASE EndLoop \/ Barrier \/ Ledger \/ Validate
  <2>1. CallInv /\ Working /\ call \in Calls /\ BatchInv
    BY <1>6 DEF IInv, Working, EndLoop, Barrier, Ledger, Validate
  <2>2. Len(batch.ids) \in Nat
    BY <2>1, BatchNotEmpty DEF CallInv
  <2>3. CASE EndLoop
    <3>1. call.at = "member" /\ call.next = Len(batch.ids) + 1
          /\ call' = [call EXCEPT !.at = "barrier"]
          /\ UNCHANGED <<head, members, batch, map>>
      BY <2>1, <2>2, <2>3 DEF EndLoop, FaultOr, Fault, CallInv
    <3>2. call' \in Calls /\ CallInv'
      BY <2>1, <2>2, <3>1 DEF CallInv, Working, Calls, Places
    <3>3. QED
      BY <2>1, <3>1, <3>2 DEF IInv, BatchInv
  <2>4. CASE Barrier
    <3> DEFINE ids == [k \in DOMAIN call.results |-> call.results[k].input]
    <3>1. /\ call.at = "barrier"
          /\ call' = [call EXCEPT !.at = "ledger", !.inputs = ids, !.events = ids]
          /\ UNCHANGED <<head, members, batch, map>>
      BY <2>4 DEF Barrier, FaultOr, Fault
    <3>2. PICK S \in Fixtures : batch.ids \in Seq(S) /\ S \subseteq Inputs
      BY <2>1, BatchNotEmpty DEF CallInv
    <3>3. ids = batch.ids
      <4>1. call.next = Len(batch.ids) + 1 /\ DOMAIN call.results = 1 .. Len(batch.ids)
        BY <2>1, <2>2, <3>1 DEF CallInv
      <4>2. \A k \in 1 .. Len(batch.ids) : call.results[k].input = batch.ids[k]
        BY <2>1, <2>2, <4>1 DEF CallInv, Adjudicated
      <4>3. QED
        BY <3>2, <4>1, <4>2
    <3>4. batch.ids \in Seq(Inputs)
      BY <3>2
    <3>5. call' \in Calls /\ CallInv'
      BY <2>1, <2>2, <3>1, <3>3, <3>4 DEF CallInv, Working, Calls, Places
    <3>6. QED
      BY <2>1, <3>1, <3>5 DEF IInv, BatchInv
  <2>5. CASE Ledger
    <3>1. /\ call.at = "ledger"
          /\ call' = [call EXCEPT !.at = "validation", !.ledger = call.results]
          /\ UNCHANGED <<head, members, batch, map>>
      BY <2>5 DEF Ledger, FaultOr, Fault
    <3>2. call' \in Calls /\ CallInv'
      BY <2>1, <2>2, <3>1 DEF CallInv, Working, Calls, Places
    <3>3. QED
      BY <2>1, <3>1, <3>2 DEF IInv, BatchInv
  <2>6. CASE Validate
    <3>1. /\ call.at = "validation"
          /\ call' = [call EXCEPT !.at = "publication"]
          /\ UNCHANGED <<head, members, batch, map>>
      BY <2>6 DEF Validate, FaultOr, Fault
    <3>2. call' \in Calls /\ CallInv'
      BY <2>1, <2>2, <3>1 DEF CallInv, Working, Calls, Places
    <3>3. QED
      BY <2>1, <3>1, <3>2 DEF IInv, BatchInv
  <2>7. QED
    BY <1>6, <2>3, <2>4, <2>5, <2>6
<1>7. CASE Publish
  BY <1>7, IdleCall DEF Publish, IInv, BatchInv, CallInv, Working
<1>8. CASE UNCHANGED vars
  BY <1>8 DEF vars, IInv, BatchInv, CallInv, Working
<1>9. QED
  BY <1>2, <1>3, <1>4, <1>5, <1>6, <1>7, <1>8 DEF Next, Resolve

-----------------------------------------------------------------------------
(* Publication *)

\* What leaves the resolver is the lawful successor of the set in the batch, and the
\* law's one step.
LEMMA PublicationIsLawful ==
  ASSUME IInv, Publish
  PROVE  /\ \E S \in Fixtures : head' = Successor(S)
         /\ Law!Next
<1>1. /\ CallInv /\ Working /\ call.at = "publication"
      /\ head' = Candidate
  BY DEF IInv, Working, Publish
<1>2. PICK S \in Fixtures : /\ batch.ids = Ordered(S)
                            /\ Len(batch.ids) \in Nat \ {0}
                            /\ batch.ids \in Seq(S)
                            /\ {batch.ids[k] : k \in DOMAIN batch.ids} = S
                            /\ batch.ids[1] = Law!First(S)
  BY <1>1, BatchNotEmpty DEF IInv, CallInv
<1>3. call.next = Len(batch.ids) + 1
  BY <1>1 DEF CallInv
<1>4. /\ Candidate.owner = batch.ids[1]
      /\ Candidate.inputs = batch.ids /\ Candidate.events = batch.ids
      /\ Candidate.ledger = [k \in DOMAIN batch.ids |->
                               Adjudicated(batch.ids[k], IF k = 1 THEN None ELSE batch.ids[1])]
  <2>1. DOMAIN batch.ids = 1 .. call.next - 1 /\ call.next # 1
    BY <1>2, <1>3
  <2>2. /\ call.owner = batch.ids[1] /\ call.inputs = batch.ids /\ call.events = batch.ids
        /\ call.ledger = [k \in DOMAIN batch.ids |->
                           Adjudicated(batch.ids[k], IF k = 1 THEN None ELSE batch.ids[1])]
    BY <1>1, <2>1 DEF CallInv
  <2>3. QED
    BY <2>2 DEF Candidate
<1>5. head' = Successor(S)
  BY <1>1, <1>2, <1>4 DEF Candidate, Successor
<1>6. {head'.ledger[k].input : k \in DOMAIN head'.ledger} = S
  <2>1. DOMAIN head'.ledger = DOMAIN batch.ids
    BY <1>1, <1>4
  <2>2. \A k \in DOMAIN batch.ids : head'.ledger[k].input = batch.ids[k]
    BY <1>1, <1>4 DEF Adjudicated
  <2>3. QED
    BY <2>1, <2>2, <1>2
<1>7. {head'.inputs[k] : k \in DOMAIN head'.inputs} = S
  BY <1>1, <1>2, <1>4
<1>8. {head.inputs[k] : k \in DOMAIN head.inputs} = {}
  BY <1>1 DEF CallInv, Genesis
<1>9. head'.owner = Law!First(S)
  BY <1>1, <1>2, <1>4
<1>10. Law!Adjudicate(S)
  BY <1>6, <1>7, <1>8, <1>9 DEF Law!Adjudicate
<1>11. QED
  BY <1>5, <1>10 DEF Law!Next, Fixtures

\* Nothing else touches the record.
LEMMA OnlyPublishes == [Next]_vars => Publish \/ head' = head
  BY DEF Next, vars, Admit, Construct, Begin, Resolve, Raise, Evaluate, EndLoop, Barrier,
         Ledger, Validate, FaultOr, Fault

THEOREM SpecIInv == Spec => []IInv
  BY InitIInv, NextIInv, PTL DEF Spec

\* Whatever is submitted, presented, altered and faulted, the record is the genesis
\* or a lawful successor of it.
THEOREM Lawful == Spec => []PublishedIsLawful
<1>1. Init => PublishedIsLawful
  BY DEF Init, PublishedIsLawful, IsRecord
<1>2. IInv /\ PublishedIsLawful /\ [Next]_vars => PublishedIsLawful'
  BY OnlyPublishes, PublicationIsLawful DEF PublishedIsLawful, IsRecord, Successors
<1>3. QED
  BY <1>1, <1>2, SpecIInv, PTL DEF Spec

\* The record changes as the law says: one set, in one step, all of it spent and the
\* canonical first with the slot.
THEOREM Implements == Spec => ImplementsLaw
<1>1. Init => Law!Init
  <2>1. Genesis.owner = Law!None /\ DOMAIN Genesis.inputs = {} /\ DOMAIN Genesis.ledger = {}
    BY DEF Genesis, None
  <2>2. QED
    BY <2>1 DEF Init, Law!Init
<1>2. IInv /\ [Next]_vars =>
        [Law!Next]_<<head.owner, {head.inputs[k] : k \in DOMAIN head.inputs},
                     {head.ledger[k].input : k \in DOMAIN head.ledger}>>
  BY OnlyPublishes, PublicationIsLawful
<1>3. QED
  BY <1>1, <1>2, SpecIInv, PTL DEF Spec, ImplementsLaw, Law!Spec

-----------------------------------------------------------------------------
(* Types *)

\* A list of failing gates, fourteen of them at most, has a first one.
LEMMA Least ==
  ASSUME NEW n \in 0 .. 15, NEW T, T \subseteq 1 .. n, T # {}
  PROVE  \E k \in T : \A j \in T : k <= j
<1> DEFINE Above(m) == \A k \in T : k > m
<1> SUFFICES ASSUME \A k \in T : \E j \in T : ~(k <= j) PROVE FALSE
  OBVIOUS
<1>1. \A m \in Nat : Above(m) => Above(m + 1)
  OBVIOUS
<1>2. Above(0)
  OBVIOUS
<1>3. PICK k \in T : TRUE
  OBVIOUS
<1> HIDE DEF Above
<1>4. \A m \in Nat : Above(m) => Above(m + 4)
  <2>1. SUFFICES ASSUME NEW m \in Nat, Above(m) PROVE Above(m + 4)
    OBVIOUS
  <2>2. Above(m + 1) /\ Above((m + 1) + 1)
    BY <1>1, <2>1
  <2>3. Above(((m + 1) + 1) + 1)
    BY <1>1, <2>2
  <2>4. Above((((m + 1) + 1) + 1) + 1)
    BY <1>1, <2>3
  <2>5. (((m + 1) + 1) + 1) + 1 = m + 4
    OBVIOUS
  <2>6. QED
    BY <2>4, <2>5
<1>5. Above(4) /\ Above(8)
  BY <1>2, <1>4
<1>6. Above(12)
  BY <1>4, <1>5
<1>7. Above(16)
  BY <1>4, <1>6
<1>8. k > 16 /\ k \in 1 .. n
  BY <1>3, <1>7 DEF Above
<1>9. QED
  BY <1>8

LEMMA RejectionIsDisposition ==
  ASSUME NEW gates, NEW n \in 0 .. 15, DOMAIN gates = 1 .. n, ~Passes(gates),
         \A k \in 1 .. n : gates[k].reject \in Dispositions
  PROVE  Rejection(gates) \in Dispositions
<1> DEFINE failed == {k \in DOMAIN gates : ~gates[k].holds}
           first == CHOOSE k \in failed : \A j \in failed : k <= j
<1>1. failed \subseteq 1 .. n /\ failed # {}
  BY DEF Passes
<1>2. \E k \in failed : \A j \in failed : k <= j
  <2> HIDE DEF failed
  <2>1. QED
    BY <1>1, Least
<1>3. first \in 1 .. n
  BY <1>1, <1>2
<1>4. QED
  BY <1>3 DEF Rejection

LEMMA GateLists ==
  /\ \A record, q : ~Passes(AdmissionGates(record, q)) =>
       Rejection(AdmissionGates(record, q)) \in Dispositions
  /\ \A record, fixture, presented : ~Passes(ConstructionGates(record, fixture, presented)) =>
       Rejection(ConstructionGates(record, fixture, presented)) \in Dispositions
  /\ \A record, b, given, fault : ~Passes(ResolutionGates(record, b, given, fault)) =>
       Rejection(ResolutionGates(record, b, given, fault)) \in Dispositions
<1>1. ASSUME NEW record, NEW q
      PROVE  /\ DOMAIN AdmissionGates(record, q) = 1 .. 14
             /\ \A k \in 1 .. 14 : AdmissionGates(record, q)[k].reject \in Dispositions
  BY DEF AdmissionGates, Gate, Dispositions
<1>2. ASSUME NEW record, NEW fixture, NEW presented
      PROVE  /\ DOMAIN ConstructionGates(record, fixture, presented) = 1 .. 6
             /\ \A k \in 1 .. 6 :
                  ConstructionGates(record, fixture, presented)[k].reject \in Dispositions
  BY DEF ConstructionGates, Gate, Dispositions
<1>3. ASSUME NEW record, NEW b, NEW given, NEW fault
      PROVE  /\ DOMAIN ResolutionGates(record, b, given, fault) = 1 .. 7
             /\ \A k \in 1 .. 7 :
                  ResolutionGates(record, b, given, fault)[k].reject \in Dispositions
  BY DEF ResolutionGates, Gate, Dispositions
<1>4. QED
  BY <1>1, <1>2, <1>3, RejectionIsDisposition

LEMMA RaiseTypeOK ==
  ASSUME TypeOK, NEW d \in Dispositions, Raise(d)
  PROVE  TypeOK'
  BY IdleCall DEF TypeOK, Raise

\* An admitted member names an input of the table.
LEMMA AdmissionPasses ==
  ASSUME NEW record, NEW q, Passes(AdmissionGates(record, q))
  PROVE  q.input \in Inputs
<1> DEFINE gates == AdmissionGates(record, q)
<1>1. DOMAIN gates = 1 .. 14
  BY DEF AdmissionGates
<1>2. gates[5].holds
  BY <1>1 DEF Passes
<1>3. gates[5].holds = (q.input \in Inputs)
  BY DEF AdmissionGates, Gate
<1>4. QED
  BY <1>2, <1>3

\* Members presented as they were admitted are the ones admission returned: an
\* altered member does not look like another one.
LEMMA PresentedAreMembers ==
  ASSUME TypeOK, NEW p \in Presentations,
         \A k \in DOMAIN p : p[k] = AdmittedMember(p[k].input)
  PROVE  Range(p) \subseteq members
<1>1. SUFFICES ASSUME NEW k \in DOMAIN p PROVE p[k] \in members
  BY DEF Range
<1>2. PICK m \in members : p[k] \in Altered(m)
  BY <1>1 DEF Presentations
<1>3. PICK i \in Inputs : m = [input |-> i, event |-> i, exact |-> TRUE]
  BY DEF TypeOK, AdmittedMember
<1>4. p[k] = [input |-> p[k].input, event |-> p[k].input, exact |-> TRUE]
  BY DEF AdmittedMember
<1>5. CASE p[k] = [m EXCEPT !.exact = FALSE]
  BY <1>3, <1>4, <1>5
<1>6. CASE \E e \in Inputs : p[k] = [m EXCEPT !.event = e]
  BY <1>3, <1>4, <1>6
<1>7. QED
  BY <1>2, <1>5, <1>6 DEF Altered

LEMMA InitTypeOK == Init => TypeOK
<1>1. NoBatch.ids = <<>> /\ DOMAIN <<>> = {}
  BY DEF NoBatch
<1>2. QED
  BY <1>1, IdleCall DEF Init, TypeOK

LEMMA NextTypeOK == TypeOK /\ IInv /\ IInv' /\ [Next]_vars => TypeOK'
<1> SUFFICES ASSUME TypeOK, IInv, IInv', [Next]_vars PROVE TypeOK'
  OBVIOUS
<1>1. CASE \E d \in Dispositions : Raise(d)
  BY <1>1, RaiseTypeOK
<1>2. ASSUME NEW i \in Inputs, NEW q \in Submitted(i), Admit(q)
      PROVE  TypeOK'
  BY <1>1, <1>2, AdmissionPasses, GateLists DEF Admit, TypeOK
<1>3. ASSUME NEW f \in FixtureChoices, NEW p \in Presentations, Construct(f, p)
      PROVE  TypeOK'
  <2>1. CASE Passes(ConstructionGates(head, f, p))
    <3>1. /\ f.ids \in Fixtures
          /\ Range(InputsOf(p)) = f.ids
          /\ \A k \in DOMAIN p : p[k] = AdmittedMember(p[k].input)
      BY <2>1, ConstructionPasses
    <3>2. batch' = BatchOf(p) /\ map' = Range(p) /\ UNCHANGED <<members, call>>
          /\ answer' = ""
      BY <1>3, <2>1 DEF Construct
    <3>3. \A k \in DOMAIN batch'.ids : batch'.ids[k] \in Inputs
      <4>1. batch'.ids = Ordered(f.ids)
        BY <3>1, <3>2 DEF BatchOf
      <4>2. Ordered(f.ids) \in Seq(f.ids) /\ f.ids \subseteq Inputs
        BY <3>1, OrderedFirst, FixturesAreInputs
      <4>3. QED
        BY <4>1, <4>2
    <3>4. map' \subseteq members'
      BY <3>1, <3>2, PresentedAreMembers
    <3>5. QED
      BY <3>2, <3>3, <3>4 DEF TypeOK
  <2>2. QED
    BY <1>1, <1>3, <2>1, GateLists DEF Construct
<1>4. ASSUME NEW b \in BatchChoices, NEW m \in MapChoices,
             NEW f \in FaultPoints \cup {None, Unknown}, Begin(b, m, f)
      PROVE  TypeOK'
  BY <1>1, <1>4, IdleCall, GateLists DEF Begin, TypeOK
<1>5. CASE Resolve
  <2>1. CASE Fault
    BY <1>1, <2>1 DEF Fault, Dispositions
  <2>2. CASE Raise("candidate_publication_invalid")
    BY <1>1, <2>2 DEF Dispositions
  <2>3. CASE UNCHANGED <<members, batch, map, answer>>
    BY <2>3 DEF TypeOK, IInv
  <2>4. QED
    BY <1>5, <2>1, <2>2, <2>3
       DEF Resolve, Evaluate, EndLoop, Barrier, Ledger, Validate, Publish, FaultOr
<1>6. CASE UNCHANGED vars
  BY <1>6 DEF vars, TypeOK
<1>7. QED
  BY <1>2, <1>3, <1>4, <1>5, <1>6 DEF Next

-----------------------------------------------------------------------------
(* Evidence that is spent *)

\* The ledger of a record names what the barrier of the record spends.
LEMMA LedgerIsSpent ==
  ASSUME PublishedIsLawful, NEW k \in DOMAIN head.ledger
  PROVE  /\ head.ledger[k].input \in Range(head.inputs)
         /\ head.ledger[k].input \in Range(head.events)
         /\ Range(head.inputs) \subseteq Inputs
         /\ Range(head.events) = Range(head.inputs)
<1>1. PICK S \in Fixtures : head = Successor(S)
  BY DEF PublishedIsLawful, IsRecord, Genesis, Successors
<1> DEFINE ids == Ordered(S)
<1>2. /\ head.inputs = ids /\ head.events = ids
      /\ head.ledger = [j \in DOMAIN ids |-> Adjudicated(ids[j], IF j = 1 THEN None ELSE ids[1])]
  BY <1>1 DEF Successor
<1>3. {ids[j] : j \in DOMAIN ids} = S /\ S \subseteq Inputs
  BY OrderedFirst, FixturesAreInputs
<1>4. k \in DOMAIN ids /\ head.ledger[k].input = ids[k]
  BY <1>2 DEF Adjudicated
<1>5. QED
  BY <1>2, <1>3, <1>4 DEF Range

\* An id that is spent is looked at before anything else of the evidence.
LEMMA ReplayIsFirst ==
  ASSUME NEW record, NEW q, IsRecord(record),
         q.input \in Range(record.inputs) \/ q.event \in Range(record.events)
  PROVE  /\ ~Passes(AdmissionGates(record, q))
         /\ Rejection(AdmissionGates(record, q)) =
              IF q.input \in Range(record.inputs) THEN "input_id_already_adjudicated"
              ELSE "physical_event_id_already_adjudicated"
<1> DEFINE gates == AdmissionGates(record, q)
           failed == {k \in DOMAIN gates : ~gates[k].holds}
           least == IF q.input \in Range(record.inputs) THEN 2 ELSE 3
<1>1. DOMAIN gates = 1 .. 14
  BY DEF AdmissionGates
<1>2. /\ gates[1].holds
      /\ gates[2].holds <=> q.input \notin Range(record.inputs)
      /\ gates[3].holds <=> q.event \notin Range(record.events)
      /\ gates[2].reject = "input_id_already_adjudicated"
      /\ gates[3].reject = "physical_event_id_already_adjudicated"
  BY DEF AdmissionGates, Gate
<1> HIDE DEF gates
<1>3. failed \subseteq 1 .. 14 /\ least \in failed /\ 1 \notin failed
      /\ (least = 3 => 2 \notin failed)
  <2>1. failed \subseteq 1 .. 14 /\ 1 \notin failed
    BY <1>1, <1>2
  <2>2. CASE q.input \in Range(record.inputs)
    BY <1>1, <1>2, <2>1, <2>2
  <2>3. CASE q.input \notin Range(record.inputs)
    <3>1. gates[2].holds /\ ~gates[3].holds
      BY <1>2, <2>3
    <3>2. 2 \notin failed /\ 3 \in failed
      BY <1>1, <3>1
    <3>3. QED
      BY <2>1, <2>3, <3>2
  <2>4. QED
    BY <2>2, <2>3
<1>4. (CHOOSE k \in failed : \A j \in failed : k <= j) = least
  <2>1. \A j \in failed : least <= j
    BY <1>3
  <2>2. \A k \in failed : (\A j \in failed : k <= j) => k = least
    BY <1>3, <2>1
  <2> HIDE DEF failed
  <2>3. QED
    BY <1>3, <2>1, <2>2
<1>5. ~Passes(gates) /\ Rejection(gates) = gates[least].reject
  BY <1>3, <1>4 DEF Passes, Rejection
<1>6. QED
  BY <1>2, <1>5 DEF gates

LEMMA SpentIsRejected ==
  ASSUME PublishedIsLawful, NEW k \in DOMAIN head.ledger,
         NEW q \in Submitted(head.ledger[k].input)
  PROVE  /\ ~Passes(AdmissionGates(head, q))
         /\ Rejection(AdmissionGates(head, q)) =
              IF q.input = Unknown THEN "physical_event_id_already_adjudicated"
              ELSE "input_id_already_adjudicated"
<1> DEFINE i == head.ledger[k].input
<1>1. i \in Range(head.inputs) /\ i \in Range(head.events) /\ Unknown \notin Range(head.inputs)
  <2>1. i \in Range(head.inputs) /\ i \in Range(head.events) /\ Range(head.inputs) \subseteq Inputs
    BY LedgerIsSpent
  <2>2. QED
    BY <2>1, ArbitrationAssumption
<1>2. q.input = i \/ (q.input = Unknown /\ q.event = i)
  BY DEF Submitted, Exact
<1>3. QED
  BY <1>1, <1>2, ReplayIsFirst DEF PublishedIsLawful

\* Whatever its outcome, adjudicated evidence is spent: under any alteration of it
\* that is submitted it is rejected as a replay.
THEOREM Spent == Spec => []EvidenceIsSpent
<1>1. TypeOK /\ PublishedIsLawful => EvidenceIsSpent
  BY SpentIsRejected DEF EvidenceIsSpent
<1>2. Spec => []TypeOK
  <2>1. TypeOK /\ IInv /\ IInv' /\ [Next]_vars => TypeOK'
    BY NextTypeOK
  <2>2. QED
    BY <2>1, InitTypeOK, SpecIInv, PTL DEF Spec
<1>3. QED
  BY <1>1, <1>2, Lawful, PTL

=============================================================================
