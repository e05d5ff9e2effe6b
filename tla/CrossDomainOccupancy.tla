------------------------ MODULE CrossDomainOccupancy ------------------------
(***************************************************************************)
(* The harness of the cross-domain occupancy proof and the Unreal          *)
(* processes it drives.  One behaviour is one case: a primary witness, a   *)
(* control, an asymmetric failure, a binding adversary, a fault at a head, *)
(* materialization or observation stage, or a liveness adversary.  As in   *)
(* SimultaneousPhysicalDomains a case is a sequential program, a sequence  *)
(* of instructions, with one action per kind of instruction; what raises   *)
(* abandons the rest and goes to the finally clause.                       *)
(*                                                                         *)
(* Differences that matter: launches overlap (both processes are resumed   *)
(* before either is awaited); next_object looks at what was written before *)
(* it asks whether the writer is alive, and notices no failure it was not  *)
(* told to expect; a control replaces one process by another, which may    *)
(* get the descriptor numbers of the first.                                *)
(* Operators named ...Mutated are definitions with a plausible mistake.    *)
(***************************************************************************)
EXTENDS CrossDomainOccupancyRouter, FiniteSets

CONSTANTS A, B, Spare,  \* domain_A, domain_B, and the replacement of B
          Cases,        \* the cases considered
          Mishaps       \* what may go wrong: a subset of {"crash", "timeout", "io", "engine"}

ASSUME HarnessAssumption == Slots = {A, B, Spare} /\ Cardinality(Slots) = 3 /\ InRoleA = {A}

VARIABLES
  case, todo, phase, outcome, mishap,   \* as in SimultaneousPhysicalDomains
  owned,        \* the slots whose LiveDomain exists
  number,       \* the number of the pipes of a slot, reused after they are closed
  captured,     \* the slots whose output was read as evidence of a slot
  guard,        \* PhysicalCurrentHeadGuard.state
  head,         \* the head the canonical engine has resolved
  published,    \* stages completed of the publication of each head
  receipt,      \* generation of the last receipt validated for a slot
  seen,         \* <<anchor, subject>> of the last observation of a slot
  disposition   \* the last head state recorded for a slot, with its generation

runVars == <<case, phase, outcome, mishap>>
pipeVars == <<owned, number, captured>>
headVars == <<guard, head, published>>
recordVars == <<receipt, seen, disposition>>
vars == <<occupancyVars, runVars, todo, pipeVars, headVars, recordVars>>

Pair == {A, B}

\* The cases of the acquisition, each with every stage and edge it arms: the witness with
\* its refreshes in either order, the six controls, AF01 to AF04, HF01 to HF18, MF001 to
\* MF138, OF001 to OF036, LV01 to LV06, and a binding adversary.
AllCases ==
  [kind : {"primary"}, first : [1..2 -> Pair]]
    \cup [kind : {"control"}, id : {"C1", "C2", "C3", "C4a", "C4b", "C5"}]
    \cup [kind : {"asymmetric"}, slot : Pair, n : {2, 3}]
    \cup [kind : {"head_fault"}, n : {2, 3}, stage : 1..9]
    \cup [kind : {"materialization_fault"}, n : 1..3, stage : 1..23, edge : {"before", "after"}]
    \cup [kind : {"observation_fault"}, n : 1..3, stage : 1..12]
    \cup [kind : {"liveness"}, n : 1..6]
    \cup [kind : {"binding"}]

ASSUME CasesAssumption == Cases \subseteq AllCases

-----------------------------------------------------------------------------
(* The programs *)

Ins(op, s, n, tag) == <<[op |-> op, slot |-> s, n |-> n, tag |-> tag, edge |-> "none"]>>
Arm(s, n, tag, edge) ==
  <<[op |-> "arm", slot |-> s, n |-> n, tag |-> tag, edge |-> edge]>>
    \o Ins("await", s, 0, "arm_receipt")

\* _launch_domain up to its return, and _finish_binding.
Launch(s, binding) ==
  Ins("spawn", s, 0, "none") \o Ins("identify", s, 0, "none")
    \o Ins("bind", s, binding, "none") \o Ins("resume", s, 0, "none")
Finish(s) == Ins("await", s, 0, "provenance") \o Ins("await", s, 0, "bind_receipt")

LaunchPair == Launch(A, 1) \o Launch(B, 1) \o Finish(A) \o Finish(B)

Stage(s, g, state) == Ins("stage", s, g, state) \o Ins("materialize", s, g, "none")
Materialize(s, g) == Stage(s, g, "exact") \o Ins("await", s, g, "receipt")
Inspect(s) == Ins("inspect", s, 0, "none") \o Ins("await", s, 0, "observation")
InspectBoth == Inspect(A) \o Inspect(B)
Compare(s, g) == Ins("compare", s, g, "none")
Accept(s, g) == Compare(s, g) \o Ins("conclude", s, g, "synchronized")
Guard(target) == Ins("guard", A, 0, target)
Resolve(h) == Ins("resolve", A, h, "none")
Conclude(s, g, state) == Ins("conclude", s, g, state)
Evidence(s) == Ins("evidence", s, 0, "none")
EvidencePair == Evidence(A) \o Evidence(B)
Checkpoint == Ins("checkpoint", A, 0, "none")

\* _head_observation: source stages, candidate file, rename (8), reread (9).
Publish(h, stages) == [i \in 1..stages |->
  [op |-> "publish", slot |-> A, n |-> h, tag |-> "none", edge |-> "none"]]

R0Pair ==
  Materialize(A, 1) \o Inspect(A) \o Compare(A, 1)
    \o Materialize(B, 1) \o Inspect(B) \o Compare(B, 1)

\* The second domain keeps the generation it has.
RefreshPairMutated(g, first, second) ==
  Materialize(first, g) \o Inspect(first) \o Inspect(second) \o Accept(first, g) \o Checkpoint
    \o Inspect(A) \o Inspect(B)

RefreshPair(g, first, second) ==
  Materialize(first, g) \o Inspect(first) \o Inspect(second) \o Accept(first, g) \o Checkpoint
    \o Materialize(second, g) \o Inspect(A) \o Accept(A, g) \o Inspect(B) \o Accept(B, g)
    \o Checkpoint

\* acquire_primary_witness; the two refreshes may go to the domains in either order.
Primary(first, second) ==
  Materialize(A, 1) \o Inspect(A) \o Accept(A, 1)
    \o Materialize(B, 1) \o Inspect(B) \o Accept(B, 1) \o Checkpoint
    \o Guard("closed_for_R0_to_Rtransit") \o Resolve(2)
    \o InspectBoth \o Checkpoint \o Publish(2, 9) \o InspectBoth \o Checkpoint
    \o Guard("open_for_Rtransit") \o RefreshPair(2, first[1], second[1])
    \o Guard("closed_for_Rtransit_to_Rfinal") \o Resolve(3)
    \o InspectBoth \o Checkpoint \o Publish(3, 9) \o InspectBoth \o Checkpoint
    \o Guard("open_for_Rfinal") \o RefreshPair(3, first[2], second[2])

\* _setup_stale_r0, _setup_synchronized_rtransit, _setup_stale_rtransit.
StaleR0 ==
  R0Pair \o Guard("closed_for_R0_to_Rtransit") \o Resolve(2)
    \o InspectBoth \o Publish(2, 9) \o InspectBoth \o Guard("open_for_Rtransit")

RefreshBoth ==
  Materialize(A, 2) \o InspectBoth \o Materialize(B, 2)

StaleRtransit ==
  StaleR0 \o RefreshBoth \o InspectBoth
    \o Guard("closed_for_Rtransit_to_Rfinal") \o Resolve(3)
    \o InspectBoth \o Publish(3, 9) \o InspectBoth \o Guard("open_for_Rfinal")

\* The head is resolved and never observed.
ControlStaleR0Mutated ==
  R0Pair \o Guard("closed_for_R0_to_Rtransit") \o Resolve(2)

\* The head is observed before the inspections in the controls.
ControlStaleR0 ==
  R0Pair \o Guard("closed_for_R0_to_Rtransit") \o Resolve(2) \o Publish(2, 9)

\* The replacement is launched while the handle of the process it replaces is kept,
\* and the evidence is captured last.
ReplaceMutated ==
  Ins("terminate", B, 0, "none") \o Launch(Spare, 1) \o Finish(Spare)
    \o Evidence(A) \o Evidence(B) \o Evidence(Spare)

Replace ==
  Evidence(B) \o Ins("terminate", B, 0, "none") \o Launch(Spare, 1) \o Finish(Spare)
    \o Evidence(A) \o Evidence(Spare)

Control(id) ==
  CASE id = "C1" ->
         ControlStaleR0 \o InspectBoth \o InspectBoth \o Guard("open_for_Rtransit")
           \o Guard("closed_for_c1_Rtransit_to_Rfinal") \o Resolve(3) \o Publish(3, 9)
           \o InspectBoth \o Conclude(A, 1, "stale") \o Conclude(B, 1, "stale") \o EvidencePair
    [] id \in {"C2", "C3"} ->
         ControlStaleR0 \o Guard("open_for_Rtransit")
           \o (IF id = "C2" THEN Arm(B, 20, "M", "before") ELSE Arm(B, 16, "M", "after"))
           \o Stage(B, 2, "exact") \o Ins("await", B, 99, "failure")
           \o (IF id = "C3" THEN Ins("await", B, 2, "candidate") ELSE <<>>)
           \o Inspect(B) \o Ins("counts", B, IF id = "C2" THEN 0 ELSE 1, "none")
           \o Conclude(B, 0, "invalid") \o EvidencePair
    [] id = "C4a" -> R0Pair \o Resolve(2) \o Guard("failed_closed") \o EvidencePair
                       \o Conclude(A, 1, "protocol_invalid") \o Conclude(B, 1, "protocol_invalid")
    [] id \in {"C4b", "C5"} ->
         ControlStaleR0 \o InspectBoth \o InspectBoth \o Guard("open_for_Rtransit")
           \o RefreshBoth \o InspectBoth
           \o (IF id = "C4b" THEN Resolve(3) \o Guard("failed_closed") \o EvidencePair ELSE Replace)

\* AF: one domain advances, the other is given a projection of no domain.  There is no
\* guard in these cases.
Asymmetric(succeeds, fails, g) ==
  R0Pair \o Resolve(2) \o Publish(2, 9)
    \o (IF g = 3 THEN Materialize(A, 2) \o Inspect(A) \o Materialize(B, 2) \o Inspect(B)
                        \o Resolve(3) \o Publish(3, 9)
                 ELSE <<>>)
    \o Materialize(succeeds, g) \o Inspect(succeeds)
    \o Stage(fails, g, "corrupt") \o Ins("await", fails, 9, "failure")
    \o Inspect(fails) \o Ins("counts", fails, g - 1, "none") \o EvidencePair

HeadFault(h, stages) ==
  (IF h = 2 THEN R0Pair \o Guard("closed_for_R0_to_Rtransit")
            ELSE StaleR0 \o RefreshBoth \o InspectBoth \o Guard("closed_for_Rtransit_to_Rfinal"))
    \o Resolve(h) \o InspectBoth \o Publish(h, stages)
    \o (IF stages >= 8 THEN Guard("failed_closed") ELSE <<>>) \o EvidencePair

\* A publication is taken to have begun only with the destruction of the predecessor.
BeganMutated(stage) == stage >= 19

\* publication_began, by the stage alone: M17 itself, even before it.
Began(stage) == stage >= 17

\* The context of a fault: its generation and the domain that gets it.
Target(g) == IF g = 3 THEN A ELSE B

MaterializationFault(g, stage, edge) ==
  (CASE g = 1 -> <<>> [] g = 2 -> StaleR0 [] g = 3 -> StaleRtransit)
    \o Arm(Target(g), stage, "M", edge) \o Stage(Target(g), g, "exact")
    \o Ins("await", Target(g), stage, "failure") \o Ins("discard", Target(g), 0, "receipt")
    \o (IF Began(stage) THEN Guard("failed_closed") \o Conclude(Target(g), 0, "invalid")
        ELSE IF g = 1 THEN Conclude(Target(g), 0, "unbound")
        ELSE Conclude(Target(g), g - 1, "stale"))
    \o EvidencePair

\* _setup_observation_fault_context: every inspection but the one that is faulted.
BeforeObservation(g) ==
  CASE g = 1 -> Materialize(A, 1) \o Inspect(A) \o Materialize(B, 1)
    [] g = 2 -> StaleR0 \o RefreshBoth \o Inspect(A)
    [] g = 3 -> StaleRtransit \o Materialize(A, 3) \o InspectBoth \o Materialize(B, 3) \o Inspect(B)

ObservationFault(g, stage) ==
  BeforeObservation(g)
    \o (IF stage > 10
          THEN Inspect(Target(g)) \o (IF stage = 12 THEN Compare(Target(g), g) ELSE <<>>)
          ELSE Arm(Target(g), stage, "O", "after") \o Ins("inspect", Target(g), 0, "none")
                 \o Ins("await", Target(g), stage, "failure")
                 \o Ins("discard", Target(g), 0, "observation"))
    \o Guard("failed_closed") \o Conclude(Target(g), 0, "invalid") \o EvidencePair

\* _advance_w1_prefix up to a checkpoint.
Prefix(last) ==
  LET L0 == R0Pair \o Checkpoint
      L1 == Guard("closed_for_R0_to_Rtransit") \o Resolve(2) \o InspectBoth \o Checkpoint
      L2 == Publish(2, 9) \o InspectBoth \o Guard("open_for_Rtransit") \o Checkpoint
      L3 == Materialize(A, 2) \o InspectBoth \o Checkpoint
      L4 == Materialize(B, 2) \o InspectBoth \o Checkpoint
      L5 == Guard("closed_for_Rtransit_to_Rfinal") \o Resolve(3) \o InspectBoth \o Checkpoint
      L6 == Publish(3, 9) \o InspectBoth \o Guard("open_for_Rfinal") \o Checkpoint
      L7 == Materialize(A, 3) \o InspectBoth \o Checkpoint
      From(k, part) == IF last < k THEN <<>> ELSE part
  IN L0 \o From(1, L1) \o From(2, L2) \o From(3, L3) \o From(4, L4) \o From(5, L5)
        \o From(6, L6) \o From(7, L7)

\* One adversary at its checkpoint.
Adversary(n) ==
  CASE n = 1 -> Prefix(0) \o Ins("kill", A, 0, "none")
    [] n = 2 -> Prefix(1) \o Ins("kill", B, 0, "none") \o Ins("wait", B, 0, "none")
    [] n = 3 -> Prefix(2) \o Ins("liveness", A, 3, "none") \o Ins("await", A, 3, "liveness_receipt")
                  \o Ins("await", A, 0, "changed_start")
    [] n = 4 -> Prefix(3) \o Ins("liveness", B, 4, "none") \o Ins("await", B, 4, "liveness_receipt")
                  \o Ins("poll", B, 0, "stdin")
    [] n = 5 -> Prefix(5) \o Ins("liveness", A, 5, "none") \o Ins("await", A, 5, "liveness_receipt")
                  \o Ins("poll", A, 0, "stdout")
    [] n = 6 -> Prefix(7) \o Launch(Spare, 0) \o Ins("await", Spare, 0, "failure")

LivenessAdversary(n) ==
  Adversary(n) \o Guard("failed_closed")
    \o Conclude(A, 0, "protocol_invalid") \o Conclude(B, 0, "protocol_invalid") \o EvidencePair
    \o (IF n = 6 THEN Evidence(Spare) ELSE <<>>)

Program(c) ==
  CASE c.kind = "primary" -> LaunchPair \o Primary(c.first, [i \in 1..2 |-> IF c.first[i] = A THEN B ELSE A])
    [] c.kind = "control" -> LaunchPair \o Control(c.id)
    [] c.kind = "asymmetric" -> LaunchPair \o Asymmetric(c.slot, IF c.slot = A THEN B ELSE A, c.n)
    [] c.kind = "head_fault" -> LaunchPair \o HeadFault(c.n, c.stage)
    [] c.kind = "materialization_fault" -> LaunchPair \o MaterializationFault(c.n, c.stage, c.edge)
    [] c.kind = "observation_fault" -> LaunchPair \o ObservationFault(c.n, c.stage)
    [] c.kind = "liveness" -> LaunchPair \o LivenessAdversary(c.n)
    [] c.kind = "binding" -> Launch(A, 0) \o Ins("await", A, 0, "failure")

WitnessOf(c) ==
  CASE c.kind \in {"materialization_fault", "observation_fault"} -> "fault"
    [] c.kind = "control" /\ c.id = "C2" -> "control_C2"
    [] c.kind = "control" /\ c.id = "C3" -> "control_C3"
    [] c.kind \in {"asymmetric", "liveness"} -> c.kind
    [] OTHER -> "other"

-----------------------------------------------------------------------------
(* One instruction *)

Init ==
  /\ case \in Cases
  /\ witness = WitnessOf(case)
  /\ todo = Program(case)
  /\ RouterInit
  /\ phase = "acquire" /\ outcome = "none" /\ mishap \in {"excluded", "none"}
  /\ owned = {} /\ number = [s \in Slots |-> 0] /\ captured = [s \in Slots |-> {}]
  /\ guard = "open_for_R0" /\ head = 1 /\ published = [h \in {2, 3} |-> 0]
  /\ receipt = [s \in Slots |-> 0]
  /\ seen = [s \in Slots |-> <<0, 0>>]
  /\ disposition = [s \in Slots |-> [state |-> "none", n |-> 0]]

Now == Head(todo)
Executes(op) == phase = "acquire" /\ todo # <<>> /\ Now.op = op
Done == todo' = Tail(todo) /\ UNCHANGED <<case, phase, outcome, mishap>>

\* The pipes of these slots are open on the harness's side.
Open == {s \in Slots : proc[s].life \notin {"absent", "reaped"}}
Lowest(used) == CHOOSE n \in 1..3 : n \notin used /\ \A m \in 1..3 : m < n => m \in used

Spawn ==
  LET s == Now.slot IN
  /\ Executes("spawn")
  /\ proc' = [proc EXCEPT ![s].life = "suspended"]
  /\ number' = [number EXCEPT ![s] = Lowest({number[o] : o \in Open})]
  /\ Done
  /\ UNCHANGED <<witness, control, output, bundle, owned, captured, headVars, recordVars>>

\* _proc_info, the binding and the LiveDomain; nothing cleans up before it exists.
Identify ==
  /\ Executes("identify")
  /\ proc[Now.slot].life = "suspended"
  /\ owned' = owned \cup {Now.slot}
  /\ Done
  /\ UNCHANGED <<occupancyVars, number, captured, headVars, recordVars>>

Resume ==
  /\ Executes("resume")
  /\ proc' = [proc EXCEPT ![Now.slot].life = IF @ = "suspended" THEN "running" ELSE @]
  /\ Done
  /\ UNCHANGED <<witness, control, output, bundle, pipeVars, headVars, recordVars>>

Sends == {"bind", "materialize", "inspect", "arm", "liveness"}
CanWrite(s) == proc[s].life \in {"suspended", "running"} /\ proc[s].stdin

Send ==
  /\ \E op \in Sends : Executes(op)
  /\ CanWrite(Now.slot)
  /\ control' = [control EXCEPT ![Now.slot] = Append(@, Line(Now.op, Now.n, Now.tag, Now.edge))]
  /\ Done
  /\ UNCHANGED <<witness, proc, output, bundle, pipeVars, headVars, recordVars>>

\* next_object: the first object of the awaited schema, whoever else is in the list.
Schema(tag) == IF tag = "candidate" THEN "receipt" ELSE tag
Matching(s, tag) == {i \in DOMAIN output[s] : output[s][i].kind = Schema(tag)}
First(S) == CHOOSE i \in S : \A j \in S : i <= j
Without(q, i) == SubSeq(q, 1, i - 1) \o SubSeq(q, i + 1, Len(q))

\* expected_representation: the harness derives from payload and projection, on its own,
\* where the one subject is.
ExpectedSubject(s, g) ==
  CASE g = 1 -> IF s = A THEN 0 ELSE 1
    [] g = 3 -> IF s = A THEN 3 ELSE 0
    [] OTHER -> 0

\* What the caller demands of it: a receipt is validated against the bundle it was asked
\* with, a failure must name the armed stage where one is armed.
Valid(s, wanted, o) ==
  CASE wanted.tag = "receipt" -> o.n = wanted.n /\ o.m = ExpectedSubject(s, wanted.n)
    [] wanted.tag \in {"failure", "liveness_receipt"} -> wanted.n \in {o.n, 99}
    [] OTHER -> TRUE

Await ==
  LET s == Now.slot
      i == First(Matching(s, Now.tag))
      o == output[s][i]
  IN /\ Executes("await")
     /\ Matching(s, Now.tag) # {} /\ Valid(s, Now, o)
     /\ output' = [output EXCEPT ![s] = Without(@, i)]
     /\ receipt' = IF Now.tag = "receipt" THEN [receipt EXCEPT ![s] = o.n] ELSE receipt
     /\ seen' = IF Now.tag = "observation" THEN [seen EXCEPT ![s] = <<o.n, o.m>>] ELSE seen
     /\ Done
     /\ UNCHANGED <<witness, proc, control, bundle, pipeVars, headVars, disposition>>

\* After a fault: what was emitted before the failure is taken out of the list.
Discard ==
  LET found == Matching(Now.slot, Now.tag) IN
  /\ Executes("discard")
  /\ output' = [output EXCEPT ![Now.slot] = IF found = {} THEN @ ELSE Without(@, First(found))]
  /\ Done
  /\ UNCHANGED <<witness, proc, control, bundle, pipeVars, headVars, recordVars>>

\* compare_expectation_receipt_observation: the counts and rows of the live world, the
\* receipt, and what the canonical record implies for this domain.
Agrees(s, g) == receipt[s] = g /\ seen[s] = <<g, ExpectedSubject(s, g)>>

\* The controls and the asymmetric failures compare counts alone.
Counts(s, g) == /\ seen[s][1] # 0 <=> g # 0
                /\ seen[s][2] # 0 <=> ExpectedSubject(s, g) # 0

CompareWorlds ==
  /\ \/ Executes("compare") /\ Agrees(Now.slot, Now.n)
     \/ Executes("counts") /\ Counts(Now.slot, Now.n)
  /\ Done
  /\ UNCHANGED <<occupancyVars, pipeVars, headVars, recordVars>>

Alive(s) == proc[s].life = "running"

\* A pipe end that is gone at a checkpoint is recorded and raises nothing.
Watch ==
  /\ Executes("checkpoint")
  /\ \A s \in Pair : Alive(s)
  /\ Done
  /\ UNCHANGED <<occupancyVars, pipeVars, headVars, recordVars>>

\* _domain_evidence drains the descriptor numbers of the slot, whoever has them now.
Reads(s) == {o \in Open : number[o] = number[s]}

CaptureEvidence ==
  /\ Executes("evidence")
  /\ Reads(Now.slot) # {}
  /\ captured' = [captured EXCEPT ![Now.slot] = @ \cup Reads(Now.slot)]
  /\ Done
  /\ UNCHANGED <<occupancyVars, owned, number, headVars, recordVars>>

Dies(s, life) ==
  /\ proc' = [proc EXCEPT ![s].life = life]
  /\ UNCHANGED <<witness, control, output, bundle>>

\* SIGKILL, and in LV02 its wait status: the handle stays open until it is terminated.
Kill ==
  /\ \/ Executes("kill") /\ Dies(Now.slot, "exited")
     \/ Executes("wait") /\ proc[Now.slot].life = "exited" /\ UNCHANGED occupancyVars
  /\ Done
  /\ UNCHANGED <<pipeVars, headVars, recordVars>>

Terminate ==
  /\ Executes("terminate")
  /\ Dies(Now.slot, "reaped")
  /\ Done
  /\ UNCHANGED <<pipeVars, headVars, recordVars>>

\* The far end of a pipe is seen closed.
Closed(s, tag) == ~Alive(s) \/ (IF tag = "stdin" THEN ~proc[s].stdin ELSE ~proc[s].stdout)

Poll ==
  /\ Executes("poll")
  /\ Closed(Now.slot, Now.tag)
  /\ Done
  /\ UNCHANGED <<occupancyVars, pipeVars, headVars, recordVars>>

StageBundle ==
  /\ Executes("stage")
  /\ bundle' = [bundle EXCEPT ![Now.slot][Now.n] = Now.tag]
  /\ Done
  /\ UNCHANGED <<witness, proc, control, output, pipeVars, headVars, recordVars>>

-----------------------------------------------------------------------------
(* The guard, the canonical record and the head files *)

\* Each closing and opening has its one trigger.
LegalTransition(target) ==
  \/ target = "failed_closed" /\ guard # "failed_closed"
  \/ <<guard, target>> \in {
       <<"open_for_R0", "closed_for_R0_to_Rtransit">>,
       <<"closed_for_R0_to_Rtransit", "open_for_Rtransit">>,
       <<"open_for_Rtransit", "closed_for_Rtransit_to_Rfinal">>,
       <<"open_for_Rtransit", "closed_for_c1_Rtransit_to_Rfinal">>,
       <<"closed_for_Rtransit_to_Rfinal", "open_for_Rfinal">>}

GuardTransition ==
  /\ Executes("guard")
  /\ LegalTransition(Now.tag)
  /\ guard' = Now.tag
  /\ Done
  /\ UNCHANGED <<occupancyVars, pipeVars, head, published, recordVars>>

\* next_consequential_boundary and resolve_next_due read no guard and no process.
ResolveDue ==
  /\ Executes("resolve")
  /\ head' = Now.n
  /\ Done
  /\ UNCHANGED <<occupancyVars, pipeVars, guard, published, recordVars>>

PublishHead ==
  /\ Executes("publish")
  /\ published' = [published EXCEPT ![Now.n] = @ + 1]
  /\ Done
  /\ UNCHANGED <<occupancyVars, pipeVars, guard, head, recordVars>>

\* head_disposition: the state is the caller's constant.
RecordDisposition ==
  /\ Executes("conclude")
  /\ disposition' = [disposition EXCEPT ![Now.slot] = [state |-> Now.tag, n |-> Now.n]]
  /\ Done
  /\ UNCHANGED <<occupancyVars, pipeVars, headVars, receipt, seen>>

-----------------------------------------------------------------------------
(* What raises, and the finally clause *)

Abandon ==
  /\ todo' = <<>>
  /\ phase' = "finally"
  /\ outcome' = "aborted"
  /\ UNCHANGED <<occupancyVars, case, pipeVars, headVars, recordVars>>

Raises ==
  LET s == Now.slot IN
  CASE Now.op = "identify" -> proc[s].life # "suspended"
    [] Now.op \in Sends -> ~CanWrite(s)
    [] Now.op = "await" -> IF Matching(s, Now.tag) = {} THEN proc[s].life = "exited"
                           ELSE ~Valid(s, Now, output[s][First(Matching(s, Now.tag))])
    [] Now.op = "compare" -> ~Agrees(s, Now.n)
    [] Now.op = "counts" -> ~Counts(s, Now.n)
    [] Now.op = "checkpoint" -> \E d \in Pair : ~Alive(d)
    [] Now.op = "evidence" -> Reads(s) = {}
    [] Now.op = "guard" -> ~LegalTransition(Now.tag)
    [] OTHER -> FALSE

Raise ==
  /\ phase = "acquire" /\ todo # <<>> /\ Raises
  /\ Abandon
  /\ UNCHANGED mishap

Goes(wrong) == wrong \in Mishaps /\ mishap # "excluded" /\ mishap' = "happened"

\* next_object waits without a deadline.
TimeoutMutated == FALSE /\ Abandon /\ Goes("timeout")

\* 75 seconds of next_object, or 15 of a poll, without the awaited object.
Timeout ==
  /\ Goes("timeout")
  /\ \/ Executes("await") /\ Matching(Now.slot, Now.tag) = {} /\ proc[Now.slot].life # "exited"
     \/ Executes("poll") /\ ~Closed(Now.slot, Now.tag)
  /\ Abandon

\* What calls the operating system or drains a pipe: drain raises on a line that is not
\* canonical, too.
IoError ==
  /\ Goes("io")
  /\ \E op \in {"spawn", "identify", "bind", "resume", "stage", "publish",
                 "await", "discard", "checkpoint", "evidence", "poll"} : Executes(op)
  /\ Abandon

Return ==
  /\ phase = "acquire" /\ todo = <<>>
  /\ phase' = "finally"
  /\ outcome' = "completed"
  /\ UNCHANGED <<occupancyVars, case, todo, mishap, pipeVars, headVars, recordVars>>

\* The replacement is in nobody's dictionary.
UnreapedMutated == {s \in owned \cap Pair : proc[s].life # "reaped"}

\* The domains of the case, then the replacement; a launch that raises terminates its own.
Unreaped == {s \in owned : proc[s].life # "reaped"}

NextUnreaped == IF A \in Unreaped THEN A ELSE IF B \in Unreaped THEN B ELSE Spare

Clean ==
  /\ phase = "finally"
  /\ IF Unreaped # {}
       THEN Dies(NextUnreaped, "reaped") /\ UNCHANGED phase
       ELSE phase' = "ended" /\ UNCHANGED occupancyVars
  /\ UNCHANGED <<case, todo, outcome, mishap, pipeVars, headVars, recordVars>>

\* The last drain of terminate raises, after waitpid and before the descriptors are closed
\* and the receipt is made.  In a finally clause the error is swallowed, except that of the
\* replacement and that of a binding adversary, which are outside of the try.  Nothing is
\* spawned after it in the case, so that the numbers left open reach nobody.
TerminateRaises ==
  /\ Goes("io")
  /\ \/ /\ Executes("terminate")
        /\ Dies(Now.slot, "reaped")
        /\ todo' = <<>> /\ phase' = "finally" /\ outcome' = "aborted"
     \/ /\ phase = "finally" /\ Unreaped # {}
        /\ Dies(NextUnreaped, "reaped")
        /\ outcome' = IF NextUnreaped = Spare \/ case.kind = "binding" THEN "aborted" ELSE outcome
        /\ UNCHANGED <<todo, phase>>
  /\ UNCHANGED <<case, pipeVars, headVars, recordVars>>

Harness ==
  \/ Spawn \/ Identify \/ Resume \/ Send \/ Await \/ Discard \/ CompareWorlds \/ Watch
  \/ CaptureEvidence \/ Kill \/ Terminate \/ Poll \/ StageBundle
  \/ GuardTransition \/ ResolveDue \/ PublishHead \/ RecordDisposition
  \/ Raise \/ Return \/ Clean

Process(s) ==
  /\ HandleLine(s)
  /\ UNCHANGED <<runVars, todo, pipeVars, headVars, recordVars>>

ProcessDies(s) ==
  /\ Goes("crash")
  /\ Crash(s)
  /\ UNCHANGED <<case, phase, outcome, todo, pipeVars, headVars, recordVars>>

ProcessFails(s) ==
  /\ Goes("engine")
  /\ EngineRefuses(s)
  /\ UNCHANGED <<case, phase, outcome, todo, pipeVars, headVars, recordVars>>

Next ==
  \/ Harness \/ Timeout \/ IoError \/ TerminateRaises
  \/ \E s \in Slots : Process(s) \/ ProcessDies(s) \/ ProcessFails(s)

Spec == Init /\ [][Next]_vars

\* The waits of the harness are bounded; the game threads tick in the runs where nothing
\* goes wrong.
HarnessSpec ==
  /\ Spec /\ WF_vars(Harness) /\ WF_vars(Timeout)
  /\ \A s \in Slots : WF_vars(mishap = "excluded" /\ Process(s))

-----------------------------------------------------------------------------
(* Properties *)

GuardStates ==
  {"open_for_R0", "closed_for_R0_to_Rtransit", "open_for_Rtransit", "closed_for_Rtransit_to_Rfinal",
   "closed_for_c1_Rtransit_to_Rfinal", "open_for_Rfinal", "failed_closed"}

OpenFor == <<"open_for_R0", "open_for_Rtransit", "open_for_Rfinal">>

TypeOKHarness ==
  /\ witness \in Witnesses
  /\ \A s \in Slots :
       /\ proc[s].life \in {"absent", "suspended", "running", "exited", "reaped"}
       /\ {proc[s].generation, proc[s].anchor, proc[s].subject, receipt[s]} \subseteq 0..3
       /\ proc[s].publication \in {"none", "published", "invalid"}
       /\ number[s] \in 0..3 /\ captured[s] \subseteq Slots
       /\ \A i \in DOMAIN control[s] : control[s][i].op \in AllOps
  /\ owned \subseteq Slots
  /\ guard \in GuardStates /\ head \in Generations
  /\ published \in [{2, 3} -> 0..9]
  /\ phase \in {"acquire", "finally", "ended"} /\ outcome \in {"none", "completed", "aborted"}

\* There is one subject, and it never has a body in both worlds, whatever fails between
\* the generations: the destruction in domain B comes before the spawn in domain A by
\* the order of the programs, the guard and the routers' tests of their own generation.
OneBody ==
  TypeOKHarness /\ (proc[A].subject = 0 \/ proc[B].subject = 0)

\* A process that has not declared its publication invalid shows the generation it says
\* it represents, with the subject that belongs to it: the failures of the first sixteen
\* stages leave the predecessor whole, the later ones say so.
SaysWhatItShows ==
  \A s \in Slots : proc[s].publication # "invalid" =>
    proc[s].anchor = proc[s].generation /\ proc[s].subject = Subject(s, proc[s].generation)

\* What the harness records of a domain is so in its world: a synchronized domain shows
\* the generation the guard is open for, a stale or unbound one has kept exactly its
\* predecessor.  The states are constants of the caller; only the programs and the
\* stage a fault is armed for make them true.
DispositionsMatchWorlds ==
  \A s \in Pair :
    LET d == disposition[s]
        Shows(g) == proc[s].anchor = g /\ proc[s].subject = ExpectedSubject(s, g) /\ proc[s].generation = g
    IN /\ d.state = "synchronized" /\ guard = OpenFor[d.n] => receipt[s] = d.n /\ Shows(d.n)
       /\ d.state = "stale" => Shows(d.n)
       /\ d.state = "unbound" => Shows(0)

\* What is recorded as the output of a process was written by that process, although a
\* terminated handle still holds descriptor numbers that its replacement may get.
EvidenceIsOwn == \A s \in Slots : captured[s] \subseteq {s}

\* A run of this module obeys the law of OccupancyLaw: its steps are steps of that law
\* or change nothing of it.  The asymmetric failures have no guard.
Law == INSTANCE OccupancyLaw WITH
  Domains <- Pair,
  observed <- 1 + Cardinality({h \in {2, 3} : published[h] = 9}),
  represented <- [s \in Pair |-> proc[s].generation],
  guarded <- case.kind # "asymmetric"

ImplementsOccupancyLaw == Law!LawSpec

\* When a case is over every process it has a handle of is reaped and none is running.
\* A process that could not be identified after posix_spawn has no handle: it stays
\* suspended.
NoneLeftRunning ==
  phase = "ended" => \A s \in Slots :
    /\ s \in owned => proc[s].life = "reaped"
    /\ proc[s].life # "running"

\* A process that hangs or dies never keeps the harness for ever, and a case where
\* nothing goes wrong runs to its recorded conclusion.
CaseEnds ==
  /\ <>(phase = "ended")
  /\ mishap = "excluded" => <>(outcome = "completed")

=============================================================================
