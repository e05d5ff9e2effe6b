-------------------- MODULE SimultaneousPhysicalDomains --------------------
(***************************************************************************)
(* The harness of the simultaneous-physical-domains proof and the two      *)
(* Unreal processes it drives.  One behaviour is one acquisition: the      *)
(* harness launches the processes suspended, binds and resumes them,       *)
(* accepts their H0 representations, moves the canonical record from H0 to *)
(* H1 behind its guard, publishes and verifies the observation of H1,      *)
(* refreshes the domains, and finally terminates what it launched.         *)
(*                                                                         *)
(* The harness is one sequential Python program per kind of acquisition.   *)
(* Program(case) is that program as a sequence of instructions, and there  *)
(* is one action per kind of instruction; whatever raises abandons the     *)
(* rest and goes to the finally clause.  The processes run concurrently    *)
(* (PhysicalDomainRouter) and may die at any moment.                       *)
(* Operators named ...Mutated are definitions with a plausible mistake.    *)
(***************************************************************************)
EXTENDS PhysicalDomainRouter

CONSTANTS RoleOrder,    \* the tuple DOMAIN_ROLES: launch, acceptance, termination
          Cases,        \* the acquisitions considered
          Mishaps       \* what may go wrong: a subset of {"crash", "timeout", "io"}

ASSUME RolesAssumption ==
  /\ RoleOrder \in [1..2 -> Domains]
  /\ RoleOrder[1] # RoleOrder[2] /\ Domains = {RoleOrder[1], RoleOrder[2]}
  /\ FaultTarget = RoleOrder[1]

VARIABLES
  case,          \* the acquisition this run performs
  todo,          \* its instructions still to execute
  phase,         \* "acquire", "finally" or "ended"
  outcome,       \* "none", "completed" or "aborted"
  mishap,        \* what goes wrong outside the program: "excluded" from this run,
                 \* "none" so far, or "happened"
  owned,         \* the domains the finally clause will terminate
  guard, verified, stale,   \* the PhysicalCurrentHeadGuard of the run
  head,          \* the head of the canonical record
  bypassed,      \* the head moved while the guard was open for H0
  publication,   \* how far current_head_observation.json has come
  receipt,       \* the last materialization receipt accepted from each domain
  disposition    \* the last head state recorded for each domain

guardVars == <<guard, verified, stale>>
headVars == <<head, bypassed, publication>>
recordVars == <<receipt, disposition>>
runVars == <<case, phase, outcome, mishap, owned>>
vars == <<routerVars, case, todo, phase, outcome, mishap, owned,
          guard, verified, stale, head, bypassed, publication, receipt, disposition>>

A == RoleOrder[1]
B == RoleOrder[2]

OpenFor(h) == IF h = "H0" THEN "open_for_H0" ELSE "open_for_H1"

PublicationSteps ==
  <<"constructed", "temporary_written", "file_synced", "replaced",
    "directory_synced", "reread", "reverified">>

DispositionStates ==
  {"unbound", "synchronized_H0", "synchronized_H1", "stale", "head_unconfirmed",
   "invalid", "protocol_invalid"}

-----------------------------------------------------------------------------
(* The programs *)

Ins(op, d, arg) == <<[op |-> op, role |-> d, arg |-> arg]>>
Do(op) == Ins(op, A, "none")

Launch(d, binding) == Ins("spawn", d, "none") \o Ins("send", d, binding) \o Ins("resume", d, "none")

LaunchPair == Launch(A, "bind") \o Launch(B, "bind")

ReceiveLaunch(d) == Ins("await", d, "provenance") \o Ins("await", d, "receipt_H0")

AcceptLaunch(d) ==
  ReceiveLaunch(d) \o Ins("send", d, "inspect_launch") \o Ins("await", d, "available")
    \o Ins("accept", d, "H0")

ClassifyAndOpen ==
  Do("verify") \o Ins("classify", A, "none") \o Ins("classify", B, "none") \o Do("open")

Publish == [i \in 1..Len(PublicationSteps) |->
              [op |-> "publish", role |-> A, arg |-> PublicationSteps[i]]]

\* _advance_physical_guard_to_h1: no checkpoints.
AdvanceToH1 == Do("close") \o Do("commit") \o Publish \o ClassifyAndOpen

\* The observation is published before the transition runs.
WitnessToL3Mutated ==
  LaunchPair \o AcceptLaunch(A) \o AcceptLaunch(B) \o Do("checkpoint")
    \o Do("close") \o Do("checkpoint") \o Publish \o Do("checkpoint")
    \o Do("commit") \o ClassifyAndOpen \o Do("checkpoint")

\* acquire_witness up to L3.
WitnessToL3 ==
  LaunchPair \o AcceptLaunch(A) \o AcceptLaunch(B) \o Do("checkpoint")
    \o Do("close") \o Do("checkpoint") \o Do("commit") \o Do("checkpoint")
    \o Publish \o ClassifyAndOpen \o Do("checkpoint")

RefreshSuccess(d, retention) ==
  Ins("eligible", d, "none") \o Ins("stage", d, "exact") \o Ins("send", d, "refresh")
    \o Ins("await", d, "receipt_H1")
    \o (IF retention THEN Ins("await", d, "retention") ELSE <<>>)
    \o Ins("send", d, "inspect_refresh") \o Ins("await", d, "blocked")
    \o Ins("accept", d, "H1") \o Do("checkpoint")

RefreshRejection(d) ==
  Ins("eligible", d, "none") \o Ins("stage", d, "corrupt") \o Ins("send", d, "refresh")
    \o Ins("await", d, "failure") \o Ins("conclude", d, "stale") \o Do("checkpoint")

Conclude(state) == Ins("conclude", A, state) \o Ins("conclude", B, state)

LocalSteps ==
  Ins("send", A, "step") \o Ins("await", A, "step")
    \o Ins("send", B, "step") \o Ins("await", B, "step") \o Do("checkpoint")

Arm(plan) == Ins("send", A, plan) \o Ins("await", A, "arm_receipt")

\* _acquire_refresh_fault_case.
RefreshFault(plan) ==
  LaunchPair \o AcceptLaunch(A) \o AcceptLaunch(B) \o AdvanceToH1
    \o Ins("stage", A, "exact") \o Arm(plan) \o Ins("send", A, "refresh")
    \o (IF plan = "receipt_emitted" THEN Ins("await", A, "receipt_H1") ELSE <<>>)
    \o Ins("await", A, "fault_result")
    \o Ins("conclude", A, IF plan \in {"refresh_read", "unpublished"} THEN "stale" ELSE "invalid")
    \o Ins("alive", B, "none")

\* _acquire_physical_observation_fault_case.
ObservationFault(plan, h) ==
  LaunchPair
    \o (IF h = "H0"
          THEN ReceiveLaunch(A) \o AcceptLaunch(B)
          ELSE AcceptLaunch(A) \o AcceptLaunch(B) \o AdvanceToH1
                 \o Ins("stage", A, "exact") \o Ins("send", A, "refresh")
                 \o Ins("await", A, "receipt_H1"))
    \o Arm(plan)
    \o Ins("send", A, IF h = "H0" THEN "inspect_launch" ELSE "inspect_refresh")
    \o Ins("await", A, IF plan # "crosscheck" THEN "fault_result"
                       ELSE IF h = "H0" THEN "available" ELSE "blocked")
    \o Ins("conclude", A, "invalid") \o Ins("alive", B, "none")

\* _head_observation_fault_case: the guard and the canonical record, no process.
\* The fault strikes after the named step of the publication, or before the
\* first; a fault before the commit is remembered and acted on after it.
HeadObservationFault(step) ==
  Do("close") \o Do("commit")
    \o SubSeq(Publish, 1, CHOOSE n \in 0..Len(PublicationSteps) :
                            IF step = "none" THEN n = 0 ELSE n > 0 /\ PublicationSteps[n] = step)
    \o Do("fail_closed") \o Conclude("head_unconfirmed")

\* _acquire_live_command_attack.
Attack(kind) ==
  LaunchPair
    \o (CASE kind = "malformed_launch" ->
               ReceiveLaunch(A) \o AcceptLaunch(B)
                 \o Ins("send", A, "malformed") \o Ins("await", A, "failure")
          [] kind = "before_observation" ->
               AcceptLaunch(A) \o AcceptLaunch(B) \o Do("close") \o Do("commit")
                 \o Ins("refused", A, "none")
          [] kind = "second_refresh" ->
               AcceptLaunch(A) \o AcceptLaunch(B) \o AdvanceToH1
                 \o Ins("stage", A, "exact") \o Ins("send", A, "refresh")
                 \o Ins("await", A, "receipt_H1") \o Ins("send", A, "refresh")
                 \o Ins("await", A, "failure")
          [] kind = "malformed_refresh" ->
               AcceptLaunch(A) \o AcceptLaunch(B) \o AdvanceToH1
                 \o Ins("stage", A, "exact") \o Ins("send", A, "malformed")
                 \o Ins("await", A, "failure"))
    \o Ins("alive", A, "none") \o Ins("alive", B, "none")

\* acquire_witness, then the drain of every process that _domain_evidence does.
Witness(id) ==
  CASE id = "w1_a_then_b" ->
         WitnessToL3 \o RefreshSuccess(A, FALSE) \o RefreshSuccess(B, FALSE)
    [] id = "w2_b_then_a" ->
         WitnessToL3 \o RefreshSuccess(B, FALSE) \o RefreshSuccess(A, FALSE)
    [] id = "w3_stale_quarantine" -> WitnessToL3 \o LocalSteps \o Conclude("stale")
    [] id = "w4_head_observation_failure" ->
         LaunchPair \o AcceptLaunch(A) \o AcceptLaunch(B) \o Do("checkpoint")
           \o Do("close") \o Do("checkpoint") \o Do("commit") \o Do("checkpoint")
           \o Do("fail_closed") \o Conclude("head_unconfirmed")
    [] id = "w5_retention" ->
         WitnessToL3 \o RefreshSuccess(A, TRUE) \o RefreshSuccess(B, TRUE)
    [] id = "w6_asymmetric_a" -> WitnessToL3 \o RefreshSuccess(A, FALSE) \o RefreshRejection(B)
    [] id = "w6_asymmetric_b" -> WitnessToL3 \o RefreshSuccess(B, FALSE) \o RefreshRejection(A)
    [] id = "w7_destroy_a" ->
         WitnessToL3 \o RefreshSuccess(A, FALSE) \o RefreshSuccess(B, FALSE)
           \o Ins("terminate", A, "none") \o Ins("alive", B, "none")
    [] id = "w7_destroy_b" ->
         WitnessToL3 \o RefreshSuccess(A, FALSE) \o RefreshSuccess(B, FALSE)
           \o Ins("terminate", B, "none") \o Ins("alive", A, "none")
    [] id = "w8_guard_open_control" ->
         LaunchPair \o AcceptLaunch(A) \o AcceptLaunch(B) \o Do("checkpoint")
           \o Do("checkpoint") \o Do("commit") \o Do("fail_closed")
           \o Conclude("protocol_invalid")

Program(c) ==
  CASE c.kind = "witness" -> Witness(c.arg) \o Do("evidence")
    [] c.kind = "refresh_fault" -> RefreshFault(c.arg) \o Do("evidence")
    [] c.kind = "observation_fault" -> ObservationFault(c.arg, c.at) \o Do("evidence")
    [] c.kind = "head_observation_fault" -> HeadObservationFault(c.arg)
    [] c.kind = "attack" -> Attack(c.arg) \o Do("evidence")
    [] c.kind = "binding_adversary" -> Launch(A, "bind_mutated") \o Ins("await", A, "failure")

\* What there is to acquire.
Case(kind, args, ats) == {[kind |-> kind, arg |-> x, at |-> y] : x \in args, y \in ats}

WitnessCases ==
  Case("witness",
       {"w1_a_then_b", "w2_b_then_a", "w3_stale_quarantine", "w4_head_observation_failure",
        "w5_retention", "w6_asymmetric_a", "w6_asymmetric_b", "w7_destroy_a",
        "w7_destroy_b", "w8_guard_open_control"}, {"none"})

FaultCases ==
  Case("refresh_fault", RefreshPlans, {"none"})
    \cup Case("observation_fault", ObservationPlans, Heads)
    \cup Case("head_observation_fault",
              {"none"} \cup {PublicationSteps[i] : i \in 1..Len(PublicationSteps)}, {"none"})

AttackCases ==
  Case("attack",
       {"malformed_launch", "before_observation", "second_refresh", "malformed_refresh"}, {"none"})
    \cup Case("binding_adversary", {"any_field"}, {"none"})

AllCases == WitnessCases \cup FaultCases \cup AttackCases

ASSUME CasesAssumption == Cases \subseteq AllCases

WitnessOf(c) ==
  CASE c.arg = "w3_stale_quarantine" -> "quarantine"
    [] c.arg = "w5_retention" -> "retention"
    [] c.kind \in {"refresh_fault", "attack"} -> "refresh_fault"
    [] c.kind = "observation_fault" -> "observation_fault"
    [] OTHER -> "plain"

TypeOKHarness ==
  /\ TypeOK
  /\ case \in Cases
  /\ phase \in {"acquire", "finally", "ended"}
  /\ outcome \in {"none", "completed", "aborted"}
  /\ mishap \in {"excluded", "none", "happened"}
  /\ owned \subseteq Domains
  /\ guard \in {"open_for_H0", "closed_for_H0_to_H1", "open_for_H1", "failed_closed"}
  /\ verified \in BOOLEAN
  /\ stale \subseteq Domains
  /\ head \in Heads
  /\ bypassed \in BOOLEAN
  /\ publication \in {"none"} \cup {PublicationSteps[i] : i \in 1..Len(PublicationSteps)}
  /\ receipt \in [Domains -> {"none", "receipt_H0", "receipt_H1"}]
  /\ disposition \in [Domains -> DispositionStates]

Init ==
  /\ case \in Cases
  /\ witness = WitnessOf(case)
  /\ todo = Program(case)
  /\ RouterInit
  /\ phase = "acquire" /\ outcome = "none" /\ mishap \in {"excluded", "none"} /\ owned = {}
  /\ guard = "open_for_H0" /\ verified = FALSE /\ stale = {}
  /\ head = "H0" /\ bypassed = FALSE /\ publication = "none"
  /\ receipt = [d \in Domains |-> "none"]
  /\ disposition = [d \in Domains |-> "unbound"]

-----------------------------------------------------------------------------
(* One instruction *)

Current == Head(todo)
Executes(op) == phase = "acquire" /\ todo # <<>> /\ Current.op = op
Done == todo' = Tail(todo) /\ UNCHANGED <<case, phase, outcome, mishap>>

Alive(d) == proc[d].life = "running"

\* _launch_domain: posix_spawn suspended, write the binding, register the exit
\* watch, SIGCONT.  Only the returned handle puts the domain in the dictionary
\* that every cleanup walks.
Spawn ==
  /\ Executes("spawn")
  /\ proc' = [proc EXCEPT ![Current.role].life = "suspended"]
  /\ Done
  /\ UNCHANGED <<witness, control, output, bundle, owned, guardVars, headVars, recordVars>>

Resume ==
  /\ Executes("resume")
  /\ proc' = [proc EXCEPT ![Current.role].life = IF @ = "suspended" THEN "running" ELSE @]
  /\ owned' = owned \cup {Current.role}
  /\ Done
  /\ UNCHANGED <<witness, control, output, bundle, guardVars, headVars, recordVars>>

Send ==
  LET d == Current.role IN
  /\ Executes("send")
  /\ proc[d].life \in {"suspended", "running"}
  /\ control' = [control EXCEPT ![d] = Append(@, Current.arg)]
  /\ Done
  /\ UNCHANGED <<witness, proc, output, bundle, owned, guardVars, headVars, recordVars>>

\* next_object takes the first object its predicate admits; the predicates tell
\* receipts, and observations, apart only from other schemas.
Receipts == {"receipt_H0", "receipt_H1"}
Observations == {"available", "blocked"}
Admits(wanted, o) ==
  \/ o = wanted
  \/ {o, wanted} \subseteq Receipts
  \/ {o, wanted} \subseteq Observations

Admitted(d, wanted) == {i \in DOMAIN output[d] : Admits(wanted, output[d][i])}
First(S) == CHOOSE i \in S : \A j \in S : i <= j
FailureAhead(d, wanted) ==
  \E i \in DOMAIN output[d] :
    output[d][i] = "failure" /\ \A j \in Admitted(d, wanted) : i < j

\* The validation after next_object: an observation must be the expected one, a
\* receipt is checked against the head it names itself.
Valid(wanted, o) == o = wanted \/ o \in Receipts

Without(s, i) == SubSeq(s, 1, i - 1) \o SubSeq(s, i + 1, Len(s))

Await ==
  LET d == Current.role
      wanted == Current.arg
      found == Admitted(d, wanted)
      object == output[d][First(found)]
  IN /\ Executes("await")
     /\ Alive(d)                       \* drain meets no end of file
     /\ found # {} /\ ~FailureAhead(d, wanted) /\ Valid(wanted, object)
     /\ output' = [output EXCEPT ![d] = Without(@, First(found))]
     /\ receipt' = IF object \in Receipts THEN [receipt EXCEPT ![d] = object] ELSE receipt
     /\ Done
     /\ UNCHANGED <<witness, proc, control, bundle, owned, guardVars, headVars, disposition>>

\* Whatever only looks at the processes: _checkpoint, assert_alive and the drain
\* of _domain_evidence, which skips a domain already terminated.
Watched ==
  CASE Current.op = "checkpoint" -> Domains
    [] Current.op = "alive" -> {Current.role}
    [] Current.op = "evidence" -> {d \in Domains : proc[d].life # "reaped"}

Watch ==
  /\ Executes("checkpoint") \/ Executes("alive") \/ Executes("evidence")
  /\ \A d \in Watched : Alive(d)
  /\ Done
  /\ UNCHANGED <<routerVars, owned, guardVars, headVars, recordVars>>

\* LiveDomain.terminate: SIGTERM, then SIGKILL, and waitpid to the end.
Reap(d) ==
  /\ proc' = [proc EXCEPT ![d].life = "reaped"]
  /\ UNCHANGED <<witness, control, output, bundle>>

Terminate ==
  /\ Executes("terminate")
  /\ Reap(Current.role)
  /\ Done
  /\ UNCHANGED <<owned, guardVars, headVars, recordVars>>

StageRefresh ==
  /\ Executes("stage")
  /\ bundle' = [bundle EXCEPT ![Current.role] = Current.arg]
  /\ Done
  /\ UNCHANGED <<witness, proc, control, output, owned, guardVars, headVars, recordVars>>

-----------------------------------------------------------------------------
(* The guard, the canonical record and the observation file *)

CloseForH0ToH1 ==
  /\ Executes("close")
  /\ guard = "open_for_H0"
  /\ guard' = "closed_for_H0_to_H1"
  /\ Done
  /\ UNCHANGED <<routerVars, owned, verified, stale, headVars, recordVars>>

\* canonical_transition_run reads neither the guard nor a process.
CommitHead ==
  /\ Executes("commit")
  /\ head' = "H1"
  /\ bypassed' = (guard = "open_for_H0")
  /\ Done
  /\ UNCHANGED <<routerVars, owned, guardVars, publication, recordVars>>

\* Construction and reverification use the sealed R1, not the record that the
\* transition left: that H1 is committed when it is observed is the program's order.
PublishObservation ==
  /\ Executes("publish")
  /\ publication' = Current.arg
  /\ Done
  /\ UNCHANGED <<routerVars, owned, guardVars, head, bypassed, recordVars>>

VerifyH1Observation ==
  /\ Executes("verify")
  /\ guard = "closed_for_H0_to_H1" /\ ~verified
  /\ verified' = TRUE
  /\ Done
  /\ UNCHANGED <<routerVars, owned, guard, stale, headVars, recordVars>>

ClassifyStale ==
  /\ Executes("classify")
  /\ guard = "closed_for_H0_to_H1" /\ verified /\ Current.role \notin stale
  /\ stale' = stale \cup {Current.role}
  /\ Done
  /\ UNCHANGED <<routerVars, owned, guard, verified, headVars, recordVars>>

OpenForH1 ==
  /\ Executes("open")
  /\ guard = "closed_for_H0_to_H1" /\ verified /\ stale = Domains
  /\ guard' = "open_for_H1"
  /\ Done
  /\ UNCHANGED <<routerVars, owned, verified, stale, headVars, recordVars>>

FailClosed ==
  /\ Executes("fail_closed")
  /\ guard # "failed_closed"
  /\ guard' = "failed_closed"
  /\ Done
  /\ UNCHANGED <<routerVars, owned, verified, stale, headVars, recordVars>>

RefreshEligible(d) == guard = "open_for_H1" /\ d \in stale

\* assert_refresh_eligible, called for its answer or, in one attack, for its refusal.
AssertRefreshEligible ==
  /\ \/ Executes("eligible") /\ RefreshEligible(Current.role)
     \/ Executes("refused") /\ ~RefreshEligible(Current.role)
  /\ Done
  /\ UNCHANGED <<routerVars, owned, guardVars, headVars, recordVars>>

\* head_disposition with head_state "synchronized": the represented and the
\* observed head are the caller's constants, the guard is the one live input.
AcceptSynchronized ==
  /\ Executes("accept")
  /\ guard = OpenFor(Current.arg)
  /\ disposition' = [disposition EXCEPT ![Current.role] =
                       IF Current.arg = "H0" THEN "synchronized_H0" ELSE "synchronized_H1"]
  /\ Done
  /\ UNCHANGED <<routerVars, owned, guardVars, headVars, receipt>>

RecordDisposition ==
  /\ Executes("conclude")
  /\ disposition' = [disposition EXCEPT ![Current.role] = Current.arg]
  /\ Done
  /\ UNCHANGED <<routerVars, owned, guardVars, headVars, receipt>>

-----------------------------------------------------------------------------
(* What raises, and the finally clause *)

Abandon ==
  /\ todo' = <<>>
  /\ phase' = "finally"
  /\ outcome' = "aborted"
  /\ UNCHANGED <<routerVars, case, owned, guardVars, headVars, recordVars>>

\* The conditions under which the current instruction raises by itself.
Raises ==
  LET d == Current.role IN
  CASE Current.op = "send" -> proc[d].life = "exited"
    [] Current.op = "await" ->
         \/ ~Alive(d)
         \/ FailureAhead(d, Current.arg)
         \/ /\ Admitted(d, Current.arg) # {}
            /\ ~Valid(Current.arg, output[d][First(Admitted(d, Current.arg))])
    [] Current.op \in {"checkpoint", "alive", "evidence"} -> \E e \in Watched : ~Alive(e)
    [] Current.op = "close" -> guard # "open_for_H0"
    [] Current.op = "verify" -> guard # "closed_for_H0_to_H1" \/ verified
    [] Current.op = "classify" ->
         guard # "closed_for_H0_to_H1" \/ ~verified \/ Current.role \in stale
    [] Current.op = "open" ->
         guard # "closed_for_H0_to_H1" \/ ~verified \/ stale # Domains
    [] Current.op = "fail_closed" -> guard = "failed_closed"
    [] Current.op = "eligible" -> ~RefreshEligible(d)
    [] Current.op = "refused" -> RefreshEligible(d)
    [] Current.op = "accept" -> guard # OpenFor(Current.arg)
    [] OTHER -> FALSE

Raise ==
  /\ phase = "acquire" /\ todo # <<>> /\ Raises
  /\ Abandon
  /\ UNCHANGED mishap

Goes(wrong) == wrong \in Mishaps /\ mishap # "excluded" /\ mishap' = "happened"

\* next_object waits without a deadline.
TimeoutMutated == FALSE /\ Abandon /\ Goes("timeout")

\* The 180 seconds of next_object pass without the awaited object.
Timeout ==
  /\ Goes("timeout")
  /\ Executes("await")
  /\ Alive(Current.role) /\ Admitted(Current.role, Current.arg) = {}
  /\ Abandon

\* Spawning, piping, staging and publishing all call the operating system, and drain
\* appends what it reads to a file.
IoError ==
  /\ Goes("io")
  /\ \E op \in {"spawn", "send", "resume", "stage", "publish",
                 "await", "checkpoint", "alive", "evidence"} : Executes(op)
  /\ Abandon

Return ==
  /\ phase = "acquire" /\ todo = <<>>
  /\ phase' = "finally"
  /\ outcome' = "completed"
  /\ UNCHANGED <<routerVars, case, todo, mishap, owned, guardVars, headVars, recordVars>>

\* The clause stops at the first domain.
UnreapedMutated == {i \in 1..1 : RoleOrder[i] \in owned /\ proc[RoleOrder[i]].life # "reaped"}

\* finally: for role, domain in domains.items(): domain.terminate()
Unreaped == {i \in 1..2 : RoleOrder[i] \in owned /\ proc[RoleOrder[i]].life # "reaped"}

Clean ==
  /\ phase = "finally"
  /\ IF Unreaped # {}
       THEN Reap(RoleOrder[First(Unreaped)]) /\ UNCHANGED phase
       ELSE phase' = "ended" /\ UNCHANGED routerVars
  /\ UNCHANGED <<case, todo, outcome, mishap, owned, guardVars, headVars, recordVars>>

\* The last drain of terminate raises, after waitpid and before the descriptors are
\* closed; a finally clause swallows the error.  Nothing uses the descriptors again.
TerminateRaises ==
  /\ Goes("io")
  /\ \/ /\ Executes("terminate")
        /\ Reap(Current.role)
        /\ todo' = <<>> /\ phase' = "finally" /\ outcome' = "aborted"
     \/ /\ phase = "finally" /\ Unreaped # {}
        /\ Reap(RoleOrder[First(Unreaped)])
        /\ UNCHANGED <<todo, phase, outcome>>
  /\ UNCHANGED <<case, owned, guardVars, headVars, recordVars>>

Harness ==
  \/ Spawn \/ Resume \/ Send \/ Await \/ Watch \/ Terminate \/ StageRefresh
  \/ CloseForH0ToH1 \/ CommitHead \/ PublishObservation \/ VerifyH1Observation
  \/ ClassifyStale \/ OpenForH1 \/ FailClosed \/ AssertRefreshEligible
  \/ AcceptSynchronized \/ RecordDisposition
  \/ Raise \/ Return \/ Clean

Process(d) ==
  /\ HandleLine(d)
  /\ UNCHANGED <<runVars, todo, guardVars, headVars, recordVars>>

ProcessDies(d) ==
  /\ Goes("crash")
  /\ Crash(d)
  /\ UNCHANGED <<case, phase, outcome, owned, todo, guardVars, headVars, recordVars>>

Next ==
  \/ Harness \/ Timeout \/ IoError \/ TerminateRaises
  \/ \E d \in Domains : Process(d) \/ ProcessDies(d)

Spec == Init /\ [][Next]_vars

\* The harness is a running program and its waits are bounded.  The game threads of
\* the processes tick in the runs where nothing goes wrong; in the others nothing is
\* assumed of them.
HarnessSpec ==
  /\ Spec /\ WF_vars(Harness) /\ WF_vars(Timeout)
  /\ \A d \in Domains : WF_vars(mishap = "excluded" /\ Process(d))

-----------------------------------------------------------------------------
(* Properties *)

\* The run obeys the guard law: its steps on the guard, the head, the observation
\* and the representations are steps of CurrentHeadGuard, or change none of them.
\* The attack that sends a second refresh, and the fault cases, never ask
\* assert_refresh_eligible: there the order of the program alone must do it.
Law == INSTANCE CurrentHeadGuard WITH
  observed <- publication = "reverified",
  represented <- [d \in Domains |-> proc[d].represented],
  claim <- [d \in Domains |-> CASE disposition[d] = "synchronized_H0" -> "H0"
                                [] disposition[d] = "synchronized_H1" -> "H1"
                                [] OTHER -> "none"]

ImplementsGuardLaw == Law!Spec

\* Every variable has its type, and what the harness recorded agrees with the
\* process it recorded it of, although it never sees more than the objects on the
\* pipe and validates a receipt against the head the receipt itself names
\* (validate_materialization_receipt): the accepted receipt is the one of the
\* accepted head, the process represents that head and shows its route, and a
\* domain recorded stale still shows H0.
RecordsMatchProcesses ==
  TypeOKHarness /\ \A d \in Domains :
    /\ disposition[d] = "synchronized_H0" /\ guard = "open_for_H0" =>
         receipt[d] = "receipt_H0" /\ proc[d].represented = "H0" /\ proc[d].shown = "available"
    /\ disposition[d] = "synchronized_H1" =>
         receipt[d] = "receipt_H1" /\ proc[d].represented = "H1" /\ proc[d].shown = "blocked"
    /\ disposition[d] \in {"stale", "head_unconfirmed", "protocol_invalid"} =>
         proc[d].represented \in {"none", "H0"}

\* When the run is over no process is running and none that it owns is left even
\* as a zombie, whatever failed on the way (the finally clauses).  A process whose
\* launch raised between posix_spawn and the returned handle is not owned: it
\* stays suspended or dead, and this property does not hide it.
NoneLeftRunning ==
  phase = "ended" => \A d \in Domains :
    /\ d \in owned => proc[d].life = "reaped"
    /\ proc[d].life # "running"

\* A process that hangs or dies never keeps the harness waiting for ever, and when
\* nothing goes wrong every acquisition runs to its recorded conclusion: the harness
\* and the routers never wait for each other.
AcquisitionEnds ==
  /\ <>(phase = "ended")
  /\ mishap = "excluded" => <>(outcome = "completed")

-----------------------------------------------------------------------------
(* What the documents say and the code does not do *)

\* "A fault before the complete H1 reread/reverification and both stale
\* classifications leaves the guard `failed_closed` for that witness."
PublicationFaultFailsClosed ==
  phase = "ended" /\ head = "H1" /\ stale # Domains => guard = "failed_closed"

=============================================================================
