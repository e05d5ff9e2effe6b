-------------------------- MODULE LiveEvidenceCase --------------------------
(***************************************************************************)
(* One frozen case of the live cross-domain evidence round trip, from the  *)
(* launch of its two Unreal processes to its written record:               *)
(* CasePrefixExecution.execute_case over the process cohort, the captured  *)
(* canonical execution and the original connections.                       *)
(*                                                                         *)
(* The parent is sequential: a script of steps per stage, the stages       *)
(* prefix, failure (the case's fault), terminal (census of the survivors), *)
(* cleanup (always) and record.  A step that raises in the prefix or the   *)
(* failure withdraws every claim and goes to the cleanup.  The processes,  *)
(* the signals and the mishaps interleave with it.                         *)
(***************************************************************************)
EXTENDS LiveEvidenceConnection, FiniteSets

CONSTANTS Cases,             \* the cases that meet mishaps
          CalmCases,         \* the cases in which every process does its best
          MishapBound        \* crashes and exceptions out of the ordinary; a bound for TLC

ASSUME CaseAssumption ==
  /\ Labels = {"domain_A", "domain_B", "replacement"}
  /\ MishapBound \in Nat

Domains == {"domain_A", "domain_B"}

Witnesses == {"W1", "W2", "W3", "W4", "W5", "W6", "W7", "W8"}
CanonicalFaults == {"C01", "C02", "C03", "C04", "C05", "C06"}
Kills == {"F07", "F08", "F11", "F12"}
Killed(c) == IF c \in {"F08", "F12"} THEN "domain_B" ELSE "domain_A"

AB == <<"domain_A", "domain_B">>
BA == <<"domain_B", "domain_A">>
Emission(c) == IF c \in {"W5", "W6", "W7", "W8"} THEN BA ELSE AB
Presentation(c) == IF c \in {"W3", "W4", "W7", "W8"} THEN BA ELSE AB
Refresh(c) == IF c \in {"W2", "W4", "W6", "W8"} THEN BA ELSE AB

Phases(c) ==                                   \* case.prefix
  IF c \in Witnesses THEN 5
  ELSE IF c \in {"F01", "F08", "F09"} THEN 0
  ELSE IF c \in {"F02", "F03", "F04a", "F04b", "F05", "F06"} THEN 1
  ELSE IF c \in {"F07"} \cup CanonicalFaults THEN 2
  ELSE 3
Published(c) == Phases(c) >= 3                 \* case.publication_count

\* case.underlying_code of the cases that expect a failure
ExpectedCode(c) ==
  CASE c \in {"F08", "F11", "F12"} -> "exited"
    [] c = "F07" -> "identity"
    [] c = "F09" -> "committed_record_required"
    [] c \in PartialCases -> "partial_publication"
    [] c = "F15" -> "owner"
    [] c = "F16a" -> "cardinality"
    [] c = "F16b" -> "generation"
    [] c = "F17" -> "immediate_successor_required"
    [] c = "F18" -> "binding_mismatch"
    [] OTHER -> "rejected"                     \* concurrent_external_...
FailureCodes == {"none", "raised"} \cup
                {ExpectedCode(c) : c \in Kills \cup PartialCases \cup SabotageCases
                                           \cup {"F01", "F09", "F17", "F18"}}

VARIABLES
  stage, at,      \* the next step of the parent
  wrong,          \* an error is recorded
  code,           \* _failure_code, or what its action has raised so far
  head,           \* CanonicalRoundTrip._head_raw
  calls,          \* canonical calls retained
  captures,       \* domains whose emission is retained
  represented,    \* the record each domain's last accepted receipt is for
  observed,       \* each domain's last census
  disposition,    \* _dispositions, the claim made of each domain
  wireFaults,     \* the worlds of the fault events returned by exchanges
  dead,           \* domains found dead by the checkpoint under way
  birth,          \* processes whose identity is known: OriginalPipeProcess.birth
  monitored,      \* processes with a monitor, and so with stream files
  signal,         \* the signal sent to each process
  status,         \* of the case record
  mishaps

canonicalVars == <<head, calls, captures>>
claimVars == <<represented, observed>>
parentVars == <<wireFaults, dead, birth, monitored, signal>>
vars == <<processVars, conn, stage, at, wrong, code, canonicalVars, claimVars, disposition,
          parentVars, status, mishaps>>

-----------------------------------------------------------------------------
(* The scripts *)

S(do, on, op) == [do |-> do, on |-> on, op |-> op]
Both(do, op) == <<S(do, "domain_A", op), S(do, "domain_B", op)>>
In(order, do, op) == <<S(do, order[1], op), S(do, order[2], op)>>

Launch(l) == <<S("spawn", l, "none"), S("resume", l, "none")>>
\* _live and _inspect: a checkpoint has the name of the inspection it follows.
Live(checkpoint) == Both("sample", checkpoint) \o <<S("alive", "domain_A", "none")>>
Inspects(op) == Both("ask", op) \o Both("classify", op) \o Live(op)
Canonical == <<S("call", "domain_A", "none")>>
Calls3 == Canonical \o Canonical \o Canonical
Resolves == Live("before_resolve") \o Canonical \o Live("after_resolve")

\* run_prefix, by phase
Phase(c, p) ==
  CASE p = 0 -> Launch("domain_A") \o Launch("domain_B") \o Both("startup", "none")
                  \o <<S("sample_startup", "domain_A", "none"), S("ask", "domain_A", "bind_0001"),
                       S("sample_startup", "domain_B", "none"), S("ask", "domain_B", "bind_0001")>>
                  \o Both("ask", "materialize_0001") \o Inspects("inspect_L0")
    [] p = 1 -> In(Emission(c), "ask", "emit_0001") \o Inspects("inspect_L1")
    [] p = 2 -> Calls3 \o Inspects("inspect_L2")
    [] p = 3 -> Both("invalidate", "none") \o Resolves
                  \o Both("supersede", "none") \o Inspects("inspect_L3")
    [] p = 4 -> <<S("ask", Refresh(c)[1], "materialize_0002")>> \o Inspects("inspect_L4")
    [] p = 5 -> <<S("ask", Refresh(c)[2], "materialize_0002")>> \o Inspects("inspect_L5")

From(c, p) == IF p <= Phases(c) THEN Phase(c, p) ELSE <<>>
Prefix(c) ==
  Phase(c, 0) \o From(c, 1) \o From(c, 2) \o From(c, 3) \o From(c, 4) \o From(c, 5)

\* _canonical_failure, _command_failure, _process_failure, _child_failure
Failure(c) ==
  LET kill == <<S("snapshot", Killed(c), "none"), S("terminate", Killed(c), "none"),
                S("await_exit", Killed(c), "none")>>
      refresh == S("ask", ArmDomain(c), "materialize_0002")
  IN (CASE c = "F01" -> <<S("ask", "domain_A", "emit_0001")>> \o Canonical \o Canonical
        [] c \in {"F02", "F03", "F05", "F06", "F10a", "F10b"} -> Canonical
        [] c \in {"F04a", "F04b"} -> Calls3
        [] c \in CanonicalFaults -> Resolves
        [] c = "F07" -> kill \o Launch("replacement")
                          \o <<S("startup", "replacement", "none"),
                               S("snapshot", "replacement", "none")>>
        [] c = "F08" -> <<S("ask", "domain_A", "emit_0001")>> \o kill
        [] c \in {"F11", "F12"} -> kill
        [] c \in {"F09", "F17", "F18"} -> <<refresh>>
        [] OTHER -> <<S("ask", ArmDomain(c), "arm_fault_0001"), refresh>> \o Inspects("inspect_L4"))
     \o <<S("conclude", "domain_A", "none")>>

Terminal_ ==
  Both("ask", "inspect_terminal") \o Both("sample", "inspect_terminal") \o Both("census", "none")

\* cleanup, over the entries in launch order
Ends(l) == <<S("shutdown", l, "shutdown_0001"), S("wait", l, "none"), S("close", l, "none")>>
Cleanup == Ends("domain_A") \o Ends("domain_B") \o Ends("replacement")

Stages == {"prefix", "failure", "terminal", "cleanup", "record", "done"}

Script ==
  [s \in Stages |-> [c \in Cases \cup CalmCases |->
     CASE s = "prefix" -> Prefix(c)
       [] s = "failure" -> Failure(c)
       [] s = "terminal" -> Terminal_
       [] s = "cleanup" -> Cleanup
       [] OTHER -> <<S(s, "domain_A", "none")>>]]

NextStage ==
  CASE stage = "prefix" -> IF case \in Witnesses THEN "cleanup" ELSE "failure"
    [] stage = "failure" -> "terminal"
    [] stage = "terminal" -> "cleanup"
    [] stage = "cleanup" -> "record"
    [] OTHER -> "done"

Step == Script[stage][case][at]
Does(do) == Step.do = do

TypeOKCase ==
  /\ TypeOK /\ ConnectionTypeOK
  /\ stage \in Stages /\ at \in 1..Len(Script[stage][case])
  /\ wrong \in BOOLEAN /\ code \in FailureCodes
  /\ head \in {"R0", "R1"} /\ calls \in 0..5 /\ captures \subseteq Domains
  /\ represented \in [Domains -> {"none", "R0", "R1"}]
  /\ observed \in [Domains -> Worlds]
  /\ disposition \in [Domains -> {"unclaimed", "current", "stale", "unavailable"}]
  /\ wireFaults \in Seq(Worlds) /\ dead \subseteq Domains
  /\ birth \subseteq Labels /\ monitored \subseteq birth
  /\ signal \in [Labels -> {"none", "TERM", "KILL"}]
  /\ status \in {"running", "accepted", "expected_failure", "acquisition_failure", "unwritten"}
  /\ mishaps \in 0..MishapBound + 1

Init ==
  /\ \/ case \in Cases /\ mishaps = 0
     \/ case \in CalmCases /\ mishaps = MishapBound + 1
  /\ ProcessInit /\ ConnectionInit
  /\ stage = "prefix" /\ at = 1 /\ wrong = FALSE /\ code = "none"
  /\ head = "R0" /\ calls = 0 /\ captures = {}
  /\ represented = [d \in Domains |-> "none"]
  /\ observed = [d \in Domains |-> Empty]
  /\ disposition = [d \in Domains |-> "unclaimed"]
  /\ wireFaults = <<>> /\ dead = {} /\ birth = {} /\ monitored = {}
  /\ signal = [l \in Labels |-> "none"]
  /\ status = "running"

-----------------------------------------------------------------------------
(* How a step ends *)

Moves ==
  IF at < Len(Script[stage][case])
  THEN at' = at + 1 /\ UNCHANGED stage
  ELSE at' = 1 /\ stage' = NextStage

Unclaimed == [d \in Domains |-> "unclaimed"]

Proceeds(claims) ==
  /\ Moves
  /\ disposition' = claims
  /\ UNCHANGED <<wrong, code>>

\* Whatever is raised: prefix and failure end at once, the terminal census and the
\* cleanup go on with the next process and remember the error.
Raises ==
  /\ IF stage \in {"prefix", "failure"}
     THEN stage' = "cleanup" /\ at' = 1 /\ disposition' = Unclaimed
     ELSE IF Does("census") THEN stage' = "cleanup" /\ at' = 1 /\ UNCHANGED disposition
     ELSE Moves /\ UNCHANGED disposition
  /\ wrong' = TRUE
  /\ UNCHANGED code

\* A ValueError with a code: the command and child failures catch it, and it may be
\* the one the case is for.
Catches == /\ stage = "failure" /\ Step.op # "arm_fault_0001"
           /\ case \in {"F09", "F17", "F18"} \cup PartialCases \cup SabotageCases
RaisesCode(c) ==
  IF Catches /\ c = ExpectedCode(case)
  THEN /\ at' = Len(Script[stage][case])
       /\ code' = c
       /\ UNCHANGED <<stage, wrong, disposition>>
  ELSE Raises

Quietly == UNCHANGED <<status, mishaps>>

\* No mishap, no actor that is not spawned, and no deadline that passes before a process that
\* would still have answered.
Calm == mishaps > MishapBound
Mishap == mishaps < MishapBound /\ mishaps' = mishaps + 1 /\ UNCHANGED status

\* poll: an exited child is reaped.
Polled(l) ==
  /\ proc' = IF proc[l].life = "exited" THEN [proc EXCEPT ![l].life = "reaped"] ELSE proc
  /\ UNCHANGED <<case, control, output, closed>>

\* The child has nothing left to do: waiting longer changes nothing.
Quiet(l) ==
  \/ Dead(l) \/ proc[l].life \in {"absent", "suspended"}
  \/ /\ proc[l].life = "running" /\ proc[l].started /\ ~closed[l]
     /\ control[l] = <<>> /\ proc[l].pending = NoLine
Late(l) == ~Calm \/ Quiet(l)

-----------------------------------------------------------------------------
(* Launch and startup *)

\* OriginalPipeProcess.start: the child exists, suspended, before it is identified.
Spawn ==
  LET l == Step.on IN
  /\ Does("spawn")
  /\ proc' = [proc EXCEPT ![l].life = "suspended"]
  /\ \/ /\ birth' = birth \cup {l} /\ monitored' = monitored \cup {l}
        /\ Proceeds(disposition) /\ Quietly
     \/ /\ birth' = birth \cup {l} /\ UNCHANGED monitored    \* a validation rejects it
        /\ Raises /\ Mishap
     \/ /\ UNCHANGED <<birth, monitored>>                  \* proc_pidinfo fails
        /\ Raises /\ Mishap
  /\ UNCHANGED <<case, control, output, closed, conn, canonicalVars, claimVars, wireFaults,
                 dead, signal>>

Resume ==
  /\ Does("resume")
  /\ proc' = [proc EXCEPT ![Step.on].life = "running"]
  /\ Proceeds(disposition) /\ Quietly
  /\ UNCHANGED <<case, control, output, closed, conn, canonicalVars, claimVars, parentVars>>

ReadStartup ==
  /\ Does("startup")
  /\ \/ AwaitStartup(Step.on) /\ UNCHANGED <<stage, at, wrong, code, disposition>>
     \/ Answered(Step.on) /\ Proceeds(disposition)
  /\ Quietly /\ UNCHANGED <<canonicalVars, claimVars, parentVars>>

\* The sample a binding is made of.
SampleStartup ==
  /\ Does("sample_startup")
  /\ Polled(Step.on)
  /\ IF Dead(Step.on) THEN Raises ELSE Proceeds(disposition)
  /\ Quietly /\ UNCHANGED <<conn, canonicalVars, claimVars, parentVars>>

-----------------------------------------------------------------------------
(* Commands *)

\* materialize_input takes the head; F09, F17 and F18 alter the input or the bytes.
Command ==
  [op |-> Step.op,
   binding |-> ~(case = "F18" /\ Step.op = "materialize_0002"),
   record |-> IF Step.op \notin Materializations THEN "none"
              ELSE IF stage = "failure" /\ case = "F09" THEN "working"
              ELSE IF stage = "failure" /\ case = "F17" THEN "R0" ELSE head,
   exact |-> TRUE]

\* What the caller keeps of a good response.
Retains(d, op, seen) ==
  /\ represented' = IF op \in Materializations THEN [represented EXCEPT ![d] = head]
                    ELSE represented
  /\ observed' = IF op \in Inspections THEN [observed EXCEPT ![d] = seen] ELSE observed
  /\ captures' = IF op = "emit_0001" THEN captures \cup {d} ELSE captures

\* capture_terminal does not ask the dead, cleanup asks whom it still can.
Asks ==
  \/ Does("ask") /\ ~(stage = "terminal" /\ Dead(Step.on))
  \/ /\ Does("shutdown") /\ Step.on \in Domains /\ ~Dead(Step.on)
     /\ conn[Step.on].bound /\ MayAsk(Step.on, Step.op)

Request ==
  /\ Asks
  /\ \/ Ask(Step.on, Command) /\ UNCHANGED <<stage, at, wrong, code, disposition>>
     \/ AskInVain(Step.on, Command) /\ Raises
  /\ Quietly /\ UNCHANGED <<canonicalVars, claimVars, parentVars>>

Skip ==
  /\ Does("ask") \/ Does("shutdown")
  /\ ~Awaits(Step.on) /\ ~Asks
  /\ Polled(Step.on) /\ Proceeds(disposition) /\ Quietly
  /\ UNCHANGED <<conn, canonicalVars, claimVars, parentVars>>

Hear ==
  /\ Hears(Step.on)
  /\ Quietly
  /\ UNCHANGED <<stage, at, wrong, code, canonicalVars, claimVars, disposition, parentVars>>

Response_ ==
  LET l == Step.on  object == Object(l) IN
  /\ Does("ask") \/ Does("shutdown")
  /\ Answered(l)
  /\ wireFaults' = wireFaults \o conn[l].faults
  /\ IF object.code = "ok"
     THEN Retains(l, object.op, object.seen) /\ Proceeds(disposition)
     ELSE RaisesCode(object.code) /\ UNCHANGED <<represented, observed, captures>>
  /\ Quietly /\ UNCHANGED <<head, calls, dead, birth, monitored, signal>>

\* There is no deadline.
NoResponseMutated ==
  LET l == Step.on IN
  /\ Awaits(l)
  /\ Breaks(l) /\ Quietly
  /\ Raises
  /\ UNCHANGED <<canonicalVars, claimVars, parentVars>>

\* The exchange fails: a broken stream, or the deadline.
NoResponse ==
  LET l == Step.on IN
  /\ Awaits(l)
  /\ \/ Breaks(l) /\ Quietly
     \/ GivesUp(l) /\ Quietly /\ (~Calm \/ (Quiet(l) /\ output[l] = <<>>))
     \/ GivesUp(l) /\ Mishap
  /\ Raises
  /\ UNCHANGED <<canonicalVars, claimVars, parentVars>>

-----------------------------------------------------------------------------
(* Worlds, claims and liveness *)

\* LiveWorldAcceptance.representation: what a census shows other than the record.
WorldCode(world, record) ==
  IF \E r \in world.resources : r # record /\ r \notin {"R1_wrong_owner", "extra_R1"}
  THEN "generation"
  ELSE IF world.anchor = "none" \/ Cardinality(world.resources) # 1 THEN "cardinality"
  ELSE IF world # Pair(record) THEN "owner" ELSE "ok"

\* The record represented is the head: what is shown is not looked at.
ClassifyMutated ==
  LET d == Step.on IN
  /\ Does("classify")
  /\ Proceeds([disposition EXCEPT ![d] = IF represented[d] = head THEN "current" ELSE "stale"])
  /\ Quietly /\ UNCHANGED <<processVars, conn, canonicalVars, claimVars, parentVars>>

Classify ==
  LET d == Step.on  wrongs == WorldCode(observed[d], represented[d]) IN
  /\ Does("classify")
  /\ IF wrongs # "ok" THEN RaisesCode(wrongs)
     ELSE Proceeds([disposition EXCEPT ![d] =
                      IF represented[d] = head THEN "current" ELSE "stale"])
  /\ Quietly /\ UNCHANGED <<processVars, conn, canonicalVars, claimVars, parentVars>>

\* The claims are not withdrawn before the head moves.
ClaimMutated ==
  /\ Does("invalidate") \/ Does("supersede")
  /\ Proceeds(IF Does("invalidate") THEN disposition
              ELSE [disposition EXCEPT ![Step.on] = "stale"])
  /\ Quietly /\ UNCHANGED <<processVars, conn, canonicalVars, claimVars, parentVars>>

\* invalidate_claims before the resolution, stale after the publication.
Claim ==
  /\ Does("invalidate") \/ Does("supersede")
  /\ Proceeds([disposition EXCEPT ![Step.on] =
                 IF Does("invalidate") THEN "unclaimed" ELSE "stale"])
  /\ Quietly /\ UNCHANGED <<processVars, conn, canonicalVars, claimVars, parentVars>>

\* Both processes are sampled before either sample is judged.
Sample ==
  /\ Does("sample")
  /\ Polled(Step.on)
  /\ dead' = IF Dead(Step.on) THEN dead \cup {Step.on} ELSE dead
  /\ Proceeds(disposition) /\ Quietly
  /\ UNCHANGED <<conn, canonicalVars, claimVars, wireFaults, birth, monitored, signal>>

Alive ==
  /\ Does("alive")
  /\ IF dead # {} THEN RaisesCode("exited") ELSE Proceeds(disposition)
  /\ Quietly /\ UNCHANGED <<processVars, conn, canonicalVars, claimVars, parentVars>>

-----------------------------------------------------------------------------
(* The canonical calls *)

\* _canonical_sequence
CallSequence(c) ==
  LET complete == [i \in 1..2 |-> Presentation(c)[i]] \o <<"construct", "resolve">>
  IN IF c = "F01" THEN <<"domain_A", "construct">>
     ELSE IF c \in {"F02", "F03", "F05", "F06"} THEN <<"domain_A">>
     ELSE IF c \in {"F04a", "F04b", "F07"} THEN SubSeq(complete, 1, 3)
     ELSE IF c \in {"F10a", "F10b"} THEN complete \o <<"domain_A">>
     ELSE IF c \in {"F08", "F09"} THEN <<>>
     ELSE complete

NextCall == CallSequence(case)[calls + 1]

\* The arguments of the call are ones the canonical module rejects: an altered or
\* consumed input, a set that is not the sealed one, an armed fault point.
Rejected ==
  CASE NextCall = "construct" -> case \in {"F01", "F04a", "F04b"}
    [] NextCall = "resolve" -> case \in CanonicalFaults
    [] OTHER -> head = "R1" \/ case \in {"F02", "F03", "F05", "F06"}

\* The successor is installed before the trace is written; nothing rolls it back.
CanonicalCall ==
  /\ Does("call")
  /\ calls < Len(CallSequence(case))
  /\ NextCall \in Domains => NextCall \in captures
  /\ calls' = calls + 1
  /\ head' = IF NextCall = "resolve" /\ ~Rejected THEN "R1" ELSE head
  /\ \/ /\ Quietly
        /\ IF ~Rejected THEN Proceeds(disposition)
           ELSE IF stage # "failure" THEN Raises
           ELSE /\ code' = "rejected"
                /\ IF case \in CanonicalFaults THEN Moves
                   ELSE at' = Len(Script[stage][case]) /\ UNCHANGED stage
                /\ UNCHANGED <<wrong, disposition>>
     \/ Mishap /\ Raises                                 \* the trace is not written
  /\ UNCHANGED <<processVars, conn, captures, claimVars, parentVars>>

-----------------------------------------------------------------------------
(* The failures that are the parent's, and the end of the failure stage *)

\* fault_snapshot: the process a fault is done to, or by, must be alive.
Snapshot ==
  /\ Does("snapshot")
  /\ Polled(Step.on)
  /\ IF Dead(Step.on) THEN Raises ELSE Proceeds(disposition)
  /\ Quietly /\ UNCHANGED <<conn, canonicalVars, claimVars, parentVars>>

Signals(l, s) == signal' = [signal EXCEPT ![l] = s]

\* terminate_original
Terminate ==
  /\ Does("terminate")
  /\ Polled(Step.on)
  /\ IF Dead(Step.on) THEN Raises /\ UNCHANGED signal
     ELSE Signals(Step.on, "TERM") /\ Proceeds(disposition)
  /\ Quietly
  /\ UNCHANGED <<conn, canonicalVars, claimVars, wireFaults, dead, birth, monitored>>

\* wait, of terminate_original and of the cleanup: SIGKILL after the first deadline,
\* to a process that is owned.
Exited ==
  /\ Does("await_exit") \/ Does("wait")
  /\ Dead(Step.on) \/ proc[Step.on].life = "absent"
  /\ Polled(Step.on) /\ Proceeds(disposition) /\ Quietly
  /\ UNCHANGED <<conn, canonicalVars, claimVars, parentVars>>

\* The first deadline is an error of its own.
KillMutated ==
  LET l == Step.on IN
  /\ Does("await_exit") \/ Does("wait")
  /\ proc[l].life # "absent" /\ ~Dead(l) /\ signal[l] # "KILL"
  /\ Late(l)
  /\ Raises /\ Quietly
  /\ UNCHANGED <<processVars, conn, canonicalVars, claimVars, parentVars>>

Kill ==
  LET l == Step.on IN
  /\ Does("await_exit") \/ Does("wait")
  /\ proc[l].life # "absent" /\ ~Dead(l) /\ signal[l] # "KILL"
  /\ Late(l)
  /\ IF l \in birth
     THEN Signals(l, "KILL") /\ UNCHANGED <<stage, at, wrong, code, disposition>>
     ELSE Raises /\ UNCHANGED signal
  /\ Quietly
  /\ UNCHANGED <<processVars, conn, canonicalVars, claimVars, wireFaults, dead, birth, monitored>>

\* The second deadline.
NotExited ==
  /\ Does("await_exit") \/ Does("wait")
  /\ ~Dead(Step.on) /\ signal[Step.on] = "KILL" /\ ~Calm
  /\ Raises /\ Quietly
  /\ UNCHANGED <<processVars, conn, canonicalVars, claimVars, parentVars>>

TornWorld == [anchor |-> "none", resources |-> {"R1"}]

\* _child_failure: the one fault event shows what the fault must have done.
FaultShown ==
  CASE case \in PartialCases -> wireFaults = <<TornWorld>>
    [] case \in SabotageCases -> wireFaults = <<Sabotaged>>
    [] OTHER -> TRUE

\* run_failure: the code, and every canonical call of the case.
Conclude ==
  LET reached == IF case \in Kills THEN ExpectedCode(case) ELSE code IN
  /\ Does("conclude")
  /\ IF /\ reached = ExpectedCode(case) /\ FaultShown
        /\ calls = Len(CallSequence(case)) /\ (head = "R1") = Published(case)
     THEN code' = reached /\ disposition' = Unclaimed /\ Moves /\ UNCHANGED wrong
     ELSE Raises
  /\ Quietly /\ UNCHANGED <<processVars, conn, canonicalVars, claimVars, parentVars>>

-----------------------------------------------------------------------------
(* The terminal census *)

TerminalClaim(d) ==
  IF (d \in dead) # (case \in Kills /\ d = Killed(case)) THEN "invalid"
  ELSE IF d \in dead THEN "unavailable"
  ELSE IF case \in PartialCases \cup SabotageCases /\ d = ArmDomain(case)
  THEN IF observed[d] # wireFaults[1] THEN "invalid"
       ELSE IF case \in PartialCases THEN "unavailable" ELSE "unclaimed"
  ELSE IF observed[d] # Pair("R0") THEN "invalid"
  ELSE IF head = "R1" THEN "stale" ELSE "unclaimed"

\* capture_terminal: the errors of both domains first, then each domain's state.
Census ==
  LET d == Step.on IN
  /\ Does("census")
  /\ IF wrong \/ TerminalClaim(d) = "invalid" THEN Raises
     ELSE Proceeds([disposition EXCEPT ![d] = TerminalClaim(d)])
  /\ Quietly /\ UNCHANGED <<processVars, conn, canonicalVars, claimVars, parentVars>>

-----------------------------------------------------------------------------
(* Cleanup and the record *)

\* The streams are drained, the process is sampled, the pipes are closed.
Close ==
  LET l == Step.on IN
  /\ Does("close")
  /\ closed' = [closed EXCEPT ![l] = TRUE]
  /\ \/ /\ IF (proc[l].life = "absent" \/ Dead(l)) /\ ~conn[l].stopped
           THEN Proceeds(disposition) ELSE Raises
        /\ Quietly
     \/ Raises /\ Mishap                        \* the sample is not written
  /\ UNCHANGED <<case, proc, control, output, conn, canonicalVars, claimVars, parentVars>>

ExpectedLabels == Domains \cup IF case = "F07" THEN {"replacement"} ELSE {}

\* _closed_case_record accepts the files: every expected stream, no untraced output.
\* What a thread that failed has not read is not in its file.
Writable(lost) ==
  ExpectedLabels \subseteq monitored /\ \A l \in Labels \ lost : output[l] = <<>>

Record ==
  /\ Does("record")
  /\ Moves
  /\ \/ /\ \E lost \in SUBSET {l \in Labels : conn[l].stopped} :
             status' =
               IF ~Writable(lost) THEN "unwritten"
               ELSE IF wrong THEN "acquisition_failure"
               ELSE IF case \notin Witnesses THEN "expected_failure"
               ELSE IF \A d \in Domains : disposition[d] = "current" THEN "accepted"
               ELSE "unwritten"
        /\ UNCHANGED mishaps
     \/ /\ mishaps < MishapBound /\ mishaps' = mishaps + 1
        /\ status' = "unwritten"
  /\ UNCHANGED <<processVars, conn, wrong, code, disposition, canonicalVars, claimVars, parentVars>>

\* An exception of the workspace, the trace or the clock before a step has an effect.
Hitch ==
  /\ stage \in {"prefix", "failure", "terminal"} /\ ~Awaits(Step.on)
  /\ Raises /\ Mishap
  /\ UNCHANGED <<processVars, conn, canonicalVars, claimVars, parentVars>>

Parent ==
  \/ Spawn \/ Resume \/ ReadStartup \/ SampleStartup
  \/ Request \/ Skip \/ Hear \/ Response_ \/ NoResponse
  \/ Classify \/ Claim \/ Sample \/ Alive \/ CanonicalCall
  \/ Snapshot \/ Terminate \/ Exited \/ Kill \/ NotExited \/ Conclude
  \/ Census \/ Close \/ Record \/ Hitch

caseVars == <<conn, stage, at, wrong, code, canonicalVars, claimVars, disposition, parentVars,
              status>>

Process(l) == (Tick(l) \/ (~Calm /\ SpawnFailure(l))) /\ UNCHANGED <<caseVars, mishaps>>

Dies(l) ==
  /\ signal[l] # "none" /\ proc[l].life \in {"suspended", "running", "exiting"}
  /\ Exits(l, "exited")
  /\ UNCHANGED <<caseVars, mishaps>>

CrashMishap(l) ==
  /\ stage # "done" /\ mishaps < MishapBound /\ mishaps' = mishaps + 1
  /\ Crash(l)
  /\ UNCHANGED caseVars

\* The thread that drains the output of a process fails, on its own or because of another:
\* the streams of a case claim what they retain from one budget.  Only a write, a read and
\* the end of the stream ask for the failure, so that it may as well happen just before.  A
\* line torn by a death is not told apart: its command has no answer, which is an error.
DrainFails(l) ==
  /\ l \in monitored /\ proc[l].life \notin {"absent", "suspended"}
  /\ ~closed[l] /\ ~conn[l].stopped
  /\ Step.on = l /\ (Does("startup") \/ Does("ask") \/ Does("shutdown") \/ Does("close"))
  /\ \/ mishaps < MishapBound /\ mishaps' = mishaps + 1
     \/ (\E other \in Labels : conn[other].stopped) /\ UNCHANGED mishaps
  /\ conn' = [conn EXCEPT ![l].stopped = TRUE]
  /\ UNCHANGED <<processVars, stage, at, wrong, code, canonicalVars, claimVars, disposition,
                 parentVars, status>>

Finished == stage = "done" /\ UNCHANGED vars

Next ==
  \/ Parent \/ Finished
  \/ \E l \in Labels : Process(l) \/ Dies(l) \/ CrashMishap(l) \/ DrainFails(l)

\* The parent always goes on, and a killed process dies.  A process may stop answering
\* at any time, except in a calm run, where it keeps ticking.
Fairness ==
  /\ WF_vars(Parent /\ UNCHANGED mishaps)
  /\ \A l \in Labels : WF_vars(Dies(l) /\ signal[l] = "KILL") /\ WF_vars(Calm /\ Process(l))

Spec == Init /\ [][Next]_vars /\ Fairness

-----------------------------------------------------------------------------
(* Properties *)

\* The head moves at most once, from R0 to R1, and only on evidence: both claims
\* are withdrawn, both emissions are retained and both processes did emit from the
\* R0 they were given (run_prefix; CanonicalRoundTrip.call, retain_capture).
PublishedOnEvidence ==
  [][ head' # head =>
        /\ head = "R0" /\ head' = "R1"
        /\ captures = Domains /\ disposition = Unclaimed
        /\ \A d \in Domains : proc[d].emitted /\ represented[d] = "R0" ]_vars

\* Every variable has its type, and a second command is never written behind an
\* unanswered one: the process would
\* drop a materialization it is waiting to complete (_exchange, cleanup).
OneCommandAtATime ==
  TypeOKCase /\ \A l \in Labels :
    /\ Len(control[l]) <= 1
    /\ proc[l].pending # NoLine => control[l] = <<>>

WorldOf(d) ==
  IF case \in Witnesses THEN Pair("R1")
  ELSE IF d = ArmDomain(case) /\ case \in PartialCases THEN TornWorld
  ELSE IF d = ArmDomain(case) /\ case \in SabotageCases THEN Sabotaged
  ELSE Pair("R0")

\* What a record that says accepted or expected_failure promises: the head and both game
\* worlds are the case's, its canonical calls were all made, and its streams are whole.
Earned ==
  /\ (status = "accepted") = (case \in Witnesses)
  /\ (head = "R1") = Published(case)
  /\ calls = Len(CallSequence(case))
  /\ \A d \in Domains : proc[d].world = WorldOf(d)
  /\ case \in Kills => signal[Killed(case)] # "none"
  /\ \A l \in Labels : ~conn[l].stopped

\* Nothing the parent could identify survives the cleanup: every child whose birth
\* was read is dead, or has been sent the signal it cannot ignore, and any other
\* was never resumed (cleanup, terminate_original, send_signal).
IdentifiedAreKilled ==
  stage \in {"record", "done"} =>
    \A l \in Labels :
      \/ proc[l].life \in {"absent", "exited", "reaped"} \/ signal[l] = "KILL"
      \/ l \notin birth /\ proc[l].life = "suspended"

\* In a calm run every case has the outcome its row of the table promises.
ExpectedStatus == IF case \in Witnesses THEN "accepted" ELSE "expected_failure"
NominalOutcome == Calm => <>[](status = ExpectedStatus)

\* Whatever the processes do, or do not do, every case ends.
EveryCaseEnds == <>(stage = "done")

\* "The owning object retains PID and original pipes even if validation fails.  Its
\* caller must retain and clean it as an acquisition failure": the comment of start,
\* with no exception for a child whose identity could not be read.
NothingLeftRunning ==
  stage \in {"record", "done"} =>
    \A l \in Labels :
      proc[l].life \in {"absent", "exited", "reaped"} \/ signal[l] = "KILL"

\* The claims are the law's: current and stale as they are, every other a none.
Law == INSTANCE RoundTripLaw WITH
  claim <- [d \in Domains |->
              IF disposition[d] \in {"current", "stale"} THEN disposition[d] ELSE "none"],
  shown <- [d \in Domains |->
              IF proc[d].world \in {Pair("R0"), Pair("R1")} THEN proc[d].world.anchor
              ELSE "other"]
RoundTrip == Law!Spec

=============================================================================
