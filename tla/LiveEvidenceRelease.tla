------------------------- MODULE LiveEvidenceRelease -------------------------
(***************************************************************************)
(* The release verifier of the live cross-domain evidence round trip, over *)
(* the trace of one case: the relations of _case_protocol_relations.  The  *)
(* trace is what the acquisition writes (CaseTrace.append); the verifier   *)
(* reads it and nothing of the acquisition's state, and derives again what *)
(* each case must show.                                                    *)
(*                                                                         *)
(* The trace of a case that has recorded an error is not kept: its status  *)
(* is acquisition_failure, which the verifier refuses whatever it reads.   *)
(* Bytes, hashes, descriptors, pipes and clocks are not modelled.          *)
(***************************************************************************)
EXTENDS LiveEvidenceCase

VARIABLE trace   \* harness.jsonl

\* An event.  "what" is an operation, a checkpoint, an edge or a function, "code" the
\* outcome, "seen" the world of an observation, Empty when there is none.
Entry(kind, what, on, outcome, seen) ==
  [kind |-> kind, what |-> what, on |-> on, code |-> outcome, seen |-> seen]
Plain(kind, what, on, outcome) == Entry(kind, what, on, outcome, Empty)

-----------------------------------------------------------------------------
(* What the acquisition writes *)

ByHarness(c) == c \in Kills \cup {"F01", "F02", "F03", "F04a", "F04b", "F05", "F06", "F09",
                                  "F10a", "F10b", "F17", "F18"}
ByProcess(c) == c \in PartialCases \cup SabotageCases
FaultDomain(c) ==
  CASE c \in Kills -> Killed(c)
    [] ByProcess(c) -> ArmDomain(c)
    [] c \in {"F01", "F04b"} -> "domain_B"
    [] OTHER -> "domain_A"
HarnessFault(c) == Plain("harness_fault", "none", FaultDomain(c), ExpectedCode(c))

\* send, and the objects as they are read; F18 retains its fault before it returns.
WrittenCommand(l) ==
  LET line == control'[l][Len(control'[l])]
  IN <<Plain("command", line.op, l, IF line.binding THEN line.record ELSE "other_binding")>>
WrittenObject(l) ==
  <<Entry(Object(l).kind, conn[l].asked, l, Object(l).code, Object(l).seen)>>
    \o IF case = "F18" /\ Object(l).kind = "response" /\ Object(l).op = "materialize_0002"
       THEN <<HarnessFault(case)>> ELSE <<>>

\* The events of a step that is done, and was not raised from.
WrittenByStep ==
  LET d == Step.on IN
  CASE Does("sample_startup") -> <<Plain("live", "startup", d, "alive")>>
    [] Does("sample") ->
         <<Plain("live", Step.op, d, IF Dead(d) THEN "exited" ELSE "alive")>>
    [] Does("close") /\ proc[d].life # "absent" -> <<Plain("live", "cleanup", d, "exited")>>
    [] Does("call") ->
         <<Plain("call", NextCall, "none", IF Rejected THEN "rejected" ELSE "ok")>>
           \o IF head' # head THEN <<Plain("head", "publish", "none", "unclaimed")>> ELSE <<>>
    [] Does("classify") /\ code' = code ->
         <<Entry("head", "classify", d, disposition'[d], observed[d])>>
    [] Does("invalidate") -> <<Plain("head", "invalidate_claims", d, disposition'[d])>>
    [] Does("supersede") -> <<Plain("head", "classify", d, disposition'[d])>>
    [] Does("census") ->
         <<Entry("head", "terminal", d, disposition'[d],
                 IF d \in dead THEN Empty ELSE observed[d])>>
    [] Does("conclude") /\ ByHarness(case) /\ case # "F18" -> <<HarnessFault(case)>>
    [] OTHER -> <<>>

Written ==
  LET l == Step.on IN
  IF Len(control'[l]) > Len(control[l]) THEN WrittenCommand(l)
  ELSE IF Len(output'[l]) < Len(output[l]) THEN WrittenObject(l)
  ELSE IF <<stage', at'>> # <<stage, at>> THEN WrittenByStep ELSE <<>>

TracedInit == Init /\ trace = <<Plain("head", "initialize", "none", "unclaimed")>>
Traces == trace' = IF wrong' THEN <<>> ELSE trace \o Written

TracedSpec ==
  TracedInit /\ [][Next /\ Traces]_<<vars, trace>> /\ Fairness

-----------------------------------------------------------------------------
(* Reading a trace *)

Of(t, kinds) == SelectSeq(t, LAMBDA e : e.kind \in kinds)
On(t, l) == SelectSeq(t, LAMBDA e : e.on = l)
Each(s, Field(_)) == [i \in 1..Len(s) |-> Field(s[i])]
Elements(s) == {s[i] : i \in 1..Len(s)}
Has(t, i, P(_)) == \E j \in 1..(i - 1) : P(t[j])

\* The last event at one of these places, or the default.
LastBefore(t, found, default) ==
  IF found = {} THEN default ELSE t[CHOOSE j \in found : \A k \in found : k <= j]

Launched(c) == Domains \cup IF c = "F07" THEN {"replacement"} ELSE {}
DeadDomain(c) == IF c \in Kills THEN {Killed(c)} ELSE {}
Within == {"response", "physical_event", "fault_event"}    \* events of an exchange
Open == {"command", "physical_event", "fault_event"}       \* that leave it open

\* _trace_relations: one startup first, a bind first, no operation twice, every command
\* answered before the next, an emission exactly when it succeeds.
TraceRelations(c, t) ==
  /\ \A l \in Labels :
       LET wire == On(Of(t, {"startup"} \cup Open \cup Within), l)
           commands == Of(wire, {"command"})
       IN /\ (wire # <<>>) = (l \in Launched(c))
          /\ \A i \in 1..Len(wire) :
               /\ (wire[i].kind = "startup") = (i = 1)
               /\ wire[i].kind \in Within => wire[i].what = wire[i - 1].what
               /\ wire[i].kind = "physical_event" => wire[i].what = "emit_0001"
               /\ wire[i].kind = "response" /\ wire[i].what = "emit_0001"
                    => (wire[i].code = "ok") = (wire[i - 1].kind = "physical_event")
          /\ Len(commands) = Cardinality({commands[i].what : i \in 1..Len(commands)})
          /\ l \in Domains => commands # <<>> /\ commands[1].what = "bind_0001"
          /\ l \notin Domains => commands = <<>>
  \* one exchange at a time, over both streams (_operation_schedule_relations)
  /\ \A i \in 1..Len(t) :
       (t[i].kind \in Within) = (i > 1 /\ t[i - 1].kind \in Open /\ t[i - 1].on = t[i].on)
  /\ t[Len(t)].kind \notin Open

-----------------------------------------------------------------------------
(* _operation_schedule_relations: the order over the whole case *)

\* An exchange is the event of its response, a head event its edge and whether an
\* observation is behind it.
Mark(e) == <<e.kind, e.what, e.on, e.kind = "head" /\ e.seen # Empty>>
Command_(op, d) == <<"response", op, d, FALSE>>
Sample_(checkpoint, d) == <<"live", checkpoint, d, FALSE>>
Head_(edge, d, seen) == <<"head", edge, d, seen>>
Call_(function) == <<"call", function, "none", FALSE>>

Pair_(Token(_)) == <<Token("domain_A"), Token("domain_B")>>
InOrder(op, order) == <<Command_(op, order[1]), Command_(op, order[2])>>
LivePair(checkpoint) == Pair_(LAMBDA d : Sample_(checkpoint, d))
HeadPair(edge, seen) == Pair_(LAMBDA d : Head_(edge, d, seen))
Inspected(op) == InOrder(op, AB) \o HeadPair("classify", TRUE) \o LivePair(op)

PrefixSchedule(c, p) ==
  CASE p = 0 -> Pair_(LAMBDA d : <<"startup", "startup", d, FALSE>>)
                  \o <<Sample_("startup", "domain_A"), Command_("bind_0001", "domain_A"),
                       Sample_("startup", "domain_B"), Command_("bind_0001", "domain_B")>>
                  \o InOrder("materialize_0001", AB) \o Inspected("inspect_L0")
    [] p = 1 -> InOrder("emit_0001", Emission(c)) \o Inspected("inspect_L1")
    [] p = 2 -> <<Call_(Presentation(c)[1]), Call_(Presentation(c)[2]), Call_("construct")>>
                  \o Inspected("inspect_L2")
    [] p = 3 -> HeadPair("invalidate_claims", FALSE) \o LivePair("before_resolve")
                  \o <<Call_("resolve"), Head_("publish", "none", FALSE)>>
                  \o LivePair("after_resolve") \o HeadPair("classify", FALSE)
                  \o Inspected("inspect_L3")
    [] p = 4 -> <<Command_("materialize_0002", Refresh(c)[1])>> \o Inspected("inspect_L4")
    [] p = 5 -> <<Command_("materialize_0002", Refresh(c)[2])>> \o Inspected("inspect_L5")

FailureSchedule(c) ==
  LET d == FaultDomain(c)
      emits == <<Command_("emit_0001", "domain_A")>>
      refresh == <<Command_("materialize_0002", d)>>
      fault == <<<<"harness_fault", "none", d, FALSE>>>>
  IN CASE c \in CanonicalFaults ->
            LivePair("before_resolve") \o <<Call_("resolve")>> \o LivePair("after_resolve")
       [] c = "F01" -> emits \o <<Call_("domain_A"), Call_("construct")>> \o fault
       [] c \in {"F02", "F03", "F05", "F06", "F10a", "F10b"} -> <<Call_("domain_A")>> \o fault
       [] c \in {"F04a", "F04b"} ->
            <<Call_("domain_A"), Call_("domain_B"), Call_("construct")>> \o fault
       [] c = "F07" -> <<<<"startup", "startup", "replacement", FALSE>>>> \o fault
       [] c = "F08" -> emits \o fault
       [] c \in {"F11", "F12"} -> fault
       [] c \in {"F09", "F17", "F18"} -> refresh \o fault
       [] OTHER -> <<Command_("arm_fault_0001", d)>> \o refresh
                     \o IF c \in SabotageCases THEN InOrder("inspect_L4", AB) ELSE <<>>

TerminalSchedule(c) ==
  SelectSeq(InOrder("inspect_terminal", AB), LAMBDA token : token[3] \notin DeadDomain(c))
    \o LivePair("inspect_terminal")
    \o Pair_(LAMBDA d : Head_("terminal", d, d \notin DeadDomain(c)))

Schedule(c) ==
  LET Upto[p \in 0..5] ==
        (IF p = 0 THEN <<Head_("initialize", "none", FALSE)>> ELSE Upto[p - 1])
          \o PrefixSchedule(c, p)
  IN Upto[Phases(c)] \o IF c \in Witnesses THEN <<>> ELSE FailureSchedule(c) \o TerminalSchedule(c)

\* A pair may come in either order: two samples, two classifications.
Mates(a, b) ==
  /\ a[1] = b[1] /\ a[2] = b[2] /\ a[3] # b[3]
  /\ \/ a[1] = "live" /\ a[2] \notin {"startup", "cleanup"}
     \/ a[1] = "head" /\ a[2] \in {"classify", "invalidate_claims", "terminal"}
AgreesAt(tokens, schedule, i) ==
  \/ tokens[i] = schedule[i]
  \/ \E j \in {i - 1, i + 1} \cap 1..Len(schedule) :
       Mates(schedule[i], schedule[j]) /\ tokens[i] = schedule[j] /\ tokens[j] = schedule[i]

\* A case is cleaned up when its processes are, whether they were asked or not.
CleanedUpMutated(c, rest) ==
  {rest[i][3] : i \in {j \in 1..Len(rest) : rest[j][1] = "live"}} = Launched(c)

\* After the schedule only shutdowns and cleanups: every process that must still live
\* is asked to shut down, and cleaned up after it has answered.
CleanedUp(c, rest) ==
  LET Shut(l) == Command_("shutdown_0001", l)
      Clean(l) == Sample_("cleanup", l)
  IN /\ \A i \in 1..Len(rest) :
          LET l == rest[i][3] IN
          /\ \/ rest[i] = Shut(l) /\ ~Has(rest, i, LAMBDA e : e = Clean(l))
             \/ /\ rest[i] = Clean(l)
                /\ l \in Domains \ DeadDomain(c) => Has(rest, i, LAMBDA e : e = Shut(l))
          /\ ~Has(rest, i, LAMBDA e : e = rest[i])
     /\ Elements(rest) = {Shut(d) : d \in Domains \ DeadDomain(c)} \cup {Clean(l) : l \in Launched(c)}

\* The outcome of each exchange, and the fault event of the one that is armed.
RefusedRefresh == {"F09", "F13", "F14", "F17", "F18"}
ResponsesAsPlanned(c, t) ==
  \A i \in 1..Len(t) :
    LET refreshes == t[i].what = "materialize_0002" /\ t[i].on = FaultDomain(c) IN
    /\ t[i].kind = "response" =>
         /\ t[i].code = IF c \in RefusedRefresh /\ refreshes THEN ExpectedCode(c) ELSE "ok"
         /\ (t[i - 1].kind = "fault_event") = (ByProcess(c) /\ refreshes)
    /\ t[i].kind = "fault_event" => t[i - 1].kind = "command"

OperationScheduleRelations(c, t) ==
  LET tokens == Each(Of(t, {"startup", "response", "call", "live", "head", "harness_fault"}), Mark)
      schedule == Schedule(c)
      n == Len(schedule)
  IN /\ ResponsesAsPlanned(c, t)
     /\ Len(tokens) >= n
     /\ \A i \in 1..n : AgreesAt(tokens, schedule, i)
     /\ CleanedUp(c, SubSeq(tokens, n + 1, Len(tokens)))

-----------------------------------------------------------------------------
(* _liveness_trace_relations *)

Checkpoints(c) ==
  LET named == <<"inspect_L0", "inspect_L1", "inspect_L2", "before_resolve", "after_resolve",
                 "inspect_L3", "inspect_L4", "inspect_L5">>
      upto == IF Phases(c) < 3 THEN Phases(c) + 1 ELSE Phases(c) + 3
  IN <<"startup">> \o SubSeq(named, 1, upto)
       \o (IF c \in CanonicalFaults THEN <<"before_resolve", "after_resolve">> ELSE <<>>)
       \o (IF c \in Witnesses THEN <<>> ELSE <<"inspect_terminal">>) \o <<"cleanup">>

\* _liveness_series_relations: an exit is never undone.
Series(samples) ==
  \A i \in 2..Len(samples) : samples[i - 1].code = "exited" => samples[i].code = "exited"

LivenessTraceRelations(c, t) ==
  /\ \A d \in Domains :
       LET samples == On(Of(t, {"live"}), d)
           opening == On(Of(t, {"startup", "live", "command"}), d)
       IN /\ Each(samples, LAMBDA e : e.what) = Checkpoints(c)
          /\ Series(samples)
          /\ \A i \in 1..Len(samples) :
               (samples[i].code = "exited") =
                 \/ samples[i].what = "cleanup"
                 \/ samples[i].what = "inspect_terminal" /\ d \in DeadDomain(c)
          /\ opening[1].kind = "startup" /\ opening[2].what = "startup"
          /\ opening[3].what = "bind_0001"
  \* both samples of a checkpoint before either sample of the next
  /\ LET both == SelectSeq(Of(t, {"live"}), LAMBDA e : e.on \in Domains)
     IN \A k \in 1..(Len(both) \div 2) : {both[2 * k - 1].on, both[2 * k].on} = Domains
  \* the replacement is the one process that is only cleaned up
  /\ c = "F07" =>
       /\ Each(On(Of(t, {"live"}), "replacement"), LAMBDA e : <<e.what, e.code>>)
            = <<<<"cleanup", "exited">>>>
       /\ LET order == Of(t, {"startup", "harness_fault"})
          IN order[3].on = "replacement" /\ order[4].kind = "harness_fault"

-----------------------------------------------------------------------------
(* _replay_canonical *)

\* _canonical_operations, from the schedule and not from the acquisition.
CanonicalOperations(c) ==
  LET batch == <<Presentation(c)[1], Presentation(c)[2], "construct">>
  IN (IF Phases(c) >= 2 THEN batch ELSE <<>>)
       \o (IF Phases(c) >= 3 THEN <<"resolve">> ELSE <<>>)
       \o CASE c \in CanonicalFaults -> <<"resolve">>
            [] c = "F01" -> <<"domain_A", "construct">>
            [] c \in {"F02", "F03", "F05", "F06", "F10a", "F10b"} -> <<"domain_A">>
            [] c \in {"F04a", "F04b"} -> batch
            [] OTHER -> <<>>

\* The predecessor rejects the last call of a case of its own faults, and no other call.
RejectedByCanonical(c) ==
  c \in CanonicalFaults \cup {"F01", "F02", "F03", "F04a", "F04b", "F05", "F06", "F10a", "F10b"}
ReplayCanonical(c, t) ==
  LET replayed == Of(t, {"call"}) IN
  /\ Each(replayed, LAMBDA e : e.what) = CanonicalOperations(c)
  /\ \A i \in 1..Len(replayed) :
       (replayed[i].code = "rejected") = (i = Len(replayed) /\ RejectedByCanonical(c))
  /\ Published(c) = (\E i \in 1..Len(replayed) :
                       replayed[i].what = "resolve" /\ replayed[i].code = "ok")

-----------------------------------------------------------------------------
(* The head, and what each domain represents and shows, as a trace tells it *)

HeadAt(t, i) ==
  IF Has(t, i, LAMBDA e : e.kind = "call" /\ e.what = "resolve" /\ e.code = "ok")
  THEN "R1" ELSE "R0"

Granted(e, d, ops) == e.kind = "response" /\ e.on = d /\ e.code = "ok" /\ e.what \in ops
RepresentedAt(t, i, d) ==
  IF Has(t, i, LAMBDA e : Granted(e, d, {"materialize_0002"})) THEN "R1"
  ELSE IF Has(t, i, LAMBDA e : Granted(e, d, {"materialize_0001"})) THEN "R0" ELSE "none"
ObservedAt(t, i, d) ==
  LastBefore(t, {j \in 1..(i - 1) : Granted(t[j], d, Inspections)}, Plain("none", "none", d, "none"))
AffectedAt(t, i, d) == Has(t, i, LAMBDA e : e.kind = "fault_event" /\ e.on = d)

\* _materialization_relations, authenticate: the first law a command breaks.
AuthenticationError(t, i) ==
  LET d == t[i].on  record == t[i].code  op == t[i].what
      emitted == Has(t, i, LAMBDA e : Granted(e, d, {"emit_0001"}))
  IN IF record = "other_binding" THEN "binding_mismatch"
     ELSE IF record = "working" THEN "committed_record_required"
     ELSE IF /\ Has(t, i, LAMBDA e : Granted(e, d, {"bind_0001"}))
             /\ \/ /\ op = "materialize_0001" /\ record = "R0"
                   /\ RepresentedAt(t, i, d) = "none" /\ ~emitted
                \/ /\ op = "materialize_0002" /\ record = "R1"
                   /\ RepresentedAt(t, i, d) = "R0" /\ emitted
     THEN "ok" ELSE "immediate_successor_required"

MaterializationRelations(c, t) ==
  \A i \in 1..Len(t) :
    t[i].kind = "command" /\ t[i].what \in Materializations =>
      LET refused == c \in {"F09", "F17", "F18"} /\ t[i].what = "materialize_0002"
          torn == c \in PartialCases /\ t[i].what = "materialize_0002"
          answer == CHOOSE j \in (i + 1)..Len(t) :
                      t[j].kind = "response" /\ t[j].on = t[i].on /\ t[j].what = t[i].what
      IN /\ AuthenticationError(t, i) = IF refused THEN ExpectedCode(c) ELSE "ok"
         /\ ~refused => t[i].code = HeadAt(t, i)
         /\ t[answer].code = IF torn THEN "partial_publication" ELSE AuthenticationError(t, i)

-----------------------------------------------------------------------------
(* _world_trace_relations *)

\* _representation_errors, in the frozen order of precedence; "record_domain" is
\* never the first one of a generation's record.
ShownRecord(r) == IF r \in {"R0", "extra_R0"} THEN "R0" ELSE "R1"
RepresentationErrors(world, record) ==
  LET shows == (IF world.anchor = "none" THEN {} ELSE {world.anchor})
                 \cup {ShownRecord(r) : r \in world.resources}
  IN (IF shows \subseteq {record} THEN <<>> ELSE <<"generation">>)
       \o (IF world.anchor # "none" /\ Cardinality(world.resources) = 1 THEN <<>>
           ELSE <<"cardinality">>)
       \o (IF "R1_wrong_owner" \notin world.resources THEN <<>> ELSE <<"owner">>)

\* _child_world_fault_relations: the effect of each fault.
Effect(c) ==
  CASE c \in PartialCases -> [anchor |-> "none", resources |-> {"R1"}]
    [] c = "F15" -> [anchor |-> "R1", resources |-> {"R1_wrong_owner"}]
    [] c = "F16a" -> [anchor |-> "R1", resources |-> {"R1", "extra_R1"}]
    [] OTHER -> [anchor |-> "R1", resources |-> {"R1", "extra_R0"}]
EffectError(c) ==
  CASE c = "F15" -> "owner" [] c = "F16b" -> "generation" [] OTHER -> "cardinality"

InspectionHolds(c, t, i) ==
  LET d == t[i].on IN
  IF AffectedAt(t, i, d)
  THEN t[i].seen = Effect(c) /\ RepresentationErrors(t[i].seen, "R1")[1] = EffectError(c)
  ELSE RepresentationErrors(t[i].seen, RepresentedAt(t, i, d)) = <<>>

\* The first classification of each domain after a publication makes it stale.
Supersedes(t, i) ==
  \E p \in 1..(i - 1) :
    /\ t[p].what = "publish"
    /\ \A j \in (p + 1)..(i - 1) : t[j].what = "classify" => t[j].on # t[i].on

TerminalDisposition(c, t, i) ==
  LET d == t[i].on IN
  IF d \in DeadDomain(c) THEN "unavailable"
  ELSE IF AffectedAt(t, i, d) THEN IF c \in PartialCases THEN "unavailable" ELSE "unclaimed"
  ELSE IF HeadAt(t, i) = "R1" THEN "stale" ELSE "unclaimed"

HeadEventHolds(c, t, i) ==
  LET d == t[i].on  edge == t[i].what  shown == ObservedAt(t, i, d) IN
  /\ edge = "initialize" => i = 1
  /\ edge = "invalidate_claims" => HeadAt(t, i) = "R0"
  /\ t[i].code =
       CASE edge = "classify" -> IF RepresentedAt(t, i, d) = HeadAt(t, i) THEN "current" ELSE "stale"
         [] edge = "terminal" -> TerminalDisposition(c, t, i)
         [] OTHER -> "unclaimed"
  /\ edge = "classify" /\ Supersedes(t, i) => t[i].code = "stale"
  /\ edge = "classify" /\ ~Supersedes(t, i) => t[i].seen # Empty /\ ~AffectedAt(t, i, d)
  /\ t[i].seen # Empty => t[i].seen = shown.seen
  /\ edge = "terminal" /\ d \notin DeadDomain(c) => shown.what = "inspect_terminal"

WorldTraceRelations(c, t) ==
  /\ \A i \in 1..Len(t) :
       /\ t[i].kind = "response" /\ t[i].what \in Inspections => InspectionHolds(c, t, i)
       /\ t[i].kind = "response" /\ t[i].what = "emit_0001" =>
            RepresentedAt(t, i, t[i].on) = "R0"
              /\ ObservedAt(t, i, t[i].on).kind = "response"
       /\ t[i].kind = "head" => HeadEventHolds(c, t, i)
       /\ t[i].kind = "fault_event" => t[i].seen = Effect(c)
  /\ c \in Witnesses =>
       \A d \in Domains : RepresentedAt(t, Len(t) + 1, d) = "R1"

-----------------------------------------------------------------------------

\* _harness_fault_relations: one fault event, after the call, the command or the process
\* it is about.
HarnessFaultRelations(c, t) ==
  LET faults == {i \in 1..Len(t) : t[i].kind = "harness_fault"} IN
  /\ Cardinality(faults) = IF ByHarness(c) THEN 1 ELSE 0
  /\ \A i \in faults :
       /\ t[i] = HarnessFault(c)
       /\ RejectedByCanonical(c) => t[i - 1].kind = "call" /\ t[i - 1].code = "rejected"
       /\ c \in {"F09", "F17", "F18"} => t[i - 1].what = "materialize_0002"

\* _case_outcome_relations: the codes of everything that failed, the last disposition
\* of each domain, and the cleanup of exactly the processes that started.
LastDisposition(t, d) ==
  LastBefore(t, {j \in 1..Len(t) : t[j].kind = "head" /\ t[j].on = d}, t[1]).code
OutcomeCodes(c, t) ==
  {t[i].code : i \in {j \in 1..Len(t) : t[j].kind \in {"call", "response"} /\ t[j].code # "ok"}}
    \cup (IF \E i \in 1..Len(t) : t[i].kind \in {"fault_event", "harness_fault"}
          THEN {ExpectedCode(c)} ELSE {})
CaseOutcomeRelations(c, t, written) ==
  LET synchronized == /\ Published(c) /\ OutcomeCodes(c, t) = {}
                      /\ \A d \in Domains : LastDisposition(t, d) = "current"
      cleanups == SelectSeq(t, LAMBDA e : e.what = "cleanup")
      starts == Of(t, {"startup"})
  IN /\ Len(cleanups) = Len(starts)
     /\ {cleanups[i].on : i \in 1..Len(cleanups)} = {starts[i].on : i \in 1..Len(starts)}
     /\ \A i \in 1..Len(cleanups) : cleanups[i].code = "exited"
     /\ synchronized = (c \in Witnesses)
     /\ c \notin Witnesses =>
          /\ OutcomeCodes(c, t) = {ExpectedCode(c)}
          /\ \A d \in Domains : LastDisposition(t, d) # "current"
     /\ written = IF c \in Witnesses THEN "accepted" ELSE "expected_failure"

\* _case_protocol_relations
CaseProtocolRelations(c, t, written) ==
  /\ TraceRelations(c, t)
  /\ OperationScheduleRelations(c, t)
  /\ LivenessTraceRelations(c, t)
  /\ ReplayCanonical(c, t)
  /\ MaterializationRelations(c, t)
  /\ WorldTraceRelations(c, t)
  /\ HarnessFaultRelations(c, t)
  /\ CaseOutcomeRelations(c, t, written)

-----------------------------------------------------------------------------

\* A record that says accepted or expected_failure was earned, and the verifier, which
\* sees only the trace, accepts it: unless a process died by itself after the last
\* sample of it and before the cleanup.  That is no error of the acquisition, which
\* does not ask the dead, and it is one of the verifier, which wants every process that
\* was not killed by its case to have answered the shutdown (_closed_case_record,
\* _case_protocol_relations, cleanup).
VerifiedAsEarned ==
  status \in {"accepted", "expected_failure"} =>
    /\ Earned
    /\ CaseProtocolRelations(case, trace, status)
         = (\A d \in Domains \ DeadDomain(case) : conn[d].shut)

=============================================================================
