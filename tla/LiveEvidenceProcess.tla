------------------------ MODULE LiveEvidenceProcess ------------------------
(***************************************************************************)
(* The Unreal process of the live cross-domain evidence round trip:        *)
(* ACityLiveEvidenceGameMode with its stdin thread, its two proof actors   *)
(* and the fault it can be armed with.  stdin is a queue of lines, stdout  *)
(* a queue of objects; Tick dispatches one line to its end, and goes on    *)
(* with a materialization that waits for destroyed actors to disappear.    *)
(*                                                                         *)
(* The module has no parent: LiveEvidenceClient writes any line at any     *)
(* time, LiveEvidenceConnection what the acquisition's connection writes.  *)
(* Operators named ...Mutated are definitions with a plausible mistake.    *)
(***************************************************************************)
EXTENDS Naturals, Sequences

CONSTANT Labels   \* the processes of one case, as the cohort labels them

ASSUME LabelsAssumption ==
  Labels \subseteq {"domain_A", "domain_B", "replacement"}

\* The F07 replacement is launched for domain_A, under a launch id of its own.
DomainOf(l) == IF l = "replacement" THEN "domain_A" ELSE l

\* The witnesses whose process accepts a fault, by the stage it bites at.
PartialCases == {"F13", "F14"}             \* after_resource_before_anchor
SabotageCases == {"F15", "F16a", "F16b"}   \* after_receipt_before_observation
ArmDomain(c) == IF c = "F14" THEN "domain_B" ELSE "domain_A"

Inspections == {"inspect_L0", "inspect_L1", "inspect_L2", "inspect_L3", "inspect_L4",
                "inspect_L5", "inspect_terminal"}
Materializations == {"materialize_0001", "materialize_0002"}
Operations == {"bind_0001", "emit_0001", "arm_fault_0001", "shutdown_0001"}
                \cup Materializations \cup Inspections

Records == {"R0", "R1", "working", "none"}   \* a provisional working state is no record

\* A command line.  binding: it carries the hash this process is bound with;
\* exact: its payload is the one the operation and this launch require.
\* "unknown" is an operation id of no command, "malformed" no command at all.
Lines == [op : Operations \cup {"unknown", "malformed"}, binding : BOOLEAN,
          record : Records, exact : BOOLEAN]
NoLine == [op |-> "unknown", binding |-> FALSE, record |-> "none", exact |-> FALSE]

\* What a resource actor shows: its record, and whether it is the one of the pair,
\* an extra one, or the one of the pair with the wrong owner.
Resources == {"R0", "R1", "R1_wrong_owner", "extra_R0", "extra_R1"}
Worlds == [anchor : {"none", "R0", "R1"}, resources : SUBSET Resources]
Empty == [anchor |-> "none", resources |-> {}]
Pair(r) == [anchor |-> r, resources |-> {r}]

Codes == {"ok", "schema", "binding_mismatch", "sequence", "committed_record_required",
          "immediate_successor_required", "cardinality", "fault_arm", "arm_unused",
          "partial_publication"}
Objects == [kind : {"startup", "response", "physical_event", "fault_event"},
            op : Operations \cup {"none", "unknown"}, code : Codes, seen : Worlds]

VARIABLES
  case,      \* the witness the processes of this run are launched for
  proc,      \* the state of each process
  control,   \* lines in its stdin, not yet dispatched
  output,    \* objects in its stdout, not yet read by the parent
  closed     \* the parent has closed its ends of the pipes

processVars == <<case, proc, control, output, closed>>

Processes ==
  [life : {"absent", "suspended", "running", "exiting", "exited", "reaped"},
   started : BOOLEAN,                      \* bStartupSent
   bound : BOOLEAN,                        \* bBound
   terminal : BOOLEAN,                     \* bTerminal
   ops : SUBSET Operations,                \* Operations
   generation : {"none", "R0", "R1"},      \* CurrentGeneration
   emitted : BOOLEAN,                      \* bEmitted
   armed : BOOLEAN,                        \* ArmedFault
   consumed : BOOLEAN,                     \* bFaultConsumed
   pending : Lines,                        \* PendingCommand, NoLine when reset
   world : Worlds]                         \* the proof actors of the game world

TypeOK ==
  /\ proc \in [Labels -> Processes]
  /\ \A l \in Labels : \A i \in DOMAIN control[l] : control[l][i] \in Lines
  /\ \A l \in Labels : \A i \in DOMAIN output[l] : output[l][i] \in Objects
  /\ closed \in [Labels -> BOOLEAN]

AbsentProcess ==
  [life |-> "absent", started |-> FALSE, bound |-> FALSE, terminal |-> FALSE, ops |-> {},
   generation |-> "none", emitted |-> FALSE, armed |-> FALSE, consumed |-> FALSE,
   pending |-> NoLine, world |-> Empty]

ProcessInit ==
  /\ proc = [l \in Labels |-> AbsentProcess]
  /\ control = [l \in Labels |-> <<>>]
  /\ output = [l \in Labels |-> <<>>]
  /\ closed = [l \in Labels |-> FALSE]

-----------------------------------------------------------------------------
(* Answers *)

Response(op, code, seen) == [kind |-> "response", op |-> op, code |-> code, seen |-> seen]
Event(kind, op, seen) == [kind |-> kind, op |-> op, code |-> "ok", seen |-> seen]

\* An error is answered, and forgotten.
TerminalMutated(p) == [p EXCEPT !.pending = NoLine]

\* Respond with an error: the process is terminal, a pending command forgotten.
Terminal(p) == [p EXCEPT !.terminal = TRUE, !.pending = NoLine]

Line(l) == Head(control[l])

\* The process with the operation id of its line used up.
Used(l) == [proc[l] EXCEPT !.ops = @ \cup {Line(l).op}]

\* An accepted shutdown asks for the exit, and until the engine obeys the lines
\* that are queued are still dispatched.
Ticking(l) == proc[l].life \in {"running", "exiting"}
Reads(l) == Ticking(l) /\ proc[l].started /\ control[l] # <<>>

\* One line is dispatched to its end.
Answer(l, p, objects) ==
  /\ proc' = [proc EXCEPT ![l] = p]
  /\ control' = [control EXCEPT ![l] = Tail(@)]
  /\ output' = [output EXCEPT ![l] = @ \o objects]
  /\ UNCHANGED <<case, closed>>

Refuse(l, p, code) == Answer(l, Terminal(p), <<Response(Line(l).op, code, Empty)>>)

\* Fail: the process writes to stderr and leaves at once.
Exits(l, status) ==
  /\ proc' = [proc EXCEPT ![l].life = status]
  /\ UNCHANGED <<case, control, output, closed>>

-----------------------------------------------------------------------------
(* Dispatch, up to the operation *)

\* The first tick: the startup record is written, only then is stdin read.
Boot(l) ==
  /\ proc[l].life = "running" /\ ~proc[l].started
  /\ proc' = [proc EXCEPT ![l].started = TRUE]
  /\ output' = [output EXCEPT ![l] = Append(@, Event("startup", "none", Empty))]
  /\ UNCHANGED <<case, control, closed>>

DispatchMalformed(l) == Reads(l) /\ Line(l).op = "malformed" /\ Exits(l, "exited")

\* The stdin thread enqueues an empty line at end of file.
DispatchEndOfInput(l) ==
  /\ Ticking(l) /\ proc[l].started
  /\ control[l] = <<>> /\ closed[l]
  /\ Exits(l, "exited")

Misrouted(p, line) == p.bound /\ ~line.binding

\* A repeated operation id is dispatched again.
OutOfSequenceMutated(p, line) ==
  \/ p.pending # NoLine
  \/ line.op \notin Operations
  \/ ~p.bound /\ line.op # "bind_0001"
  \/ p.terminal /\ line.op \notin Inspections \cup {"shutdown_0001"}

OutOfSequence(p, line) ==
  \/ p.pending # NoLine
  \/ line.op \notin Operations \ p.ops
  \/ ~p.bound /\ line.op # "bind_0001"
  \/ p.terminal /\ line.op \notin Inspections \cup {"shutdown_0001"}

DispatchMisrouted(l) ==
  /\ Reads(l) /\ Line(l).op # "malformed"
  /\ Misrouted(proc[l], Line(l))
  /\ Refuse(l, proc[l], "binding_mismatch")

DispatchOutOfSequence(l) ==
  /\ Reads(l) /\ Line(l).op # "malformed"
  /\ ~Misrouted(proc[l], Line(l))
  /\ OutOfSequence(proc[l], Line(l))
  /\ Refuse(l, proc[l], "sequence")

Dispatches(l, ops) ==
  /\ Reads(l)
  /\ Line(l).op \in ops
  /\ ~Misrouted(proc[l], Line(l))
  /\ ~OutOfSequence(proc[l], Line(l))

\* emit, inspect and shutdown have no payload; that is tested before the
\* operation id is used up.
NoPayload == Inspections \cup {"emit_0001", "shutdown_0001"}
DispatchPayload(l) ==
  /\ Dispatches(l, NoPayload) /\ ~Line(l).exact
  /\ Refuse(l, proc[l], "schema")

-----------------------------------------------------------------------------
(* Operations *)

Bind(l) ==
  /\ Dispatches(l, {"bind_0001"})
  /\ IF Line(l).exact /\ Line(l).binding
     THEN Answer(l, [Used(l) EXCEPT !.bound = TRUE],
                 <<Response("bind_0001", "ok", Empty)>>)
     ELSE Refuse(l, Used(l), "binding_mismatch")

\* One interaction of the one resource actor; its own tests (Interact) are
\* implied by these, and the event goes out before the response.
MayEmit(p) == ~p.emitted /\ p.generation = "R0" /\ p.world = Pair("R0")

Emit(l) ==
  /\ Dispatches(l, {"emit_0001"}) /\ Line(l).exact
  /\ IF MayEmit(proc[l])
     THEN Answer(l, [Used(l) EXCEPT !.emitted = TRUE],
                 <<Event("physical_event", "emit_0001", Empty),
                   Response("emit_0001", "ok", Empty)>>)
     ELSE Refuse(l, Used(l), "sequence")

Inspect(l) ==
  /\ Dispatches(l, Inspections) /\ Line(l).exact
  /\ Answer(l, Used(l), <<Response(Line(l).op, "ok", proc[l].world)>>)

MayArm(l, p) ==
  /\ ~p.armed /\ ~p.consumed
  /\ p.generation = "R0" /\ p.emitted
  /\ case \in PartialCases \cup SabotageCases
  /\ ArmDomain(case) = DomainOf(l)

ArmFault(l) ==
  /\ Dispatches(l, {"arm_fault_0001"})
  /\ IF MayArm(l, proc[l]) /\ Line(l).exact
     THEN Answer(l, [Used(l) EXCEPT !.armed = TRUE],
                 <<Response("arm_fault_0001", "ok", Empty)>>)
     ELSE Refuse(l, Used(l), "fault_arm")

\* An armed fault that was not consumed is reported and ends the process.
Shutdown(l) ==
  LET unused == proc[l].armed /\ ~proc[l].consumed IN
  /\ Dispatches(l, {"shutdown_0001"}) /\ Line(l).exact
  /\ Answer(l, [Used(l) EXCEPT !.terminal = TRUE, !.pending = NoLine,
                               !.life = IF unused THEN "exited" ELSE "exiting"],
            <<Response("shutdown_0001", IF unused THEN "arm_unused" ELSE "ok", Empty)>>)

\* RequestExit takes effect.
Exit(l) == proc[l].life = "exiting" /\ Exits(l, "exited")

-----------------------------------------------------------------------------
(* Materialization *)

\* Anything may follow a materialized R0.
AuthenticationMutated(p, line) ==
  IF \/ line.record \notin {"R0", "R1"} \/ ~line.exact
     \/ line.record = "R1" /\ p.generation = "none"
  THEN "committed_record_required"
  ELSE IF \/ line.op = "materialize_0001" /\ line.record = "R0"
                /\ p.generation = "none" /\ ~p.emitted
          \/ line.op = "materialize_0002" /\ line.record = "R1" /\ p.generation = "R0"
       THEN "ok"
       ELSE "immediate_successor_required"

\* AuthenticateMaterialize: a pinned record with its own projection, then the one
\* place it has in the life of the process.
Authentication(p, line) ==
  IF \/ line.record \notin {"R0", "R1"} \/ ~line.exact
     \/ line.record = "R1" /\ p.generation = "none"     \* R0Raw is empty
  THEN "committed_record_required"
  ELSE IF \/ line.op = "materialize_0001" /\ line.record = "R0"
                /\ p.generation = "none" /\ ~p.emitted
          \/ line.op = "materialize_0002" /\ line.record = "R1"
                /\ p.generation = "R0" /\ p.emitted
       THEN "ok"
       ELSE "immediate_successor_required"

RejectMaterialize(l) ==
  /\ Dispatches(l, Materializations)
  /\ Authentication(proc[l], Line(l)) # "ok"
  /\ Refuse(l, Used(l), Authentication(proc[l], Line(l)))

\* The old pair is destroyed before the new one is built; until no old actor is
\* left the command is pending.
Replace(l) ==
  /\ Dispatches(l, {"materialize_0002"})
  /\ Authentication(proc[l], Line(l)) = "ok"
  /\ Answer(l, [Used(l) EXCEPT !.pending = Line(l), !.world = Empty], <<>>)

\* ContinueMaterialization builds R0 within the dispatch of its line, and R1 once
\* the old actors are gone.
BuildsR0(l) ==
  /\ Dispatches(l, {"materialize_0001"})
  /\ Authentication(proc[l], Line(l)) = "ok"
BuildsR1(l) == proc[l].life = "running" /\ proc[l].pending # NoLine

Built(l, op, record, p, objects) ==
  \/ /\ BuildsR0(l)
     /\ op = "materialize_0001" /\ record = "R0"
     /\ Answer(l, [p EXCEPT !.ops = @ \cup {op}], objects)
  \/ /\ BuildsR1(l)
     /\ op = "materialize_0002" /\ record = "R1"
     /\ proc' = [proc EXCEPT ![l] = [p EXCEPT !.pending = NoLine]]
     /\ output' = [output EXCEPT ![l] = @ \o objects]
     /\ UNCHANGED <<case, control, closed>>

Represents(p, record, world) == [p EXCEPT !.generation = record, !.world = world]

CompleteMaterialization(l, op, record) ==
  /\ ~proc[l].armed
  /\ Built(l, op, record, Represents(proc[l], record, Pair(record)),
           <<Response(op, "ok", Empty)>>)

\* SpawnActor returned no resource, no anchor or no extra resource: there is no way back.
SpawnFails(l, op, record) ==
  \/ Built(l, op, record, Terminal(proc[l]), <<Response(op, "cardinality", Empty)>>)
  \/ /\ ~(proc[l].armed /\ case \in PartialCases)
     /\ Built(l, op, record,
              Terminal(Represents(proc[l], record,
                                  [anchor |-> "none", resources |-> {record}])),
              <<Response(op, "cardinality", Empty)>>)
  \/ /\ proc[l].armed /\ case \in {"F16a", "F16b"}     \* the extra resource
     /\ Built(l, op, record, Terminal(Represents(proc[l], record, Pair(record))),
              <<Response(op, "fault_arm", Empty)>>)

\* F13, F14: the resource is left without an anchor.
PartialPublication(l) ==
  LET torn == [anchor |-> "none", resources |-> {"R1"}] IN
  /\ proc[l].armed /\ case \in PartialCases
  /\ Built(l, "materialize_0002", "R1",
           Terminal([Represents(proc[l], "R1", torn) EXCEPT !.consumed = TRUE]),
           <<Event("fault_event", "materialize_0002", torn),
             Response("materialize_0002", "partial_publication", Empty)>>)

Sabotaged ==
  [anchor |-> "R1",
   resources |-> CASE case = "F15" -> {"R1_wrong_owner"}
                   [] case = "F16a" -> {"R1", "extra_R1"}
                   [] OTHER -> {"R1", "extra_R0"}]

\* F15, F16: a truthful receipt for a representation that changes before it is
\* observed.
SabotageAfterReceipt(l) ==
  /\ proc[l].armed /\ case \in SabotageCases
  /\ Built(l, "materialize_0002", "R1",
           [Represents(proc[l], "R1", Sabotaged) EXCEPT !.consumed = TRUE, !.terminal = TRUE],
           <<Event("fault_event", "materialize_0002", Sabotaged),
             Response("materialize_0002", "ok", Empty)>>)

ContinueMaterialization(l) ==
  \/ CompleteMaterialization(l, "materialize_0001", "R0")
  \/ CompleteMaterialization(l, "materialize_0002", "R1")
  \/ PartialPublication(l)
  \/ SabotageAfterReceipt(l)

-----------------------------------------------------------------------------

Dispatch(l) ==
  \/ DispatchMalformed(l) \/ DispatchMisrouted(l) \/ DispatchOutOfSequence(l)
  \/ DispatchPayload(l)
  \/ Bind(l) \/ Emit(l) \/ Inspect(l) \/ ArmFault(l) \/ Shutdown(l)
  \/ RejectMaterialize(l) \/ Replace(l) \/ ContinueMaterialization(l)

Tick(l) == Boot(l) \/ Dispatch(l) \/ DispatchEndOfInput(l) \/ Exit(l)

\* The tick in which an actor is not spawned.
SpawnFailure(l) ==
  SpawnFails(l, "materialize_0001", "R0") \/ SpawnFails(l, "materialize_0002", "R1")

\* The process dies, or fails at startup, with whatever it had not read.
Crash(l) == Ticking(l) /\ Exits(l, "exited")

=============================================================================
