------------------------- MODULE LiveEvidenceClient -------------------------
(***************************************************************************)
(* The live evidence processes under a parent that follows the life of a    *)
(* process but for a few lines, which may be anything: repeated, skipped,  *)
(* out of order, with another binding or payload, pipelined behind a       *)
(* pending command, after an error.  output[l] is never read here, so it   *)
(* is the complete record of what process l wrote.                         *)
(***************************************************************************)
EXTENDS LiveEvidenceProcess

CONSTANTS Launches,      \* the witnesses a process may be launched for
          OddBound,      \* lines and ends out of the ordinary; a bound for TLC
          PipeBound      \* lines waiting in its stdin; a bound for TLC

ASSUME BoundsAssumption == OddBound \in Nat /\ PipeBound \in Nat

VARIABLES
  next,   \* the next line of the ordinary life
  odd     \* the lines out of the ordinary written so far

clientVars == <<next, odd>>
lifeVars == <<processVars, clientVars>>

Proper(op, record) == [op |-> op, binding |-> TRUE, record |-> record, exact |-> TRUE]

Life == <<Proper("bind_0001", "none"), Proper("materialize_0001", "R0"),
          Proper("emit_0001", "none"), Proper("arm_fault_0001", "none"),
          Proper("materialize_0002", "R1"), Proper("inspect_L0", "none"),
          Proper("inspect_terminal", "none"), Proper("shutdown_0001", "none")>>

\* One line of every kind the dispatch tells apart.
Choices ==
  {Proper(op, "none") : op \in {"bind_0001", "emit_0001", "inspect_L0", "inspect_terminal",
                                "arm_fault_0001", "shutdown_0001", "unknown", "malformed"}}
  \cup {Proper("materialize_0001", r) : r \in {"R0", "R1"}}
  \cup {Proper("materialize_0002", r) : r \in {"R0", "R1", "working"}}
  \cup {[Proper(op, "none") EXCEPT !.binding = FALSE] : op \in {"bind_0001", "inspect_L0"}}
  \cup {[Proper(op, "none") EXCEPT !.exact = FALSE] : op \in {"emit_0001", "arm_fault_0001"}}

ClientInit ==
  /\ case \in Launches
  /\ ProcessInit
  /\ next = [l \in Labels |-> 1]
  /\ odd = [l \in Labels |-> 0]

Start(l) ==
  /\ proc[l].life = "absent"
  /\ proc' = [proc EXCEPT ![l].life = "running"]
  /\ UNCHANGED <<case, control, output, closed, clientVars>>

Write(l, line) ==
  /\ Ticking(l) /\ ~closed[l]
  /\ Len(control[l]) < PipeBound
  /\ control' = [control EXCEPT ![l] = Append(@, line)]
  /\ UNCHANGED <<case, proc, output, closed>>

Proceed(l) ==
  /\ next[l] \in DOMAIN Life
  /\ Write(l, Life[next[l]])
  /\ next' = [next EXCEPT ![l] = @ + 1]
  /\ UNCHANGED odd

LeaveOut(l) ==
  /\ odd[l] < OddBound /\ next[l] \in DOMAIN Life
  /\ next' = [next EXCEPT ![l] = @ + 1]
  /\ odd' = [odd EXCEPT ![l] = @ + 1]
  /\ UNCHANGED processVars

Stray(l, line) ==
  /\ odd[l] < OddBound
  /\ Write(l, line)
  /\ odd' = [odd EXCEPT ![l] = @ + 1]
  /\ UNCHANGED next

CloseStdin(l) ==
  /\ odd[l] < OddBound
  /\ proc[l].life \in {"running", "exiting", "exited"} /\ ~closed[l]
  /\ closed' = [closed EXCEPT ![l] = TRUE]
  /\ odd' = [odd EXCEPT ![l] = @ + 1]
  /\ UNCHANGED <<case, proc, control, output, next>>

Die(l) ==
  /\ odd[l] < OddBound
  /\ Crash(l)
  /\ odd' = [odd EXCEPT ![l] = @ + 1]
  /\ UNCHANGED next

ProcessStep(l) == (Tick(l) \/ SpawnFailure(l)) /\ UNCHANGED clientVars

ClientNext ==
  \E l \in Labels :
    \/ Start(l) \/ CloseStdin(l) \/ Die(l) \/ ProcessStep(l)
    \/ Proceed(l) \/ LeaveOut(l)
    \/ \E line \in Choices : Stray(l, line)

ClientSpec == ClientInit /\ [][ClientNext]_lifeVars

-----------------------------------------------------------------------------
(* Properties *)

AnswerOf(l, op) == \E i \in DOMAIN output[l] :
                      output[l][i].op = op /\ output[l][i].kind = "response"
                        /\ output[l][i].code = "ok"

\* Whatever is repeated, an operation succeeds at most once and the physical
\* interaction happens at most once, before the response that reports it
\* (Operations, bEmitted; "one startup and one original bound command stream").
SucceedsOnce ==
  \A l \in Labels : \A i, j \in DOMAIN output[l] :
    LET a == output[l][i]
        b == output[l][j]
    IN /\ a.op # "none" /\ a.kind = b.kind /\ a.op = b.op /\ a.code = "ok" /\ b.code = "ok"
            => i = j
       /\ a.kind = "response" /\ a.op = "emit_0001" /\ a.code = "ok"
            => output[l][i - 1].kind = "physical_event"

\* A fault event shows the world as every later census finds it: what the process
\* says of the fault is what the parent can check independently (ConsumeFault,
\* Observe).
FaultEventIsTheWorld ==
  \A l \in Labels : \A i, j \in DOMAIN output[l] :
    output[l][i].kind = "fault_event" =>
      /\ proc[l].consumed /\ proc[l].terminal
      /\ i < j /\ output[l][j].op \in Inspections /\ output[l][j].code = "ok" =>
           output[l][j].seen = output[l][i].seen

\* The representation is whole: a process that has not refused anything and has
\* nothing pending shows exactly the pair of the record it accepted last, and a
\* process that has been broken says so of the world as it is.
RepresentationWhole ==
  FaultEventIsTheWorld /\ \A l \in Labels :
    ~proc[l].terminal /\ proc[l].pending = NoLine /\ proc[l].generation # "none" =>
      proc[l].world = Pair(proc[l].generation)

\* No rejected projection erases the old representation, and R1 is shown by no
\* process that has not emitted its evidence: the R0 pair only goes for an
\* authenticated successor (Materialize, AuthenticateMaterialize).
OldPairUntilSuccessor ==
  \A l \in Labels :
    /\ proc[l].generation = "R0" /\ proc[l].world # Pair("R0") =>
         \/ proc[l].pending.record = "R1" /\ proc[l].emitted
         \/ proc[l].terminal
    /\ proc[l].generation = "R1" \/ proc[l].pending # NoLine =>
         proc[l].emitted /\ AnswerOf(l, "materialize_0001")

=============================================================================
