----------------------- MODULE LiveEvidenceConnection -----------------------
(***************************************************************************)
(* The acquisition's end of one process: OriginalProtocolConnection, one   *)
(* startup and one stream of commands, one at a time, with no retry.  The  *)
(* pipes are the queues of LiveEvidenceProcess.  A thread drains each for   *)
(* the parent until it fails (the shared budget is used up, its file       *)
(* cannot be written): then nothing is written or read any more, what it   *)
(* had already drained included.                                           *)
(*                                                                         *)
(* An exchange is a step per object: the command is written (Ask), events  *)
(* are retained (Hears), then the response is taken (Answered) or the      *)
(* connection fails for good (Breaks, TimesOut).                           *)
(***************************************************************************)
EXTENDS LiveEvidenceProcess

VARIABLES conn   \* the connection of each process

Connections ==
  [startup : BOOLEAN,                                \* startup_raw is retained
   bound : BOOLEAN,                                  \* binding_sha256 is set
   failed : BOOLEAN,                                 \* _failed
   shut : BOOLEAN,                                   \* _shutdown
   stopped : BOOLEAN,                                \* OriginalPipeMonitor._failure is set
   ops : SUBSET Operations,                          \* _operations
   asked : Operations \cup {"none", "startup"},      \* what is awaited
   physical : BOOLEAN,                               \* the exchange's physical event
   faults : {<<>>} \cup {<<w>> : w \in Worlds}]      \* its fault events

ConnectionTypeOK == conn \in [Labels -> Connections]

ConnectionInit ==
  conn = [l \in Labels |->
            [startup |-> FALSE, bound |-> FALSE, failed |-> FALSE, shut |-> FALSE,
             stopped |-> FALSE, ops |-> {}, asked |-> "none", physical |-> FALSE, faults |-> <<>>]]

Dead(l) == proc[l].life \in {"exited", "reaped"}
Object(l) == Head(output[l])
Awaits(l) == conn[l].asked # "none"

-----------------------------------------------------------------------------

\* _exchange accepts a command.
MayAsk(l, op) ==
  /\ conn[l].startup /\ ~conn[l].failed /\ ~conn[l].shut
  /\ op \notin conn[l].ops
  /\ conn[l].bound = (op # "bind_0001")

\* The operation id is used up before the write.
Asked(l, op) == [conn[l] EXCEPT !.ops = @ \cup {op}, !.asked = op, !.physical = FALSE,
                                !.faults = <<>>]

Ask(l, line) ==
  /\ MayAsk(l, line.op) /\ ~Awaits(l) /\ ~Dead(l) /\ ~conn[l].stopped
  /\ control' = [control EXCEPT ![l] = Append(@, line)]
  /\ conn' = [conn EXCEPT ![l] = Asked(l, line.op)]
  /\ UNCHANGED <<case, proc, output, closed>>

\* Nobody reads the pipe, or its output: the write fails, and with it the connection.
AskInVain(l, line) ==
  /\ MayAsk(l, line.op) /\ ~Awaits(l) /\ (Dead(l) \/ conn[l].stopped)
  /\ conn' = [conn EXCEPT ![l] = [Asked(l, line.op) EXCEPT !.asked = "none", !.failed = TRUE]]
  /\ UNCHANGED processVars

\* read_startup
AwaitStartup(l) ==
  /\ ~conn[l].startup /\ ~conn[l].failed /\ ~Awaits(l)
  /\ conn' = [conn EXCEPT ![l].asked = "startup"]
  /\ UNCHANGED processVars

-----------------------------------------------------------------------------
(* _read, and what _exchange makes of the object *)

Expects(c, object) ==
  \/ object.kind = "startup" /\ c.asked = "startup"
  \/ object.kind = "fault_event" /\ c.asked # "startup" /\ c.faults = <<>>
  \/ object.kind = "physical_event" /\ c.asked = "emit_0001" /\ ~c.physical
  \/ /\ object.kind = "response" /\ object.op = c.asked
     /\ c.asked = "emit_0001" => (object.code = "ok") = c.physical

Takes(l, c) ==
  /\ conn' = [conn EXCEPT ![l] = c]
  /\ output' = [output EXCEPT ![l] = Tail(@)]
  /\ UNCHANGED <<case, proc, control, closed>>

\* next_protocol_line gives no line once the thread has failed.
Readable(l) == Awaits(l) /\ output[l] # <<>> /\ ~conn[l].stopped

Hears(l) ==
  /\ Readable(l) /\ Expects(conn[l], Object(l))
  /\ \/ Object(l).kind = "physical_event" /\ Takes(l, [conn[l] EXCEPT !.physical = TRUE])
     \/ /\ Object(l).kind = "fault_event"
        /\ Takes(l, [conn[l] EXCEPT !.faults = <<Object(l).seen>>])

\* The exchange ends: the response, of either status, is returned.
Answers(l) ==
  /\ Readable(l) /\ Expects(conn[l], Object(l))
  /\ Object(l).kind \in {"startup", "response"}

\* bind: an error response also fails the connection.
Answered(l) ==
  LET ok == Object(l).code = "ok" IN
  /\ Answers(l)
  /\ Takes(l, [conn[l] EXCEPT !.asked = "none",
                              !.startup = @ \/ Object(l).kind = "startup",
                              !.bound = @ \/ (Object(l).op = "bind_0001" /\ ok),
                              !.failed = Object(l).op = "bind_0001" /\ ~ok,
                              !.shut = Object(l).op = "shutdown_0001"])

Failed(l) == [conn[l] EXCEPT !.asked = "none", !.failed = TRUE]

\* An object nobody waits for, the end of the stream, or a thread that has failed.
Breaks(l) ==
  /\ Awaits(l)
  /\ \/ /\ Readable(l) /\ ~Expects(conn[l], Object(l))
        /\ Takes(l, Failed(l))
     \/ /\ (output[l] = <<>> /\ Dead(l)) \/ conn[l].stopped
        /\ conn' = [conn EXCEPT ![l] = Failed(l)]
        /\ UNCHANGED processVars

\* The exchange is given up: its deadline, or an exception of the trace.  A response
\* that comes later is never read.
GivesUpMutated(l) ==
  /\ Awaits(l)
  /\ conn' = [conn EXCEPT ![l] = [conn[l] EXCEPT !.asked = "none"]]
  /\ UNCHANGED processVars

GivesUp(l) ==
  /\ Awaits(l)
  /\ conn' = [conn EXCEPT ![l] = Failed(l)]
  /\ UNCHANGED processVars

=============================================================================
