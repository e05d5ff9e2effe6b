--------------------- MODULE CrossDomainOccupancyRouter ---------------------
(***************************************************************************)
(* The Unreal process of one domain of the cross-domain occupancy proof:   *)
(* FCrossDomainOccupancyCommandRouter::HandleLine with the adapter that    *)
(* publishes a generation of actors in twenty-two stages and the probe     *)
(* that counts the actors of the world.  stdin is a queue of lines, stdout *)
(* a queue of structured objects; a line is handled to its end.            *)
(*                                                                         *)
(* Generations: 1 is R0 (the subject is at the site of domain B), 2 is     *)
(* Rtransit (at neither), 3 is Rfinal (at the site of domain A); 0 is none.*)
(* Lines and objects are records of one shape; n and m are numbers:        *)
(*   bind n            n = 1: the exact binding, 0: any other              *)
(*   materialize n     launch_0001, refresh_0001, refresh_0002             *)
(*   inspect, malformed                                                    *)
(*   arm n tag edge    the fault at stage Mn or On, before or after        *)
(*   liveness n        LV03, LV04, LV05                                    *)
(* Operators named ...Mutated are definitions with a plausible mistake.    *)
(***************************************************************************)
EXTENDS Naturals, Sequences

CONSTANTS Slots,     \* the processes of a case
          InRoleA    \* the slots launched for domain_A

ASSUME SlotsAssumption == InRoleA \subseteq Slots

VARIABLES
  witness,   \* witness_id of the launches, as far as the router tells them apart
  proc,      \* the state of each process
  control,   \* lines written to its stdin and not yet handled
  output,    \* objects written to its stdout and not yet read
  bundle     \* the directory of each operation of each process

occupancyVars == <<witness, proc, control, output, bundle>>

Witnesses == {"other", "control_C2", "control_C3", "asymmetric", "fault", "liveness"}
Generations == 1..3
Line(op, n, tag, edge) == [op |-> op, n |-> n, tag |-> tag, edge |-> edge]
Obj(kind, n, m) == [kind |-> kind, n |-> n, m |-> m]
NoFault == [tag |-> "none", n |-> 0, edge |-> "none"]

\* derived_local_subject_disposition = present_at_local_site.
Present(s, g) == (s \in InRoleA /\ g = 3) \/ (s \notin InRoleA /\ g = 1)

Subject(s, g) == IF Present(s, g) THEN g ELSE 0

NewProcess ==
  [life |-> "absent",       \* absent, suspended, running, exited or reaped
   bound |-> FALSE,         \* bBindingAccepted
   failed |-> FALSE,        \* bProtocolFailed
   terminal |-> FALSE,      \* bTerminalLocalInvalid
   fresh |-> TRUE,          \* LastCommandSequence is still 0
   plan |-> NoFault,        \* FaultPlan
   spent |-> FALSE,         \* FaultPlan.bInjected
   generation |-> 0,        \* PublicationGeneration and RepresentedCanonicalHash
   anchor |-> 0,            \* the generation of the anchor actor in the world
   subject |-> 0,           \* and of the subject actor
   publication |-> "none",  \* PublicationState
   stdin |-> TRUE, stdout |-> TRUE]   \* open at the process's side

RouterInit ==
  /\ proc = [s \in Slots |-> NewProcess]
  /\ control = [s \in Slots |-> <<>>]
  /\ output = [s \in Slots |-> <<>>]
  /\ bundle = [s \in Slots |-> [g \in Generations |-> "none"]]

-----------------------------------------------------------------------------
(* One line *)

Takes(s, ops) ==
  /\ proc[s].life = "running"
  /\ proc[s].stdin
  /\ control[s] # <<>>
  /\ Head(control[s]).op \in ops

Handled(s, p, objects) ==
  /\ proc' = [proc EXCEPT ![s] = p]
  /\ control' = [control EXCEPT ![s] = Tail(@)]
  /\ output' = [output EXCEPT ![s] = IF proc[s].stdout THEN @ \o objects ELSE @]
  /\ UNCHANGED <<witness, bundle>>

\* EmitFailure, named by the number of its stage and whether it was injected; what the
\* engine refuses is named "materialization", which is no stage: 24.
Failure(n, injected) == Obj("failure", n, IF injected THEN 1 ELSE 0)

ProtocolFailure(s) == Handled(s, [proc[s] EXCEPT !.failed = TRUE], <<Failure(0, FALSE)>>)

AllOps == {"bind", "materialize", "inspect", "arm", "liveness", "malformed"}

\* Before the binding every line is read as one; bProtocolFailed is not tested, so
\* that an exact binding is accepted after a failed one.
AcceptBinding(s) ==
  /\ Takes(s, AllOps) /\ ~proc[s].bound
  /\ IF Head(control[s]).op = "bind" /\ Head(control[s]).n = 1
       THEN Handled(s, [proc[s] EXCEPT !.bound = TRUE],
                    <<Obj("provenance", 0, 0), Obj("bind_receipt", 0, 0)>>)
       ELSE ProtocolFailure(s)

Operates(s, ops) == Takes(s, ops) /\ proc[s].bound /\ ~proc[s].failed

RefuseLine(s) ==
  \/ Takes(s, AllOps) /\ proc[s].bound /\ proc[s].failed /\ ProtocolFailure(s)
  \/ Operates(s, {"bind", "malformed"}) /\ ProtocolFailure(s)

\* Neither the armed operation nor bTerminalLocalInvalid is tested.
ArmAllowed(s, c) ==
  /\ proc[s].plan = NoFault
  /\ witness \in {"fault", "control_C2", "control_C3"}
  /\ witness = "control_C2" => s \notin InRoleA /\ c.tag = "M" /\ c.n = 20 /\ c.edge = "before"
  /\ witness = "control_C3" => s \notin InRoleA /\ c.tag = "M" /\ c.n = 16 /\ c.edge = "after"

AcceptFaultArm(s) ==
  LET c == Head(control[s]) IN
  /\ Operates(s, {"arm"})
  /\ IF ArmAllowed(s, c)
       THEN Handled(s, [proc[s] EXCEPT !.plan = [tag |-> c.tag, n |-> c.n, edge |-> c.edge]],
                    <<Obj("arm_receipt", 0, 0)>>)
       ELSE ProtocolFailure(s)

\* LV03 reports a changed birth, LV04 closes stdin, LV05 closes stdout; the process
\* goes on.
ExecuteLivenessAdversary(s) ==
  LET n == Head(control[s]).n
      armed == <<Obj("liveness_receipt", n, 0)>>
  IN /\ Operates(s, {"liveness"})
     /\ \/ /\ witness # "liveness" /\ ProtocolFailure(s)
        \/ /\ witness = "liveness"
           /\ Handled(s, [proc[s] EXCEPT !.fresh = FALSE, !.stdin = (n # 4), !.stdout = (n # 5)],
                      IF n = 3 THEN Append(armed, Obj("changed_start", 0, 0)) ELSE armed)

-----------------------------------------------------------------------------
(* Materialization: M01 in the router, M02 to M22 in the adapter, M23 *)

MaterializeAllowed(p, g) ==
  /\ ~p.terminal
  /\ \/ g = 1 /\ p.fresh
     \/ g > 1 /\ p.generation = g - 1

\* The stages whose work is done when the armed fault strikes, and those done when the
\* input fails: the inventory of the bundle is M03, the test of the projection M09.
FaultStop(p, tag) ==
  IF p.plan.tag # tag \/ p.spent THEN 24
  ELSE IF p.plan.edge = "before" THEN p.plan.n - 1 ELSE p.plan.n
BundleStop(state) == CASE state = "none" -> 2 [] state = "corrupt" -> 8 [] OTHER -> 24

\* Only the anchor of the predecessor is destroyed.
WorldAfterMutated(s, p, g, done) ==
  [p EXCEPT !.anchor = IF done >= 20 THEN g ELSE IF done >= 18 THEN 0 ELSE @,
            !.subject = IF done >= 19 /\ Present(s, g) THEN g ELSE @]

\* M18 destroys the predecessor, M19 spawns the subject, M20 the anchor.  A failure
\* restores nothing.
WorldAfter(s, p, g, done) ==
  [p EXCEPT !.anchor = IF done >= 20 THEN g ELSE IF done >= 18 THEN 0 ELSE @,
            !.subject = IF done >= 19 THEN Subject(s, g) ELSE IF done >= 18 THEN 0 ELSE @]

\* BuildReceipt names the target and enumerates the actors of the world, but the receipt
\* of a private candidate the actors the candidate would have.
Receipt(g, subject) == Obj("receipt", g, subject)

\* The adapter has returned true, and with it changed what the process says of itself.
Published(p, g) == [p EXCEPT !.generation = g, !.publication = "published"]

MaterializeOnce(s) ==
  LET p == proc[s]
      g == Head(control[s]).n
  IN /\ Operates(s, {"materialize"})
     /\ MaterializeAllowed(p, g)
     /\ FaultStop(p, "M") = 24 /\ BundleStop(bundle[s][g]) = 24
     /\ Handled(s, [Published(WorldAfter(s, p, g, 23), g) EXCEPT !.fresh = FALSE],
                <<Receipt(g, WorldAfter(s, p, g, 23).subject)>>)

\* M22 after has built the receipt and M23 after forwarded it; the receipt of C3 is
\* that of a candidate that is never published.
ReceiptOfFailed(s, p, g) ==
  CASE p.plan.edge = "after" /\ p.plan.n \in {22, 23} -> <<Receipt(g, WorldAfter(s, p, g, 22).subject)>>
    [] p.plan.edge = "after" /\ p.plan.n = 16 /\ witness = "control_C3" -> <<Receipt(g, Subject(s, g))>>
    [] OTHER -> <<>>

FailMaterialization(s) ==
  LET p == proc[s]
      g == Head(control[s]).n
      faulted == FaultStop(p, "M") <= BundleStop(bundle[s][g])
      done == IF faulted THEN FaultStop(p, "M") ELSE BundleStop(bundle[s][g])
      world == WorldAfter(s, p, g, done)
      returned == IF faulted /\ p.plan.n = 23 THEN Published(world, g) ELSE world
  IN /\ Operates(s, {"materialize"})
     /\ MaterializeAllowed(p, g)
     /\ done < 24
     /\ Handled(s, [returned EXCEPT !.fresh = FALSE, !.terminal = TRUE, !.spent = faulted \/ @,
                                    !.publication = IF done >= 17 THEN "invalid" ELSE @],
                (IF faulted THEN ReceiptOfFailed(s, p, g) ELSE <<>>)
                  \o <<IF faulted THEN Failure(p.plan.n, TRUE) ELSE Failure(done + 1, FALSE)>>)

\* What the engine may leave when stage n fails: M18 stops at any actor of the predecessor,
\* M19 and M20 destroy what they could not configure, M21 finds another world than it made.
RefusedWorlds(s, p, g, n) ==
  IF n = 18 THEN {[p EXCEPT !.anchor = a, !.subject = b] : a \in {p.anchor, 0}, b \in {p.subject, 0}}
  ELSE {WorldAfter(s, p, g, n - 1)}

\* The engine destroys or spawns no actor, before any fault that is armed: the publication
\* has begun.  M19 asks it for nothing where no subject is due.  It cannot refuse M22:
\* BuildReceipt always returns an object.
EngineRefuses(s) ==
  LET p == proc[s]
      g == Head(control[s]).n
  IN /\ Operates(s, {"materialize"})
     /\ MaterializeAllowed(p, g)
     /\ BundleStop(bundle[s][g]) = 24
     /\ \E n \in 18..21 :
          /\ n <= FaultStop(p, "M")
          /\ n = 19 => Present(s, g)
          /\ \E world \in RefusedWorlds(s, p, g, n) :
               Handled(s, [world EXCEPT !.fresh = FALSE, !.terminal = TRUE, !.publication = "invalid"],
                       <<Failure(24, FALSE)>>)

RejectMaterialization(s) ==
  /\ Operates(s, {"materialize"})
  /\ ~MaterializeAllowed(proc[s], Head(control[s]).n)
  /\ ProtocolFailure(s)

-----------------------------------------------------------------------------
(* Inspection: O01 in the router, O02 to O09 in the probe, O10 *)

\* A terminal process still answers: what it has published once it can be asked about,
\* and in the controls C2 and C3 and the asymmetric failures it must.
InspectionAllowed(p) ==
  p.generation # 0 \/ (p.terminal /\ witness \in {"control_C2", "control_C3", "asymmetric"})

\* The probe walks the actors of the loaded levels.
Observation(s, p) == Obj("observation", p.anchor, p.subject)

InspectOnce(s) ==
  /\ Operates(s, {"inspect"})
  /\ InspectionAllowed(proc[s]) /\ FaultStop(proc[s], "O") = 24
  /\ Handled(s, [proc[s] EXCEPT !.fresh = FALSE], <<Observation(s, proc[s])>>)

FailInspection(s) ==
  LET p == proc[s] IN
  /\ Operates(s, {"inspect"})
  /\ InspectionAllowed(p) /\ FaultStop(p, "O") < 24
  /\ Handled(s, [p EXCEPT !.fresh = FALSE, !.terminal = TRUE, !.spent = TRUE, !.publication = "invalid"],
             (IF p.plan.n = 10 /\ p.plan.edge = "after" THEN <<Observation(s, p)>> ELSE <<>>)
               \o <<Failure(p.plan.n, TRUE)>>)

RejectInspection(s) ==
  /\ Operates(s, {"inspect"})
  /\ ~InspectionAllowed(proc[s])
  /\ ProtocolFailure(s)

HandleLine(s) ==
  \/ AcceptBinding(s) \/ RefuseLine(s) \/ AcceptFaultArm(s) \/ ExecuteLivenessAdversary(s)
  \/ MaterializeOnce(s) \/ FailMaterialization(s) \/ RejectMaterialization(s)
  \/ InspectOnce(s) \/ FailInspection(s) \/ RejectInspection(s)

\* The process dies, with whatever it had not read.
Crash(s) ==
  /\ proc[s].life \in {"suspended", "running"}
  /\ proc' = [proc EXCEPT ![s].life = "exited"]
  /\ UNCHANGED <<witness, control, output, bundle>>

=============================================================================
