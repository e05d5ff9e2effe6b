------------------------ MODULE PhysicalDomainRouter ------------------------
(***************************************************************************)
(* The Unreal process of one physical domain, as the harness meets it:     *)
(* stdin is a queue of commands, stdout a queue of structured objects, and *)
(* in between ASimultaneousPhysicalDomainCommandRouter::HandleLine with    *)
(* the adapter, the probe and the representation actor it drives.  Every   *)
(* action of a process handles one line to its end, as Tick does on the    *)
(* game thread; the processes share nothing.                               *)
(*                                                                         *)
(* The module has no client: PhysicalDomainClient sends any command in any *)
(* order, SimultaneousPhysicalDomains sends what the harness sends.        *)
(* Operators named ...Mutated are definitions with a plausible mistake.    *)
(***************************************************************************)
EXTENDS Naturals, Sequences

CONSTANTS Domains,
          FaultTarget    \* domain_A, the only role that accepts a fault plan

ASSUME FaultTargetAssumption == FaultTarget \in Domains

\* The witness a process is launched for, as far as the router tells them apart.
Witnesses == {"plain", "quarantine", "retention", "refresh_fault", "observation_fault"}

\* The compiled fault boundaries, grouped by what the fault leaves behind.
RefreshPlans == {"refresh_read",     \* invocation_read / before
                 "unpublished",      \* any later edge before the publication
                 "published",        \* after the publication, before the receipt
                 "receipt_emitted"}  \* materialization_receipt_emission / after
ObservationPlans == {"inspection_read",  \* inspection_invocation_read
                     "probe",            \* any stage inside InspectPublishedRoute
                     "emission",         \* physical_observation_emission
                     "crosscheck"}       \* a boundary of the harness, not of the router
Plans == RefreshPlans \cup ObservationPlans

\* An arming command is named by the plan it arms, an observation by the access
\* state it reports.  "malformed" is a noncanonical line, one of an unknown schema or,
\* with no plan armed, one whose fields its schema's test refuses.
Inspections == {"inspect_launch", "inspect_refresh"}
Commands == {"bind", "bind_mutated", "step", "refresh", "malformed"} \cup Inspections \cup Plans
Objects == {"provenance", "receipt_H0", "receipt_H1", "available", "blocked", "step",
            "retention", "arm_receipt", "fault_result", "failure"}

VARIABLES
  witness,   \* of this launch, derived by the processes from their root path
  proc,      \* the state of each process
  control,   \* lines written to its stdin and not yet handled
  output,    \* objects written to its stdout and not yet consumed
  bundle     \* its refresh input directory: "none", "exact" or "corrupt"

routerVars == <<witness, proc, control, output, bundle>>

Heads == {"H0", "H1"}
Processes ==
  [life : {"absent", "suspended", "running", "exited", "reaped"},
   bound : BOOLEAN,            \* bBindingAccepted
   failed : BOOLEAN,           \* bProtocolFailed
   inspected : BOOLEAN,        \* bLaunchInspectionAccepted
   refreshAccepted : BOOLEAN,  \* bRefreshAccepted
   reinspected : BOOLEAN,      \* bRefreshInspectionAccepted
   stepped : BOOLEAN,          \* bLocalStepAccepted
   consumed : BOOLEAN,         \* the adapter's bRefreshConsumed
   plan : Plans \cup {"none"}, \* FaultPlan, armed when not "none"
   represented : Heads \cup {"none"},               \* RepresentedCanonicalHash
   shown : {"none", "available", "blocked"},        \* the published actor's route
   poison : BOOLEAN]           \* local H0 state that must not outlive H0

TypeOK ==
  /\ witness \in Witnesses
  /\ proc \in [Domains -> Processes]
  /\ control \in [Domains -> Seq(Commands)]
  /\ output \in [Domains -> Seq(Objects)]
  /\ bundle \in [Domains -> {"none", "exact", "corrupt"}]

NewProcess ==
  [life |-> "absent", bound |-> FALSE, failed |-> FALSE, inspected |-> FALSE,
   refreshAccepted |-> FALSE, reinspected |-> FALSE, stepped |-> FALSE,
   consumed |-> FALSE, plan |-> "none", represented |-> "none", shown |-> "none",
   poison |-> FALSE]

RouterInit ==
  /\ proc = [d \in Domains |-> NewProcess]
  /\ control = [d \in Domains |-> <<>>]
  /\ output = [d \in Domains |-> <<>>]
  /\ bundle = [d \in Domains |-> "none"]

-----------------------------------------------------------------------------
(* One line *)

Takes(d, commands) ==
  /\ proc[d].life = "running"
  /\ control[d] # <<>>
  /\ Head(control[d]) \in commands

\* The test of HandleLine before any operation.
Operates(d, commands) == Takes(d, commands) /\ ~proc[d].failed /\ proc[d].bound

Emit(d, p, objects) ==
  /\ proc' = [proc EXCEPT ![d] = p]
  /\ control' = [control EXCEPT ![d] = Tail(@)]
  /\ output' = [output EXCEPT ![d] = @ \o objects]
  /\ UNCHANGED <<witness, bundle>>

\* Both set bProtocolFailed.
Fail(d) == Emit(d, [proc[d] EXCEPT !.failed = TRUE], <<"failure">>)
Inject(d, p) == Emit(d, [p EXCEPT !.failed = TRUE], <<"fault_result">>)

\* PublishCandidate: a new actor takes over, and with it goes the local state of
\* the old one.
Published(p, h) ==
  [p EXCEPT !.represented = h,
            !.shown = IF h = "H0" THEN "available" ELSE "blocked",
            !.poison = FALSE]

RejectAfterFailure(d) ==
  /\ Takes(d, Commands)
  /\ proc[d].failed
  /\ Emit(d, proc[d], <<"failure">>)

\* A binding whose observable fields differ fails before the provenance is built.
RejectUnbound(d) ==
  /\ Takes(d, Commands \ {"bind"})
  /\ ~proc[d].failed /\ ~proc[d].bound
  /\ Fail(d)

\* bBindingAccepted is not tested.
AcceptBindingMutated(d) ==
  /\ Takes(d, {"bind"})
  /\ ~proc[d].failed
  /\ Emit(d, [Published(proc[d], "H0") EXCEPT !.bound = TRUE,
                                              !.poison = (witness = "retention")],
          <<"provenance", "receipt_H0">>)

\* The receipt is written by MaterializeLaunch and again by its caller.
AcceptBindingTwiceMutated(d) ==
  /\ Takes(d, {"bind"})
  /\ ~proc[d].failed /\ ~proc[d].bound
  /\ Emit(d, [Published(proc[d], "H0") EXCEPT !.bound = TRUE,
                                              !.poison = (witness = "retention")],
          <<"provenance", "receipt_H0", "receipt_H0">>)

\* AcceptBinding, with MaterializeLaunch.
AcceptBinding(d) ==
  /\ Takes(d, {"bind"})
  /\ ~proc[d].failed /\ ~proc[d].bound
  /\ Emit(d, [Published(proc[d], "H0") EXCEPT !.bound = TRUE,
                                              !.poison = (witness = "retention")],
          <<"provenance", "receipt_H0">>)

RejectUnknown(d) ==
  /\ Operates(d, {"bind", "bind_mutated", "malformed"})
  /\ Fail(d)

-----------------------------------------------------------------------------
(* Fault plans and the local step *)

ArmSequenceValid(d, plan) ==
  LET p == proc[d] IN
  /\ d = FaultTarget
  /\ p.plan = "none"
  /\ \/ /\ plan \in RefreshPlans
        /\ witness = "refresh_fault"
        /\ p.inspected /\ ~p.refreshAccepted
     \/ /\ plan \in ObservationPlans
        /\ witness = "observation_fault"
        /\ \/ ~p.inspected /\ ~p.refreshAccepted
           \/ p.inspected /\ p.refreshAccepted /\ ~p.reinspected

AcceptFaultArm(d) ==
  /\ Operates(d, Plans)
  /\ ArmSequenceValid(d, Head(control[d]))
  /\ Emit(d, [proc[d] EXCEPT !.plan = Head(control[d])], <<"arm_receipt">>)

RejectFaultArm(d) ==
  /\ Operates(d, Plans)
  /\ ~ArmSequenceValid(d, Head(control[d]))
  /\ Fail(d)

StepAllowed(p) ==
  witness = "quarantine" /\ p.inspected /\ ~p.refreshAccepted /\ ~p.stepped

ExecuteNonconsequentialStepOnce(d) ==
  /\ Operates(d, {"step"})
  /\ IF StepAllowed(proc[d])
       THEN Emit(d, [proc[d] EXCEPT !.stepped = TRUE], <<"step">>)
       ELSE Fail(d)

-----------------------------------------------------------------------------
(* Inspection *)

LaunchSlot(p, c) == c = "inspect_launch" /\ ~p.inspected /\ ~p.refreshAccepted
RefreshSlot(p, c) ==
  c = "inspect_refresh" /\ p.inspected /\ p.refreshAccepted /\ ~p.reinspected
Slot(p, c) == LaunchSlot(p, c) \/ RefreshSlot(p, c)

Inspected(p, c) == [p EXCEPT !.inspected = @ \/ LaunchSlot(p, c),
                             !.reinspected = @ \/ RefreshSlot(p, c)]

\* The observation is read from the actor and its components, never from the
\* represented hash.
InspectPublishedRoute(d) ==
  LET p == proc[d]
      c == Head(control[d])
  IN /\ Operates(d, Inspections)
     /\ p.plan \notin {"inspection_read", "probe", "emission"}
     /\ Slot(p, c)
     /\ Emit(d, Inspected(p, c), <<p.shown>>)

FaultInspection(d) ==
  LET p == proc[d]
      c == Head(control[d])
  IN /\ Operates(d, Inspections)
     /\ \/ p.plan = "inspection_read" /\ Inject(d, p)
        \/ p.plan = "probe" /\ Slot(p, c) /\ Inject(d, p)
        \/ p.plan = "emission" /\ Slot(p, c) /\ Inject(d, Inspected(p, c))

RejectInspection(d) ==
  /\ Operates(d, Inspections)
  /\ proc[d].plan # "inspection_read"
  /\ ~Slot(proc[d], Head(control[d]))
  /\ Fail(d)

-----------------------------------------------------------------------------
(* Refresh *)

InRefreshOrder(p) == p.inspected /\ ~p.refreshAccepted

\* What RefreshOnce asks again of the adapter.
AdapterReady(p) == ~p.consumed /\ p.represented = "H0"

Refreshed(p) ==
  [Published(p, "H1") EXCEPT !.refreshAccepted = TRUE, !.consumed = TRUE]

RejectRefreshOrder(d) ==
  /\ Operates(d, {"refresh"})
  /\ proc[d].plan # "refresh_read"
  /\ ~InRefreshOrder(proc[d])
  /\ Fail(d)

\* A refresh rejected before publication is the one failure that leaves the
\* router answering: the attempt is used up, the H0 representation stays.  An
\* unpublished fault may be armed behind the stage the bundle fails at.
RejectRefreshBundle(d) ==
  /\ Operates(d, {"refresh"})
  /\ proc[d].plan # "refresh_read"
  /\ InRefreshOrder(proc[d])
  /\ AdapterReady(proc[d]) => bundle[d] # "exact"
  /\ Emit(d, [proc[d] EXCEPT !.refreshAccepted = TRUE, !.consumed = TRUE], <<"failure">>)

FaultUnpublishedRefresh(d) ==
  LET p == proc[d] IN
  /\ Operates(d, {"refresh"})
  /\ \/ p.plan = "refresh_read" /\ Inject(d, [p EXCEPT !.refreshAccepted = TRUE])
     \/ /\ p.plan = "unpublished" /\ InRefreshOrder(p)
        /\ Inject(d, [p EXCEPT !.refreshAccepted = TRUE, !.consumed = TRUE])

FaultPublishedRefresh(d) ==
  LET p == proc[d] IN
  /\ Operates(d, {"refresh"})
  /\ InRefreshOrder(p) /\ AdapterReady(p) /\ bundle[d] = "exact"
  /\ \/ p.plan = "published" /\ Inject(d, Refreshed(p))
     \/ /\ p.plan = "receipt_emitted"
        /\ Emit(d, [Refreshed(p) EXCEPT !.failed = TRUE], <<"receipt_H1", "fault_result">>)

RefreshOnce(d) ==
  LET p == proc[d] IN
  /\ Operates(d, {"refresh"})
  /\ p.plan \notin RefreshPlans
  /\ InRefreshOrder(p) /\ AdapterReady(p) /\ bundle[d] = "exact"
  /\ Emit(d, Refreshed(p),
          IF witness = "retention" THEN <<"receipt_H1", "retention">> ELSE <<"receipt_H1">>)

HandleLine(d) ==
  \/ RejectAfterFailure(d) \/ RejectUnbound(d) \/ AcceptBinding(d) \/ RejectUnknown(d)
  \/ AcceptFaultArm(d) \/ RejectFaultArm(d) \/ ExecuteNonconsequentialStepOnce(d)
  \/ InspectPublishedRoute(d) \/ FaultInspection(d) \/ RejectInspection(d)
  \/ RejectRefreshOrder(d) \/ RejectRefreshBundle(d)
  \/ FaultUnpublishedRefresh(d) \/ FaultPublishedRefresh(d) \/ RefreshOnce(d)

\* The process dies, with whatever it had not read.
Crash(d) ==
  /\ proc[d].life \in {"suspended", "running"}
  /\ proc' = [proc EXCEPT ![d].life = "exited"]
  /\ UNCHANGED <<witness, control, output, bundle>>

=============================================================================
