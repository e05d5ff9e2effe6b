------------------------ MODULE PhysicalDomainClient ------------------------
(***************************************************************************)
(* The Unreal processes under a client that sends any command at any time: *)
(* duplicates, commands out of order, after a failure, pipelined ahead of  *)
(* the answers.  output[d] is never consumed here, so it is the complete   *)
(* record of what process d wrote.                                         *)
(***************************************************************************)
EXTENDS PhysicalDomainRouter

CONSTANTS CommandBound,    \* commands sent to one process; a bound for TLC
          PipeBound        \* commands waiting in its stdin; a bound for TLC

ASSUME BoundsAssumption == CommandBound \in Nat /\ PipeBound \in Nat

VARIABLE sent

clientVars == <<routerVars, sent>>

ClientInit ==
  /\ witness \in Witnesses
  /\ RouterInit
  /\ sent = [d \in Domains |-> 0]

Start(d) ==
  /\ proc[d].life = "absent"
  /\ proc' = [proc EXCEPT ![d].life = "running"]
  /\ UNCHANGED <<witness, control, output, bundle, sent>>

Submit(d, c) ==
  /\ proc[d].life = "running"
  /\ sent[d] < CommandBound /\ Len(control[d]) < PipeBound
  /\ sent' = [sent EXCEPT ![d] = @ + 1]
  /\ control' = [control EXCEPT ![d] = Append(@, c)]
  /\ UNCHANGED <<witness, proc, output, bundle>>

\* The refresh directory is created once (mkdir with exist_ok = False).
Stage(d, b) ==
  /\ bundle[d] = "none"
  /\ bundle' = [bundle EXCEPT ![d] = b]
  /\ UNCHANGED <<witness, proc, control, output, sent>>

ProcessStep(d) == (HandleLine(d) \/ Crash(d)) /\ UNCHANGED sent

ClientNext ==
  \E d \in Domains :
    \/ Start(d)
    \/ \E c \in Commands : Submit(d, c)
    \/ \E b \in {"exact", "corrupt"} : Stage(d, b)
    \/ ProcessStep(d)

ClientSpec == ClientInit /\ [][ClientNext]_clientVars

-----------------------------------------------------------------------------
(* Properties *)

\* Each head is published by a process at most once, whatever is sent: one
\* receipt for H0 and one for H1, in that order (bBindingAccepted,
\* bRefreshAccepted and the adapter's RepresentedCanonicalHash test).
ReceiptsOnceInOrder ==
  \A d \in Domains : \A i, j \in DOMAIN output[d] :
    /\ output[d][i] \in {"receipt_H0", "receipt_H1"} /\ output[d][i] = output[d][j] => i = j
    /\ output[d][i] = "receipt_H1" /\ output[d][j] = "receipt_H0" => j < i

=============================================================================
