----------------- MODULE SimultaneousPhysicalDomains_proofs -----------------
(***************************************************************************)
(* Theorems about SimultaneousPhysicalDomains: for any cases of the        *)
(* harness, any mishaps, either order of the roles.                        *)
(*                                                                         *)
(* What the cleanup leaves needs no program.  The other theorems do: that  *)
(* a recorded disposition is true of the process, and that no process      *)
(* leaves H0 before the guard opens for H1, hold because of the order in   *)
(* which each program sends, awaits, stages and concludes.  That order is  *)
(* stated once: a View is what the harness knows at a position of its      *)
(* program, Allowed says what an instruction may rely on, After what is    *)
(* known when it is done, and Runs(p, v, w) that the program p takes view  *)
(* v to view w in that order.  ProgramRuns shows it of every program from  *)
(* the beginning; the invariant then says that some view fits the state    *)
(* (Fits) and that the instructions still to do run from it (Leaves).      *)
(***************************************************************************)
EXTENDS PhysicalDomainClient, SimultaneousPhysicalDomains, SequenceTheorems, WellFoundedInduction, TLAPS

-----------------------------------------------------------------------------
(* What the cleanup leaves: proved of any cases, programs and mishaps *)

\* A process runs only after the harness has it, and the clause leaves unreaped nothing it
\* has; the program does not matter.
CleanupInv ==
  /\ proc \in [Domains -> Processes]
  /\ \A d \in Domains : proc[d].life = "running" => d \in owned
  /\ phase = "ended" => \A d \in Domains : d \in owned => proc[d].life = "reaped"

Running == {q \in Processes : q.life = "running"}

LEMMA RunningKept ==
  ASSUME NEW q \in Running
  PROVE  /\ [q EXCEPT !.failed = TRUE] \in Running
         /\ [q EXCEPT !.stepped = TRUE] \in Running
         /\ [q EXCEPT !.refreshAccepted = TRUE] \in Running
         /\ [q EXCEPT !.refreshAccepted = TRUE, !.consumed = TRUE] \in Running
         /\ \A plan \in Plans : [q EXCEPT !.plan = plan] \in Running
         /\ \A c : Inspected(q, c) \in Running
         /\ Refreshed(q) \in Running
         /\ [Published(q, "H0") EXCEPT !.bound = TRUE, !.poison = (witness = "retention")] \in Running
<1>1. /\ [q EXCEPT !.failed = TRUE] \in Running /\ [q EXCEPT !.stepped = TRUE] \in Running
      /\ [q EXCEPT !.refreshAccepted = TRUE] \in Running
      /\ [q EXCEPT !.refreshAccepted = TRUE, !.consumed = TRUE] \in Running
  BY DEF Running, Processes
<1>2. \A plan \in Plans : [q EXCEPT !.plan = plan] \in Running
  BY DEF Running, Processes
<1>3. \A c : Inspected(q, c) \in Running
  BY DEF Running, Processes, Inspected, LaunchSlot, RefreshSlot
<1>4. Published(q, "H0") \in Running /\ Published(q, "H1") \in Running
  BY DEF Running, Processes, Published, Heads
<1>5. \A p \in Running :
        /\ [p EXCEPT !.refreshAccepted = TRUE, !.consumed = TRUE] \in Running
        /\ \A b \in BOOLEAN : [p EXCEPT !.bound = TRUE, !.poison = b] \in Running
  BY DEF Running, Processes
<1>6. (witness = "retention") \in BOOLEAN
  OBVIOUS
<1>7. [Published(q, "H0") EXCEPT !.bound = TRUE, !.poison = (witness = "retention")] \in Running
  BY <1>4, <1>5, <1>6, Zenon
<1>8. QED
  BY <1>1, <1>2, <1>3, <1>4, <1>5, <1>7 DEF Refreshed

\* A line is handled by a process that runs, and leaves it running.
LEMMA LineHandled ==
  ASSUME proc \in [Domains -> Processes], NEW d \in Domains, HandleLine(d)
  PROVE  proc[d] \in Running /\ \E q \in Running : proc' = [proc EXCEPT ![d] = q]
<1>1. proc[d] \in Running
  <2>1. proc[d].life = "running"
    BY DEF HandleLine, RejectAfterFailure, RejectUnbound, AcceptBinding, RejectUnknown,
           AcceptFaultArm, RejectFaultArm, ExecuteNonconsequentialStepOnce, InspectPublishedRoute,
           FaultInspection, RejectInspection, RejectRefreshOrder, RejectRefreshBundle,
           FaultUnpublishedRefresh, FaultPublishedRefresh, RefreshOnce, Operates, Takes
  <2>2. QED
    BY <2>1 DEF Running
<1> DEFINE Handled == \E q \in Running : proc' = [proc EXCEPT ![d] = q]
<1>2. SUFFICES Handled
  BY <1>1
<1>3. ASSUME NEW q \in Running, NEW t, Emit(d, q, t) PROVE Handled
  BY <1>3 DEF Emit
<1>4. ASSUME Fail(d) PROVE Handled
  BY <1>1, <1>3, <1>4, RunningKept DEF Fail
<1>5. ASSUME NEW q \in Running, Inject(d, q) PROVE Handled
  BY <1>3, <1>5, RunningKept DEF Inject
<1> HIDE DEF Handled
<1>6. CASE RejectUnbound(d) \/ RejectUnknown(d) \/ RejectFaultArm(d) \/ RejectInspection(d)
             \/ RejectRefreshOrder(d)
  BY <1>4, <1>6 DEF RejectUnbound, RejectUnknown, RejectFaultArm, RejectInspection, RejectRefreshOrder
<1>7. CASE RejectAfterFailure(d) \/ RejectRefreshBundle(d)
  BY <1>1, <1>3, <1>7, RunningKept DEF RejectAfterFailure, RejectRefreshBundle
<1>8. CASE AcceptBinding(d) \/ RefreshOnce(d)
  BY <1>1, <1>3, <1>8, RunningKept DEF AcceptBinding, RefreshOnce
<1>9. CASE AcceptFaultArm(d)
  BY <1>1, <1>3, <1>9, RunningKept DEF AcceptFaultArm, Operates, Takes
<1>10. CASE ExecuteNonconsequentialStepOnce(d) \/ InspectPublishedRoute(d)
  BY <1>1, <1>3, <1>4, <1>10, RunningKept DEF ExecuteNonconsequentialStepOnce, InspectPublishedRoute
<1>11. CASE FaultInspection(d) \/ FaultUnpublishedRefresh(d)
  BY <1>1, <1>5, <1>11, RunningKept DEF FaultInspection, FaultUnpublishedRefresh
<1>12. CASE FaultPublishedRefresh(d)
  BY <1>1, <1>3, <1>5, <1>12, RunningKept DEF FaultPublishedRefresh
<1>13. QED
  BY <1>6, <1>7, <1>8, <1>9, <1>10, <1>11, <1>12 DEF HandleLine

\* One process comes to rest, if the run has not ended or it is not the run's.
Becomes(d, life) == proc' = [proc EXCEPT ![d].life = life]

LEMMA RestCleanup ==
  ASSUME CleanupInv, NEW r, NEW life \in {"suspended", "exited", "reaped"}, Becomes(r, life),
         owned' = owned,
         phase' # "ended" \/ (phase' = phase /\ \A d \in Domains : d = r => proc[d].life # "reaped")
  PROVE  CleanupInv'
<1>1. \A d \in Domains : proc'[d] = IF d = r THEN [proc[d] EXCEPT !.life = life] ELSE proc[d]
  BY DEF Becomes, CleanupInv
<1>2. \A p \in Processes : /\ [p EXCEPT !.life = life] \in Processes
                            /\ [p EXCEPT !.life = life].life = life
  BY DEF Processes
<1>3. proc' \in [Domains -> Processes]
  BY <1>1, <1>2 DEF Becomes, CleanupInv
<1>4. ASSUME NEW d \in Domains
      PROVE  /\ proc'[d].life = "running" => d \in owned'
             /\ phase' = "ended" /\ d \in owned' => proc'[d].life = "reaped"
  <2>1. proc[d] \in Processes
    BY DEF CleanupInv
  <2>2. CASE d = r
    <3>1. proc'[d].life = life /\ life # "running"
      BY <1>1, <1>2, <2>1, <2>2
    <3>2. phase' = "ended" => d \notin owned
      BY <2>2 DEF CleanupInv
    <3>3. QED
      BY <3>1, <3>2
  <2>3. CASE d # r
    <3>1. proc'[d] = proc[d] /\ (phase' = "ended" => phase = "ended")
      BY <1>1, <2>3
    <3>2. QED
      BY <3>1 DEF CleanupInv
  <2>4. QED
    BY <2>2, <2>3
<1>5. QED
  BY <1>3, <1>4 DEF CleanupInv

LEMMA HarnessCleanup == ASSUME CleanupInv, Harness PROVE CleanupInv'
<1> USE DEF CleanupInv
<1>1. CASE \/ Send \/ Await \/ Watch \/ StageRefresh
           \/ CloseForH0ToH1 \/ CommitHead \/ PublishObservation \/ VerifyH1Observation
           \/ ClassifyStale \/ OpenForH1 \/ FailClosed \/ AssertRefreshEligible
           \/ AcceptSynchronized \/ RecordDisposition
  <2>1. phase = "acquire" /\ UNCHANGED <<proc, owned, phase>>
    BY <1>1 DEF Send, Await, Watch, StageRefresh, CloseForH0ToH1, CommitHead, PublishObservation,
                VerifyH1Observation, ClassifyStale, OpenForH1, FailClosed, AssertRefreshEligible,
                AcceptSynchronized, RecordDisposition, Executes, Done, routerVars
  <2>2. QED
    BY <2>1
<1>2. CASE Raise \/ Return
  <2>1. phase' = "finally" /\ UNCHANGED <<proc, owned>>
    BY <1>2 DEF Raise, Return, Abandon, routerVars
  <2>2. QED
    BY <2>1
<1>3. CASE Spawn
  <2>1. /\ phase' = "acquire" /\ owned' = owned
        /\ Becomes(Current.role, "suspended")
    BY <1>3 DEF Becomes, Spawn, Executes, Done
  <2>2. QED
    BY <2>1, RestCleanup
<1>4. CASE Resume
  <2>1. /\ phase' = "acquire" /\ owned' = owned \cup {Current.role}
        /\ proc' = [proc EXCEPT ![Current.role].life = IF @ = "suspended" THEN "running" ELSE @]
    BY <1>4 DEF Resume, Executes, Done
  <2>2. /\ proc' \in [Domains -> Processes]
        /\ \A d \in Domains : d # Current.role => proc'[d] = proc[d]
    <3>1. \A p \in Processes :
            [p EXCEPT !.life = IF @ = "suspended" THEN "running" ELSE @] \in Processes
      BY DEF Processes
    <3>2. QED
      BY <2>1, <3>1
  <2>3. QED
    BY <2>1, <2>2
<1>5. CASE Terminate
  <2>1. /\ phase' = "acquire" /\ owned' = owned
        /\ Becomes(Current.role, "reaped")
    BY <1>5 DEF Becomes, Terminate, Reap, Executes, Done
  <2>2. QED
    BY <2>1, RestCleanup
<1>6. CASE Clean
  <2>1. CASE Unreaped # {}
    <3>1. /\ phase' = "finally" /\ owned' = owned
          /\ Becomes(RoleOrder[First(Unreaped)], "reaped")
      BY <1>6, <2>1 DEF Becomes, Clean, Reap
    <3>2. QED
      BY <3>1, RestCleanup
  <2>2. CASE Unreaped = {}
    <3>1. UNCHANGED <<proc, owned>>
      BY <1>6, <2>2 DEF Clean, routerVars
    <3>2. ASSUME NEW d \in Domains, d \in owned PROVE proc[d].life = "reaped"
      BY <2>2, <3>2, RolesAssumption DEF Unreaped
    <3>3. QED
      BY <3>1, <3>2
  <2>3. QED
    BY <2>1, <2>2
<1>7. QED
  BY <1>1, <1>2, <1>3, <1>4, <1>5, <1>6 DEF Harness

LEMMA NextCleanup == CleanupInv /\ [Next]_vars => CleanupInv'
<1> SUFFICES ASSUME CleanupInv, [Next]_vars PROVE CleanupInv'
  OBVIOUS
<1> USE DEF CleanupInv
<1>1. CASE Harness
  BY <1>1, HarnessCleanup
<1>2. CASE Timeout \/ IoError
  <2>1. phase' = "finally" /\ UNCHANGED <<proc, owned>>
    BY <1>2 DEF Timeout, IoError, Abandon, routerVars
  <2>2. QED
    BY <2>1
<1>3. ASSUME NEW d \in Domains, Process(d) PROVE CleanupInv'
  <2>1. UNCHANGED <<phase, owned>> /\ proc[d] \in Running
        /\ \E q \in Running : proc' = [proc EXCEPT ![d] = q]
    BY <1>3, LineHandled DEF Process, runVars
  <2>2. PICK q \in Running : proc' = [proc EXCEPT ![d] = q]
    BY <2>1
  <2>3. /\ proc' \in [Domains -> Processes] /\ proc'[d].life = "running"
        /\ \A e \in Domains : e # d => proc'[e] = proc[e]
    BY <2>2 DEF Running
  <2>4. proc[d].life = "running" /\ d \in owned
    BY <2>1 DEF Running
  <2>5. QED
    BY <2>1, <2>3, <2>4
<1>4. ASSUME NEW d \in Domains, ProcessDies(d) PROVE CleanupInv'
  <2>1. /\ UNCHANGED <<phase, owned>> /\ proc[d].life \in {"suspended", "running"}
        /\ Becomes(d, "exited")
    BY <1>4 DEF Becomes, ProcessDies, Crash
  <2>2. QED
    BY <2>1, RestCleanup
<1>5. CASE TerminateRaises
  <2>1. phase' = "finally" /\ owned' = owned /\ \E r : Becomes(r, "reaped")
    BY <1>5 DEF TerminateRaises, Becomes, Reap
  <2>2. QED
    BY <2>1, RestCleanup
<1>6. CASE UNCHANGED vars
  BY <1>6 DEF vars, routerVars
<1>7. QED
  BY <1>1, <1>2, <1>3, <1>4, <1>5, <1>6 DEF Next

\* Whatever an acquisition does and whatever goes wrong with it, at its end no process runs
\* and every process it owns has been waited for (LiveDomain.terminate, the finally clauses).
THEOREM EndsClean == Spec => []NoneLeftRunning
<1>1. Init => CleanupInv
  BY DEF Init, RouterInit, NewProcess, Processes, Heads, CleanupInv
<1>2. CleanupInv => NoneLeftRunning
  BY DEF CleanupInv, NoneLeftRunning
<1>3. QED
  BY <1>1, <1>2, NextCleanup, PTL DEF Spec

-----------------------------------------------------------------------------
(* What the harness knows *)

Words ==
  {"none"} \cup Commands \cup Objects \cup Heads \cup {"exact", "corrupt"} \cup DispositionStates
    \cup {PublicationSteps[n] : n \in 1..7}
    \cup {"spawn", "send", "resume", "await", "checkpoint", "alive", "evidence", "terminate", "stage",
          "close", "commit", "publish", "verify", "classify", "open", "fail_closed", "eligible",
          "refused", "accept", "conclude"}

Instructions == [op : Words, role : Domains, arg : Words]

\* The plans under which a refresh is never published, and the states that say of a domain
\* that it has not left H0.
Harmless == {"refresh_read", "unpublished"}
Keeping == {"stale", "head_unconfirmed", "protocol_invalid"}
Steps == {PublicationSteps[n] : n \in 1..7}

\* Known to it at a position of its program: the guard and the head, whether the observation
\* is reverified, and of each domain the head of the last receipt, what it has staged, what
\* fault it armed, whether it has asked for a refresh that may be published, and whether it
\* has recorded that the domain has kept H0.
Views ==
  [guard : {"open_for_H0", "closed_for_H0_to_H1", "open_for_H1", "failed_closed"}, head : Heads,
   observed : BOOLEAN, known : [Domains -> {"none", "H0", "H1"}],
   staged : [Domains -> {"none", "exact", "corrupt"}],
   armed : [Domains -> {"none", "asked", "harmless", "other"}],
   may : SUBSET Domains, kept : SUBSET Domains]

Beginning ==
  [guard |-> "open_for_H0", head |-> "H0", observed |-> FALSE,
   known |-> [d \in Domains |-> "none"], staged |-> [d \in Domains |-> "none"],
   armed |-> [d \in Domains |-> "none"], may |-> {}, kept |-> {}]

MayPublish(v, d) == v.staged[d] = "exact" /\ v.armed[d] # "harmless"

MaySend(v, d, c) ==
  /\ c \in Commands
  /\ c \in Plans => v.armed[d] = "none"
  /\ c = "refresh" =>
       v.staged[d] # "none" /\ (MayPublish(v, d) => v.guard = "open_for_H1" /\ d \notin v.kept)

MayAwait(v, d, o) ==
  /\ o \in Objects
  /\ o = "receipt_H0" => v.known[d] = "none" /\ d \notin v.may
  /\ o = "receipt_H1" => v.known[d] = "H0"

\* The order the programs keep: what an instruction may rely on, and what is known when it
\* is done.
Allowed(v, i) ==
  CASE i.op = "send" -> MaySend(v, i.role, i.arg)
    [] i.op = "await" -> MayAwait(v, i.role, i.arg)
    [] i.op = "accept" -> \/ i.arg = "H0" /\ v.known[i.role] # "none"
                          \/ i.arg = "H1" /\ v.known[i.role] = "H1"
    [] i.op = "commit" -> v.head = "H0"
    [] i.op = "publish" -> i.arg \in Steps /\ ~v.observed /\ (i.arg = "reverified" => v.head = "H1")
    [] i.op = "verify" -> v.observed
    [] i.op = "fail_closed" -> v.may = {}
    [] i.op = "stage" -> v.staged[i.role] = "none" /\ i.arg \in {"exact", "corrupt"}
    [] i.op = "conclude" ->
         /\ i.arg \in DispositionStates \ {"synchronized_H0", "synchronized_H1"}
         /\ i.arg \in Keeping => i.role \notin v.may
    [] OTHER -> TRUE

Sent(v, d, c) ==
  CASE c = "refresh" -> IF MayPublish(v, d) THEN [v EXCEPT !.may = @ \cup {d}] ELSE v
    [] c \in Plans -> [v EXCEPT !.armed[d] = IF c \in Harmless THEN "asked" ELSE "other"]
    [] OTHER -> v

Heard(v, d, o) ==
  CASE o = "receipt_H0" -> [v EXCEPT !.known[d] = "H0"]
    [] o = "receipt_H1" -> [v EXCEPT !.known[d] = "H1"]
    [] o = "arm_receipt" -> [v EXCEPT !.armed[d] = IF @ = "asked" THEN "harmless" ELSE @]
    [] OTHER -> v

After(v, i) ==
  CASE i.op = "send" -> Sent(v, i.role, i.arg)
    [] i.op = "await" -> Heard(v, i.role, i.arg)
    [] i.op = "close" -> [v EXCEPT !.guard = "closed_for_H0_to_H1"]
    [] i.op = "open" -> [v EXCEPT !.guard = "open_for_H1"]
    [] i.op = "fail_closed" -> [v EXCEPT !.guard = "failed_closed"]
    [] i.op = "commit" -> [v EXCEPT !.head = "H1"]
    [] i.op = "publish" -> [v EXCEPT !.observed = (i.arg = "reverified")]
    [] i.op = "stage" -> [v EXCEPT !.staged[i.role] = i.arg]
    [] i.op = "conclude" /\ i.arg \in Keeping -> [v EXCEPT !.kept = @ \cup {i.role}]
    [] OTHER -> v

\* A program takes one view to another in the order it is written in.
Runs(p, v, w) ==
  /\ p \in Seq(Instructions)
  /\ \E t \in [1 .. Len(p) + 1 -> Views] :
       /\ t[1] = v /\ t[Len(p) + 1] = w
       /\ \A k \in 1 .. Len(p) : Allowed(t[k], p[k]) /\ t[k + 1] = After(t[k], p[k])

-----------------------------------------------------------------------------
(* Programs *)

LEMMA Joined ==
  ASSUME NEW p, NEW q, NEW u, NEW v, NEW w, Runs(p, u, v), Runs(q, v, w)
  PROVE  Runs(p \o q, u, w)
<1> DEFINE n == Len(p)
           m == Len(q)
           r == p \o q
<1>1. /\ p \in Seq(Instructions) /\ q \in Seq(Instructions) /\ n \in Nat /\ m \in Nat
  BY DEF Runs
<1>2. PICK a \in [1 .. n + 1 -> Views] :
        /\ a[1] = u /\ a[n + 1] = v
        /\ \A k \in 1 .. n : Allowed(a[k], p[k]) /\ a[k + 1] = After(a[k], p[k])
  BY DEF Runs
<1>3. PICK b \in [1 .. m + 1 -> Views] :
        /\ b[1] = v /\ b[m + 1] = w
        /\ \A k \in 1 .. m : Allowed(b[k], q[k]) /\ b[k + 1] = After(b[k], q[k])
  BY DEF Runs
<1>4. /\ r \in Seq(Instructions) /\ Len(r) = n + m
      /\ \A k \in 1 .. n : r[k] = p[k]
      /\ \A k \in 1 .. m : r[n + k] = q[k]
  BY <1>1
<1> HIDE DEF n, m, r
<1> DEFINE t == [k \in 1 .. n + m + 1 |-> IF k <= n THEN a[k] ELSE b[k - n]]
<1>5. t \in [1 .. n + m + 1 -> Views] /\ t[n + m + 1] = w
  BY <1>1, <1>2, <1>3
<1>6. \A k \in 1 .. n + 1 : t[k] = a[k]
  BY <1>1, <1>2, <1>3
<1>7. \A k \in 1 .. m + 1 : t[n + k] = b[k]
  BY <1>1, <1>3
<1>8. t[1] = u
  <2>1. 1 \in 1 .. n + 1
    BY <1>1
  <2>2. QED
    BY <1>2, <1>6, <2>1
<1> HIDE DEF t
<1>9. ASSUME NEW k \in 1 .. n + m
      PROVE  Allowed(t[k], r[k]) /\ t[k + 1] = After(t[k], r[k])
  <2>1. CASE k <= n
    <3>1. k \in 1 .. n /\ t[k] = a[k] /\ t[k + 1] = a[k + 1] /\ r[k] = p[k]
      BY <1>1, <1>4, <1>6, <2>1
    <3>2. QED
      BY <1>2, <3>1
  <2>2. CASE ~(k <= n)
    <3>1. PICK j \in 1 .. m : k = n + j
      <4>1. k - n \in 1 .. m /\ k = n + (k - n)
        BY <1>1, <2>2
      <4>2. QED
        BY <4>1
    <3>2. j \in 1 .. m + 1 /\ j + 1 \in 1 .. m + 1 /\ n + (j + 1) = k + 1
      BY <1>1, <3>1
    <3>3. t[k] = b[j] /\ t[k + 1] = b[j + 1] /\ r[k] = q[j]
      BY <1>4, <1>7, <3>1, <3>2
    <3>4. QED
      BY <1>3, <3>3
  <2>3. QED
    BY <2>1, <2>2
<1>10. QED
  BY <1>4, <1>5, <1>8, <1>9 DEF Runs, r

LEMMA Single ==
  ASSUME NEW v \in Views, NEW i \in Instructions, Allowed(v, i), After(v, i) \in Views
  PROVE  Runs(<<i>>, v, After(v, i))
<1> DEFINE t == [k \in 1..2 |-> IF k = 1 THEN v ELSE After(v, i)]
<1>1. <<i>> \in Seq(Instructions) /\ Len(<<i>>) = 1 /\ <<i>>[1] = i
  OBVIOUS
<1>2. t \in [1..2 -> Views] /\ t[1] = v /\ t[2] = After(v, i)
  OBVIOUS
<1> HIDE DEF t
<1>3. QED
  BY <1>1, <1>2 DEF Runs

LEMMA Nothing == ASSUME NEW v \in Views PROVE Runs(<<>>, v, v)
<1> DEFINE t == [k \in 1..1 |-> v]
<1>1. t \in [1..1 -> Views] /\ t[1] = v /\ <<>> \in Seq(Instructions) /\ Len(<<>>) = 0
  OBVIOUS
<1> HIDE DEF t
<1>2. QED
  BY <1>1 DEF Runs

LEMMA RunsOn ==
  ASSUME NEW p, NEW v, NEW w, Runs(p, v, w), p # <<>>
  PROVE  /\ Head(p) \in Instructions /\ Allowed(v, Head(p)) /\ After(v, Head(p)) \in Views
         /\ Runs(Tail(p), After(v, Head(p)), w)
<1>1. p \in Seq(Instructions) /\ Len(p) \in Nat /\ Len(p) >= 1 /\ Head(p) = p[1]
  BY DEF Runs
<1>2. PICK t \in [1 .. Len(p) + 1 -> Views] :
        /\ t[1] = v /\ t[Len(p) + 1] = w
        /\ \A k \in 1 .. Len(p) : Allowed(t[k], p[k]) /\ t[k + 1] = After(t[k], p[k])
  BY DEF Runs
<1>3. 1 \in 1 .. Len(p) /\ 2 \in 1 .. Len(p) + 1
  BY <1>1
<1>4. Head(p) \in Instructions /\ Allowed(v, Head(p)) /\ t[2] = After(v, Head(p)) /\ t[2] \in Views
  <2>1. t[1 + 1] = After(t[1], p[1]) /\ Allowed(t[1], p[1])
    BY <1>2, <1>3
  <2>2. QED
    BY <1>1, <1>2, <1>3, <2>1
<1> DEFINE n == Len(p)
           q == Tail(p)
           u == [k \in 1 .. n |-> t[k + 1]]
<1>5. q \in Seq(Instructions) /\ Len(q) + 1 = n /\ \A k \in 1 .. Len(q) : q[k] = p[k + 1]
  BY <1>1
<1> HIDE DEF n, q
<1>6. u \in [1 .. n -> Views] /\ u[1] = t[2] /\ u[n] = w
  BY <1>1, <1>2, <1>3 DEF n
<1>7. \A k \in 1 .. n : u[k] = t[k + 1]
  OBVIOUS
<1> HIDE DEF u
<1>8. ASSUME NEW k \in 1 .. Len(q) PROVE Allowed(u[k], q[k]) /\ u[k + 1] = After(u[k], q[k])
  <2>1. /\ k + 1 \in 1 .. n /\ k \in 1 .. n /\ k + 1 \in 1 .. Len(p)
    BY <1>1, <1>5 DEF n
  <2>2. u[k] = t[k + 1] /\ u[k + 1] = t[(k + 1) + 1] /\ q[k] = p[k + 1]
    BY <1>5, <1>7, <2>1
  <2>3. QED
    BY <1>2, <2>1, <2>2
<1>9. Runs(q, t[2], w)
  BY <1>4, <1>5, <1>6, <1>8 DEF Runs
<1>10. QED
  BY <1>4, <1>9 DEF q

\* From any view of X the program leads to some view of Y.
Leads(p, X, Y) == \A v \in X : \E w \in Y : Runs(p, v, w)

LEMMA LeadsOn ==
  ASSUME NEW p, NEW q, NEW X, NEW Y, NEW Z, Leads(p, X, Y), Leads(q, Y, Z)
  PROVE  Leads(p \o q, X, Z)
<1> SUFFICES ASSUME NEW u \in X PROVE \E w \in Z : Runs(p \o q, u, w)
  BY DEF Leads
<1>1. PICK v \in Y : Runs(p, u, v)
  BY DEF Leads
<1>2. PICK w \in Z : Runs(q, v, w)
  BY DEF Leads
<1>3. QED
  BY <1>1, <1>2, Joined

LEMMA LeadsStep ==
  ASSUME NEW op \in Words, NEW d \in Domains, NEW arg \in Words,
         NEW X \in SUBSET Views, NEW Y \in SUBSET Views,
         \A v \in X : /\ Allowed(v, [op |-> op, role |-> d, arg |-> arg])
                      /\ After(v, [op |-> op, role |-> d, arg |-> arg]) \in Y
  PROVE  Leads(Ins(op, d, arg), X, Y)
<1> DEFINE i == [op |-> op, role |-> d, arg |-> arg]
<1>1. i \in Instructions
  BY DEF Instructions
<1>2. Ins(op, d, arg) = <<i>>
  BY DEF Ins
<1>3. \A v \in X : Allowed(v, i) /\ After(v, i) \in Y
  OBVIOUS
<1> HIDE DEF i
<1>4. ASSUME NEW v \in X PROVE After(v, i) \in Y /\ Runs(<<i>>, v, After(v, i))
  BY <1>1, <1>3, Single
<1>5. QED
  BY <1>2, <1>4 DEF Leads

\* The instructions that tell the harness nothing it has to know.
Quiet(op, arg) ==
  \/ op \in {"spawn", "resume", "checkpoint", "alive", "evidence", "terminate", "eligible",
             "refused", "classify"}
  \/ op = "send" /\ arg \in Commands \ (Plans \cup {"refresh"})
  \/ op = "await" /\ arg \in Objects \ {"receipt_H0", "receipt_H1", "arm_receipt"}
  \/ op = "conclude" /\ arg = "invalid"

Still(p) == \A X \in SUBSET Views : Leads(p, X, X)

LEMMA StillOn == ASSUME NEW p, NEW q, Still(p), Still(q) PROVE Still(p \o q)
  BY LeadsOn DEF Still

LEMMA QuietStill ==
  ASSUME NEW op \in Words, NEW d \in Domains, NEW arg \in Words, Quiet(op, arg)
  PROVE  Still(Ins(op, d, arg))
<1> DEFINE i == [op |-> op, role |-> d, arg |-> arg]
<1>1. i.op = op /\ i.role = d /\ i.arg = arg
  OBVIOUS
<1> HIDE DEF i
<1>2. ASSUME NEW v \in Views PROVE Allowed(v, i) /\ After(v, i) = v
  <2>1. CASE op \in {"spawn", "resume", "checkpoint", "alive", "evidence", "terminate", "eligible",
                     "refused", "classify"}
    BY <1>1, <2>1 DEF Allowed, After
  <2>2. CASE op = "send" /\ arg \in Commands \ (Plans \cup {"refresh"})
    BY <1>1, <2>2 DEF Allowed, After, MaySend, Sent
  <2>3. CASE op = "await" /\ arg \in Objects \ {"receipt_H0", "receipt_H1", "arm_receipt"}
    BY <1>1, <2>3 DEF Allowed, After, MayAwait, Heard
  <2>4. CASE op = "conclude" /\ arg = "invalid"
    BY <1>1, <2>4 DEF Allowed, After, DispositionStates, Keeping
  <2>5. QED
    BY <2>1, <2>2, <2>3, <2>4 DEF Quiet
<1>3. QED
  BY <1>2, LeadsStep DEF Still, i

LEMMA InWords ==
  /\ {"spawn", "send", "resume", "await", "checkpoint", "alive", "evidence", "terminate", "stage",
      "close", "commit", "publish", "verify", "classify", "open", "fail_closed", "eligible",
      "refused", "accept", "conclude"} \subseteq Words
  /\ Commands \subseteq Words /\ Objects \subseteq Words /\ Heads \subseteq Words
  /\ DispositionStates \subseteq Words /\ {"none", "exact", "corrupt"} \subseteq Words
  /\ Steps \subseteq Words
  BY DEF Words, Steps

LEMMA RolesAreDomains ==
  A \in Domains /\ B \in Domains /\ A # B /\ Domains = {A, B} /\ FaultTarget = A
  BY RolesAssumption DEF A, B

LEMMA QuietOps ==
  ASSUME NEW d \in Domains
  PROVE  /\ Still(Ins("spawn", d, "none")) /\ Still(Ins("resume", d, "none"))
         /\ Still(Ins("alive", d, "none")) /\ Still(Ins("terminate", d, "none"))
         /\ Still(Ins("eligible", d, "none")) /\ Still(Ins("refused", d, "none"))
         /\ Still(Ins("classify", d, "none")) /\ Still(Do("checkpoint")) /\ Still(Do("evidence"))
         /\ Still(Ins("conclude", d, "invalid"))
         /\ \A c \in {"bind", "bind_mutated", "step", "malformed", "inspect_launch", "inspect_refresh"} :
              Still(Ins("send", d, c))
         /\ \A o \in {"provenance", "available", "blocked", "step", "retention", "fault_result", "failure"} :
              Still(Ins("await", d, o))
<1>1. \A op \in {"spawn", "resume", "checkpoint", "alive", "evidence", "terminate", "eligible",
                 "refused", "classify"} : \A e \in Domains : Still(Ins(op, e, "none"))
  BY QuietStill, InWords DEF Quiet
<1>2. Still(Ins("conclude", d, "invalid"))
  BY QuietStill, InWords DEF Quiet, DispositionStates
<1>3. \A c \in {"bind", "bind_mutated", "step", "malformed", "inspect_launch", "inspect_refresh"} :
         Still(Ins("send", d, c))
  <2>1. \A c \in {"bind", "bind_mutated", "step", "malformed", "inspect_launch", "inspect_refresh"} :
          c \in Commands \ (Plans \cup {"refresh"})
    BY DEF Commands, Inspections, Plans, RefreshPlans, ObservationPlans
  <2>2. QED
    BY <2>1, QuietStill, InWords DEF Quiet
<1>4. \A o \in {"provenance", "available", "blocked", "step", "retention", "fault_result", "failure"} :
         Still(Ins("await", d, o))
  <2>1. \A o \in {"provenance", "available", "blocked", "step", "retention", "fault_result", "failure"} :
          o \in Objects \ {"receipt_H0", "receipt_H1", "arm_receipt"}
    BY DEF Objects
  <2>2. QED
    BY <2>1, QuietStill, InWords DEF Quiet
<1>5. QED
  BY <1>1, <1>2, <1>3, <1>4, RolesAreDomains DEF Do

\* What is known of one domain at a position of a program: nothing yet, its H0 receipt, that
\* its refresh is staged (exactly or corrupt), which kind of fault is armed behind it, that it
\* is asked for, its H1 receipt, or no more than has to be.
Positions == {"new", "H0", "exact", "corrupt", "asked", "harmless", "other", "sent", "H1", "any"}

Is(v, d, x) ==
  /\ x = "new" => v.known[d] = "none"
  /\ x \in {"H0", "exact", "asked", "harmless", "other", "sent"} => v.known[d] = "H0"
  /\ x = "H1" => v.known[d] = "H1"
  /\ x \in {"new", "H0"} => v.staged[d] = "none"
  /\ x \in {"exact", "asked", "harmless", "other", "sent", "H1"} => v.staged[d] = "exact"
  /\ x = "corrupt" => v.staged[d] = "corrupt"
  /\ x \in {"new", "H0", "exact", "sent", "H1"} => v.armed[d] = "none"
  /\ x \in {"asked", "harmless"} => v.armed[d] = x
  /\ x \in {"new", "H0", "exact", "corrupt", "asked", "harmless"} => d \notin v.may
  /\ x \in {"new", "H0", "exact", "asked", "harmless", "other", "sent", "H1"} => d \notin v.kept

At(g, h, o, s) ==
  {v \in Views : v.guard = g /\ v.head = h /\ (v.observed <=> o = "seen") /\ \A d \in Domains : Is(v, d, s[d])}

Guards == {"open_for_H0", "closed_for_H0_to_H1", "open_for_H1", "failed_closed"}

\* A view changed in what it says of one domain.
SameBut(v, w, d) ==
  /\ w \in Views /\ w.guard = v.guard /\ w.head = v.head /\ (w.observed <=> v.observed)
  /\ \A e \in Domains \ {d} : /\ w.known[e] = v.known[e] /\ w.staged[e] = v.staged[e]
                              /\ w.armed[e] = v.armed[e]
                              /\ (e \in w.may <=> e \in v.may) /\ (e \in w.kept <=> e \in v.kept)

LEMMA AtMoved ==
  ASSUME NEW g, NEW h, NEW o, NEW s \in [Domains -> Positions], NEW d \in Domains, NEW x \in Positions,
         NEW v \in At(g, h, o, s), NEW w, SameBut(v, w, d), Is(w, d, x)
  PROVE  w \in At(g, h, o, [s EXCEPT ![d] = x])
<1> DEFINE t == [s EXCEPT ![d] = x]
<1>1. t[d] = x /\ \A e \in Domains \ {d} : t[e] = s[e]
  OBVIOUS
<1>2. /\ v \in Views /\ v.guard = g /\ v.head = h /\ (v.observed <=> o = "seen")
      /\ \A e \in Domains : Is(v, e, s[e])
  BY DEF At
<1> HIDE DEF t
<1>3. ASSUME NEW e \in Domains PROVE Is(w, e, t[e])
  <2>1. CASE e = d
    BY <1>1, <2>1
  <2>2. CASE e # d
    <3>1. Is(v, e, s[e]) /\ t[e] = s[e]
      BY <1>1, <1>2, <2>2
    <3>2. QED
      BY <2>2, <3>1 DEF Is, SameBut
  <2>3. QED
    BY <2>1, <2>2
<1>4. QED
  BY <1>2, <1>3 DEF At, SameBut, t

LEMMA KnownChanged ==
  ASSUME NEW v \in Views, NEW d \in Domains, NEW x \in {"none", "H0", "H1"},
         NEW w, w = [v EXCEPT !.known[d] = x]
  PROVE  /\ SameBut(v, w, d) /\ w.known[d] = x
         /\ w.staged = v.staged /\ w.armed = v.armed /\ w.may = v.may /\ w.kept = v.kept
<1>1. w.staged = v.staged /\ w.armed = v.armed /\ w.may = v.may /\ w.kept = v.kept
  BY DEF Views
<1>2. QED
  BY <1>1 DEF Views, SameBut

LEMMA StagedChanged ==
  ASSUME NEW v \in Views, NEW d \in Domains, NEW x \in {"none", "exact", "corrupt"},
         NEW w, w = [v EXCEPT !.staged[d] = x]
  PROVE  /\ SameBut(v, w, d) /\ w.staged[d] = x
         /\ w.known = v.known /\ w.armed = v.armed /\ w.may = v.may /\ w.kept = v.kept
<1>1. w.known = v.known /\ w.armed = v.armed /\ w.may = v.may /\ w.kept = v.kept
  BY DEF Views
<1>2. QED
  BY <1>1 DEF Views, SameBut

LEMMA ArmedChanged ==
  ASSUME NEW v \in Views, NEW d \in Domains, NEW x \in {"none", "asked", "harmless", "other"},
         NEW w, w = [v EXCEPT !.armed[d] = x]
  PROVE  /\ SameBut(v, w, d) /\ w.armed[d] = x
         /\ w.known = v.known /\ w.staged = v.staged /\ w.may = v.may /\ w.kept = v.kept
<1>1. w.known = v.known /\ w.staged = v.staged /\ w.may = v.may /\ w.kept = v.kept
  BY DEF Views
<1>2. QED
  BY <1>1 DEF Views, SameBut

LEMMA MayChanged ==
  ASSUME NEW v \in Views, NEW d \in Domains, NEW w, w = [v EXCEPT !.may = @ \cup {d}]
  PROVE  /\ SameBut(v, w, d) /\ w.may = v.may \cup {d}
         /\ w.known = v.known /\ w.staged = v.staged /\ w.armed = v.armed /\ w.kept = v.kept
<1>1. /\ w.known = v.known /\ w.staged = v.staged /\ w.armed = v.armed /\ w.kept = v.kept
      /\ w.may = v.may \cup {d} /\ w \in Views
  BY DEF Views
<1>2. QED
  BY <1>1 DEF Views, SameBut

LEMMA KeptChanged ==
  ASSUME NEW v \in Views, NEW d \in Domains, NEW w, w = [v EXCEPT !.kept = @ \cup {d}]
  PROVE  /\ SameBut(v, w, d) /\ w.kept = v.kept \cup {d}
         /\ w.known = v.known /\ w.staged = v.staged /\ w.armed = v.armed /\ w.may = v.may
<1>1. /\ w.known = v.known /\ w.staged = v.staged /\ w.armed = v.armed /\ w.may = v.may
      /\ w.kept = v.kept \cup {d} /\ w \in Views
  BY DEF Views
<1>2. QED
  BY <1>1 DEF Views, SameBut

\* A view changed in what it says of the run.
SameDomains(v, w) ==
  /\ w \in Views /\ w.known = v.known /\ w.staged = v.staged /\ w.armed = v.armed
  /\ w.may = v.may /\ w.kept = v.kept

LEMMA GuardChanged ==
  ASSUME NEW v \in Views, NEW x \in Guards, NEW w, w = [v EXCEPT !.guard = x]
  PROVE  SameDomains(v, w) /\ w.guard = x /\ w.head = v.head /\ (w.observed <=> v.observed)
  BY DEF Views, Guards, SameDomains

LEMMA HeadChanged ==
  ASSUME NEW v \in Views, NEW w, w = [v EXCEPT !.head = "H1"]
  PROVE  SameDomains(v, w) /\ w.guard = v.guard /\ w.head = "H1" /\ (w.observed <=> v.observed)
  BY DEF Views, Heads, SameDomains

LEMMA ObservedChanged ==
  ASSUME NEW v \in Views, NEW x \in Words, NEW w, w = [v EXCEPT !.observed = (x = "reverified")]
  PROVE  SameDomains(v, w) /\ w.guard = v.guard /\ w.head = v.head /\ (w.observed <=> x = "reverified")
  BY DEF Views, SameDomains

LEMMA AtChanged ==
  ASSUME NEW g, NEW h, NEW o, NEW s, NEW v \in At(g, h, o, s), NEW w, SameDomains(v, w)
  PROVE  \A f, k, q : w.guard = f /\ w.head = k /\ (w.observed <=> q = "seen") => w \in At(f, k, q, s)
<1>1. \A d \in Domains : Is(v, d, s[d])
  BY DEF At
<1>2. \A d \in Domains : Is(w, d, s[d])
  BY <1>1 DEF Is, SameDomains
<1>3. QED
  BY <1>2 DEF At, SameDomains

LEMMA AtIn == ASSUME NEW g, NEW h, NEW o, NEW s PROVE At(g, h, o, s) \in SUBSET Views
  BY DEF At

\* One instruction, from a position of the programs.
LEMMA StepMoves ==
  ASSUME NEW op \in Words, NEW d \in Domains, NEW arg \in Words, NEW x \in Positions,
         NEW g, NEW h, NEW o, NEW s \in [Domains -> Positions],
         NEW i, i = [op |-> op, role |-> d, arg |-> arg],
         \A v \in At(g, h, o, s) :
           Allowed(v, i) /\ SameBut(v, After(v, i), d) /\ Is(After(v, i), d, x)
  PROVE  Leads(Ins(op, d, arg), At(g, h, o, s), At(g, h, o, [s EXCEPT ![d] = x]))
<1>1. ASSUME NEW v \in At(g, h, o, s)
      PROVE  Allowed(v, i) /\ After(v, i) \in At(g, h, o, [s EXCEPT ![d] = x])
  BY AtMoved
<1>2. QED
  BY <1>1, AtIn, LeadsStep

LEMMA HearsH0 ==
  ASSUME NEW d \in Domains, NEW g, NEW h, NEW o, NEW s \in [Domains -> Positions], s[d] = "new"
  PROVE  Leads(Ins("await", d, "receipt_H0"), At(g, h, o, s), At(g, h, o, [s EXCEPT ![d] = "H0"]))
<1> DEFINE i == [op |-> "await", role |-> d, arg |-> "receipt_H0"]
<1>1. ASSUME NEW v \in At(g, h, o, s)
      PROVE  Allowed(v, i) /\ SameBut(v, After(v, i), d) /\ Is(After(v, i), d, "H0")
  <2>1. v \in Views /\ Is(v, d, "new")
    BY DEF At
  <2>2. Allowed(v, i) /\ After(v, i) = [v EXCEPT !.known[d] = "H0"]
    BY <2>1 DEF Allowed, After, MayAwait, Heard, Is, Objects
  <2>3. QED
    BY <2>1, <2>2, KnownChanged DEF Is
<1>2. "await" \in Words /\ "H0" \in Positions /\ "receipt_H0" \in Words
  BY DEF Positions, Words, Objects
<1>3. i = [op |-> "await", role |-> d, arg |-> "receipt_H0"]
  OBVIOUS
<1> HIDE DEF i
<1>4. QED
  BY <1>1, <1>2, <1>3, StepMoves

LEMMA HearsH1 ==
  ASSUME NEW d \in Domains, NEW g, NEW h, NEW o, NEW s \in [Domains -> Positions],
         NEW x \in {"H1", "any"}, s[d] = IF x = "H1" THEN "sent" ELSE "other"
  PROVE  Leads(Ins("await", d, "receipt_H1"), At(g, h, o, s), At(g, h, o, [s EXCEPT ![d] = x]))
<1> DEFINE i == [op |-> "await", role |-> d, arg |-> "receipt_H1"]
<1>1. ASSUME NEW v \in At(g, h, o, s)
      PROVE  Allowed(v, i) /\ SameBut(v, After(v, i), d) /\ Is(After(v, i), d, x)
  <2>1. v \in Views /\ Is(v, d, s[d])
    BY DEF At
  <2>2. Allowed(v, i) /\ After(v, i) = [v EXCEPT !.known[d] = "H1"]
    BY <2>1 DEF Allowed, After, MayAwait, Heard, Is, Objects
  <2>3. QED
    BY <2>1, <2>2, KnownChanged DEF Is
<1>2. "await" \in Words /\ x \in Positions /\ "receipt_H1" \in Words
  BY DEF Positions, Words, Objects
<1>3. i = [op |-> "await", role |-> d, arg |-> "receipt_H1"]
  OBVIOUS
<1> HIDE DEF i
<1>4. QED
  BY <1>1, <1>2, <1>3, StepMoves

LEMMA Stages ==
  ASSUME NEW d \in Domains, NEW g, NEW h, NEW o, NEW s \in [Domains -> Positions],
         NEW x \in {"exact", "corrupt"}, s[d] = "H0"
  PROVE  Leads(Ins("stage", d, x), At(g, h, o, s), At(g, h, o, [s EXCEPT ![d] = x]))
<1> DEFINE i == [op |-> "stage", role |-> d, arg |-> x]
<1>1. ASSUME NEW v \in At(g, h, o, s)
      PROVE  Allowed(v, i) /\ SameBut(v, After(v, i), d) /\ Is(After(v, i), d, x)
  <2>1. v \in Views /\ Is(v, d, "H0")
    BY DEF At
  <2>2. Allowed(v, i) /\ After(v, i) = [v EXCEPT !.staged[d] = x]
    BY <2>1 DEF Allowed, After, Is
  <2>3. QED
    BY <2>1, <2>2, StagedChanged DEF Is
<1>2. "stage" \in Words /\ x \in Words /\ x \in Positions
  BY DEF Words, Positions
<1>3. i = [op |-> "stage", role |-> d, arg |-> x]
  OBVIOUS
<1> HIDE DEF i
<1>4. QED
  BY <1>1, <1>2, <1>3, StepMoves

\* What arming makes of a position.
ArmedAs(x, c) == IF x # "exact" THEN "any" ELSE IF c \in Harmless THEN "asked" ELSE "other"

LEMMA Arms ==
  ASSUME NEW d \in Domains, NEW g, NEW h, NEW o, NEW s \in [Domains -> Positions], NEW c \in Plans,
         s[d] \in {"H0", "exact", "H1"}
  PROVE  Leads(Ins("send", d, c), At(g, h, o, s), At(g, h, o, [s EXCEPT ![d] = ArmedAs(s[d], c)]))
<1> DEFINE i == [op |-> "send", role |-> d, arg |-> c]
           x == ArmedAs(s[d], c)
<1>1. ASSUME NEW v \in At(g, h, o, s)
      PROVE  Allowed(v, i) /\ SameBut(v, After(v, i), d) /\ Is(After(v, i), d, x)
  <2>1. v \in Views /\ Is(v, d, s[d])
    BY DEF At
  <2>2. c # "refresh" /\ c \in Commands
    BY DEF Plans, RefreshPlans, ObservationPlans, Commands
  <2>3. Allowed(v, i) /\ After(v, i) = [v EXCEPT !.armed[d] = IF c \in Harmless THEN "asked" ELSE "other"]
    BY <2>1, <2>2 DEF Allowed, After, MaySend, Sent, Is
  <2>4. QED
    BY <2>1, <2>3, ArmedChanged DEF Is, ArmedAs
<1>2. "send" \in Words /\ c \in Words /\ x \in Positions
  BY DEF Words, Positions, ArmedAs, Commands
<1>3. i = [op |-> "send", role |-> d, arg |-> c]
  OBVIOUS
<1> HIDE DEF i, x
<1>4. Leads(Ins("send", d, c), At(g, h, o, s), At(g, h, o, [s EXCEPT ![d] = x]))
  BY <1>1, <1>2, <1>3, StepMoves
<1>5. QED
  BY <1>4 DEF x

LEMMA HearsArm ==
  ASSUME NEW d \in Domains, NEW g, NEW h, NEW o, NEW s \in [Domains -> Positions],
         s[d] \in {"asked", "other", "any"}
  PROVE  Leads(Ins("await", d, "arm_receipt"), At(g, h, o, s),
               At(g, h, o, [s EXCEPT ![d] = IF s[d] = "asked" THEN "harmless" ELSE s[d]]))
<1> DEFINE i == [op |-> "await", role |-> d, arg |-> "arm_receipt"]
           x == IF s[d] = "asked" THEN "harmless" ELSE s[d]
<1>1. ASSUME NEW v \in At(g, h, o, s)
      PROVE  Allowed(v, i) /\ SameBut(v, After(v, i), d) /\ Is(After(v, i), d, x)
  <2>1. v \in Views /\ Is(v, d, s[d]) /\ v.armed[d] \in {"none", "asked", "harmless", "other"}
    BY DEF At, Views
  <2>2. Allowed(v, i) /\ After(v, i) = [v EXCEPT !.armed[d] = IF @ = "asked" THEN "harmless" ELSE @]
    BY DEF Allowed, After, MayAwait, Heard, Objects
  <2>3. PICK y \in {"none", "asked", "harmless", "other"} :
          /\ y = IF v.armed[d] = "asked" THEN "harmless" ELSE v.armed[d]
          /\ After(v, i) = [v EXCEPT !.armed[d] = y]
    BY <2>1, <2>2
  <2>4. QED
    BY <2>1, <2>2, <2>3, ArmedChanged DEF Is
<1>2. "await" \in Words /\ x \in Positions /\ "arm_receipt" \in Words
  BY DEF Positions, Words, Objects
<1>3. i = [op |-> "await", role |-> d, arg |-> "arm_receipt"]
  OBVIOUS
<1> HIDE DEF i, x
<1>4. Leads(Ins("await", d, "arm_receipt"), At(g, h, o, s), At(g, h, o, [s EXCEPT ![d] = x]))
  BY <1>1, <1>2, <1>3, StepMoves
<1>5. QED
  BY <1>4 DEF x

\* What asking for the refresh makes of a position.
LEMMA Asks ==
  ASSUME NEW d \in Domains, NEW g, NEW h, NEW o, NEW s \in [Domains -> Positions],
         \/ s[d] \in {"corrupt", "harmless"}
         \/ s[d] \in {"exact", "other", "H1"} /\ g = "open_for_H1"
  PROVE  Leads(Ins("send", d, "refresh"), At(g, h, o, s),
               At(g, h, o, [s EXCEPT ![d] = IF s[d] = "exact" THEN "sent" ELSE s[d]]))
<1> DEFINE i == [op |-> "send", role |-> d, arg |-> "refresh"]
           x == IF s[d] = "exact" THEN "sent" ELSE s[d]
<1>1. ASSUME NEW v \in At(g, h, o, s)
      PROVE  Allowed(v, i) /\ SameBut(v, After(v, i), d) /\ Is(After(v, i), d, x)
  <2>1. v \in Views /\ Is(v, d, s[d]) /\ v.guard = g
    BY DEF At
  <2>2. "refresh" \in Commands /\ "refresh" \notin Plans
    BY DEF Plans, RefreshPlans, ObservationPlans, Commands
  <2>6. (Allowed(v, i) <=> MaySend(v, d, "refresh")) /\ After(v, i) = Sent(v, d, "refresh")
    BY DEF Allowed, After
  <2> HIDE DEF i
  <2>3. CASE s[d] \in {"corrupt", "harmless"}
    <3>1. ~MayPublish(v, d) /\ v.staged[d] # "none"
      BY <2>1, <2>3 DEF MayPublish, Is
    <3>2. Allowed(v, i) /\ After(v, i) = v
      BY <2>2, <2>6, <3>1 DEF MaySend, Sent
    <3>3. QED
      BY <2>1, <2>3, <3>2 DEF SameBut
  <2>4. CASE s[d] \in {"exact", "other", "H1"} /\ g = "open_for_H1"
    <3>1. Allowed(v, i)
      BY <2>1, <2>2, <2>4, <2>6 DEF MaySend, Is
    <3>2. CASE MayPublish(v, d)
      <4>1. After(v, i) = [v EXCEPT !.may = @ \cup {d}]
        BY <2>2, <2>6, <3>2 DEF Sent
      <4>2. QED
        BY <2>1, <2>4, <3>1, <4>1, MayChanged DEF Is
    <3>3. CASE ~MayPublish(v, d)
      <4>1. After(v, i) = v
        BY <2>2, <2>6, <3>3 DEF Sent
      <4>2. QED
        BY <2>1, <2>4, <3>1, <4>1 DEF Is, SameBut
    <3>4. QED
      BY <3>2, <3>3
  <2>5. QED
    BY <2>3, <2>4
<1>2. "send" \in Words /\ x \in Positions /\ "refresh" \in Words
  BY DEF Positions, Words, Commands
<1>3. i = [op |-> "send", role |-> d, arg |-> "refresh"]
  OBVIOUS
<1> HIDE DEF i, x
<1>4. Leads(Ins("send", d, "refresh"), At(g, h, o, s), At(g, h, o, [s EXCEPT ![d] = x]))
  BY <1>1, <1>2, <1>3, StepMoves
<1>5. QED
  BY <1>4 DEF x

LEMMA Accepts ==
  ASSUME NEW d \in Domains, NEW g, NEW h, NEW o, NEW s \in [Domains -> Positions], NEW x \in Heads,
         s[d] = x
  PROVE  Leads(Ins("accept", d, x), At(g, h, o, s), At(g, h, o, s))
<1> DEFINE i == [op |-> "accept", role |-> d, arg |-> x]
<1>1. ASSUME NEW v \in At(g, h, o, s) PROVE Allowed(v, i) /\ After(v, i) = v
  <2>1. Is(v, d, x)
    BY DEF At
  <2>2. QED
    BY <2>1 DEF Allowed, After, Is, Heads
<1>2. QED
  BY <1>1, AtIn, LeadsStep, InWords

LEMMA Concludes ==
  ASSUME NEW d \in Domains, NEW g, NEW h, NEW o, NEW s \in [Domains -> Positions], NEW c \in Keeping,
         s[d] \in {"new", "H0", "corrupt", "harmless"}
  PROVE  Leads(Ins("conclude", d, c), At(g, h, o, s), At(g, h, o, [s EXCEPT ![d] = "any"]))
<1> DEFINE i == [op |-> "conclude", role |-> d, arg |-> c]
<1>1. ASSUME NEW v \in At(g, h, o, s)
      PROVE  Allowed(v, i) /\ SameBut(v, After(v, i), d) /\ Is(After(v, i), d, "any")
  <2>1. v \in Views /\ Is(v, d, s[d])
    BY DEF At
  <2>2. Allowed(v, i) /\ After(v, i) = [v EXCEPT !.kept = @ \cup {d}]
    BY <2>1 DEF Allowed, After, Is, Keeping, DispositionStates
  <2>3. QED
    BY <2>1, <2>2, KeptChanged DEF Is
<1>2. "conclude" \in Words /\ c \in Words /\ "any" \in Positions
  BY DEF Words, Positions, DispositionStates, Keeping
<1>3. i = [op |-> "conclude", role |-> d, arg |-> c]
  OBVIOUS
<1> HIDE DEF i
<1>4. QED
  BY <1>1, <1>2, <1>3, StepMoves

\* One instruction about the run.
LEMMA RunMoves ==
  ASSUME NEW op \in Words, NEW d \in Domains, NEW arg \in Words,
         NEW g, NEW h, NEW o, NEW s, NEW f, NEW k, NEW q,
         NEW i, i = [op |-> op, role |-> d, arg |-> arg],
         \A v \in At(g, h, o, s) :
           /\ Allowed(v, i) /\ SameDomains(v, After(v, i))
           /\ After(v, i).guard = f /\ After(v, i).head = k /\ (After(v, i).observed <=> q = "seen")
  PROVE  Leads(Ins(op, d, arg), At(g, h, o, s), At(f, k, q, s))
<1>1. ASSUME NEW v \in At(g, h, o, s)
      PROVE  Allowed(v, i) /\ After(v, i) \in At(f, k, q, s)
  BY AtChanged
<1>2. QED
  BY <1>1, AtIn, LeadsStep

LEMMA Closes ==
  ASSUME NEW g, NEW h, NEW o, NEW s
  PROVE  Leads(Do("close"), At(g, h, o, s), At("closed_for_H0_to_H1", h, o, s))
<1> DEFINE i == [op |-> "close", role |-> A, arg |-> "none"]
<1>1. ASSUME NEW v \in At(g, h, o, s)
      PROVE  /\ Allowed(v, i) /\ SameDomains(v, After(v, i)) /\ After(v, i).guard = "closed_for_H0_to_H1"
             /\ After(v, i).head = h /\ (After(v, i).observed <=> o = "seen")
  <2>1. v \in Views /\ v.head = h /\ (v.observed <=> o = "seen")
    BY DEF At
  <2>2. Allowed(v, i) /\ After(v, i) = [v EXCEPT !.guard = "closed_for_H0_to_H1"]
    BY DEF Allowed, After
  <2>3. QED
    BY <2>1, <2>2, GuardChanged DEF Guards
<1>2. "close" \in Words /\ "none" \in Words /\ i = [op |-> "close", role |-> A, arg |-> "none"]
  BY DEF Words
<1> HIDE DEF i
<1>3. QED
  BY <1>1, <1>2, RunMoves, RolesAreDomains DEF Do

LEMMA Opens ==
  ASSUME NEW g, NEW h, NEW o, NEW s
  PROVE  Leads(Do("open"), At(g, h, o, s), At("open_for_H1", h, o, s))
<1> DEFINE i == [op |-> "open", role |-> A, arg |-> "none"]
<1>1. ASSUME NEW v \in At(g, h, o, s)
      PROVE  /\ Allowed(v, i) /\ SameDomains(v, After(v, i)) /\ After(v, i).guard = "open_for_H1"
             /\ After(v, i).head = h /\ (After(v, i).observed <=> o = "seen")
  <2>1. v \in Views /\ v.head = h /\ (v.observed <=> o = "seen")
    BY DEF At
  <2>2. Allowed(v, i) /\ After(v, i) = [v EXCEPT !.guard = "open_for_H1"]
    BY DEF Allowed, After
  <2>3. QED
    BY <2>1, <2>2, GuardChanged DEF Guards
<1>2. "open" \in Words /\ "none" \in Words /\ i = [op |-> "open", role |-> A, arg |-> "none"]
  BY DEF Words
<1> HIDE DEF i
<1>3. QED
  BY <1>1, <1>2, RunMoves, RolesAreDomains DEF Do

LEMMA FailsClosed ==
  ASSUME NEW g, NEW h, NEW o, NEW s, \A d \in Domains : s[d] \in {"new", "H0"}
  PROVE  Leads(Do("fail_closed"), At(g, h, o, s), At("failed_closed", h, o, s))
<1> DEFINE i == [op |-> "fail_closed", role |-> A, arg |-> "none"]
<1>1. ASSUME NEW v \in At(g, h, o, s)
      PROVE  /\ Allowed(v, i) /\ SameDomains(v, After(v, i)) /\ After(v, i).guard = "failed_closed"
             /\ After(v, i).head = h /\ (After(v, i).observed <=> o = "seen")
  <2>1. v \in Views /\ v.head = h /\ (v.observed <=> o = "seen") /\ \A d \in Domains : Is(v, d, s[d])
    BY DEF At
  <2>2. v.may = {}
    <3>1. \A d \in Domains : d \notin v.may
      BY <2>1 DEF Is
    <3>2. v.may \subseteq Domains
      BY <2>1 DEF Views
    <3>3. QED
      BY <3>1, <3>2
  <2>3. Allowed(v, i) /\ After(v, i) = [v EXCEPT !.guard = "failed_closed"]
    BY <2>2 DEF Allowed, After
  <2>4. QED
    BY <2>1, <2>3, GuardChanged DEF Guards
<1>2. "fail_closed" \in Words /\ "none" \in Words /\ i = [op |-> "fail_closed", role |-> A, arg |-> "none"]
  BY DEF Words
<1> HIDE DEF i
<1>3. QED
  BY <1>1, <1>2, RunMoves, RolesAreDomains DEF Do

LEMMA Commits ==
  ASSUME NEW g, NEW o, NEW s
  PROVE  Leads(Do("commit"), At(g, "H0", o, s), At(g, "H1", o, s))
<1> DEFINE i == [op |-> "commit", role |-> A, arg |-> "none"]
<1>1. ASSUME NEW v \in At(g, "H0", o, s)
      PROVE  /\ Allowed(v, i) /\ SameDomains(v, After(v, i)) /\ After(v, i).guard = g
             /\ After(v, i).head = "H1" /\ (After(v, i).observed <=> o = "seen")
  <2>1. v \in Views /\ v.guard = g /\ v.head = "H0" /\ (v.observed <=> o = "seen")
    BY DEF At
  <2>2. Allowed(v, i) /\ After(v, i) = [v EXCEPT !.head = "H1"]
    BY <2>1 DEF Allowed, After
  <2>3. QED
    BY <2>1, <2>2, HeadChanged
<1>2. "commit" \in Words /\ "none" \in Words /\ i = [op |-> "commit", role |-> A, arg |-> "none"]
  BY DEF Words
<1> HIDE DEF i
<1>3. QED
  BY <1>1, <1>2, RunMoves, RolesAreDomains DEF Do

LEMMA Verifies ==
  ASSUME NEW g, NEW h, NEW s
  PROVE  Leads(Do("verify"), At(g, h, "seen", s), At(g, h, "seen", s))
<1> DEFINE i == [op |-> "verify", role |-> A, arg |-> "none"]
<1>1. ASSUME NEW v \in At(g, h, "seen", s) PROVE Allowed(v, i) /\ After(v, i) = v
  BY DEF At, Allowed, After
<1>2. "verify" \in Words /\ "none" \in Words
  BY DEF Words
<1>3. QED
  BY <1>1, <1>2, AtIn, LeadsStep, RolesAreDomains DEF Do

\* The first n steps of the publication.
Seen(n) == IF n = 7 THEN "seen" ELSE "unseen"

LEMMA PublishSteps ==
  /\ Len(PublicationSteps) = 7
  /\ Publish \in Seq(Instructions) /\ Len(Publish) = 7
  /\ \A n \in 1..7 : /\ Publish[n] = [op |-> "publish", role |-> A, arg |-> PublicationSteps[n]]
                      /\ PublicationSteps[n] \in Steps /\ PublicationSteps[n] \in Words
                      /\ (PublicationSteps[n] = "reverified" <=> n = 7)
<1>1. Len(PublicationSteps) = 7
  BY DEF PublicationSteps
<1>2. \A n \in 1..7 : /\ PublicationSteps[n] \in Steps /\ PublicationSteps[n] \in Words
                       /\ (PublicationSteps[n] = "reverified" <=> n = 7)
  BY DEF Steps, Words, PublicationSteps
<1>3. /\ Publish = [n \in 1..7 |-> [op |-> "publish", role |-> A, arg |-> PublicationSteps[n]]]
  BY <1>1 DEF Publish
<1>4. ASSUME NEW n \in 1..7
      PROVE  [op |-> "publish", role |-> A, arg |-> PublicationSteps[n]] \in Instructions
  BY <1>2, RolesAreDomains, InWords DEF Instructions
<1>5. QED
  BY <1>1, <1>2, <1>3, <1>4

LEMMA PublishesStep ==
  ASSUME NEW n \in 1..7, NEW g, NEW s
  PROVE  \A v \in At(g, "H1", "unseen", s) :
           Allowed(v, Publish[n]) /\ After(v, Publish[n]) \in At(g, "H1", Seen(n), s)
<1> SUFFICES ASSUME NEW v \in At(g, "H1", "unseen", s)
             PROVE  Allowed(v, Publish[n]) /\ After(v, Publish[n]) \in At(g, "H1", Seen(n), s)
  OBVIOUS
<1> DEFINE x == PublicationSteps[n]
<1>1. /\ Publish[n] = [op |-> "publish", role |-> A, arg |-> x] /\ x \in Steps /\ x \in Words
      /\ (x = "reverified" <=> n = 7)
  BY PublishSteps
<1> HIDE DEF x
<1>2. v \in Views /\ v.guard = g /\ v.head = "H1" /\ ~v.observed
  BY DEF At
<1>3. Allowed(v, Publish[n]) /\ After(v, Publish[n]) = [v EXCEPT !.observed = (x = "reverified")]
  BY <1>1, <1>2 DEF Allowed, After
<1> DEFINE w == After(v, Publish[n])
<1>4. w = [v EXCEPT !.observed = (x = "reverified")]
  BY <1>3
<1> HIDE DEF w
<1>9. SameDomains(v, w) /\ w.guard = v.guard /\ w.head = v.head /\ (w.observed <=> x = "reverified")
  BY <1>2, <1>4 DEF Views, SameDomains
<1>5. SameDomains(v, w) /\ w.guard = g /\ w.head = "H1" /\ (w.observed <=> x = "reverified")
  BY <1>2, <1>9
<1>6. w.observed <=> Seen(n) = "seen"
  BY <1>1, <1>5 DEF Seen
<1>7. w \in At(g, "H1", Seen(n), s)
  BY <1>5, <1>6, AtChanged
<1>8. QED
  BY <1>3, <1>7 DEF w

LEMMA OneMore ==
  ASSUME NEW S, NEW q \in Seq(S), NEW k \in Nat, k + 1 <= Len(q)
  PROVE  SubSeq(q, 1, k + 1) = SubSeq(q, 1, k) \o <<q[k + 1]>> /\ q[k + 1] \in S
<1> DEFINE a == SubSeq(q, 1, k + 1)
           b == SubSeq(q, 1, k)
<1>1. /\ a \in Seq(S) /\ Len(a) = k + 1 /\ \A j \in 1 .. k + 1 : a[j] = q[j]
  OBVIOUS
<1>2. /\ b \in Seq(S) /\ Len(b) = k /\ \A j \in 1 .. k : b[j] = q[j]
  OBVIOUS
<1>3. q[k + 1] \in S
  OBVIOUS
<1> HIDE DEF a, b
<1>4. /\ b \o <<q[k + 1]>> \in Seq(S) /\ Len(b \o <<q[k + 1]>>) = k + 1
      /\ \A j \in 1 .. k + 1 : (b \o <<q[k + 1]>>)[j] = q[j]
  BY <1>2, <1>3
<1> DEFINE c == b \o <<q[k + 1]>>
<1>5. /\ c \in Seq(S) /\ Len(c) = k + 1 /\ \A j \in 1 .. k + 1 : c[j] = q[j]
  BY <1>4
<1> HIDE DEF c
<1>7. a = c
  BY <1>1, <1>5
<1>6. QED
  BY <1>3, <1>7 DEF a, b, c

\* A program of instructions that keep to a set of views, and end one step further.
LEMMA Publishes ==
  ASSUME NEW n \in 0..7, NEW g, NEW s
  PROVE  Leads(SubSeq(Publish, 1, n), At(g, "H1", "unseen", s), At(g, "H1", Seen(n), s))
<1> DEFINE X == At(g, "H1", "unseen", s)
           L(k) == Leads(SubSeq(Publish, 1, k), X, At(g, "H1", Seen(k), s))
<1>1. L(0)
  <2>1. SubSeq(Publish, 1, 0) = <<>> /\ Seen(0) = "unseen"
    BY PublishSteps DEF Seen
  <2>2. \A v \in X : Runs(<<>>, v, v)
    BY Nothing DEF At
  <2>3. QED
    BY <2>1, <2>2 DEF Leads
<1>2. ASSUME NEW k \in 0..6, L(k) PROVE L(k + 1)
  <2>1. k + 1 \in 1..7 /\ Seen(k) = "unseen"
    BY DEF Seen
  <2>2. /\ SubSeq(Publish, 1, k + 1) = SubSeq(Publish, 1, k) \o <<Publish[k + 1]>>
        /\ Publish[k + 1] \in Instructions
    <3>1. Publish \in Seq(Instructions) /\ k \in Nat /\ k + 1 <= Len(Publish)
      BY PublishSteps
    <3>2. QED
      BY <3>1, OneMore
  <2>3. \A v \in X : Allowed(v, Publish[k + 1]) /\ After(v, Publish[k + 1]) \in At(g, "H1", Seen(k + 1), s)
    BY <2>1, PublishesStep
  <2>4. Leads(<<Publish[k + 1]>>, X, At(g, "H1", Seen(k + 1), s))
    <3>1. ASSUME NEW v \in X PROVE Runs(<<Publish[k + 1]>>, v, After(v, Publish[k + 1]))
      BY <2>2, <2>3, Single DEF At
    <3>2. QED
      BY <2>3, <3>1 DEF Leads
  <2>5. Leads(SubSeq(Publish, 1, k), X, X)
    BY <1>2, <2>1
  <2>6. QED
    BY <2>2, <2>4, <2>5, LeadsOn
<1> HIDE DEF L
<1>3. L(0) /\ L(1) /\ L(2) /\ L(3) /\ L(4) /\ L(5) /\ L(6) /\ L(7)
  <2>1. L(1)
    BY <1>1, <1>2
  <2>2. L(2)
    BY <1>2, <2>1
  <2>3. L(3)
    BY <1>2, <2>2
  <2>4. L(4)
    BY <1>2, <2>3
  <2>5. L(5)
    BY <1>2, <2>4
  <2>6. L(6)
    BY <1>2, <2>5
  <2>7. L(7)
    BY <1>2, <2>6
  <2>8. QED
    BY <1>1, <2>1, <2>2, <2>3, <2>4, <2>5, <2>6, <2>7
<1>4. L(n)
  BY <1>3
<1>5. QED
  BY <1>4 DEF L

LEMMA PublishesAll ==
  ASSUME NEW g, NEW s
  PROVE  Leads(Publish, At(g, "H1", "unseen", s), At(g, "H1", "seen", s))
<1>1. SubSeq(Publish, 1, 7) = Publish /\ Seen(7) = "seen"
  BY PublishSteps DEF Seen
<1>2. PICK n \in 0..7 : n = 7
  OBVIOUS
<1>3. Leads(SubSeq(Publish, 1, n), At(g, "H1", "unseen", s), At(g, "H1", Seen(n), s))
  BY Publishes
<1>4. QED
  BY <1>1, <1>2, <1>3

-----------------------------------------------------------------------------
(* The parts of the programs *)

LEMMA StillAt == ASSUME NEW p, Still(p), NEW g, NEW h, NEW o, NEW s PROVE Leads(p, At(g, h, o, s), At(g, h, o, s))
  BY AtIn DEF Still

LEMMA LaunchStill ==
  ASSUME NEW d \in Domains, NEW c \in {"bind", "bind_mutated"}
  PROVE  Still(Launch(d, c))
<1>1. Still(Ins("spawn", d, "none") \o Ins("send", d, c))
  BY QuietOps, StillOn
<1>2. QED
  BY <1>1, QuietOps, StillOn DEF Launch

LEMMA LaunchPairStill == Still(LaunchPair)
  BY LaunchStill, StillOn, RolesAreDomains DEF LaunchPair

LEMMA ReceivesLaunch ==
  ASSUME NEW d \in Domains, NEW g, NEW h, NEW o, NEW s \in [Domains -> Positions], s[d] = "new"
  PROVE  Leads(ReceiveLaunch(d), At(g, h, o, s), At(g, h, o, [s EXCEPT ![d] = "H0"]))
<1>1. Leads(Ins("await", d, "provenance"), At(g, h, o, s), At(g, h, o, s))
  BY QuietOps, StillAt
<1>2. QED
  BY <1>1, HearsH0, LeadsOn DEF ReceiveLaunch

LEMMA AcceptsLaunch ==
  ASSUME NEW d \in Domains, NEW g, NEW h, NEW o, NEW s \in [Domains -> Positions], s[d] = "new"
  PROVE  Leads(AcceptLaunch(d), At(g, h, o, s), At(g, h, o, [s EXCEPT ![d] = "H0"]))
<1> DEFINE t == [s EXCEPT ![d] = "H0"]
<1>1. t \in [Domains -> Positions] /\ t[d] = "H0"
  BY DEF Positions
<1>2. Leads(ReceiveLaunch(d), At(g, h, o, s), At(g, h, o, t))
  BY ReceivesLaunch
<1> HIDE DEF t
<1>3. Leads(Ins("send", d, "inspect_launch"), At(g, h, o, t), At(g, h, o, t))
  BY QuietOps, StillAt
<1>4. Leads(Ins("await", d, "available"), At(g, h, o, t), At(g, h, o, t))
  BY QuietOps, StillAt
<1>5. Leads(Ins("accept", d, "H0"), At(g, h, o, t), At(g, h, o, t))
  BY <1>1, Accepts DEF Heads
<1>6. Leads(ReceiveLaunch(d) \o Ins("send", d, "inspect_launch"), At(g, h, o, s), At(g, h, o, t))
  BY <1>2, <1>3, LeadsOn
<1>7. Leads(ReceiveLaunch(d) \o Ins("send", d, "inspect_launch") \o Ins("await", d, "available"),
            At(g, h, o, s), At(g, h, o, t))
  BY <1>4, <1>6, LeadsOn
<1>8. Leads(AcceptLaunch(d), At(g, h, o, s), At(g, h, o, t))
  BY <1>5, <1>7, LeadsOn DEF AcceptLaunch
<1>9. QED
  BY <1>8 DEF t

LEMMA ClassifiesAndOpens ==
  ASSUME NEW g, NEW h, NEW s
  PROVE  Leads(ClassifyAndOpen, At(g, h, "seen", s), At("open_for_H1", h, "seen", s))
<1> DEFINE X == At(g, h, "seen", s)
<1>1. Leads(Do("verify"), X, X)
  BY Verifies
<1>2. Leads(Ins("classify", A, "none"), X, X) /\ Leads(Ins("classify", B, "none"), X, X)
  BY QuietOps, StillAt, RolesAreDomains
<1>3. Leads(Do("open"), X, At("open_for_H1", h, "seen", s))
  BY Opens
<1> HIDE DEF X
<1>4. Leads(Do("verify") \o Ins("classify", A, "none"), X, X)
  BY <1>1, <1>2, LeadsOn
<1>5. Leads(Do("verify") \o Ins("classify", A, "none") \o Ins("classify", B, "none"), X, X)
  BY <1>2, <1>4, LeadsOn
<1>6. QED
  BY <1>3, <1>5, LeadsOn DEF ClassifyAndOpen, X

LEMMA AdvancesToH1 ==
  ASSUME NEW s
  PROVE  Leads(AdvanceToH1, At("open_for_H0", "H0", "unseen", s), At("open_for_H1", "H1", "seen", s))
<1>1. Leads(Do("close") \o Do("commit"), At("open_for_H0", "H0", "unseen", s),
            At("closed_for_H0_to_H1", "H1", "unseen", s))
  BY Closes, Commits, LeadsOn
<1>2. Leads(Do("close") \o Do("commit") \o Publish, At("open_for_H0", "H0", "unseen", s),
            At("closed_for_H0_to_H1", "H1", "seen", s))
  BY <1>1, PublishesAll, LeadsOn
<1>3. QED
  BY <1>2, ClassifiesAndOpens, LeadsOn DEF AdvanceToH1

Both(x, y) == [d \in Domains |-> IF d = A THEN x ELSE y]

LEMMA BothIs ==
  ASSUME NEW x \in Positions, NEW y \in Positions
  PROVE  /\ Both(x, y) \in [Domains -> Positions] /\ Both(x, y)[A] = x /\ Both(x, y)[B] = y
         /\ \A z \in Positions :
                   /\ [Both(x, y) EXCEPT ![A] = z] = Both(z, y)
                   /\ [Both(x, y) EXCEPT ![B] = z] = Both(x, z)
<1>1. /\ Both(x, y) \in [Domains -> Positions] /\ Both(x, y)[A] = x /\ Both(x, y)[B] = y
  BY RolesAreDomains DEF Both
<1>2. ASSUME NEW z \in Positions
      PROVE  /\ [Both(x, y) EXCEPT ![A] = z] = Both(z, y)
             /\ [Both(x, y) EXCEPT ![B] = z] = Both(x, z)
  <2> DEFINE f == Both(x, y)
             a == Both(z, y)
             b == Both(x, z)
  <2>1. /\ f \in [Domains -> Positions] /\ a \in [Domains -> Positions] /\ b \in [Domains -> Positions]
        /\ f[A] = x /\ f[B] = y /\ a[A] = z /\ a[B] = y /\ b[A] = x /\ b[B] = z
    BY RolesAreDomains DEF Both
  <2> HIDE DEF f, a, b
  <2>2. \A d \in Domains : d = A \/ d = B
    BY RolesAreDomains
  <2>3. [f EXCEPT ![A] = z] = a
    BY <2>1, <2>2, RolesAreDomains
  <2>4. [f EXCEPT ![B] = z] = b
    BY <2>1, <2>2, RolesAreDomains
  <2>5. QED
    BY <2>3, <2>4 DEF f, a, b
<1>3. QED
  BY <1>1, <1>2

Before(x, y) == At("open_for_H0", "H0", "unseen", Both(x, y))
Closed(x, y) == At("closed_for_H0_to_H1", "H0", "unseen", Both(x, y))
Opened(x, y) == At("open_for_H1", "H1", "seen", Both(x, y))

LEMMA LeadsStill ==
  ASSUME NEW p, NEW q, NEW X, NEW Y \in SUBSET Views, Leads(p, X, Y), Still(q)
  PROVE  Leads(p \o q, X, Y)
  BY LeadsOn DEF Still

LEMMA BothLaunched ==
  /\ \A g, h, o : Leads(AcceptLaunch(A) \o AcceptLaunch(B), At(g, h, o, Both("new", "new")),
                        At(g, h, o, Both("H0", "H0")))
  /\ \A g, h, o : Leads(ReceiveLaunch(A) \o AcceptLaunch(B), At(g, h, o, Both("new", "new")),
                        At(g, h, o, Both("H0", "H0")))
  /\ Leads(LaunchPair \o AcceptLaunch(A) \o AcceptLaunch(B), Before("new", "new"), Before("H0", "H0"))
<1>1. "new" \in Positions /\ "H0" \in Positions
  BY DEF Positions
<1>2. ASSUME NEW g, NEW h, NEW o
      PROVE  /\ Leads(AcceptLaunch(A), At(g, h, o, Both("new", "new")), At(g, h, o, Both("H0", "new")))
             /\ Leads(ReceiveLaunch(A), At(g, h, o, Both("new", "new")), At(g, h, o, Both("H0", "new")))
             /\ Leads(AcceptLaunch(B), At(g, h, o, Both("H0", "new")), At(g, h, o, Both("H0", "H0")))
  <2> DEFINE s == Both("new", "new")
             t == Both("H0", "new")
  <2>1. /\ s \in [Domains -> Positions] /\ s[A] = "new" /\ [s EXCEPT ![A] = "H0"] = t
        /\ t \in [Domains -> Positions] /\ t[B] = "new" /\ [t EXCEPT ![B] = "H0"] = Both("H0", "H0")
    BY <1>1, BothIs
  <2> HIDE DEF s, t
  <2>2. /\ Leads(AcceptLaunch(A), At(g, h, o, s), At(g, h, o, [s EXCEPT ![A] = "H0"]))
        /\ Leads(ReceiveLaunch(A), At(g, h, o, s), At(g, h, o, [s EXCEPT ![A] = "H0"]))
        /\ Leads(AcceptLaunch(B), At(g, h, o, t), At(g, h, o, [t EXCEPT ![B] = "H0"]))
    BY <2>1, AcceptsLaunch, ReceivesLaunch, RolesAreDomains
  <2>3. QED
    BY <2>1, <2>2 DEF s, t
<1>3. Leads(LaunchPair, Before("new", "new"), Before("new", "new"))
  BY LaunchPairStill, StillAt DEF Before
<1>4. Leads(LaunchPair \o AcceptLaunch(A), Before("new", "new"), Before("H0", "new"))
  BY <1>2, <1>3, LeadsOn DEF Before
<1>5. QED
  BY <1>2, <1>4, LeadsOn DEF Before

LEMMA ReachesL3 == Leads(WitnessToL3, Before("new", "new"), Opened("H0", "H0"))
<1> DEFINE p1 == LaunchPair \o AcceptLaunch(A) \o AcceptLaunch(B)
           p2 == p1 \o Do("checkpoint")
           p3 == p2 \o Do("close")
           p4 == p3 \o Do("checkpoint")
           p5 == p4 \o Do("commit")
           p6 == p5 \o Do("checkpoint")
           p7 == p6 \o Publish
           p8 == p7 \o ClassifyAndOpen
           b == Both("H0", "H0")
<1>1. Still(Do("checkpoint"))
  BY QuietOps, RolesAreDomains
<1>2. Leads(p1, Before("new", "new"), At("open_for_H0", "H0", "unseen", b))
  BY BothLaunched DEF Before
<1> HIDE DEF p1, b
<1>3. Leads(p2, Before("new", "new"), At("open_for_H0", "H0", "unseen", b))
  BY <1>1, <1>2, LeadsStill, AtIn
<1> HIDE DEF p2
<1>4. Leads(p3, Before("new", "new"), At("closed_for_H0_to_H1", "H0", "unseen", b))
  BY <1>3, Closes, LeadsOn
<1> HIDE DEF p3
<1>5. Leads(p4, Before("new", "new"), At("closed_for_H0_to_H1", "H0", "unseen", b))
  BY <1>1, <1>4, LeadsStill, AtIn
<1> HIDE DEF p4
<1>6. Leads(p5, Before("new", "new"), At("closed_for_H0_to_H1", "H1", "unseen", b))
  BY <1>5, Commits, LeadsOn
<1> HIDE DEF p5
<1>7. Leads(p6, Before("new", "new"), At("closed_for_H0_to_H1", "H1", "unseen", b))
  BY <1>1, <1>6, LeadsStill, AtIn
<1> HIDE DEF p6
<1>8. Leads(p7, Before("new", "new"), At("closed_for_H0_to_H1", "H1", "seen", b))
  BY <1>7, PublishesAll, LeadsOn
<1> HIDE DEF p7
<1>9. Leads(p8, Before("new", "new"), At("open_for_H1", "H1", "seen", b))
  BY <1>8, ClassifiesAndOpens, LeadsOn
<1> HIDE DEF p8
<1>10. Leads(p8 \o Do("checkpoint"), Before("new", "new"), At("open_for_H1", "H1", "seen", b))
  BY <1>1, <1>9, LeadsStill, AtIn
<1>11. QED
  BY <1>10 DEF p1, p2, p3, p4, p5, p6, p7, p8, b, WitnessToL3, Opened

\* A refresh that is asked for, from an exact bundle, and accepted.
LEMMA RefreshSucceeds ==
  ASSUME NEW d \in Domains, NEW r \in BOOLEAN, NEW s \in [Domains -> Positions], s[d] = "H0"
  PROVE  Leads(RefreshSuccess(d, r), At("open_for_H1", "H1", "seen", s),
               At("open_for_H1", "H1", "seen", [s EXCEPT ![d] = "H1"]))
<1> DEFINE X(x) == At("open_for_H1", "H1", "seen", [s EXCEPT ![d] = x])
           p1 == Ins("eligible", d, "none") \o Ins("stage", d, "exact")
           p2 == p1 \o Ins("send", d, "refresh")
           p3 == p2 \o Ins("await", d, "receipt_H1")
           t == IF r THEN Ins("await", d, "retention") ELSE <<>>
           p4 == p3 \o t
           p5 == p4 \o Ins("send", d, "inspect_refresh")
           p6 == p5 \o Ins("await", d, "blocked")
           p7 == p6 \o Ins("accept", d, "H1")
<1>1. \A x : X(x) \in SUBSET Views
  BY AtIn
<1>2. [s EXCEPT ![d] = "H0"] = s
  OBVIOUS
<1>3. \A x, y \in Positions :
        LET u == [s EXCEPT ![d] = x] IN
        u \in [Domains -> Positions] /\ u[d] = x /\ [u EXCEPT ![d] = y] = [s EXCEPT ![d] = y]
  OBVIOUS
<1>4. {"H0", "exact", "sent", "H1"} \subseteq Positions
  BY DEF Positions
<1>5. Leads(p1, X("H0"), X("exact"))
  <2>1. Leads(Ins("eligible", d, "none"), X("H0"), X("H0"))
    BY QuietOps, StillAt
  <2>2. Leads(Ins("stage", d, "exact"), X("H0"), X("exact"))
    BY <1>2, Stages
  <2>3. QED
    BY <2>1, <2>2, LeadsOn
<1>6. Leads(Ins("send", d, "refresh"), X("exact"), X("sent"))
  <2> DEFINE u == [s EXCEPT ![d] = "exact"]
  <2>1. /\ u \in [Domains -> Positions] /\ u[d] = "exact"
        /\ [u EXCEPT ![d] = "sent"] = [s EXCEPT ![d] = "sent"]
    BY <1>3, <1>4
  <2> HIDE DEF u
  <2>2. Leads(Ins("send", d, "refresh"), At("open_for_H1", "H1", "seen", u),
              At("open_for_H1", "H1", "seen", [u EXCEPT ![d] = IF u[d] = "exact" THEN "sent" ELSE u[d]]))
    BY <2>1, Asks
  <2>3. QED
    BY <2>1, <2>2 DEF u
<1>7. Leads(Ins("await", d, "receipt_H1"), X("sent"), X("H1"))
  <2> DEFINE u == [s EXCEPT ![d] = "sent"]
  <2>1. /\ u \in [Domains -> Positions] /\ u[d] = "sent"
        /\ [u EXCEPT ![d] = "H1"] = [s EXCEPT ![d] = "H1"]
    BY <1>3, <1>4
  <2> HIDE DEF u
  <2>2. Leads(Ins("await", d, "receipt_H1"), At("open_for_H1", "H1", "seen", u),
              At("open_for_H1", "H1", "seen", [u EXCEPT ![d] = "H1"]))
    BY <2>1, HearsH1
  <2>3. QED
    BY <2>1, <2>2 DEF u
<1>8. Leads(Ins("accept", d, "H1"), X("H1"), X("H1"))
  <2>1. [s EXCEPT ![d] = "H1"] \in [Domains -> Positions] /\ [s EXCEPT ![d] = "H1"][d] = "H1"
    BY <1>3, <1>4
  <2>2. QED
    BY <2>1, Accepts DEF Heads
<1>9. Leads(t, X("H1"), X("H1"))
  <2>1. CASE r
    BY <2>1, QuietOps, StillAt
  <2>2. CASE ~r
    <3>1. t = <<>>
      BY <2>2
    <3>2. \A v \in X("H1") : Runs(<<>>, v, v)
      BY <1>1, Nothing
    <3>3. QED
      BY <3>1, <3>2 DEF Leads
  <2>3. QED
    BY <2>1, <2>2
<1> HIDE DEF X, t, p1
<1>10. Leads(p2, X("H0"), X("sent"))
  BY <1>5, <1>6, LeadsOn
<1> HIDE DEF p2
<1>11. Leads(p3, X("H0"), X("H1"))
  BY <1>7, <1>10, LeadsOn
<1> HIDE DEF p3
<1>12. Leads(p4, X("H0"), X("H1"))
  BY <1>9, <1>11, LeadsOn
<1> HIDE DEF p4
<1>13. Leads(p5, X("H0"), X("H1"))
  BY <1>1, <1>12, QuietOps, LeadsStill
<1> HIDE DEF p5
<1>14. Leads(p6, X("H0"), X("H1"))
  BY <1>1, <1>13, QuietOps, LeadsStill
<1> HIDE DEF p6
<1>15. Leads(p7, X("H0"), X("H1"))
  BY <1>8, <1>14, LeadsOn
<1> HIDE DEF p7
<1>16. Leads(p7 \o Do("checkpoint"), X("H0"), X("H1"))
  BY <1>1, <1>15, QuietOps, LeadsStill
<1>17. RefreshSuccess(d, r) = p7 \o Do("checkpoint")
  BY DEF RefreshSuccess, p7, p6, p5, p4, p3, p2, p1, t
<1>18. QED
  BY <1>2, <1>16, <1>17 DEF X

Ends(p) == Leads(p, Before("new", "new"), Views)

LEMMA EndsAt == ASSUME NEW p, NEW X \in SUBSET Views, Leads(p, Before("new", "new"), X) PROVE Ends(p)
  BY DEF Ends, Leads

LEMMA EndsOn == ASSUME NEW p, NEW q, NEW X, Leads(p, Before("new", "new"), X), Leads(q, X, Views) PROVE Ends(p \o q)
  BY LeadsOn DEF Ends

LEMMA EndsStill == ASSUME NEW p, NEW q, Ends(p), Still(q) PROVE Ends(p \o q)
  BY LeadsStill DEF Ends

LEMMA LeadsOut == ASSUME NEW p, NEW X, NEW Y \in SUBSET Views, Leads(p, X, Y) PROVE Leads(p, X, Views)
  BY DEF Leads

\* The two conclusions of a run, in which both domains keep H0.
LEMMA ConcludesBoth ==
  ASSUME NEW c \in Keeping, NEW g, NEW h, NEW o, NEW x \in {"new", "H0"}
  PROVE  Leads(Conclude(c), At(g, h, o, Both(x, x)), At(g, h, o, Both("any", "any")))
<1> DEFINE s == Both(x, x)
           t == Both("any", x)
<1>1. x \in Positions /\ "any" \in Positions
  BY DEF Positions
<1>2. /\ s \in [Domains -> Positions] /\ s[A] = x /\ [s EXCEPT ![A] = "any"] = t
      /\ t \in [Domains -> Positions] /\ t[B] = x /\ [t EXCEPT ![B] = "any"] = Both("any", "any")
  BY <1>1, BothIs
<1> HIDE DEF s, t
<1>3. /\ Leads(Ins("conclude", A, c), At(g, h, o, s), At(g, h, o, [s EXCEPT ![A] = "any"]))
      /\ Leads(Ins("conclude", B, c), At(g, h, o, t), At(g, h, o, [t EXCEPT ![B] = "any"]))
  BY <1>2, Concludes, RolesAreDomains
<1>4. QED
  BY <1>2, <1>3, LeadsOn DEF Conclude, s, t

LEMMA RefreshesBoth ==
  ASSUME NEW r \in BOOLEAN
  PROVE  /\ Leads(RefreshSuccess(A, r), Opened("H0", "H0"), Opened("H1", "H0"))
         /\ Leads(RefreshSuccess(B, r), Opened("H0", "H0"), Opened("H0", "H1"))
         /\ Leads(RefreshSuccess(A, r), Opened("H0", "H1"), Opened("H1", "H1"))
         /\ Leads(RefreshSuccess(B, r), Opened("H1", "H0"), Opened("H1", "H1"))
<1>1. "H0" \in Positions /\ "H1" \in Positions
  BY DEF Positions
<1>2. ASSUME NEW y \in {"H0", "H1"}
      PROVE  Leads(RefreshSuccess(A, r), Opened("H0", y), Opened("H1", y))
  <2> DEFINE s == Both("H0", y)
  <2>1. s \in [Domains -> Positions] /\ s[A] = "H0" /\ [s EXCEPT ![A] = "H1"] = Both("H1", y)
    BY <1>1, BothIs
  <2> HIDE DEF s
  <2>2. QED
    BY <2>1, RefreshSucceeds, RolesAreDomains DEF Opened, s
<1>3. ASSUME NEW x \in {"H0", "H1"}
      PROVE  Leads(RefreshSuccess(B, r), Opened(x, "H0"), Opened(x, "H1"))
  <2> DEFINE s == Both(x, "H0")
  <2>1. s \in [Domains -> Positions] /\ s[B] = "H0" /\ [s EXCEPT ![B] = "H1"] = Both(x, "H1")
    BY <1>1, BothIs
  <2> HIDE DEF s
  <2>2. QED
    BY <2>1, RefreshSucceeds, RolesAreDomains DEF Opened, s
<1>4. QED
  BY <1>2, <1>3

\* A refresh from a corrupt bundle, whatever the other domain has come to.
LEMMA RefreshIsRejected ==
  ASSUME NEW d \in Domains, NEW s \in [Domains -> Positions], s[d] = "H0"
  PROVE  Leads(RefreshRejection(d), At("open_for_H1", "H1", "seen", s), Views)
<1> DEFINE X(x) == At("open_for_H1", "H1", "seen", [s EXCEPT ![d] = x])
           u == [s EXCEPT ![d] = "corrupt"]
           p1 == Ins("eligible", d, "none") \o Ins("stage", d, "corrupt")
           p2 == p1 \o Ins("send", d, "refresh")
           p3 == p2 \o Ins("await", d, "failure")
           p4 == p3 \o Ins("conclude", d, "stale")
<1>1. \A x : X(x) \in SUBSET Views
  BY AtIn
<1>2. /\ [s EXCEPT ![d] = "H0"] = s /\ u \in [Domains -> Positions] /\ u[d] = "corrupt"
      /\ [u EXCEPT ![d] = "corrupt"] = u /\ [u EXCEPT ![d] = "any"] = [s EXCEPT ![d] = "any"]
  BY DEF Positions
<1>3. Leads(p1, X("H0"), X("corrupt"))
  <2>1. Leads(Ins("eligible", d, "none"), X("H0"), X("H0"))
    BY QuietOps, StillAt
  <2>2. Leads(Ins("stage", d, "corrupt"), X("H0"), X("corrupt"))
    BY <1>2, Stages
  <2>3. QED
    BY <2>1, <2>2, LeadsOn
<1>4. Leads(Ins("send", d, "refresh"), X("corrupt"), X("corrupt"))
  <2>1. Leads(Ins("send", d, "refresh"), At("open_for_H1", "H1", "seen", u),
              At("open_for_H1", "H1", "seen", [u EXCEPT ![d] = IF u[d] = "exact" THEN "sent" ELSE u[d]]))
    BY <1>2, Asks
  <2>2. [u EXCEPT ![d] = IF u[d] = "exact" THEN "sent" ELSE u[d]] = u
    BY <1>2
  <2>3. QED
    BY <2>1, <2>2
<1>5. Leads(Ins("conclude", d, "stale"), X("corrupt"), X("any"))
  <2>1. Leads(Ins("conclude", d, "stale"), At("open_for_H1", "H1", "seen", u),
              At("open_for_H1", "H1", "seen", [u EXCEPT ![d] = "any"]))
    BY <1>2, Concludes DEF Keeping
  <2>2. QED
    BY <1>2, <2>1
<1> HIDE DEF X, u, p1
<1>6. Leads(p2, X("H0"), X("corrupt"))
  BY <1>3, <1>4, LeadsOn
<1> HIDE DEF p2
<1>7. Leads(p3, X("H0"), X("corrupt"))
  BY <1>1, <1>6, QuietOps, LeadsStill
<1> HIDE DEF p3
<1>8. Leads(p4, X("H0"), X("any"))
  BY <1>5, <1>7, LeadsOn
<1> HIDE DEF p4
<1>9. Leads(p4 \o Do("checkpoint"), X("H0"), X("any"))
  BY <1>1, <1>8, QuietOps, LeadsStill
<1>10. RefreshRejection(d) = p4 \o Do("checkpoint")
  BY DEF RefreshRejection, p4, p3, p2, p1
<1>11. Leads(RefreshRejection(d), X("H0"), Views)
  BY <1>1, <1>9, <1>10, LeadsOut
<1>12. X("H0") = At("open_for_H1", "H1", "seen", s)
  BY <1>2 DEF X
<1>13. QED
  BY <1>11, <1>12

LEMMA LocalStepsStill == Still(LocalSteps)
<1>1. Still(Ins("send", A, "step") \o Ins("await", A, "step"))
  BY QuietOps, StillOn, RolesAreDomains
<1>2. Still(Ins("send", A, "step") \o Ins("await", A, "step") \o Ins("send", B, "step"))
  BY <1>1, QuietOps, StillOn, RolesAreDomains
<1>3. Still(Ins("send", A, "step") \o Ins("await", A, "step") \o Ins("send", B, "step") \o Ins("await", B, "step"))
  BY <1>2, QuietOps, StillOn, RolesAreDomains
<1>4. QED
  BY <1>3, QuietOps, StillOn, RolesAreDomains DEF LocalSteps

\* Each witness; w3 and w4 conclude both domains, w6 one of them, w8 leaves the guard open.
LEMMA WitnessEnds ==
  ASSUME NEW id \in {"w1_a_then_b", "w2_b_then_a", "w3_stale_quarantine", "w4_head_observation_failure",
                     "w5_retention", "w6_asymmetric_a", "w6_asymmetric_b", "w7_destroy_a",
                     "w7_destroy_b", "w8_guard_open_control"}
  PROVE  Ends(Witness(id))
<1>1. \A x, y : Opened(x, y) \in SUBSET Views /\ Before(x, y) \in SUBSET Views
  BY AtIn DEF Opened, Before
<1>2. Still(Do("checkpoint")) /\ \A d \in Domains : Still(Ins("alive", d, "none")) /\ Still(Ins("terminate", d, "none"))
  BY QuietOps, RolesAreDomains
<1>3. \A r \in BOOLEAN :
        /\ Leads(WitnessToL3 \o RefreshSuccess(A, r), Before("new", "new"), Opened("H1", "H0"))
        /\ Leads(WitnessToL3 \o RefreshSuccess(B, r), Before("new", "new"), Opened("H0", "H1"))
        /\ Leads(WitnessToL3 \o RefreshSuccess(A, r) \o RefreshSuccess(B, r), Before("new", "new"), Opened("H1", "H1"))
        /\ Leads(WitnessToL3 \o RefreshSuccess(B, r) \o RefreshSuccess(A, r), Before("new", "new"), Opened("H1", "H1"))
  <2> TAKE r \in BOOLEAN
  <2>1. /\ Leads(WitnessToL3 \o RefreshSuccess(A, r), Before("new", "new"), Opened("H1", "H0"))
        /\ Leads(WitnessToL3 \o RefreshSuccess(B, r), Before("new", "new"), Opened("H0", "H1"))
    BY ReachesL3, RefreshesBoth, LeadsOn
  <2>2. QED
    BY <2>1, RefreshesBoth, LeadsOn
<1>4. \A r \in BOOLEAN : /\ Ends(WitnessToL3 \o RefreshSuccess(A, r) \o RefreshSuccess(B, r))
                         /\ Ends(WitnessToL3 \o RefreshSuccess(B, r) \o RefreshSuccess(A, r))
  BY <1>1, <1>3, EndsAt
<1>5. CASE id \in {"w1_a_then_b", "w2_b_then_a", "w5_retention"}
  BY <1>4, <1>5 DEF Witness
<1>6. CASE id \in {"w7_destroy_a", "w7_destroy_b"}
  <2> DEFINE p == WitnessToL3 \o RefreshSuccess(A, FALSE) \o RefreshSuccess(B, FALSE)
  <2>1. Ends(p)
    BY <1>4
  <2> HIDE DEF p
  <2>2. \A d, e \in Domains : Ends(p \o Ins("terminate", d, "none") \o Ins("alive", e, "none"))
    BY <1>2, <2>1, EndsStill
  <2>3. QED
    BY <1>6, <2>2, RolesAreDomains DEF Witness, p
<1>7. CASE id \in {"w6_asymmetric_a", "w6_asymmetric_b"}
  <2>1. "H0" \in Positions /\ "H1" \in Positions
    BY DEF Positions
  <2>2. Leads(RefreshRejection(B), Opened("H1", "H0"), Views)
    BY <2>1, BothIs, RefreshIsRejected, RolesAreDomains DEF Opened
  <2>3. Leads(RefreshRejection(A), Opened("H0", "H1"), Views)
    BY <2>1, BothIs, RefreshIsRejected, RolesAreDomains DEF Opened
  <2>4. QED
    BY <1>3, <1>7, <2>2, <2>3, EndsOn DEF Witness
<1>8. CASE id = "w3_stale_quarantine"
  <2>1. Leads(WitnessToL3 \o LocalSteps, Before("new", "new"), Opened("H0", "H0"))
    BY <1>1, ReachesL3, LocalStepsStill, LeadsStill
  <2>2. Leads(Conclude("stale"), Opened("H0", "H0"), Views)
    BY ConcludesBoth, AtIn, LeadsOut DEF Opened, Keeping
  <2>3. QED
    BY <1>8, <2>1, <2>2, EndsOn DEF Witness
<1>9. CASE id \in {"w4_head_observation_failure", "w8_guard_open_control"}
  <2> DEFINE b == Both("H0", "H0")
             s == Before("new", "new")
             p0 == LaunchPair \o AcceptLaunch(A) \o AcceptLaunch(B)
             p1 == p0 \o Do("checkpoint")
             q2 == p1 \o Do("close")
             q3 == q2 \o Do("checkpoint")
             q4 == q3 \o Do("commit")
             q5 == q4 \o Do("checkpoint")
             q6 == q5 \o Do("fail_closed")
             r3 == p1 \o Do("checkpoint")
             r4 == r3 \o Do("commit")
             r6 == r4 \o Do("fail_closed")
  <2>1. /\ \A d \in Domains : b[d] \in {"new", "H0"}
        /\ \A c \in Keeping : \A g, h, o : Leads(Conclude(c), At(g, h, o, b), Views)
    <3>1. \A d \in Domains : b[d] \in {"new", "H0"}
      BY DEF Both
    <3>2. ASSUME NEW c \in Keeping, NEW g, NEW h, NEW o PROVE Leads(Conclude(c), At(g, h, o, b), Views)
      BY ConcludesBoth, AtIn, LeadsOut
    <3>3. QED
      BY <3>1, <3>2
  <2>2. Leads(p0, s, At("open_for_H0", "H0", "unseen", b))
    BY BothLaunched DEF Before
  <2> HIDE DEF b, s, p0
  <2>3. Leads(p1, s, At("open_for_H0", "H0", "unseen", b))
    BY <1>2, <2>2, LeadsStill, AtIn
  <2> HIDE DEF p1
  <2>4. Leads(q2, s, At("closed_for_H0_to_H1", "H0", "unseen", b))
    BY <2>3, Closes, LeadsOn
  <2> HIDE DEF q2
  <2>5. Leads(q3, s, At("closed_for_H0_to_H1", "H0", "unseen", b))
    BY <1>2, <2>4, LeadsStill, AtIn
  <2> HIDE DEF q3
  <2>6. Leads(q4, s, At("closed_for_H0_to_H1", "H1", "unseen", b))
    BY <2>5, Commits, LeadsOn
  <2> HIDE DEF q4
  <2>7. Leads(q5, s, At("closed_for_H0_to_H1", "H1", "unseen", b))
    BY <1>2, <2>6, LeadsStill, AtIn
  <2> HIDE DEF q5
  <2>8. Leads(q6, s, At("failed_closed", "H1", "unseen", b))
    BY <2>1, <2>7, FailsClosed, LeadsOn
  <2> HIDE DEF q6
  <2>9. Leads(r3, s, At("open_for_H0", "H0", "unseen", b))
    BY <1>2, <2>3, LeadsStill, AtIn
  <2> HIDE DEF r3
  <2>10. Leads(r4, s, At("open_for_H0", "H1", "unseen", b))
    BY <2>9, Commits, LeadsOn
  <2> HIDE DEF r4
  <2>11. Leads(r6, s, At("failed_closed", "H1", "unseen", b))
    BY <2>1, <2>10, FailsClosed, LeadsOn
  <2> HIDE DEF r6
  <2>12. Leads(q6 \o Conclude("head_unconfirmed"), s, Views) /\ Leads(r6 \o Conclude("protocol_invalid"), s, Views)
    BY <2>1, <2>8, <2>11, LeadsOn DEF Keeping
  <2>13. QED
    BY <1>9, <2>12 DEF Ends, Witness, q6, q5, q4, q3, q2, r6, r4, r3, p1, p0, s
<1>10. QED
  BY <1>5, <1>6, <1>7, <1>8, <1>9

\* To the guard open for H1, with the refresh of the first domain staged.
Advanced == LaunchPair \o AcceptLaunch(A) \o AcceptLaunch(B) \o AdvanceToH1
Prepared == Advanced \o Ins("stage", A, "exact")

LEMMA Prepares ==
  /\ Leads(Advanced, Before("new", "new"), Opened("H0", "H0"))
  /\ Leads(Prepared, Before("new", "new"), Opened("exact", "H0"))
<1>1. "H0" \in Positions /\ "exact" \in Positions
  BY DEF Positions
<1>2. Leads(Advanced, Before("new", "new"), Opened("H0", "H0"))
  BY BothLaunched, AdvancesToH1, LeadsOn DEF Before, Opened, Advanced
<1>3. Leads(Ins("stage", A, "exact"), Opened("H0", "H0"), Opened("exact", "H0"))
  <2> DEFINE s == Both("H0", "H0")
  <2>1. s \in [Domains -> Positions] /\ s[A] = "H0" /\ [s EXCEPT ![A] = "exact"] = Both("exact", "H0")
    BY <1>1, BothIs
  <2> HIDE DEF s
  <2>2. QED
    BY <2>1, Stages, RolesAreDomains DEF Opened, s
<1>4. QED
  BY <1>2, <1>3, LeadsOn DEF Prepared

\* Steps of the first domain once the guard is open.
LEMMA OpenedSteps ==
  /\ \A c \in Plans : Leads(Ins("send", A, c), Opened("exact", "H0"),
                            Opened(IF c \in Harmless THEN "asked" ELSE "other", "H0"))
  /\ \A c \in Plans : Leads(Ins("send", A, c), Opened("H1", "H0"), Opened("any", "H0"))
  /\ Leads(Ins("await", A, "arm_receipt"), Opened("asked", "H0"), Opened("harmless", "H0"))
  /\ Leads(Ins("await", A, "arm_receipt"), Opened("other", "H0"), Opened("other", "H0"))
  /\ Leads(Ins("await", A, "arm_receipt"), Opened("any", "H0"), Opened("any", "H0"))
  /\ Leads(Ins("send", A, "refresh"), Opened("harmless", "H0"), Opened("harmless", "H0"))
  /\ Leads(Ins("send", A, "refresh"), Opened("other", "H0"), Opened("other", "H0"))
  /\ Leads(Ins("send", A, "refresh"), Opened("exact", "H0"), Opened("sent", "H0"))
  /\ Leads(Ins("send", A, "refresh"), Opened("H1", "H0"), Opened("H1", "H0"))
  /\ Leads(Ins("await", A, "receipt_H1"), Opened("sent", "H0"), Opened("H1", "H0"))
  /\ Leads(Ins("await", A, "receipt_H1"), Opened("other", "H0"), Opened("any", "H0"))
  /\ Leads(Ins("conclude", A, "stale"), Opened("harmless", "H0"), Opened("any", "H0"))
<1>1. A \in Domains /\ {"H0", "exact", "asked", "harmless", "other", "sent", "H1", "any"} \subseteq Positions
  BY RolesAreDomains DEF Positions
<1>2. \A x \in Positions : /\ Both(x, "H0") \in [Domains -> Positions] /\ Both(x, "H0")[A] = x
                           /\ \A z \in Positions : [Both(x, "H0") EXCEPT ![A] = z] = Both(z, "H0")
  BY <1>1, BothIs
<1>3. ASSUME NEW c \in Plans
      PROVE  /\ Leads(Ins("send", A, c), Opened("exact", "H0"), Opened(IF c \in Harmless THEN "asked" ELSE "other", "H0"))
             /\ Leads(Ins("send", A, c), Opened("H1", "H0"), Opened("any", "H0"))
  <2>1. ASSUME NEW x \in {"exact", "H1"}
        PROVE  Leads(Ins("send", A, c), Opened(x, "H0"), Opened(ArmedAs(x, c), "H0"))
    <3> DEFINE s == Both(x, "H0")
    <3>1. /\ s \in [Domains -> Positions] /\ s[A] = x /\ ArmedAs(x, c) \in Positions
          /\ [s EXCEPT ![A] = ArmedAs(x, c)] = Both(ArmedAs(x, c), "H0")
      <4>1. ArmedAs(x, c) \in Positions
        BY <1>1 DEF ArmedAs
      <4>2. QED
        BY <1>1, <1>2, <4>1
    <3> HIDE DEF s
    <3>2. Leads(Ins("send", A, c), At("open_for_H1", "H1", "seen", s),
                At("open_for_H1", "H1", "seen", [s EXCEPT ![A] = ArmedAs(s[A], c)]))
      BY <1>1, <3>1, Arms
    <3>3. QED
      BY <3>1, <3>2 DEF s, Opened
  <2>2. ArmedAs("H1", c) = "any" /\ ArmedAs("exact", c) = IF c \in Harmless THEN "asked" ELSE "other"
    BY DEF ArmedAs
  <2>3. QED
    BY <2>1, <2>2
<1>4. /\ Leads(Ins("await", A, "arm_receipt"), Opened("asked", "H0"), Opened("harmless", "H0"))
      /\ Leads(Ins("await", A, "arm_receipt"), Opened("other", "H0"), Opened("other", "H0"))
      /\ Leads(Ins("await", A, "arm_receipt"), Opened("any", "H0"), Opened("any", "H0"))
  <2>1. ASSUME NEW x \in {"asked", "other", "any"}
        PROVE  Leads(Ins("await", A, "arm_receipt"), Opened(x, "H0"),
                     Opened(IF x = "asked" THEN "harmless" ELSE x, "H0"))
    <3> DEFINE s == Both(x, "H0")
               z == IF x = "asked" THEN "harmless" ELSE x
    <3>1. /\ s \in [Domains -> Positions] /\ s[A] = x /\ z \in Positions
          /\ [s EXCEPT ![A] = z] = Both(z, "H0")
      <4>1. z \in Positions
        BY <1>1
      <4>2. QED
        BY <1>1, <1>2, <4>1
    <3> HIDE DEF s
    <3>2. Leads(Ins("await", A, "arm_receipt"), At("open_for_H1", "H1", "seen", s),
                At("open_for_H1", "H1", "seen", [s EXCEPT ![A] = IF s[A] = "asked" THEN "harmless" ELSE s[A]]))
      BY <1>1, <3>1, HearsArm
    <3>3. QED
      BY <3>1, <3>2 DEF s, Opened
  <2>2. QED
    BY <2>1
<1>5. /\ Leads(Ins("send", A, "refresh"), Opened("harmless", "H0"), Opened("harmless", "H0"))
      /\ Leads(Ins("send", A, "refresh"), Opened("other", "H0"), Opened("other", "H0"))
      /\ Leads(Ins("send", A, "refresh"), Opened("exact", "H0"), Opened("sent", "H0"))
      /\ Leads(Ins("send", A, "refresh"), Opened("H1", "H0"), Opened("H1", "H0"))
  <2>1. ASSUME NEW x \in {"harmless", "other", "exact", "H1"}
        PROVE  Leads(Ins("send", A, "refresh"), Opened(x, "H0"),
                     Opened(IF x = "exact" THEN "sent" ELSE x, "H0"))
    <3> DEFINE s == Both(x, "H0")
               z == IF x = "exact" THEN "sent" ELSE x
    <3>1. /\ s \in [Domains -> Positions] /\ s[A] = x /\ z \in Positions
          /\ [s EXCEPT ![A] = z] = Both(z, "H0")
      <4>1. z \in Positions
        BY <1>1
      <4>2. QED
        BY <1>1, <1>2, <4>1
    <3> HIDE DEF s
    <3>2. Leads(Ins("send", A, "refresh"), At("open_for_H1", "H1", "seen", s),
                At("open_for_H1", "H1", "seen", [s EXCEPT ![A] = IF s[A] = "exact" THEN "sent" ELSE s[A]]))
      BY <1>1, <3>1, Asks
    <3>3. QED
      BY <3>1, <3>2 DEF s, Opened
  <2>2. QED
    BY <2>1
<1>6. /\ Leads(Ins("await", A, "receipt_H1"), Opened("sent", "H0"), Opened("H1", "H0"))
      /\ Leads(Ins("await", A, "receipt_H1"), Opened("other", "H0"), Opened("any", "H0"))
  <2>1. ASSUME NEW z \in {"H1", "any"}
        PROVE  Leads(Ins("await", A, "receipt_H1"), Opened(IF z = "H1" THEN "sent" ELSE "other", "H0"),
                     Opened(z, "H0"))
    <3> DEFINE x == IF z = "H1" THEN "sent" ELSE "other"
               s == Both(x, "H0")
    <3>1. /\ s \in [Domains -> Positions] /\ s[A] = x /\ [s EXCEPT ![A] = z] = Both(z, "H0")
      <4>1. z \in Positions /\ x \in Positions
        BY <1>1
      <4>2. QED
        BY <1>2, <4>1
    <3> HIDE DEF s
    <3>2. Leads(Ins("await", A, "receipt_H1"), At("open_for_H1", "H1", "seen", s),
                At("open_for_H1", "H1", "seen", [s EXCEPT ![A] = z]))
      BY <1>1, <3>1, HearsH1
    <3>3. QED
      BY <3>1, <3>2 DEF s, Opened
  <2>2. QED
    BY <2>1
<1>7. Leads(Ins("conclude", A, "stale"), Opened("harmless", "H0"), Opened("any", "H0"))
  <2> DEFINE s == Both("harmless", "H0")
  <2>1. /\ s \in [Domains -> Positions] /\ s[A] = "harmless" /\ [s EXCEPT ![A] = "any"] = Both("any", "H0")
    BY <1>1, <1>2
  <2> HIDE DEF s
  <2>2. Leads(Ins("conclude", A, "stale"), At("open_for_H1", "H1", "seen", s),
              At("open_for_H1", "H1", "seen", [s EXCEPT ![A] = "any"]))
    BY <1>1, <2>1, Concludes DEF Keeping
  <2>3. QED
    BY <2>1, <2>2 DEF s, Opened
<1>8. QED
  BY <1>3, <1>4, <1>5, <1>6, <1>7

LEMMA OpenedIn == \A x, y : Opened(x, y) \in SUBSET Views
  BY AtIn DEF Opened

LEMMA RefreshFaultEnds == ASSUME NEW plan \in RefreshPlans PROVE Ends(RefreshFault(plan))
<1> DEFINE N == Before("new", "new")
           x == IF plan \in Harmless THEN "asked" ELSE "other"
           y == IF plan \in Harmless THEN "harmless" ELSE "other"
           z == IF plan = "receipt_emitted" THEN "any" ELSE y
           t == IF plan = "receipt_emitted" THEN Ins("await", A, "receipt_H1") ELSE <<>>
           u == IF plan \in {"refresh_read", "unpublished"} THEN "stale" ELSE "invalid"
           p1 == Prepared \o Arm(plan)
           p2 == p1 \o Ins("send", A, "refresh")
           p3 == p2 \o t
           p4 == p3 \o Ins("await", A, "fault_result")
           p5 == p4 \o Ins("conclude", A, u)
<1>1. plan \in Plans /\ A \in Domains /\ B \in Domains
  BY RolesAreDomains DEF Plans
<1>2. Leads(p1, N, Opened(y, "H0"))
  <2>1. Leads(Ins("send", A, plan), Opened("exact", "H0"), Opened(x, "H0"))
    BY <1>1, OpenedSteps
  <2>2. Leads(Ins("await", A, "arm_receipt"), Opened(x, "H0"), Opened(y, "H0"))
    BY OpenedSteps
  <2>3. Leads(Arm(plan), Opened("exact", "H0"), Opened(y, "H0"))
    BY <2>1, <2>2, LeadsOn DEF Arm
  <2>4. QED
    BY <2>3, Prepares, LeadsOn
<1>3. Leads(Ins("send", A, "refresh"), Opened(y, "H0"), Opened(y, "H0"))
  BY OpenedSteps
<1>4. Leads(t, Opened(y, "H0"), Opened(z, "H0"))
  <2>1. CASE plan = "receipt_emitted"
    BY <2>1, OpenedSteps DEF Harmless
  <2>2. CASE plan # "receipt_emitted"
    <3>1. t = <<>> /\ z = y
      BY <2>2
    <3>2. \A v \in Opened(y, "H0") : Runs(<<>>, v, v)
      BY OpenedIn, Nothing
    <3>3. QED
      BY <3>1, <3>2 DEF Leads
  <2>3. QED
    BY <2>1, <2>2
<1>5. Leads(Ins("conclude", A, u), Opened(z, "H0"), Views)
  <2>1. CASE plan \in Harmless
    <3>1. z = "harmless" /\ u = "stale"
      BY <2>1 DEF Harmless
    <3>2. QED
      BY <3>1, OpenedSteps, OpenedIn, LeadsOut
  <2>2. CASE plan \notin Harmless
    <3>1. u = "invalid"
      BY <2>2 DEF Harmless
    <3>2. QED
      BY <1>1, <3>1, QuietOps, OpenedIn, LeadsOut DEF Still
  <2>3. QED
    BY <2>1, <2>2
<1>6. RefreshFault(plan) = p5 \o Ins("alive", B, "none")
  BY DEF RefreshFault, Prepared, Advanced, p5, p4, p3, p2, p1, t, u
<1> HIDE DEF N, x, y, z, t, u, p1
<1>7. Leads(p2, N, Opened(y, "H0"))
  BY <1>2, <1>3, LeadsOn
<1> HIDE DEF p2
<1>8. Leads(p3, N, Opened(z, "H0"))
  BY <1>4, <1>7, LeadsOn
<1> HIDE DEF p3
<1>9. Leads(p4, N, Opened(z, "H0"))
  BY <1>1, <1>8, QuietOps, OpenedIn, LeadsStill
<1> HIDE DEF p4
<1>10. Leads(p5, N, Views)
  BY <1>5, <1>9, LeadsOn
<1> HIDE DEF p5
<1>11. QED
  BY <1>1, <1>6, <1>10, QuietOps, EndsStill DEF Ends, N

\* What follows the armed fault of an observation.
LEMMA InspectionStill ==
  ASSUME NEW c \in Inspections, NEW o \in {"fault_result", "available", "blocked"}
  PROVE  /\ Still(Ins("send", A, c)) /\ Still(Ins("await", A, o))
         /\ Still(Ins("conclude", A, "invalid")) /\ Still(Ins("alive", B, "none"))
  BY QuietOps, RolesAreDomains DEF Inspections

LEMMA ObservationFaultEnds ==
  ASSUME NEW plan \in ObservationPlans, NEW h \in Heads
  PROVE  Ends(ObservationFault(plan, h))
<1> DEFINE N == Before("new", "new")
           r == Ins("await", A, "receipt_H1")
           q == IF h = "H0"
                  THEN ReceiveLaunch(A) \o AcceptLaunch(B)
                  ELSE AcceptLaunch(A) \o AcceptLaunch(B) \o AdvanceToH1
                         \o Ins("stage", A, "exact") \o Ins("send", A, "refresh") \o r
           c == IF h = "H0" THEN "inspect_launch" ELSE "inspect_refresh"
           o == IF plan # "crosscheck" THEN "fault_result"
                ELSE IF h = "H0" THEN "available" ELSE "blocked"
           p1 == LaunchPair \o q
           p2 == p1 \o Arm(plan)
           p3 == p2 \o Ins("send", A, c)
           p4 == p3 \o Ins("await", A, o)
           p5 == p4 \o Ins("conclude", A, "invalid")
<1>1. plan \in Plans /\ A \in Domains /\ B \in Domains
  BY RolesAreDomains DEF Plans
<1>2. c \in Inspections /\ o \in {"fault_result", "available", "blocked"}
  BY DEF Inspections
<1>3. ObservationFault(plan, h) = p5 \o Ins("alive", B, "none")
  BY DEF ObservationFault, p5, p4, p3, p2, p1, q, c, o, r
<1>4. Leads(LaunchPair, N, N)
  BY LaunchPairStill, StillAt DEF Before
<1>5. Ends(p2)
  <2>1. CASE h = "H0"
    <3> DEFINE s == Both("H0", "H0")
               z == ArmedAs("H0", plan)
    <3>1. s \in [Domains -> Positions] /\ s[A] = "H0" /\ [s EXCEPT ![A] = "any"] = Both("any", "H0") /\ z = "any"
      <4>1. "H0" \in Positions /\ "any" \in Positions
        BY DEF Positions
      <4>2. s \in [Domains -> Positions] /\ s[A] = "H0" /\ [s EXCEPT ![A] = "any"] = Both("any", "H0")
        BY <4>1, BothIs
      <4>3. z = "any"
        BY DEF ArmedAs
      <4>4. QED
        BY <4>2, <4>3
    <3>2. Leads(q, N, Before("H0", "H0"))
      BY <2>1, BothLaunched DEF Before
    <3>3. Leads(Ins("send", A, plan), Before("H0", "H0"), Before("any", "H0"))
      <4> HIDE DEF s
      <4>1. Leads(Ins("send", A, plan), At("open_for_H0", "H0", "unseen", s),
                  At("open_for_H0", "H0", "unseen", [s EXCEPT ![A] = ArmedAs(s[A], plan)]))
        BY <1>1, <3>1, Arms
      <4>2. QED
        BY <3>1, <4>1 DEF s, Before
    <3>4. Leads(Ins("await", A, "arm_receipt"), Before("any", "H0"), Before("any", "H0"))
      <4> DEFINE f == Both("any", "H0")
      <4>1. f \in [Domains -> Positions] /\ f[A] = "any" /\ [f EXCEPT ![A] = "any"] = f
        <5>1. "H0" \in Positions /\ "any" \in Positions
          BY DEF Positions
        <5>2. QED
          BY <5>1, BothIs
      <4> HIDE DEF f
      <4>2. Leads(Ins("await", A, "arm_receipt"), At("open_for_H0", "H0", "unseen", f),
                  At("open_for_H0", "H0", "unseen", [f EXCEPT ![A] = IF f[A] = "asked" THEN "harmless" ELSE f[A]]))
        BY <1>1, <4>1, HearsArm
      <4>3. (IF f[A] = "asked" THEN "harmless" ELSE f[A]) = "any"
        BY <4>1
      <4>4. QED
        BY <4>1, <4>2, <4>3 DEF f, Before
    <3>5. Leads(Arm(plan), Before("H0", "H0"), Before("any", "H0"))
      BY <3>3, <3>4, LeadsOn DEF Arm
    <3> HIDE DEF q, s, z
    <3>6. Leads(p1, N, Before("H0", "H0"))
      BY <1>4, <3>2, LeadsOn
    <3>7. QED
      BY <3>5, <3>6, LeadsOn, AtIn, EndsAt DEF Before
  <2>2. CASE h # "H0"
    <3> DEFINE q1 == AcceptLaunch(A) \o AcceptLaunch(B)
               q2 == q1 \o AdvanceToH1
               q3 == q2 \o Ins("stage", A, "exact")
               q4 == q3 \o Ins("send", A, "refresh")
    <3>1. q = q4 \o r
      BY <2>2
    <3>2. Leads(q1, N, Before("H0", "H0"))
      BY BothLaunched DEF Before
    <3>3. Leads(Ins("stage", A, "exact"), Opened("H0", "H0"), Opened("exact", "H0"))
      <4> DEFINE s == Both("H0", "H0")
      <4>1. s \in [Domains -> Positions] /\ s[A] = "H0" /\ [s EXCEPT ![A] = "exact"] = Both("exact", "H0")
        <5>1. "H0" \in Positions /\ "exact" \in Positions
          BY DEF Positions
        <5>2. QED
          BY <5>1, BothIs
      <4> HIDE DEF s
      <4>2. QED
        BY <1>1, <4>1, Stages DEF Opened, s
    <3>4. Leads(Arm(plan), Opened("H1", "H0"), Opened("any", "H0"))
      BY <1>1, OpenedSteps, LeadsOn DEF Arm
    <3> HIDE DEF q, q1, r
    <3>5. Leads(q2, N, Opened("H0", "H0"))
      BY <3>2, AdvancesToH1, LeadsOn DEF Before, Opened
    <3> HIDE DEF q2
    <3>6. Leads(q3, N, Opened("exact", "H0"))
      BY <3>3, <3>5, LeadsOn
    <3> HIDE DEF q3
    <3>7. Leads(q4, N, Opened("sent", "H0"))
      BY <3>6, OpenedSteps, LeadsOn
    <3> HIDE DEF q4
    <3>8. Leads(q, N, Opened("H1", "H0"))
      BY <3>1, <3>7, OpenedSteps, LeadsOn DEF r
    <3>9. Leads(p1, N, Opened("H1", "H0"))
      BY <1>4, <3>8, LeadsOn
    <3>10. QED
      BY <3>4, <3>9, LeadsOn, OpenedIn, EndsAt
  <2>3. QED
    BY <2>1, <2>2
<1> HIDE DEF N, c, o, p2
<1>6. Ends(p3)
  BY <1>2, <1>5, InspectionStill, EndsStill
<1> HIDE DEF p3
<1>7. Ends(p4)
  BY <1>2, <1>6, InspectionStill, EndsStill
<1> HIDE DEF p4
<1>8. Ends(p5)
  BY <1>1, <1>7, QuietOps, EndsStill
<1> HIDE DEF p5
<1>9. QED
  BY <1>1, <1>3, <1>8, QuietOps, EndsStill

\* The program without processes: the fault strikes somewhere in the publication.
LEMMA HeadObservationFaultEnds ==
  ASSUME NEW step \in {"none"} \cup {PublicationSteps[i] : i \in 1..Len(PublicationSteps)}
  PROVE  Ends(HeadObservationFault(step))
<1> DEFINE Stops(m) == IF step = "none" THEN m = 0 ELSE m > 0 /\ PublicationSteps[m] = step
           n == CHOOSE m \in 0..Len(PublicationSteps) : Stops(m)
           b == Both("new", "new")
           N == Before("new", "new")
           p1 == Do("close") \o Do("commit")
           p2 == p1 \o SubSeq(Publish, 1, n)
           p3 == p2 \o Do("fail_closed")
<1>1. n \in 0..7
  <2>1. Len(PublicationSteps) = 7
    BY PublishSteps
  <2>2. \E m \in 0..7 : Stops(m)
    <3>1. CASE step = "none"
      BY <3>1
    <3>2. CASE step # "none"
      <4>1. PICK i \in 1..7 : step = PublicationSteps[i]
        BY <2>1, <3>2
      <4>2. i \in 0..7 /\ Stops(i)
        BY <3>2, <4>1
      <4>3. QED
        BY <4>2
    <3>3. QED
      BY <3>1, <3>2
  <2> HIDE DEF Stops
  <2>3. n \in 0..7 /\ Stops(n)
    BY <2>1, <2>2
  <2>4. QED
    BY <2>3
<1>2. HeadObservationFault(step) = p3 \o Conclude("head_unconfirmed")
  BY DEF HeadObservationFault
<1> HIDE DEF n
<1>3. \A d \in Domains : b[d] \in {"new", "H0"}
  BY DEF Both
<1>4. N = At("open_for_H0", "H0", "unseen", b)
  BY DEF Before
<1>5. \A g, h, o : Leads(Conclude("head_unconfirmed"), At(g, h, o, b), Views)
  BY ConcludesBoth, AtIn, LeadsOut DEF Keeping
<1> HIDE DEF b, N
<1>6. Leads(p1, N, At("closed_for_H0_to_H1", "H1", "unseen", b))
  BY <1>4, Closes, Commits, LeadsOn
<1> HIDE DEF p1
<1>7. Leads(p2, N, At("closed_for_H0_to_H1", "H1", Seen(n), b))
  BY <1>1, <1>6, Publishes, LeadsOn
<1> HIDE DEF p2
<1>8. Leads(p3, N, At("failed_closed", "H1", Seen(n), b))
  BY <1>3, <1>7, FailsClosed, LeadsOn
<1> HIDE DEF p3
<1>9. QED
  BY <1>2, <1>5, <1>8, LeadsOn DEF Ends, N

LEMMA AttackEnds ==
  ASSUME NEW kind \in {"malformed_launch", "before_observation", "second_refresh", "malformed_refresh"}
  PROVE  Ends(Attack(kind))
<1> DEFINE N == Before("new", "new")
           q1 == ReceiveLaunch(A) \o AcceptLaunch(B) \o Ins("send", A, "malformed") \o Ins("await", A, "failure")
           l == AcceptLaunch(A) \o AcceptLaunch(B)
           q2 == l \o Do("close") \o Do("commit") \o Ins("refused", A, "none")
           e == l \o AdvanceToH1 \o Ins("stage", A, "exact")
           q3 == e \o Ins("send", A, "refresh") \o Ins("await", A, "receipt_H1")
                   \o Ins("send", A, "refresh") \o Ins("await", A, "failure")
           q4 == e \o Ins("send", A, "malformed") \o Ins("await", A, "failure")
           q == CASE kind = "malformed_launch" -> q1
                  [] kind = "before_observation" -> q2
                  [] kind = "second_refresh" -> q3
                  [] kind = "malformed_refresh" -> q4
           p == LaunchPair \o q
<1>1. /\ A \in Domains /\ B \in Domains
      /\ Still(Ins("send", A, "malformed")) /\ Still(Ins("await", A, "failure")) /\ Still(Ins("refused", A, "none"))
      /\ Still(Ins("alive", A, "none")) /\ Still(Ins("alive", B, "none"))
  BY QuietOps, RolesAreDomains
<1>2. Leads(LaunchPair, N, N)
  BY LaunchPairStill, StillAt DEF Before
<1>3. Attack(kind) = p \o Ins("alive", A, "none") \o Ins("alive", B, "none")
  BY DEF Attack
<1>4. Leads(q1, N, Views)
  <2> DEFINE p1 == ReceiveLaunch(A) \o AcceptLaunch(B)
  <2>1. Leads(p1, N, Before("H0", "H0"))
    BY BothLaunched DEF Before
  <2> HIDE DEF p1
  <2>2. Leads(p1, N, Views)
    BY <2>1, LeadsOut, AtIn DEF Before
  <2>3. Leads(p1 \o Ins("send", A, "malformed"), N, Views)
    BY <1>1, <2>2, LeadsStill
  <2>4. Leads(p1 \o Ins("send", A, "malformed") \o Ins("await", A, "failure"), N, Views)
    BY <1>1, <2>3, LeadsStill
  <2>5. QED
    BY <2>4 DEF p1
<1>5. Leads(l, N, Before("H0", "H0"))
  BY BothLaunched DEF Before
<1> HIDE DEF l
<1>6. Leads(q2, N, Views)
  <2>1. Leads(l \o Do("close"), N, At("closed_for_H0_to_H1", "H0", "unseen", Both("H0", "H0")))
    BY <1>5, Closes, LeadsOn DEF Before
  <2>2. Leads(l \o Do("close") \o Do("commit"), N, At("closed_for_H0_to_H1", "H1", "unseen", Both("H0", "H0")))
    BY <2>1, Commits, LeadsOn
  <2>3. Leads(l \o Do("close") \o Do("commit"), N, Views)
    BY <2>2, LeadsOut, AtIn
  <2>4. QED
    BY <1>1, <2>3, LeadsStill
<1>7. Leads(e, N, Opened("exact", "H0"))
  <2>1. Leads(l \o AdvanceToH1, N, Opened("H0", "H0"))
    BY <1>5, AdvancesToH1, LeadsOn DEF Before, Opened
  <2>2. Leads(Ins("stage", A, "exact"), Opened("H0", "H0"), Opened("exact", "H0"))
    <3> DEFINE s == Both("H0", "H0")
    <3>1. s \in [Domains -> Positions] /\ s[A] = "H0" /\ [s EXCEPT ![A] = "exact"] = Both("exact", "H0")
      <4>1. "H0" \in Positions /\ "exact" \in Positions
        BY DEF Positions
      <4>2. QED
        BY <4>1, BothIs
    <3> HIDE DEF s
    <3>2. QED
      BY <1>1, <3>1, Stages DEF Opened, s
  <2>3. QED
    BY <2>1, <2>2, LeadsOn
<1> HIDE DEF e
<1>8. Leads(q3, N, Views)
  <2> DEFINE p1 == e \o Ins("send", A, "refresh")
             p2 == p1 \o Ins("await", A, "receipt_H1")
             p3 == p2 \o Ins("send", A, "refresh")
  <2>1. Leads(p1, N, Opened("sent", "H0"))
    BY <1>7, OpenedSteps, LeadsOn
  <2> HIDE DEF p1
  <2>2. Leads(p2, N, Opened("H1", "H0"))
    BY <2>1, OpenedSteps, LeadsOn
  <2> HIDE DEF p2
  <2>3. Leads(p3, N, Opened("H1", "H0"))
    BY <2>2, OpenedSteps, LeadsOn
  <2>4. Leads(p3, N, Views)
    BY <2>3, LeadsOut, OpenedIn
  <2> HIDE DEF p3
  <2>5. Leads(p3 \o Ins("await", A, "failure"), N, Views)
    BY <1>1, <2>4, LeadsStill
  <2>6. QED
    BY <2>5 DEF p3, p2, p1
<1>9. Leads(q4, N, Views)
  <2>1. Leads(e, N, Views)
    BY <1>7, LeadsOut, OpenedIn
  <2>2. Leads(e \o Ins("send", A, "malformed"), N, Views)
    BY <1>1, <2>1, LeadsStill
  <2>3. QED
    BY <1>1, <2>2, LeadsStill
<1>10. Leads(q, N, Views)
  <2> HIDE DEF q1, q2, q3, q4, N
  <2>1. CASE kind = "malformed_launch"
    BY <1>4, <2>1
  <2>2. CASE kind = "before_observation"
    BY <1>6, <2>2
  <2>3. CASE kind = "second_refresh"
    BY <1>8, <2>3
  <2>4. CASE kind = "malformed_refresh"
    BY <1>9, <2>4
  <2>5. QED
    BY <2>1, <2>2, <2>3, <2>4
<1> HIDE DEF q, q1, q2, q3, q4
<1>11. Ends(p)
  BY <1>2, <1>10, LeadsOn DEF Ends
<1> HIDE DEF p
<1>12. Ends(p \o Ins("alive", A, "none"))
  BY <1>1, <1>11, EndsStill
<1>13. QED
  BY <1>1, <1>3, <1>12, EndsStill

LEMMA BeginningIs == Beginning \in Views /\ Beginning \in Before("new", "new")
<1>1. Beginning \in Views
  BY DEF Beginning, Views, Heads
<1>2. \A d \in Domains : Both("new", "new")[d] = "new" /\ Is(Beginning, d, "new")
  BY DEF Both, Is, Beginning
<1>3. QED
  BY <1>1, <1>2 DEF Before, At, Beginning

LEMMA ProgramEnds == ASSUME NEW c \in AllCases PROVE Ends(Program(c))
<1>1. Still(Do("evidence")) /\ A \in Domains /\ B \in Domains
  BY QuietOps, RolesAreDomains
<1>2. CASE c \in WitnessCases
  <2>1. /\ c.kind = "witness"
        /\ c.arg \in {"w1_a_then_b", "w2_b_then_a", "w3_stale_quarantine", "w4_head_observation_failure",
                      "w5_retention", "w6_asymmetric_a", "w6_asymmetric_b", "w7_destroy_a",
                      "w7_destroy_b", "w8_guard_open_control"}
    BY <1>2 DEF WitnessCases, Case
  <2>2. Program(c) = Witness(c.arg) \o Do("evidence")
    BY <2>1 DEF Program
  <2>3. QED
    BY <1>1, <2>1, <2>2, WitnessEnds, EndsStill
<1>3. CASE c \in Case("refresh_fault", RefreshPlans, {"none"})
  <2>1. c.kind = "refresh_fault" /\ c.arg \in RefreshPlans
    BY <1>3 DEF Case
  <2>2. Program(c) = RefreshFault(c.arg) \o Do("evidence")
    BY <2>1 DEF Program
  <2>3. QED
    BY <1>1, <2>1, <2>2, RefreshFaultEnds, EndsStill
<1>4. CASE c \in Case("observation_fault", ObservationPlans, Heads)
  <2>1. c.kind = "observation_fault" /\ c.arg \in ObservationPlans /\ c.at \in Heads
    BY <1>4 DEF Case
  <2>2. Program(c) = ObservationFault(c.arg, c.at) \o Do("evidence")
    BY <2>1 DEF Program
  <2>3. QED
    BY <1>1, <2>1, <2>2, ObservationFaultEnds, EndsStill
<1>5. CASE c \in Case("head_observation_fault",
                       {"none"} \cup {PublicationSteps[i] : i \in 1..Len(PublicationSteps)}, {"none"})
  <2>1. /\ c.kind = "head_observation_fault"
        /\ c.arg \in {"none"} \cup {PublicationSteps[i] : i \in 1..Len(PublicationSteps)}
    BY <1>5 DEF Case
  <2>2. Program(c) = HeadObservationFault(c.arg)
    BY <2>1 DEF Program
  <2>3. QED
    BY <2>1, <2>2, HeadObservationFaultEnds
<1>6. CASE c \in Case("attack", {"malformed_launch", "before_observation", "second_refresh",
                                  "malformed_refresh"}, {"none"})
  <2>1. /\ c.kind = "attack"
        /\ c.arg \in {"malformed_launch", "before_observation", "second_refresh", "malformed_refresh"}
    BY <1>6 DEF Case
  <2>2. Program(c) = Attack(c.arg) \o Do("evidence")
    BY <2>1 DEF Program
  <2>3. QED
    BY <1>1, <2>1, <2>2, AttackEnds, EndsStill
<1>7. CASE c \in Case("binding_adversary", {"any_field"}, {"none"})
  <2>1. c.kind = "binding_adversary"
    BY <1>7 DEF Case
  <2>2. Program(c) = Launch(A, "bind_mutated") \o Ins("await", A, "failure")
    BY <2>1 DEF Program
  <2>3. Still(Launch(A, "bind_mutated") \o Ins("await", A, "failure"))
    BY <1>1, LaunchStill, QuietOps, StillOn
  <2>4. QED
    BY <2>2, <2>3, StillAt, AtIn, EndsAt DEF Before
<1>8. QED
  BY <1>2, <1>3, <1>4, <1>5, <1>6, <1>7 DEF AllCases, FaultCases, AttackCases

\* Every program keeps its order, from its beginning.
LEMMA ProgramRuns ==
  ASSUME NEW c \in Cases
  PROVE  \E w \in Views : Runs(Program(c), Beginning, w)
  BY ProgramEnds, BeginningIs, CasesAssumption DEF Ends, Leads

-----------------------------------------------------------------------------
(* Queues *)

Carries(s, S) == \E i \in DOMAIN s : s[i] \in S
Alone(s, x) == \A i, j \in DOMAIN s : s[i] = x /\ s[j] = x => i = j

LEMMA CarriesAppended ==
  ASSUME NEW T, NEW s \in Seq(T), NEW x \in T, NEW S
  PROVE  Append(s, x) \in Seq(T) /\ (Carries(Append(s, x), S) => Carries(s, S) \/ x \in S)
<1> DEFINE q == Append(s, x)
<1>1. /\ q \in Seq(T) /\ DOMAIN q = 1 .. Len(s) + 1 /\ DOMAIN s = 1 .. Len(s) /\ Len(s) \in Nat
      /\ q[Len(s) + 1] = x /\ \A i \in 1 .. Len(s) : q[i] = s[i]
  OBVIOUS
<1> HIDE DEF q
<1>2. ASSUME NEW i \in DOMAIN q, q[i] \in S PROVE Carries(s, S) \/ x \in S
  <2>1. CASE i \in 1 .. Len(s)
    BY <1>1, <1>2, <2>1 DEF Carries
  <2>2. CASE i = Len(s) + 1
    BY <1>1, <1>2, <2>2
  <2>3. QED
    BY <1>1, <2>1, <2>2
<1>3. QED
  BY <1>1, <1>2 DEF Carries, q

LEMMA CarriesTaken ==
  ASSUME NEW T, NEW s \in Seq(T), s # <<>>, NEW S
  PROVE  /\ Head(s) \in T /\ Tail(s) \in Seq(T) /\ (Carries(Tail(s), S) => Carries(s, S))
         /\ Head(s) \in S => Carries(s, S)
<1> DEFINE q == Tail(s)
<1>1. /\ q \in Seq(T) /\ Len(s) \in Nat /\ Len(s) >= 1 /\ Len(q) = Len(s) - 1 /\ Head(s) = s[1]
      /\ \A i \in 1 .. Len(q) : q[i] = s[i + 1]
  OBVIOUS
<1>2. 1 \in DOMAIN s /\ \A i \in 1 .. Len(q) : i + 1 \in DOMAIN s
  BY <1>1
<1>3. DOMAIN q = 1 .. Len(q)
  BY <1>1
<1> HIDE DEF q
<1>4. Carries(q, S) => Carries(s, S)
  BY <1>1, <1>2, <1>3 DEF Carries
<1>5. Head(s) \in S => Carries(s, S)
  BY <1>1, <1>2 DEF Carries
<1>6. Head(s) \in T
  OBVIOUS
<1>7. QED
  BY <1>1, <1>4, <1>5, <1>6 DEF q

LEMMA CarriesJoined ==
  ASSUME NEW T, NEW s \in Seq(T), NEW t \in Seq(T)
  PROVE  /\ s \o t \in Seq(T)
         /\ \A S : Carries(s \o t, S) => Carries(s, S) \/ Carries(t, S)
         /\ \A x : Alone(s, x) /\ Alone(t, x) /\ ~(Carries(s, {x}) /\ Carries(t, {x})) => Alone(s \o t, x)
<1> DEFINE q == s \o t
           n == Len(s)
<1>1. /\ q \in Seq(T) /\ n \in Nat /\ DOMAIN s = 1 .. n
      /\ \A i \in DOMAIN q : (i \in DOMAIN s /\ q[i] = s[i]) \/ (i - n \in DOMAIN t /\ q[i] = t[i - n])
      /\ \A i \in DOMAIN q : i \in Nat
  <2>1. /\ q \in Seq(T) /\ Len(q) = n + Len(t) /\ n \in Nat /\ Len(t) \in Nat
        /\ DOMAIN s = 1 .. n /\ DOMAIN t = 1 .. Len(t) /\ DOMAIN q = 1 .. Len(q)
    OBVIOUS
  <2>2. \A i \in 1 .. n + Len(t) : q[i] = IF i <= n THEN s[i] ELSE t[i - n]
    BY ConcatProperties
  <2> HIDE DEF q, n
  <2>3. \A i \in DOMAIN q : i \in Nat
    BY <2>1
  <2>4. \A i \in DOMAIN q : (i \in DOMAIN s /\ q[i] = s[i]) \/ (i - n \in DOMAIN t /\ q[i] = t[i - n])
    <3> SUFFICES ASSUME NEW i \in DOMAIN q
                 PROVE  (i \in DOMAIN s /\ q[i] = s[i]) \/ (i - n \in DOMAIN t /\ q[i] = t[i - n])
      OBVIOUS
    <3>1. i \in 1 .. n + Len(t)
      BY <2>1
    <3>2. q[i] = IF i <= n THEN s[i] ELSE t[i - n]
      BY <2>2, <3>1
    <3>3. CASE i <= n
      <4>1. i \in 1 .. n
        BY <2>1, <3>1, <3>3
      <4>2. q[i] = s[i]
        BY <3>2, <3>3
      <4>3. i \in DOMAIN s
        BY <2>1, <4>1
      <4>4. QED
        BY <4>2, <4>3
    <3>4. CASE ~(i <= n)
      <4>1. i - n \in 1 .. Len(t)
        BY <2>1, <3>1, <3>4
      <4>2. QED
        BY <2>1, <3>2, <3>4, <4>1
    <3>5. QED
      BY <3>3, <3>4
  <2>5. QED
    BY <2>1, <2>3, <2>4
<1> HIDE DEF q, n
<1>2. ASSUME NEW S, Carries(q, S) PROVE Carries(s, S) \/ Carries(t, S)
  BY <1>1, <1>2 DEF Carries
<1>3. ASSUME NEW x, Alone(s, x), Alone(t, x), ~(Carries(s, {x}) /\ Carries(t, {x})),
             NEW i \in DOMAIN q, NEW j \in DOMAIN q, q[i] = x, q[j] = x
      PROVE  i = j
  <2>1. \A k \in DOMAIN q : q[k] = x =>
          \/ k \in DOMAIN s /\ s[k] = x /\ Carries(s, {x})
          \/ k - n \in DOMAIN t /\ t[k - n] = x /\ Carries(t, {x})
    BY <1>1 DEF Carries
  <2>2. CASE Carries(s, {x})
    BY <1>3, <2>1, <2>2 DEF Alone
  <2>3. CASE ~Carries(s, {x})
    <3>1. i - n \in DOMAIN t /\ t[i - n] = x /\ j - n \in DOMAIN t /\ t[j - n] = x
      BY <1>3, <2>1, <2>3
    <3>2. i - n = j - n
      BY <1>3, <3>1 DEF Alone
    <3>3. QED
      BY <1>1, <3>2
  <2>4. QED
    BY <2>2, <2>3
<1>4. \A x : Alone(s, x) /\ Alone(t, x) /\ ~(Carries(s, {x}) /\ Carries(t, {x})) => Alone(q, x)
  BY <1>3 DEF Alone
<1>5. QED
  BY <1>1, <1>2, <1>4 DEF q

\* next_object takes one object out of the list, the first its predicate admits.
LEMMA FirstIsOne ==
  ASSUME NEW S, S \subseteq Nat, S # {}
  PROVE  First(S) \in S
<1>1. \E i \in S : \A j \in S : ~(<<j, i>> \in OpToRel(<, Nat))
  BY WFMin, NatLessThanWellFounded, Zenon
<1>2. \A i, j \in Nat : j < i => <<j, i>> \in OpToRel(<, Nat)
  BY Zenon DEF OpToRel
<1>3. \E i \in S : \A j \in S : ~(j < i)
  BY <1>1, <1>2, Zenon
<1>4. \E i \in S : \A j \in S : i <= j
  BY <1>3
<1>5. QED
  BY <1>4 DEF First

LEMMA Taken ==
  ASSUME NEW q \in Seq(Objects), NEW i \in DOMAIN q
  PROVE  /\ Without(q, i) \in Seq(Objects)
         /\ \A j \in DOMAIN Without(q, i) :
              LET k == IF j < i THEN j ELSE j + 1 IN k \in DOMAIN q \ {i} /\ Without(q, i)[j] = q[k]
<1> DEFINE n == Len(q)
           x == SubSeq(q, 1, i - 1)
           y == SubSeq(q, i + 1, n)
<1>1. n \in Nat /\ i \in 1..n /\ DOMAIN q = 1..n /\ \A k \in 1..n : q[k] \in Objects
  OBVIOUS
<1>2. /\ x \in Seq(Objects) /\ Len(x) = i - 1
      /\ \A k \in 1 .. i - 1 : x[k] = q[k]
  <2>1. \A k \in 1 .. i - 1 : q[k] \in Objects
    BY <1>1
  <2>2. 1 \in Int /\ i - 1 \in Int
    BY <1>1
  <2>3. /\ x \in Seq(Objects)
        /\ Len(x) = IF 1 <= i - 1 THEN i - 1 - 1 + 1 ELSE 0
        /\ \A k \in 1 .. i - 1 - 1 + 1 : x[k] = q[1 + k - 1]
    BY <2>1, <2>2, SubSeqProperties
  <2> HIDE DEF x
  <2>4. QED
    BY <1>1, <2>3
<1>3. /\ y \in Seq(Objects) /\ Len(y) = n - i
      /\ \A k \in 1 .. n - i : y[k] = q[i + k]
  <2>1. \A k \in i + 1 .. n : q[k] \in Objects
    BY <1>1
  <2>2. i + 1 \in Int /\ n \in Int
    BY <1>1
  <2>3. /\ y \in Seq(Objects)
        /\ Len(y) = IF i + 1 <= n THEN n - (i + 1) + 1 ELSE 0
        /\ \A k \in 1 .. n - (i + 1) + 1 : y[k] = q[(i + 1) + k - 1]
    BY <2>1, <2>2, SubSeqProperties
  <2> HIDE DEF y, n
  <2>4. Len(y) = n - i
    BY <1>1, <2>3
  <2>5. \A k \in 1 .. n - i : y[k] = q[i + k]
    <3>1. \A k \in 1 .. n - i : k \in 1 .. n - (i + 1) + 1 /\ (i + 1) + k - 1 = i + k
      BY <1>1
    <3>2. QED
      BY <2>3, <3>1
  <2>6. QED
    BY <2>3, <2>4, <2>5
<1>4. Without(q, i) = x \o y
  BY DEF Without
<1> HIDE DEF x, y, n
<1>5. /\ x \o y \in Seq(Objects) /\ DOMAIN (x \o y) = 1 .. n - 1
      /\ \A j \in 1 .. n - 1 : (x \o y)[j] = IF j <= i - 1 THEN x[j] ELSE y[j - (i - 1)]
  <2>1. /\ x \o y \in Seq(Objects) /\ Len(x \o y) = Len(x) + Len(y)
        /\ \A j \in 1 .. Len(x) + Len(y) : (x \o y)[j] = IF j <= Len(x) THEN x[j] ELSE y[j - Len(x)]
    BY <1>2, <1>3, ConcatProperties
  <2>2. Len(x) = i - 1 /\ Len(x) + Len(y) = n - 1
    <3>1. n \in Nat /\ i \in Nat
      BY <1>1
    <3>2. QED
      BY <1>2, <1>3, <3>1
  <2>3. DOMAIN (x \o y) = 1 .. Len(x \o y)
    BY <2>1
  <2>4. QED
    BY <2>1, <2>2, <2>3
<1>6. ASSUME NEW j \in DOMAIN (x \o y)
      PROVE  LET k == IF j < i THEN j ELSE j + 1 IN k \in DOMAIN q \ {i} /\ (x \o y)[j] = q[k]
  <2>1. j \in 1 .. n - 1
    BY <1>5
  <2>2. CASE j <= i - 1
    <3>1. (x \o y)[j] = x[j] /\ x[j] = q[j] /\ j \in DOMAIN q /\ j < i
      BY <1>1, <1>2, <1>5, <2>1, <2>2
    <3>2. QED
      BY <1>1, <3>1
  <2>3. CASE ~(j <= i - 1)
    <3>1. j - (i - 1) \in 1 .. n - i /\ ~(j < i) /\ i + (j - (i - 1)) = j + 1 /\ j + 1 # i /\ j + 1 \in 1..n
      BY <1>1, <2>1, <2>3
    <3>2. (x \o y)[j] = y[j - (i - 1)]
      BY <1>5, <2>1, <2>3
    <3>3. y[j - (i - 1)] = q[j + 1] /\ j + 1 \in DOMAIN q
      BY <1>1, <1>3, <3>1
    <3>4. QED
      BY <3>1, <3>2, <3>3
  <2>4. QED
    BY <2>2, <2>3
<1>7. QED
  BY <1>4, <1>5, <1>6

\* What is left of a queue was in it, and the object taken is gone if it was there once.
LEMMA TakenLeaves ==
  ASSUME NEW q \in Seq(Objects), NEW i \in DOMAIN q
  PROVE  /\ Without(q, i) \in Seq(Objects)
         /\ \A S : Carries(Without(q, i), S) => Carries(q, S)
         /\ \A x : Alone(q, x) => Alone(Without(q, i), x)
         /\ \A x : Alone(q, x) /\ q[i] = x => ~Carries(Without(q, i), {x})
<1> DEFINE r == Without(q, i)
           K(j) == IF j < i THEN j ELSE j + 1
<1>1. /\ r \in Seq(Objects) /\ i \in Nat /\ \A j \in DOMAIN r : j \in Nat
      /\ \A j \in DOMAIN r : K(j) \in DOMAIN q \ {i} /\ r[j] = q[K(j)]
  <2>1. r \in Seq(Objects) /\ \A j \in DOMAIN r : K(j) \in DOMAIN q \ {i} /\ r[j] = q[K(j)]
    BY Taken
  <2> HIDE DEF r
  <2>2. \A j \in DOMAIN r : j \in Nat
    BY <2>1
  <2>3. QED
    BY <2>1, <2>2
<1> HIDE DEF r
<1>2. \A j, k \in DOMAIN r : K(j) = K(k) => j = k
  BY <1>1
<1> HIDE DEF K
<1>3. \A S : Carries(r, S) => Carries(q, S)
  BY <1>1 DEF Carries
<1>4. \A x : Alone(q, x) => Alone(r, x)
  BY <1>1, <1>2 DEF Alone
<1>5. \A x : Alone(q, x) /\ q[i] = x => ~Carries(r, {x})
  BY <1>1 DEF Alone, Carries
<1>6. QED
  BY <1>1, <1>3, <1>4, <1>5 DEF r

-----------------------------------------------------------------------------
(* One line of a process *)

\* A process shows the route of what it represents, and represents something once bound.
Body(p) ==
  /\ p.bound <=> p.represented # "none"
  /\ p.shown = CASE p.represented = "none" -> "none"
                 [] p.represented = "H0" -> "available"
                 [] OTHER -> "blocked"

\* The same but for what the harness has to know nothing of.
Alike(p, q) ==
  /\ q \in Processes /\ q.life = p.life /\ q.bound = p.bound /\ q.plan = p.plan
  /\ q.represented = p.represented /\ q.shown = p.shown

Quietly(d, q, t) ==
  /\ Emit(d, q, t) /\ Alike(proc[d], q) /\ t \in Seq(Objects)
  /\ ~Carries(t, {"receipt_H0"}) /\ ~Carries(t, {"receipt_H1"}) /\ ~Carries(t, {"arm_receipt"})

ArmedBy(d, q, t) ==
  /\ Emit(d, q, t) /\ t = <<"arm_receipt">> /\ Head(control[d]) \in Plans
  /\ q \in Processes /\ q.life = proc[d].life /\ q.bound = proc[d].bound
  /\ q.represented = proc[d].represented /\ q.shown = proc[d].shown /\ q.plan = Head(control[d])

BoundBy(d, q, t) ==
  /\ Emit(d, q, t) /\ t = <<"provenance", "receipt_H0">> /\ ~proc[d].bound
  /\ q \in Processes /\ q.life = proc[d].life /\ q.bound
  /\ q.represented = "H0" /\ q.shown = "available" /\ q.plan = proc[d].plan

PublishedBy(d, q, t) ==
  /\ Emit(d, q, t) /\ t \in Seq(Objects) /\ Head(control[d]) = "refresh"
  /\ ~Carries(t, {"receipt_H0"}) /\ ~Carries(t, {"arm_receipt"})
  /\ proc[d].bound /\ proc[d].represented = "H0" /\ bundle[d] = "exact" /\ proc[d].plan \notin Harmless
  /\ q \in Processes /\ q.life = proc[d].life /\ q.bound
  /\ q.represented = "H1" /\ q.shown = "blocked" /\ q.plan = proc[d].plan

Answered(d) ==
  \E q, t : Quietly(d, q, t) \/ ArmedBy(d, q, t) \/ BoundBy(d, q, t) \/ PublishedBy(d, q, t)

LEMMA OneObject ==
  ASSUME NEW o \in Objects
  PROVE  /\ <<o>> \in Seq(Objects) /\ \A x : x # o => ~Carries(<<o>>, {x})
         /\ \A x : Alone(<<o>>, x)
  BY DEF Carries, Alone

LEMMA QuietObject ==
  ASSUME NEW d, NEW q, NEW o \in Objects \ {"receipt_H0", "receipt_H1", "arm_receipt"},
         Emit(d, q, <<o>>), Alike(proc[d], q)
  PROVE  Answered(d)
<1> DEFINE t == <<o>>
<1>1. t \in Seq(Objects) /\ \A x : x # o => ~Carries(t, {x})
  BY OneObject
<1>2. Emit(d, q, t)
  OBVIOUS
<1> HIDE DEF t
<1>3. ~Carries(t, {"receipt_H0"}) /\ ~Carries(t, {"receipt_H1"}) /\ ~Carries(t, {"arm_receipt"})
  BY <1>1
<1>4. QED
  BY <1>1, <1>2, <1>3 DEF Answered, Quietly

LEMMA FailQuiet == ASSUME NEW d, proc[d] \in Processes, Fail(d) PROVE Answered(d)
<1> DEFINE q == [proc[d] EXCEPT !.failed = TRUE]
<1>1. Emit(d, q, <<"failure">>) /\ "failure" \in Objects \ {"receipt_H0", "receipt_H1", "arm_receipt"}
  BY DEF Fail, Objects
<1>2. Alike(proc[d], q)
  BY DEF Alike, Processes
<1> HIDE DEF q
<1>3. QED
  BY <1>1, <1>2, QuietObject

LEMMA InjectQuiet ==
  ASSUME NEW d, NEW p, proc[d] \in Processes, Alike(proc[d], p), Inject(d, p)
  PROVE  Answered(d)
<1> DEFINE q == [p EXCEPT !.failed = TRUE]
<1>1. Emit(d, q, <<"fault_result">>) /\ "fault_result" \in Objects \ {"receipt_H0", "receipt_H1", "arm_receipt"}
  BY DEF Inject, Objects
<1>2. Alike(proc[d], q)
  BY DEF Alike, Processes
<1> HIDE DEF q
<1>3. QED
  BY <1>1, <1>2, QuietObject

LEMMA RefreshAnswered ==
  ASSUME NEW d, proc[d] \in Processes, FaultPublishedRefresh(d) \/ RefreshOnce(d)
  PROVE  Answered(d)
<1> DEFINE p == proc[d]
           q == Refreshed(p)
           f == [Refreshed(p) EXCEPT !.failed = TRUE]
<1>1. /\ Head(control[d]) = "refresh" /\ p.bound /\ p.represented = "H0" /\ bundle[d] = "exact"
      /\ p.plan \notin Harmless
  BY DEF FaultPublishedRefresh, RefreshOnce, Operates, Takes, AdapterReady, RefreshPlans, Harmless
<1>2. /\ q \in Processes /\ q.life = p.life /\ q.bound = p.bound /\ q.represented = "H1"
      /\ q.shown = "blocked" /\ q.plan = p.plan
  BY DEF Refreshed, Published, Processes, Heads
<1>3. /\ f \in Processes /\ f.life = p.life /\ f.bound = p.bound /\ f.represented = "H1"
      /\ f.shown = "blocked" /\ f.plan = p.plan
  BY DEF Refreshed, Published, Processes, Heads
<1>4. PICK r \in {q, f}, t \in {<<"fault_result">>, <<"receipt_H1", "fault_result">>,
                                <<"receipt_H1">>, <<"receipt_H1", "retention">>} : Emit(d, r, t)
  <2>1. \/ Emit(d, f, <<"fault_result">>)
        \/ Emit(d, f, <<"receipt_H1", "fault_result">>)
        \/ Emit(d, q, <<"receipt_H1">>)
        \/ Emit(d, q, <<"receipt_H1", "retention">>)
    BY DEF FaultPublishedRefresh, RefreshOnce, Inject
  <2> HIDE DEF q, f
  <2>2. QED
    BY <2>1
<1>5. t \in Seq(Objects) /\ ~Carries(t, {"receipt_H0"}) /\ ~Carries(t, {"arm_receipt"})
  <2>1. CASE t = <<"fault_result">>
    BY <2>1 DEF Carries, Objects
  <2>2. CASE t = <<"receipt_H1", "fault_result">>
    BY <2>2 DEF Carries, Objects
  <2>3. CASE t = <<"receipt_H1">>
    BY <2>3 DEF Carries, Objects
  <2>4. CASE t = <<"receipt_H1", "retention">>
    BY <2>4 DEF Carries, Objects
  <2>5. QED
    BY <1>4, <2>1, <2>2, <2>3, <2>4
<1> HIDE DEF q, f
<1>6. PublishedBy(d, r, t)
  BY <1>1, <1>2, <1>3, <1>4, <1>5 DEF PublishedBy
<1>7. QED
  BY <1>6 DEF Answered

\* Whatever the line, one of four things happens to what is said of the process.
LEMMA LineAnswered ==
  ASSUME NEW d, proc[d] \in Processes, Body(proc[d]), HandleLine(d)
  PROVE  Answered(d) /\ control[d] # <<>>
<1> DEFINE p == proc[d]
           T == Objects \ {"receipt_H0", "receipt_H1", "arm_receipt"}
<1>1. control[d] # <<>>
  BY DEF HandleLine, RejectAfterFailure, RejectUnbound, AcceptBinding, RejectUnknown,
         AcceptFaultArm, RejectFaultArm, ExecuteNonconsequentialStepOnce, InspectPublishedRoute,
         FaultInspection, RejectInspection, RejectRefreshOrder, RejectRefreshBundle,
         FaultUnpublishedRefresh, FaultPublishedRefresh, RefreshOnce, Operates, Takes
<1>2. CASE RejectUnbound(d) \/ RejectUnknown(d) \/ RejectFaultArm(d) \/ RejectInspection(d)
             \/ RejectRefreshOrder(d)
  BY <1>1, <1>2, FailQuiet DEF RejectUnbound, RejectUnknown, RejectFaultArm, RejectInspection, RejectRefreshOrder
<1>3. CASE RejectAfterFailure(d)
  <2>1. Emit(d, p, <<"failure">>) /\ "failure" \in T /\ Alike(p, p)
    BY <1>3 DEF RejectAfterFailure, Objects, Alike
  <2>2. QED
    BY <1>1, <2>1, QuietObject
<1>4. CASE RejectRefreshBundle(d)
  <2> DEFINE q == [p EXCEPT !.refreshAccepted = TRUE, !.consumed = TRUE]
  <2>1. Emit(d, q, <<"failure">>) /\ "failure" \in T
    BY <1>4 DEF RejectRefreshBundle, Objects
  <2>2. Alike(p, q)
    BY DEF Alike, Processes
  <2> HIDE DEF q
  <2>3. QED
    BY <1>1, <2>1, <2>2, QuietObject
<1>5. CASE AcceptBinding(d)
  <2> DEFINE q == [Published(p, "H0") EXCEPT !.bound = TRUE, !.poison = (witness = "retention")]
             t == <<"provenance", "receipt_H0">>
  <2>1. Emit(d, q, t) /\ ~p.bound
    BY <1>5 DEF AcceptBinding
  <2>2. q \in Processes /\ q.life = p.life /\ q.bound /\ q.represented = "H0" /\ q.shown = "available" /\ q.plan = p.plan
    BY DEF Published, Processes, Heads
  <2> HIDE DEF q
  <2>3. BoundBy(d, q, t)
    BY <2>1, <2>2 DEF BoundBy
  <2> HIDE DEF t
  <2>4. QED
    BY <1>1, <2>3 DEF Answered
<1>6. CASE AcceptFaultArm(d)
  <2> DEFINE q == [p EXCEPT !.plan = Head(control[d])]
             t == <<"arm_receipt">>
  <2>1. Emit(d, q, t) /\ Head(control[d]) \in Plans
    BY <1>6 DEF AcceptFaultArm, Operates, Takes
  <2>2. /\ q \in Processes /\ q.life = p.life /\ q.bound = p.bound /\ q.represented = p.represented
        /\ q.shown = p.shown /\ q.plan = Head(control[d])
    BY <2>1 DEF Processes
  <2> HIDE DEF q
  <2>3. ArmedBy(d, q, t)
    BY <2>1, <2>2 DEF ArmedBy
  <2> HIDE DEF t
  <2>4. QED
    BY <1>1, <2>3 DEF Answered
<1>7. CASE ExecuteNonconsequentialStepOnce(d)
  <2> DEFINE q == [p EXCEPT !.stepped = TRUE]
  <2>1. Emit(d, q, <<"step">>) \/ Fail(d)
    BY <1>7 DEF ExecuteNonconsequentialStepOnce
  <2>2. "step" \in T /\ Alike(p, q)
    BY DEF Objects, Alike, Processes
  <2> HIDE DEF q
  <2>3. QED
    BY <1>1, <2>1, <2>2, QuietObject, FailQuiet
<1>8. CASE InspectPublishedRoute(d) \/ FaultInspection(d)
  <2> DEFINE q == Inspected(p, Head(control[d]))
  <2>1. (Emit(d, q, <<p.shown>>) /\ p.bound) \/ Inject(d, p) \/ Inject(d, q)
    BY <1>8 DEF InspectPublishedRoute, FaultInspection, Operates
  <2>2. Alike(p, q) /\ Alike(p, p)
    BY DEF Alike, Processes, Inspected, LaunchSlot, RefreshSlot
  <2>3. p.bound => p.shown \in T
    BY DEF Body, Processes, Heads, Objects
  <2> HIDE DEF q
  <2>4. QED
    BY <1>1, <2>1, <2>2, <2>3, QuietObject, InjectQuiet
<1>9. CASE FaultUnpublishedRefresh(d)
  <2> DEFINE q == [p EXCEPT !.refreshAccepted = TRUE]
             r == [p EXCEPT !.refreshAccepted = TRUE, !.consumed = TRUE]
  <2>1. Inject(d, q) \/ Inject(d, r)
    BY <1>9 DEF FaultUnpublishedRefresh
  <2>2. Alike(p, q) /\ Alike(p, r)
    BY DEF Alike, Processes
  <2> HIDE DEF q, r
  <2>3. QED
    BY <1>1, <2>1, <2>2, InjectQuiet
<1>10. CASE FaultPublishedRefresh(d) \/ RefreshOnce(d)
  BY <1>1, <1>10, RefreshAnswered
<1>11. QED
  BY <1>1, <1>2, <1>3, <1>4, <1>5, <1>6, <1>7, <1>8, <1>9, <1>10 DEF HandleLine

-----------------------------------------------------------------------------
(* The invariant *)

Receipt(x) == CASE x = "none" -> "none" [] x = "H0" -> "receipt_H0" [] OTHER -> "receipt_H1"

\* What a process has written, and what was accepted of it, says what it represents.
Wrote(p, o, r) ==
  /\ Carries(o, {"arm_receipt"}) => p.plan # "none"
  /\ Carries(o, {"receipt_H1"}) => p.represented = "H1"
  /\ Carries(o, {"receipt_H0"}) => p.bound /\ r = "none"
  /\ Alone(o, "receipt_H0")
  /\ r # "none" => p.bound
  /\ r = "receipt_H1" => p.represented = "H1"

\* What the harness knows of a domain is so: a domain that it has not asked for a refresh that
\* may be published does not leave H0.
Speaks(v, d, p, c, b, r, a) ==
  /\ r = Receipt(v.known[d])
  /\ b = v.staged[d]
  /\ d \notin v.may =>
       p.represented # "H1" /\ (Carries(c, {"refresh"}) => v.staged[d] = "corrupt" \/ v.armed[d] = "harmless")
  /\ v.armed[d] = "none" => p.plan = "none" /\ ~Carries(c, Plans)
  /\ v.armed[d] \in {"asked", "harmless"} =>
       p.plan \in Harmless \cup {"none"} /\ ~Carries(c, Plans \ Harmless)
  /\ v.armed[d] = "harmless" => p.plan # "none"
  /\ d \in v.kept => d \notin v.may
  /\ a = "synchronized_H0" => v.known[d] # "none"
  /\ a = "synchronized_H1" => v.known[d] = "H1"
  /\ a \in Keeping => d \in v.kept

\* What it knows of the run is so.
RunFits(v) ==
  /\ v.guard = guard /\ v.head = head /\ (v.observed <=> publication = "reverified")
  /\ v.may # {} => guard = "open_for_H1"

Told == \A d \in Domains : Body(proc[d]) /\ Wrote(proc[d], output[d], receipt[d])
Said(v) ==
  \A d \in Domains : Speaks(v, d, proc[d], control[d], bundle[d], receipt[d], disposition[d])
Fits(v) == RunFits(v) /\ Said(v)

\* The rest of the program keeps its order from where it is.
Leaves(v) == \E w : Runs(todo, v, w)

IInv ==
  /\ TypeOKHarness /\ Told
  /\ guard = "open_for_H1" => stale = Domains
  /\ \E v \in Views : Fits(v) /\ Leaves(v)

\* The next instruction may rely on what is known.
LEMMA Ready ==
  ASSUME IInv, phase = "acquire", todo # <<>>
  PROVE  \E v, u \in Views :
           /\ Fits(v) /\ Current \in Instructions /\ Allowed(v, Current) /\ u = After(v, Current)
           /\ \E w : Runs(Tail(todo), u, w)
<1>1. PICK v \in Views : Fits(v) /\ Leaves(v)
  BY DEF IInv
<1>2. PICK w : Runs(todo, v, w)
  BY <1>1 DEF Leaves
<1>3. /\ Current \in Instructions /\ Allowed(v, Current) /\ After(v, Current) \in Views
      /\ Runs(Tail(todo), After(v, Current), w)
  BY <1>2, RunsOn DEF Current
<1>4. QED
  BY <1>1, <1>3, Zenon

LEMMA Continues ==
  ASSUME NEW u \in Views, \E w : Runs(Tail(todo), u, w), todo' = Tail(todo), Fits(u)'
  PROVE  (\E v \in Views : Fits(v) /\ Leaves(v))'
<1>1. Leaves(u)'
  BY DEF Leaves
<1>2. QED
  BY <1>1

Rests(d) ==
  /\ proc'[d] = proc[d] /\ control'[d] = control[d] /\ output'[d] = output[d] /\ bundle'[d] = bundle[d]
  /\ receipt'[d] = receipt[d] /\ disposition'[d] = disposition[d]

\* A step at one domain, which changes what is known of it or nothing.
LEMMA DomainMoves ==
  ASSUME Told, NEW v \in Views, Said(v), NEW r \in Domains, NEW u, SameBut(v, u, r) \/ u = v,
         \A d \in Domains \ {r} : Rests(d),
         Body(proc'[r]), Wrote(proc'[r], output'[r], receipt'[r]),
         Speaks(u, r, proc'[r], control'[r], bundle'[r], receipt'[r], disposition'[r])
  PROVE  Told' /\ Said(u)'
<1>1. ASSUME NEW d \in Domains \ {r}
      PROVE  Speaks(u, d, proc'[d], control'[d], bundle'[d], receipt'[d], disposition'[d])
  <2>1. Speaks(v, d, proc[d], control[d], bundle[d], receipt[d], disposition[d]) /\ Rests(d)
    BY DEF Said
  <2>2. /\ u.known[d] = v.known[d] /\ u.staged[d] = v.staged[d] /\ u.armed[d] = v.armed[d]
        /\ (d \in u.may <=> d \in v.may) /\ (d \in u.kept <=> d \in v.kept)
    BY DEF SameBut
  <2>3. Speaks(v, d, proc'[d], control'[d], bundle'[d], receipt'[d], disposition'[d])
    BY <2>1 DEF Rests
  <2>4. QED
    BY <2>2, <2>3 DEF Speaks
<1>2. ASSUME NEW d \in Domains \ {r} PROVE Body(proc'[d]) /\ Wrote(proc'[d], output'[d], receipt'[d])
  BY DEF Told, Rests
<1>3. Told'
  BY <1>2 DEF Told
<1>4. Said(u)'
  BY <1>1 DEF Said
<1>5. QED
  BY <1>3, <1>4

\* A step at no domain.
LEMMA DomainsRest ==
  ASSUME NEW v \in Views, NEW u, SameDomains(v, u) \/ u = v, Told, Said(v),
         UNCHANGED <<proc, control, output, bundle, receipt, disposition>>
  PROVE  Told' /\ Said(u)'
<1>1. u.known = v.known /\ u.staged = v.staged /\ u.armed = v.armed /\ u.may = v.may /\ u.kept = v.kept
  BY DEF SameDomains
<1>2. Said(v)' /\ Told'
  BY DEF Said, Told
<1>3. Said(u)'
  BY <1>1, <1>2 DEF Said, Speaks
<1>4. QED
  BY <1>2, <1>3

-----------------------------------------------------------------------------
(* Steps of the run *)

AllStale == guard = "open_for_H1" => stale = Domains

\* The steps that leave the domains, their pipes and what is recorded of them alone.
LEMMA RunStepped ==
  ASSUME IInv, NEW v \in Views, NEW u \in Views, Fits(v), SameDomains(v, u) \/ u = v,
         \E w : Runs(Tail(todo), u, w), todo' = Tail(todo),
         UNCHANGED <<routerVars, recordVars>>, TypeOKHarness', AllStale', RunFits(u)'
  PROVE  IInv'
<1>1. Told' /\ Said(u)'
  BY DomainsRest DEF Fits, IInv, routerVars, recordVars
<1>2. Fits(u)'
  BY <1>1 DEF Fits
<1>3. (\E x \in Views : Fits(x) /\ Leaves(x))'
  BY <1>2, Continues
<1>4. QED
  BY <1>1, <1>3 DEF IInv, AllStale

LEMMA RunTyped ==
  ASSUME TypeOKHarness, UNCHANGED <<routerVars, recordVars>>, UNCHANGED <<case, phase, outcome, mishap, owned>>,
         guard' \in Guards, verified' \in BOOLEAN, stale' \subseteq Domains, head' \in Heads,
         bypassed' \in BOOLEAN, publication' \in {"none"} \cup {PublicationSteps[i] : i \in 1..Len(PublicationSteps)}
  PROVE  TypeOKHarness'
  BY DEF TypeOKHarness, TypeOK, routerVars, recordVars, Guards

LEMMA WatchKeeps == ASSUME IInv, Watch \/ AssertRefreshEligible PROVE IInv'
<1>1. /\ phase = "acquire" /\ todo # <<>> /\ todo' = Tail(todo)
      /\ Current.op \in {"checkpoint", "alive", "evidence", "eligible", "refused"}
      /\ UNCHANGED <<routerVars, recordVars>>
      /\ UNCHANGED <<owned, guardVars, headVars, case, phase, outcome, mishap>>
  BY DEF Watch, AssertRefreshEligible, Executes, Done
<1>2. PICK v, u \in Views :
        /\ Fits(v) /\ Current \in Instructions /\ Allowed(v, Current) /\ u = After(v, Current)
        /\ \E w : Runs(Tail(todo), u, w)
  BY <1>1, Ready
<1>3. u = v
  BY <1>1, <1>2 DEF After
<1>4. TypeOKHarness'
  BY <1>1 DEF IInv, TypeOKHarness, TypeOK, routerVars, recordVars, guardVars, headVars
<1>5. AllStale' /\ RunFits(v)'
  BY <1>1, <1>2 DEF IInv, AllStale, Fits, RunFits, guardVars, headVars
<1>6. QED
  BY <1>1, <1>2, <1>3, <1>4, <1>5, RunStepped

LEMMA CloseKeeps == ASSUME IInv, CloseForH0ToH1 PROVE IInv'
<1>1. /\ phase = "acquire" /\ todo # <<>> /\ todo' = Tail(todo) /\ Current.op = "close"
      /\ guard = "open_for_H0" /\ guard' = "closed_for_H0_to_H1"
      /\ UNCHANGED <<routerVars, recordVars>>
      /\ UNCHANGED <<owned, verified, stale, headVars, case, phase, outcome, mishap>>
  BY DEF CloseForH0ToH1, Executes, Done
<1>2. PICK v, u \in Views :
        /\ Fits(v) /\ Current \in Instructions /\ Allowed(v, Current) /\ u = After(v, Current)
        /\ \E w : Runs(Tail(todo), u, w)
  BY <1>1, Ready
<1>3. u = [v EXCEPT !.guard = "closed_for_H0_to_H1"]
  BY <1>1, <1>2 DEF After
<1>4. SameDomains(v, u) /\ u.guard = "closed_for_H0_to_H1" /\ u.head = v.head /\ (u.observed <=> v.observed)
  BY <1>3, GuardChanged DEF Guards
<1>5. TypeOKHarness'
  BY <1>1 DEF IInv, TypeOKHarness, TypeOK, routerVars, recordVars, headVars
<1>6. AllStale' /\ RunFits(u)'
  BY <1>1, <1>2, <1>4 DEF IInv, AllStale, Fits, RunFits, headVars, SameDomains
<1>7. QED
  BY <1>1, <1>2, <1>4, <1>5, <1>6, RunStepped

LEMMA CommitKeeps == ASSUME IInv, CommitHead PROVE IInv'
<1>1. /\ phase = "acquire" /\ todo # <<>> /\ todo' = Tail(todo) /\ Current.op = "commit"
      /\ head' = "H1" /\ bypassed' = (guard = "open_for_H0")
      /\ UNCHANGED <<routerVars, recordVars>>
      /\ UNCHANGED <<owned, guardVars, publication, case, phase, outcome, mishap>>
  BY DEF CommitHead, Executes, Done
<1>2. PICK v, u \in Views :
        /\ Fits(v) /\ Current \in Instructions /\ Allowed(v, Current) /\ u = After(v, Current)
        /\ \E w : Runs(Tail(todo), u, w)
  BY <1>1, Ready
<1>3. u = [v EXCEPT !.head = "H1"]
  BY <1>1, <1>2 DEF After
<1>4. SameDomains(v, u) /\ u.guard = v.guard /\ u.head = "H1" /\ (u.observed <=> v.observed)
  BY <1>3, HeadChanged
<1>5. TypeOKHarness'
  BY <1>1 DEF IInv, TypeOKHarness, TypeOK, routerVars, recordVars, guardVars, Heads
<1>6. AllStale' /\ RunFits(u)'
  BY <1>1, <1>2, <1>4 DEF IInv, AllStale, Fits, RunFits, guardVars, SameDomains
<1>7. QED
  BY <1>1, <1>2, <1>4, <1>5, <1>6, RunStepped

LEMMA PublishKeeps == ASSUME IInv, PublishObservation PROVE IInv'
<1>1. /\ phase = "acquire" /\ todo # <<>> /\ todo' = Tail(todo) /\ Current.op = "publish"
      /\ publication' = Current.arg
      /\ UNCHANGED <<routerVars, recordVars>>
      /\ UNCHANGED <<owned, guardVars, head, bypassed, case, phase, outcome, mishap>>
  BY DEF PublishObservation, Executes, Done
<1>2. PICK v, u \in Views :
        /\ Fits(v) /\ Current \in Instructions /\ Allowed(v, Current) /\ u = After(v, Current)
        /\ \E w : Runs(Tail(todo), u, w)
  BY <1>1, Ready
<1>3. u = [v EXCEPT !.observed = (Current.arg = "reverified")] /\ Current.arg \in Steps /\ Current.arg \in Words
  BY <1>1, <1>2 DEF After, Allowed, Instructions
<1>4. PICK x \in Words : x = Current.arg
  BY <1>3
<1>5. SameDomains(v, u) /\ u.guard = v.guard /\ u.head = v.head /\ (u.observed <=> x = "reverified")
  <2>1. u = [v EXCEPT !.observed = (x = "reverified")]
    BY <1>3, <1>4
  <2>2. QED
    BY <2>1 DEF Views, SameDomains
<1>6. x \in {PublicationSteps[i] : i \in 1..Len(PublicationSteps)}
  BY <1>3, <1>4 DEF Steps, PublicationSteps
<1>7. TypeOKHarness'
  BY <1>1, <1>4, <1>6 DEF IInv, TypeOKHarness, TypeOK, routerVars, recordVars, guardVars
<1>8. AllStale' /\ RunFits(u)'
  BY <1>1, <1>2, <1>4, <1>5 DEF IInv, AllStale, Fits, RunFits, guardVars, SameDomains
<1>9. QED
  BY <1>1, <1>2, <1>5, <1>7, <1>8, RunStepped

LEMMA VerifyKeeps == ASSUME IInv, VerifyH1Observation \/ ClassifyStale PROVE IInv'
<1>1. /\ phase = "acquire" /\ todo # <<>> /\ todo' = Tail(todo) /\ Current.op \in {"verify", "classify"}
      /\ guard = "closed_for_H0_to_H1" /\ guard' = guard /\ verified' \in BOOLEAN /\ stale' \in {stale, stale \cup {Current.role}}
      /\ UNCHANGED <<routerVars, recordVars>>
      /\ UNCHANGED <<owned, headVars, case, phase, outcome, mishap>>
  BY DEF VerifyH1Observation, ClassifyStale, Executes, Done, IInv, TypeOKHarness
<1>2. PICK v, u \in Views :
        /\ Fits(v) /\ Current \in Instructions /\ Allowed(v, Current) /\ u = After(v, Current)
        /\ \E w : Runs(Tail(todo), u, w)
  BY <1>1, Ready
<1>3. u = v
  BY <1>1, <1>2 DEF After
<1>4. Current.role \in Domains
  BY <1>2 DEF Instructions
<1>5. stale' \subseteq Domains
  BY <1>1, <1>4 DEF IInv, TypeOKHarness
<1>6. TypeOKHarness'
  BY <1>1, <1>5 DEF IInv, TypeOKHarness, TypeOK, routerVars, recordVars, headVars
<1>7. AllStale' /\ RunFits(v)'
  BY <1>1, <1>2 DEF AllStale, Fits, RunFits, headVars
<1>8. QED
  BY <1>1, <1>2, <1>3, <1>6, <1>7, RunStepped

LEMMA OpenKeeps == ASSUME IInv, OpenForH1 PROVE IInv'
<1>1. /\ phase = "acquire" /\ todo # <<>> /\ todo' = Tail(todo) /\ Current.op = "open"
      /\ stale = Domains /\ guard' = "open_for_H1"
      /\ UNCHANGED <<routerVars, recordVars>>
      /\ UNCHANGED <<owned, verified, stale, headVars, case, phase, outcome, mishap>>
  BY DEF OpenForH1, Executes, Done
<1>2. PICK v, u \in Views :
        /\ Fits(v) /\ Current \in Instructions /\ Allowed(v, Current) /\ u = After(v, Current)
        /\ \E w : Runs(Tail(todo), u, w)
  BY <1>1, Ready
<1>3. u = [v EXCEPT !.guard = "open_for_H1"]
  BY <1>1, <1>2 DEF After
<1>4. SameDomains(v, u) /\ u.guard = "open_for_H1" /\ u.head = v.head /\ (u.observed <=> v.observed)
  BY <1>3, GuardChanged DEF Guards
<1>5. TypeOKHarness'
  BY <1>1 DEF IInv, TypeOKHarness, TypeOK, routerVars, recordVars, headVars
<1>6. AllStale' /\ RunFits(u)'
  BY <1>1, <1>2, <1>4 DEF AllStale, Fits, RunFits, headVars
<1>7. QED
  BY <1>1, <1>2, <1>4, <1>5, <1>6, RunStepped

LEMMA FailKeeps == ASSUME IInv, FailClosed PROVE IInv'
<1>1. /\ phase = "acquire" /\ todo # <<>> /\ todo' = Tail(todo) /\ Current.op = "fail_closed"
      /\ guard' = "failed_closed"
      /\ UNCHANGED <<routerVars, recordVars>>
      /\ UNCHANGED <<owned, verified, stale, headVars, case, phase, outcome, mishap>>
  BY DEF FailClosed, Executes, Done
<1>2. PICK v, u \in Views :
        /\ Fits(v) /\ Current \in Instructions /\ Allowed(v, Current) /\ u = After(v, Current)
        /\ \E w : Runs(Tail(todo), u, w)
  BY <1>1, Ready
<1>3. u = [v EXCEPT !.guard = "failed_closed"] /\ v.may = {}
  BY <1>1, <1>2 DEF After, Allowed
<1>4. SameDomains(v, u) /\ u.guard = "failed_closed" /\ u.head = v.head /\ (u.observed <=> v.observed)
  BY <1>3, GuardChanged DEF Guards
<1>5. TypeOKHarness'
  BY <1>1 DEF IInv, TypeOKHarness, TypeOK, routerVars, recordVars, headVars
<1>6. AllStale' /\ RunFits(u)'
  BY <1>1, <1>2, <1>3, <1>4 DEF AllStale, Fits, RunFits, headVars, SameDomains
<1>7. QED
  BY <1>1, <1>2, <1>4, <1>5, <1>6, RunStepped

\* What ends the program, and what only moves the phase.
LEMMA EndKeeps ==
  ASSUME IInv, UNCHANGED <<routerVars, guardVars, headVars, recordVars, case, owned>>,
         todo' \in {todo, <<>>}, phase' \in {"acquire", "finally", "ended"},
         outcome' \in {"none", "completed", "aborted"}, mishap' \in {"excluded", "none", "happened"}
  PROVE  IInv'
<1>1. PICK v \in Views : Fits(v) /\ Leaves(v)
  BY DEF IInv
<1>2. Told' /\ Fits(v)'
  BY <1>1 DEF IInv, Told, Fits, Said, RunFits, routerVars, guardVars, headVars, recordVars
<1>3. TypeOKHarness'
  BY DEF IInv, TypeOKHarness, TypeOK, routerVars, guardVars, headVars, recordVars
<1>4. Leaves(v)'
  <2>1. CASE todo' = todo
    BY <1>1, <2>1 DEF Leaves
  <2>2. CASE todo' = <<>>
    BY <2>2, Nothing DEF Leaves
  <2>3. QED
    BY <2>1, <2>2
<1>5. QED
  BY <1>2, <1>3, <1>4 DEF IInv, guardVars

LEMMA RunKeeps ==
  ASSUME IInv, \/ Watch \/ CloseForH0ToH1 \/ CommitHead \/ PublishObservation \/ VerifyH1Observation
               \/ ClassifyStale \/ OpenForH1 \/ FailClosed \/ AssertRefreshEligible
               \/ Raise \/ Return \/ Timeout \/ IoError
  PROVE  IInv'
<1>1. CASE Raise \/ Return \/ Timeout \/ IoError
  <2>1. mishap \in {"excluded", "none", "happened"}
    BY DEF IInv, TypeOKHarness
  <2>2. /\ UNCHANGED <<routerVars, guardVars, headVars, recordVars, case, owned>>
        /\ todo' \in {todo, <<>>} /\ phase' = "finally" /\ outcome' \in {"completed", "aborted"}
        /\ mishap' \in {mishap, "happened"}
    BY <1>1 DEF Raise, Return, Timeout, IoError, Abandon, Goes
  <2>3. QED
    BY <2>1, <2>2, EndKeeps
<1>2. QED
  BY <1>1, WatchKeeps, CloseKeeps, CommitKeeps, PublishKeeps, VerifyKeeps, OpenKeeps, FailKeeps

-----------------------------------------------------------------------------
(* Steps at one domain *)

LEMMA DomainStepped ==
  ASSUME IInv, NEW v \in Views, NEW u \in Views, Fits(v), NEW r \in Domains, SameBut(v, u, r) \/ u = v,
         Leaves(u)', \A d \in Domains \ {r} : Rests(d),
         Body(proc'[r]), Wrote(proc'[r], output'[r], receipt'[r]),
         Speaks(u, r, proc'[r], control'[r], bundle'[r], receipt'[r], disposition'[r]),
         UNCHANGED <<guardVars, headVars>>, TypeOKHarness', u.may # {} => guard = "open_for_H1"
  PROVE  IInv'
<1>1. Told' /\ Said(u)'
  BY DomainMoves DEF Fits, IInv
<1>2. RunFits(u)'
  <2>1. u.guard = v.guard /\ u.head = v.head /\ (u.observed <=> v.observed)
    BY DEF SameBut
  <2>2. QED
    BY <2>1 DEF Fits, RunFits, guardVars, headVars
<1>3. Fits(u)'
  BY <1>1, <1>2 DEF Fits
<1>4. (\E x \in Views : Fits(x) /\ Leaves(x))'
  BY <1>3
<1>5. QED
  BY <1>1, <1>4 DEF IInv, guardVars

Lives == {"absent", "suspended", "running", "exited", "reaped"}

LEMMA LifeKeeps ==
  ASSUME IInv, NEW r \in Domains, NEW l \in Lives, proc' = [proc EXCEPT ![r].life = l],
         UNCHANGED <<witness, control, output, bundle>>, UNCHANGED <<guardVars, headVars, recordVars>>,
         UNCHANGED case, outcome' \in {outcome, "aborted"}, mishap' \in {mishap, "happened"},
         owned' \subseteq Domains, phase' \in {"acquire", "finally", "ended"},
         NEW v \in Views, Fits(v), Leaves(v)'
  PROVE  IInv'
<1>1. proc \in [Domains -> Processes]
  BY DEF IInv, TypeOKHarness, TypeOK
<1>2. \A p \in Processes :
        /\ [p EXCEPT !.life = l] \in Processes
        /\ [p EXCEPT !.life = l].bound = p.bound /\ [p EXCEPT !.life = l].plan = p.plan
        /\ [p EXCEPT !.life = l].represented = p.represented /\ [p EXCEPT !.life = l].shown = p.shown
  BY DEF Processes, Lives
<1>3. /\ proc' \in [Domains -> Processes] /\ proc'[r].bound = proc[r].bound /\ proc'[r].plan = proc[r].plan
      /\ proc'[r].represented = proc[r].represented /\ proc'[r].shown = proc[r].shown
      /\ \A d \in Domains \ {r} : proc'[d] = proc[d]
  BY <1>1, <1>2
<1>4. \A d \in Domains \ {r} : Rests(d)
  BY <1>3 DEF Rests, recordVars
<1>5. Body(proc[r]) /\ Wrote(proc[r], output[r], receipt[r])
  BY DEF IInv, Told
<1>6. Body(proc'[r]) /\ Wrote(proc'[r], output'[r], receipt'[r])
  BY <1>3, <1>5 DEF Body, Wrote, recordVars
<1>7. Speaks(v, r, proc[r], control[r], bundle[r], receipt[r], disposition[r])
  BY DEF Fits, Said
<1>8. Speaks(v, r, proc'[r], control'[r], bundle'[r], receipt'[r], disposition'[r])
  BY <1>3, <1>7 DEF Speaks, recordVars
<1>9. TypeOKHarness'
  BY <1>3 DEF IInv, TypeOKHarness, TypeOK, guardVars, headVars, recordVars
<1>10. v.may # {} => guard = "open_for_H1"
  BY DEF Fits, RunFits
<1>11. UNCHANGED <<guardVars, headVars>>
  OBVIOUS
<1>12. QED
  BY <1>4, <1>6, <1>8, <1>9, <1>10, <1>11, DomainStepped

LEMMA LaunchKeeps == ASSUME IInv, Spawn \/ Resume \/ Terminate PROVE IInv'
<1>1. /\ phase = "acquire" /\ todo # <<>> /\ todo' = Tail(todo)
      /\ Current.op \in {"spawn", "resume", "terminate"}
      /\ UNCHANGED <<witness, control, output, bundle>> /\ UNCHANGED <<guardVars, headVars, recordVars>>
      /\ UNCHANGED <<case, outcome>> /\ phase' = phase /\ mishap' = mishap
      /\ owned' \in {owned, owned \cup {Current.role}}
  BY DEF Spawn, Resume, Terminate, Reap, Executes, Done
<1>2. PICK v, u \in Views :
        /\ Fits(v) /\ Current \in Instructions /\ Allowed(v, Current) /\ u = After(v, Current)
        /\ \E w : Runs(Tail(todo), u, w)
  BY <1>1, Ready
<1>3. u = v
  BY <1>1, <1>2 DEF After
<1>4. PICK r \in Domains : r = Current.role
  BY <1>2 DEF Instructions
<1>5. proc[r].life \in Lives
  BY DEF IInv, TypeOKHarness, TypeOK, Processes, Lives
<1>6. PICK l \in Lives : proc' = [proc EXCEPT ![r].life = l]
  <2>1. CASE Spawn
    BY <1>4, <2>1 DEF Spawn, Lives
  <2>2. CASE Terminate
    BY <1>4, <2>2 DEF Terminate, Reap, Lives
  <2>3. CASE Resume
    <3>1. proc' = [proc EXCEPT ![r].life = IF @ = "suspended" THEN "running" ELSE @]
      BY <1>4, <2>3 DEF Resume
    <3>2. CASE proc[r].life = "suspended"
      <4>1. proc' = [proc EXCEPT ![r].life = "running"]
        BY <3>1, <3>2
      <4>2. QED
        BY <4>1 DEF Lives
    <3>3. CASE proc[r].life # "suspended"
      <4>1. PICK l \in Lives : l = proc[r].life
        BY <1>5
      <4>2. proc' = [proc EXCEPT ![r].life = l]
        BY <3>1, <3>3, <4>1
      <4>3. QED
        BY <4>2
    <3>4. QED
      BY <3>2, <3>3
  <2>4. QED
    BY <2>1, <2>2, <2>3
<1>7. Leaves(v)'
  BY <1>1, <1>2, <1>3 DEF Leaves
<1>8. owned' \subseteq Domains
  BY <1>1, <1>4 DEF IInv, TypeOKHarness
<1>9. mishap' \in {mishap, "happened"} /\ phase' \in {"acquire", "finally", "ended"}
  BY <1>1
<1>10. QED
  BY <1>1, <1>2, <1>6, <1>7, <1>8, <1>9, LifeKeeps

LEMMA CleanKeeps == ASSUME IInv, Clean PROVE IInv'
<1>1. /\ UNCHANGED <<case, todo, outcome, mishap, owned>> /\ UNCHANGED <<guardVars, headVars, recordVars>>
      /\ phase = "finally"
  BY DEF Clean
<1>2. owned \subseteq Domains /\ outcome \in {"none", "completed", "aborted"} /\ mishap \in {"excluded", "none", "happened"}
  BY DEF IInv, TypeOKHarness
<1>3. CASE Unreaped # {}
  <2>1. Reap(RoleOrder[First(Unreaped)]) /\ phase' = phase
    BY <1>3 DEF Clean
  <2>2. First(Unreaped) \in Unreaped
    <3>1. Unreaped \subseteq Nat
      BY DEF Unreaped
    <3>2. QED
      BY <1>3, <3>1, FirstIsOne
  <2>3. PICK r \in Domains : r = RoleOrder[First(Unreaped)]
    BY <2>2, RolesAssumption DEF Unreaped
  <2>4. /\ proc' = [proc EXCEPT ![r].life = "reaped"] /\ UNCHANGED <<witness, control, output, bundle>>
        /\ "reaped" \in Lives
    BY <2>1, <2>3 DEF Reap, Lives
  <2>5. PICK v \in Views : Fits(v) /\ Leaves(v)
    BY DEF IInv
  <2>6. Leaves(v)'
    BY <1>1, <2>5 DEF Leaves
  <2>7. /\ UNCHANGED <<case, outcome>> /\ mishap' \in {mishap, "happened"} /\ owned' \subseteq Domains
        /\ phase' \in {"acquire", "finally", "ended"}
    BY <1>1, <1>2, <2>1
  <2>8. QED
    BY <1>1, <2>4, <2>5, <2>6, <2>7, LifeKeeps
<1>4. CASE Unreaped = {}
  <2>1. UNCHANGED routerVars /\ phase' = "ended"
    BY <1>4 DEF Clean
  <2>2. UNCHANGED <<routerVars, guardVars, headVars, recordVars, case, owned>>
    BY <1>1, <2>1
  <2>3. /\ todo' \in {todo, <<>>} /\ phase' \in {"acquire", "finally", "ended"}
        /\ outcome' \in {"none", "completed", "aborted"} /\ mishap' \in {"excluded", "none", "happened"}
    BY <1>1, <1>2, <2>1
  <2>4. QED
    BY <2>2, <2>3, EndKeeps
<1>5. QED
  BY <1>3, <1>4

\* terminate has reaped the process when its drain raises.
LEMMA TerminateRaisesKeeps == ASSUME IInv, TerminateRaises PROVE IInv'
<1>1. /\ UNCHANGED <<witness, control, output, bundle>> /\ UNCHANGED <<guardVars, headVars, recordVars>>
      /\ UNCHANGED case /\ outcome' \in {outcome, "aborted"} /\ mishap' \in {mishap, "happened"}
      /\ owned' \subseteq Domains /\ phase' \in {"acquire", "finally", "ended"}
      /\ todo' \in {todo, <<>>} /\ "reaped" \in Lives
  BY DEF TerminateRaises, Reap, Goes, Lives, IInv, TypeOKHarness
<1>2. PICK v \in Views : Fits(v) /\ Leaves(v)
  BY DEF IInv
<1>3. PICK r \in Domains : proc' = [proc EXCEPT ![r].life = "reaped"]
  <2>1. CASE Executes("terminate") /\ Reap(Current.role)
    <3>1. Current \in Instructions
      BY <2>1, Ready DEF Executes
    <3>2. QED
      BY <2>1, <3>1 DEF Reap, Instructions
  <2>2. CASE Unreaped # {} /\ Reap(RoleOrder[First(Unreaped)])
    <3>1. Unreaped \subseteq Nat
      BY DEF Unreaped
    <3>2. First(Unreaped) \in Unreaped
      BY <2>2, <3>1, FirstIsOne
    <3>3. QED
      BY <2>2, <3>2, RolesAssumption DEF Reap, Unreaped
  <2>3. QED
    BY <2>1, <2>2 DEF TerminateRaises
<1>4. Leaves(v)'
  <2>1. CASE todo' = todo
    BY <1>2, <2>1 DEF Leaves
  <2>2. CASE todo' = <<>>
    BY <2>2, Nothing DEF Leaves
  <2>3. QED
    BY <1>1, <2>1, <2>2
<1>5. QED
  BY <1>1, <1>2, <1>3, <1>4, LifeKeeps

LEMMA DiesKeeps == ASSUME IInv, NEW d \in Domains, ProcessDies(d) PROVE IInv'
<1>1. /\ proc' = [proc EXCEPT ![d].life = "exited"] /\ UNCHANGED <<witness, control, output, bundle>>
      /\ UNCHANGED <<case, phase, outcome, owned, todo>> /\ UNCHANGED <<guardVars, headVars, recordVars>>
      /\ "exited" \in Lives /\ mishap' \in {mishap, "happened"}
  BY DEF ProcessDies, Crash, Goes, Lives
<1>2. PICK v \in Views : Fits(v) /\ Leaves(v)
  BY DEF IInv
<1>3. Leaves(v)'
  BY <1>1, <1>2 DEF Leaves
<1>4. UNCHANGED <<case, outcome>> /\ owned' \subseteq Domains /\ phase' \in {"acquire", "finally", "ended"}
  BY <1>1 DEF IInv, TypeOKHarness
<1>5. QED
  BY <1>1, <1>2, <1>3, <1>4, LifeKeeps

\* What a process may do to its state and write when it handles a line.
LEMMA WroteOn ==
  ASSUME NEW p, NEW q, NEW r, NEW o \in Seq(Objects), NEW t \in Seq(Objects), Wrote(p, o, r),
         p.bound => q.bound, p.plan # "none" => q.plan # "none",
         p.represented = "H1" => q.represented = "H1",
         Carries(t, {"arm_receipt"}) => q.plan # "none",
         Carries(t, {"receipt_H1"}) => q.represented = "H1",
         Carries(t, {"receipt_H0"}) => q.bound /\ ~p.bound, Alone(t, "receipt_H0")
  PROVE  o \o t \in Seq(Objects) /\ Wrote(q, o \o t, r)
<1> DEFINE s == o \o t
<1>1. /\ s \in Seq(Objects)
      /\ \A S : Carries(s, S) => Carries(o, S) \/ Carries(t, S)
      /\ Alone(o, "receipt_H0") /\ Alone(t, "receipt_H0")
           /\ ~(Carries(o, {"receipt_H0"}) /\ Carries(t, {"receipt_H0"})) => Alone(s, "receipt_H0")
  BY CarriesJoined
<1> HIDE DEF s
<1>2. Carries(s, {"receipt_H0"}) => q.bound /\ r = "none"
  BY <1>1 DEF Wrote
<1>3. Alone(s, "receipt_H0")
  BY <1>1 DEF Wrote
<1>4. (Carries(s, {"arm_receipt"}) => q.plan # "none") /\ (Carries(s, {"receipt_H1"}) => q.represented = "H1")
  BY <1>1 DEF Wrote
<1>5. Wrote(q, s, r)
  BY <1>2, <1>3, <1>4 DEF Wrote
<1>6. QED
  BY <1>1, <1>5 DEF s

\* The states a handled line may leave: unchanged as far as the harness has to know, armed,
\* bound to H0 or refreshed to H1.
LEMMA SpeaksOn ==
  ASSUME NEW v \in Views, NEW d \in Domains, NEW p, NEW q, NEW c \in Seq(Commands), c # <<>>,
         NEW b, NEW r, NEW a, Speaks(v, d, p, c, b, r, a),
         q.plan = p.plan \/ (q.plan = Head(c) /\ Head(c) \in Plans),
         \/ q.represented = p.represented \/ q.represented = "H0"
         \/ Head(c) = "refresh" /\ b = "exact" /\ p.plan \notin Harmless
  PROVE  Tail(c) \in Seq(Commands) /\ Speaks(v, d, q, Tail(c), b, r, a)
<1> DEFINE e == Tail(c)
           h == Head(c)
<1>1. /\ e \in Seq(Commands)
      /\ \A S : (Carries(e, S) => Carries(c, S)) /\ (h \in S => Carries(c, S))
  BY CarriesTaken
<1> HIDE DEF e, h
<1>2. q.plan = p.plan \/ (q.plan = h /\ h \in Plans)
  BY DEF h
<1>3. "none" \notin Plans
  BY DEF Plans, RefreshPlans, ObservationPlans
<1>4. v.armed[d] = "none" => q.plan = "none" /\ ~Carries(e, Plans)
  BY <1>1, <1>2 DEF Speaks
<1>5. v.armed[d] \in {"asked", "harmless"} => q.plan \in Harmless \cup {"none"} /\ ~Carries(e, Plans \ Harmless)
  <2>1. v.armed[d] \in {"asked", "harmless"} /\ h \in Plans => h \in Harmless
    BY <1>1 DEF Speaks
  <2>2. QED
    BY <1>1, <1>2, <2>1 DEF Speaks
<1>6. v.armed[d] = "harmless" => q.plan # "none"
  BY <1>2, <1>3 DEF Speaks
<1>7. d \notin v.may => q.represented # "H1"
  <2>1. CASE q.represented = p.represented \/ q.represented = "H0"
    BY <2>1 DEF Speaks
  <2>2. CASE h = "refresh" /\ b = "exact" /\ p.plan \notin Harmless
    <3>1. Carries(c, {"refresh"})
      BY <1>1, <2>2
    <3>2. v.armed[d] = "harmless" => p.plan \in Harmless
      BY DEF Speaks
    <3>3. v.staged[d] # "corrupt"
      BY <2>2 DEF Speaks
    <3>4. QED
      BY <2>2, <3>1, <3>2, <3>3 DEF Speaks
  <2>3. QED
    BY <2>1, <2>2 DEF h
<1>8. d \notin v.may => (Carries(e, {"refresh"}) => v.staged[d] = "corrupt" \/ v.armed[d] = "harmless")
  BY <1>1 DEF Speaks
<1>9. Speaks(v, d, q, e, b, r, a)
  BY <1>4, <1>5, <1>6, <1>7, <1>8 DEF Speaks
<1>10. QED
  BY <1>1, <1>9 DEF e

LEMMA BoundObjects ==
  /\ <<"provenance", "receipt_H0">> \in Seq(Objects) /\ <<"arm_receipt">> \in Seq(Objects)
  /\ Alone(<<"provenance", "receipt_H0">>, "receipt_H0") /\ Alone(<<"arm_receipt">>, "receipt_H0")
  /\ ~Carries(<<"provenance", "receipt_H0">>, {"receipt_H1"})
  /\ ~Carries(<<"provenance", "receipt_H0">>, {"arm_receipt"})
  /\ ~Carries(<<"arm_receipt">>, {"receipt_H0"}) /\ ~Carries(<<"arm_receipt">>, {"receipt_H1"})
<1>1. <<"provenance", "receipt_H0">> \in Seq(Objects) /\ <<"arm_receipt">> \in Seq(Objects)
  BY DEF Objects
<1>2. /\ Alone(<<"provenance", "receipt_H0">>, "receipt_H0")
      /\ ~Carries(<<"provenance", "receipt_H0">>, {"receipt_H1"})
      /\ ~Carries(<<"provenance", "receipt_H0">>, {"arm_receipt"})
  BY DEF Alone, Carries
<1>3. /\ Alone(<<"arm_receipt">>, "receipt_H0")
      /\ ~Carries(<<"arm_receipt">>, {"receipt_H0"}) /\ ~Carries(<<"arm_receipt">>, {"receipt_H1"})
  BY DEF Alone, Carries
<1>4. QED
  BY <1>1, <1>2, <1>3

\* What the line of a process leaves, whichever of the four it is.
LEMMA LineLeaves ==
  ASSUME NEW v \in Views, NEW d \in Domains, TypeOK, Body(proc[d]), Wrote(proc[d], output[d], receipt[d]),
         Speaks(v, d, proc[d], control[d], bundle[d], receipt[d], disposition[d]), HandleLine(d)
  PROVE  \E q \in Processes, t \in Seq(Objects) :
           /\ Emit(d, q, t) /\ Body(q) /\ Wrote(q, output[d] \o t, receipt[d])
           /\ Speaks(v, d, q, Tail(control[d]), bundle[d], receipt[d], disposition[d])
           /\ Tail(control[d]) \in Seq(Commands) /\ output[d] \o t \in Seq(Objects)
           /\ \/ q.represented = proc[d].represented
              \/ proc[d].represented = "none" /\ q.represented = "H0"
              \/ proc[d].represented = "H0" /\ q.represented = "H1"
<1>1. proc[d] \in Processes /\ control[d] \in Seq(Commands) /\ output[d] \in Seq(Objects)
  BY DEF TypeOK
<1>2. Answered(d) /\ control[d] # <<>>
  BY <1>1, LineAnswered
<1>3. PICK q, t : Quietly(d, q, t) \/ ArmedBy(d, q, t) \/ BoundBy(d, q, t) \/ PublishedBy(d, q, t)
  BY <1>2 DEF Answered
<1>4. Emit(d, q, t) /\ q \in Processes
  BY <1>3 DEF Quietly, ArmedBy, BoundBy, PublishedBy, Alike
<1>5. /\ t \in Seq(Objects) /\ Alone(t, "receipt_H0")
      /\ Carries(t, {"arm_receipt"}) => q.plan # "none"
      /\ Carries(t, {"receipt_H1"}) => q.represented = "H1"
      /\ Carries(t, {"receipt_H0"}) => q.bound /\ ~proc[d].bound
  <2>1. ~Carries(t, {"receipt_H0"}) => Alone(t, "receipt_H0")
    BY DEF Alone, Carries
  <2>2. CASE Quietly(d, q, t)
    BY <2>1, <2>2 DEF Quietly
  <2>3. CASE ArmedBy(d, q, t)
    <3>1. t = <<"arm_receipt">> /\ q.plan \in Plans
      BY <2>3 DEF ArmedBy
    <3>2. q.plan # "none"
      BY <3>1 DEF Plans, RefreshPlans, ObservationPlans
    <3>3. QED
      BY <3>1, <3>2, BoundObjects
  <2>4. CASE BoundBy(d, q, t)
    <3>1. t = <<"provenance", "receipt_H0">> /\ q.bound /\ ~proc[d].bound
      BY <2>4 DEF BoundBy
    <3>2. QED
      BY <3>1, BoundObjects
  <2>5. CASE PublishedBy(d, q, t)
    BY <2>1, <2>5 DEF PublishedBy
  <2>6. QED
    BY <1>3, <2>2, <2>3, <2>4, <2>5
<1>6. /\ proc[d].bound => q.bound
      /\ proc[d].plan # "none" => q.plan # "none"
      /\ proc[d].represented = "H1" => q.represented = "H1"
      /\ q.plan = proc[d].plan \/ (q.plan = Head(control[d]) /\ Head(control[d]) \in Plans)
      /\ \/ q.represented = proc[d].represented
         \/ proc[d].represented = "none" /\ q.represented = "H0"
         \/ proc[d].represented = "H0" /\ q.represented = "H1"
      /\ \/ q.represented = proc[d].represented \/ q.represented = "H0"
         \/ Head(control[d]) = "refresh" /\ bundle[d] = "exact" /\ proc[d].plan \notin Harmless
      /\ Body(q)
  <2>1. "none" \notin Plans
    BY DEF Plans, RefreshPlans, ObservationPlans
  <2>2. CASE Quietly(d, q, t)
    BY <2>2 DEF Quietly, Alike, Body
  <2>3. CASE ArmedBy(d, q, t)
    BY <2>1, <2>3 DEF ArmedBy, Body
  <2>4. CASE BoundBy(d, q, t)
    BY <2>4 DEF BoundBy, Body
  <2>5. CASE PublishedBy(d, q, t)
    BY <2>5 DEF PublishedBy, Body
  <2>6. QED
    BY <1>3, <2>2, <2>3, <2>4, <2>5
<1>7. output[d] \o t \in Seq(Objects) /\ Wrote(q, output[d] \o t, receipt[d])
  BY <1>1, <1>5, <1>6, WroteOn
<1>8. /\ Tail(control[d]) \in Seq(Commands)
      /\ Speaks(v, d, q, Tail(control[d]), bundle[d], receipt[d], disposition[d])
  BY <1>1, <1>2, <1>6, SpeaksOn
<1>9. QED
  BY <1>4, <1>5, <1>6, <1>7, <1>8

LEMMA ProcessKeeps == ASSUME IInv, NEW d \in Domains, Process(d) PROVE IInv'
<1>1. /\ HandleLine(d) /\ todo' = todo /\ UNCHANGED runVars /\ UNCHANGED <<guardVars, headVars>> /\ UNCHANGED recordVars
  BY DEF Process
<1>2. PICK v \in Views : Fits(v) /\ Leaves(v)
  BY DEF IInv
<1>3. /\ TypeOK /\ Body(proc[d]) /\ Wrote(proc[d], output[d], receipt[d])
      /\ Speaks(v, d, proc[d], control[d], bundle[d], receipt[d], disposition[d])
  BY <1>2 DEF IInv, TypeOKHarness, Told, Fits, Said
<1>4. PICK q \in Processes, t \in Seq(Objects) :
        /\ Emit(d, q, t) /\ Body(q) /\ Wrote(q, output[d] \o t, receipt[d])
        /\ Speaks(v, d, q, Tail(control[d]), bundle[d], receipt[d], disposition[d])
        /\ Tail(control[d]) \in Seq(Commands) /\ output[d] \o t \in Seq(Objects)
  BY <1>1, <1>3, LineLeaves
<1>5. /\ proc' = [proc EXCEPT ![d] = q] /\ control' = [control EXCEPT ![d] = Tail(@)]
      /\ output' = [output EXCEPT ![d] = @ \o t] /\ UNCHANGED <<witness, bundle>>
  BY <1>4 DEF Emit
<1>6. /\ proc' \in [Domains -> Processes] /\ proc'[d] = q /\ \A e \in Domains \ {d} : proc'[e] = proc[e]
  BY <1>3, <1>5 DEF TypeOK
<1>7. /\ control' \in [Domains -> Seq(Commands)] /\ control'[d] = Tail(control[d])
      /\ \A e \in Domains \ {d} : control'[e] = control[e]
  <2> DEFINE s == Tail(control[d])
  <2>1. control' = [control EXCEPT ![d] = s] /\ s \in Seq(Commands)
    BY <1>4, <1>5
  <2> HIDE DEF s
  <2>2. control' \in [Domains -> Seq(Commands)] /\ control'[d] = s /\ \A e \in Domains \ {d} : control'[e] = control[e]
    BY <1>3, <2>1 DEF TypeOK
  <2>3. QED
    BY <2>2 DEF s
<1>8. /\ output' \in [Domains -> Seq(Objects)] /\ output'[d] = output[d] \o t
      /\ \A e \in Domains \ {d} : output'[e] = output[e]
  <2> DEFINE s == output[d] \o t
  <2>1. output' = [output EXCEPT ![d] = s] /\ s \in Seq(Objects)
    BY <1>4, <1>5
  <2> HIDE DEF s
  <2>2. output' \in [Domains -> Seq(Objects)] /\ output'[d] = s /\ \A e \in Domains \ {d} : output'[e] = output[e]
    BY <1>3, <2>1 DEF TypeOK
  <2>3. QED
    BY <2>2 DEF s
<1>9. \A e \in Domains \ {d} : Rests(e)
  BY <1>1, <1>5, <1>6, <1>7, <1>8 DEF Rests, recordVars
<1>10. TypeOKHarness'
  BY <1>1, <1>5, <1>6, <1>7, <1>8 DEF IInv, TypeOKHarness, TypeOK, runVars, guardVars, headVars, recordVars
<1>11. /\ receipt' = receipt /\ disposition' = disposition /\ bundle' = bundle
  BY <1>1, <1>5 DEF recordVars
<1>12. /\ Body(proc'[d]) /\ Wrote(proc'[d], output'[d], receipt'[d])
       /\ Speaks(v, d, proc'[d], control'[d], bundle'[d], receipt'[d], disposition'[d])
  BY <1>4, <1>6, <1>7, <1>8, <1>11
<1>13. Leaves(v)'
  BY <1>1, <1>2 DEF Leaves
<1>14. v.may # {} => guard = "open_for_H1"
  BY <1>2 DEF Fits, RunFits
<1>15. QED
  BY <1>1, <1>2, <1>9, <1>10, <1>12, <1>13, <1>14, DomainStepped

\* The processes and what they have written rest; the harness writes, stages or records.
HarnessOnly ==
  /\ todo' = Tail(todo) /\ UNCHANGED <<case, phase, outcome, mishap>>
  /\ UNCHANGED <<witness, proc, output, owned>> /\ UNCHANGED <<guardVars, headVars>> /\ receipt' = receipt

Written(u, r) ==
  \E c \in Seq(Commands), b \in {"none", "exact", "corrupt"}, a \in DispositionStates :
    /\ control' = [control EXCEPT ![r] = c] /\ bundle' = [bundle EXCEPT ![r] = b]
    /\ disposition' = [disposition EXCEPT ![r] = a]
    /\ Speaks(u, r, proc[r], c, b, receipt[r], a)

LEMMA HarnessStepped ==
  ASSUME IInv, HarnessOnly, NEW v \in Views, NEW u \in Views, Fits(v), NEW r \in Domains,
         SameBut(v, u, r) \/ u = v, \E w : Runs(Tail(todo), u, w), Written(u, r),
         u.may # {} => guard = "open_for_H1"
  PROVE  IInv'
<1> USE DEF HarnessOnly
<1>0. PICK c \in Seq(Commands), b \in {"none", "exact", "corrupt"}, a \in DispositionStates :
        /\ control' = [control EXCEPT ![r] = c] /\ bundle' = [bundle EXCEPT ![r] = b]
        /\ disposition' = [disposition EXCEPT ![r] = a]
        /\ Speaks(u, r, proc[r], c, b, receipt[r], a)
  BY DEF Written
<1>1. TypeOK /\ TypeOKHarness /\ Told
  BY DEF IInv, TypeOKHarness
<1>2. /\ control' \in [Domains -> Seq(Commands)] /\ control'[r] = c
      /\ \A d \in Domains \ {r} : control'[d] = control[d]
  BY <1>0, <1>1 DEF TypeOK
<1>3. /\ bundle' \in [Domains -> {"none", "exact", "corrupt"}] /\ bundle'[r] = b
      /\ \A d \in Domains \ {r} : bundle'[d] = bundle[d]
  BY <1>0, <1>1 DEF TypeOK
<1>4. /\ disposition' \in [Domains -> DispositionStates] /\ disposition'[r] = a
      /\ \A d \in Domains \ {r} : disposition'[d] = disposition[d]
  BY <1>0, <1>1 DEF TypeOKHarness
<1>5. \A d \in Domains \ {r} : Rests(d)
  BY <1>2, <1>3, <1>4 DEF Rests
<1>6. TypeOKHarness'
  BY <1>1, <1>2, <1>3, <1>4 DEF TypeOKHarness, TypeOK, guardVars, headVars
<1>7. Body(proc[r]) /\ Wrote(proc[r], output[r], receipt[r])
  BY <1>1 DEF Told
<1>8. /\ Body(proc'[r]) /\ Wrote(proc'[r], output'[r], receipt'[r])
      /\ Speaks(u, r, proc'[r], control'[r], bundle'[r], receipt'[r], disposition'[r])
  BY <1>0, <1>2, <1>3, <1>4, <1>7
<1>9. Leaves(u)'
  BY DEF Leaves
<1>10. QED
  BY <1>5, <1>6, <1>8, <1>9, DomainStepped

LEMMA Unchanged ==
  ASSUME TypeOKHarness, NEW r \in Domains
  PROVE  /\ control[r] \in Seq(Commands) /\ control = [control EXCEPT ![r] = control[r]]
         /\ bundle[r] \in {"none", "exact", "corrupt"} /\ bundle = [bundle EXCEPT ![r] = bundle[r]]
         /\ disposition[r] \in DispositionStates /\ disposition = [disposition EXCEPT ![r] = disposition[r]]
<1>1. /\ control \in [Domains -> Seq(Commands)] /\ bundle \in [Domains -> {"none", "exact", "corrupt"}]
      /\ disposition \in [Domains -> DispositionStates]
  BY DEF TypeOKHarness, TypeOK
<1>2. \A S : \A f \in [Domains -> S] : f[r] \in S /\ f = [f EXCEPT ![r] = f[r]]
  OBVIOUS
<1>3. QED
  BY <1>1, <1>2, Zenon

Lined(c, x) == Append(c, x)

\* A refresh that may be published is asked for behind the open guard.
AsksOpen(v) == v.may # {} => v.guard = "open_for_H1"

\* What sending a command tells the harness holds of the line it sent.
LEMMA SendSpeaks ==
  ASSUME NEW v \in Views, NEW d \in Domains, NEW c \in Seq(Commands), NEW x, NEW p, NEW b, NEW r, NEW a,
         Speaks(v, d, p, c, b, r, a), MaySend(v, d, x), NEW u \in Views, u = Sent(v, d, x),
         AsksOpen(v), NEW e, e = Lined(c, x)
  PROVE  /\ e \in Seq(Commands) /\ Speaks(u, d, p, e, b, r, a)
         /\ SameBut(v, u, d) \/ u = v
         /\ AsksOpen(u)
<1>1. x \in Commands
  BY DEF MaySend
<1>2. e \in Seq(Commands) /\ \A S : Carries(e, S) => Carries(c, S) \/ x \in S
  BY <1>1, CarriesAppended DEF Lined
<1>3. "refresh" \notin Plans
  BY DEF Plans, RefreshPlans, ObservationPlans
<1>4. CASE x = "refresh" /\ MayPublish(v, d)
  <2>1. u = [v EXCEPT !.may = @ \cup {d}]
    BY <1>3, <1>4 DEF Sent
  <2>2. /\ SameBut(v, u, d) /\ u.may = v.may \cup {d}
        /\ u.known = v.known /\ u.staged = v.staged /\ u.armed = v.armed /\ u.kept = v.kept
    BY <2>1, MayChanged
  <2>3. v.guard = "open_for_H1" /\ d \notin v.kept
    BY <1>4 DEF MaySend
  <2>4. \A S \in {Plans, Plans \ Harmless} : Carries(e, S) => Carries(c, S)
    BY <1>2, <1>3, <1>4
  <2>5. Speaks(u, d, p, e, b, r, a)
    BY <2>2, <2>3, <2>4 DEF Speaks
  <2>6. QED
    BY <1>2, <2>2, <2>3, <2>5 DEF AsksOpen, SameBut
<1>5. CASE x = "refresh" /\ ~MayPublish(v, d)
  <2>1. u = v
    BY <1>3, <1>5 DEF Sent
  <2>2. v.staged[d] = "corrupt" \/ v.armed[d] = "harmless"
    BY <1>5 DEF MaySend, MayPublish, Views
  <2>3. \A S \in {Plans, Plans \ Harmless} : Carries(e, S) => Carries(c, S)
    BY <1>2, <1>3, <1>5
  <2>4. Speaks(v, d, p, e, b, r, a)
    BY <2>2, <2>3 DEF Speaks
  <2>5. QED
    BY <1>2, <2>1, <2>4
<1>6. CASE x \in Plans
  <2> DEFINE k == IF x \in Harmless THEN "asked" ELSE "other"
  <2>1. u = [v EXCEPT !.armed[d] = k] /\ k \in {"none", "asked", "harmless", "other"}
    BY <1>3, <1>6 DEF Sent
  <2>2. (k = "asked" /\ x \in Harmless) \/ k = "other"
    OBVIOUS
  <2> HIDE DEF k
  <2>3. /\ SameBut(v, u, d) /\ u.armed[d] = k
        /\ u.known = v.known /\ u.staged = v.staged /\ u.may = v.may /\ u.kept = v.kept
    BY <2>1, ArmedChanged
  <2>4. v.armed[d] = "none"
    BY <1>6 DEF MaySend
  <2>5. p.plan = "none" /\ ~Carries(c, Plans)
    BY <2>4 DEF Speaks
  <2>6. Carries(e, {"refresh"}) => Carries(c, {"refresh"})
    BY <1>2, <1>3, <1>6
  <2>7. ~Carries(c, Plans \ Harmless)
    BY <2>5 DEF Carries
  <2>8. k = "asked" => ~Carries(e, Plans \ Harmless)
    BY <1>2, <2>2, <2>7
  <2>9. Speaks(u, d, p, e, b, r, a)
    BY <2>2, <2>3, <2>4, <2>5, <2>6, <2>8 DEF Speaks
  <2>10. QED
    BY <1>2, <2>3, <2>9 DEF AsksOpen, SameBut
<1>7. CASE x # "refresh" /\ x \notin Plans
  <2>1. u = v
    BY <1>7 DEF Sent
  <2>2. \A S \in {{"refresh"}, Plans, Plans \ Harmless} : Carries(e, S) => Carries(c, S)
    BY <1>2, <1>7
  <2>3. Speaks(v, d, p, e, b, r, a)
    BY <2>2 DEF Speaks
  <2>4. QED
    BY <1>2, <2>1, <2>3
<1>8. QED
  BY <1>4, <1>5, <1>6, <1>7

LEMMA SendKeeps == ASSUME IInv, Send PROVE IInv'
<1>1. /\ phase = "acquire" /\ todo # <<>> /\ todo' = Tail(todo) /\ Current.op = "send"
      /\ control' = [control EXCEPT ![Current.role] = Append(@, Current.arg)]
      /\ HarnessOnly /\ bundle' = bundle
      /\ disposition' = disposition
  BY DEF Send, Executes, Done, recordVars, HarnessOnly
<1>2. PICK v, u \in Views :
        /\ Fits(v) /\ Current \in Instructions /\ Allowed(v, Current) /\ u = After(v, Current)
        /\ \E w : Runs(Tail(todo), u, w)
  BY <1>1, Ready
<1>3. PICK d \in Domains, x \in Words : d = Current.role /\ x = Current.arg
  BY <1>2 DEF Instructions
<1>4. MaySend(v, d, x) /\ u = Sent(v, d, x)
  BY <1>1, <1>2, <1>3 DEF Allowed, After
<1>5. /\ control[d] \in Seq(Commands) /\ bundle[d] \in {"none", "exact", "corrupt"} /\ disposition[d] \in DispositionStates
      /\ bundle' = [bundle EXCEPT ![d] = bundle[d]] /\ disposition' = [disposition EXCEPT ![d] = disposition[d]]
  BY <1>1, Unchanged DEF IInv
<1>6. /\ Speaks(v, d, proc[d], control[d], bundle[d], receipt[d], disposition[d])
      /\ v.guard = guard /\ AsksOpen(v)
  BY <1>2 DEF Fits, Said, RunFits, AsksOpen
<1>7. PICK c : c = Lined(control[d], x)
  OBVIOUS
<1>8. control' = [control EXCEPT ![d] = c]
  BY <1>1, <1>3, <1>7 DEF Lined
<1>9. /\ c \in Seq(Commands) /\ Speaks(u, d, proc[d], c, bundle[d], receipt[d], disposition[d])
      /\ SameBut(v, u, d) \/ u = v
      /\ AsksOpen(u)
  BY <1>4, <1>5, <1>6, <1>7, SendSpeaks
<1>10. Written(u, d)
  BY <1>5, <1>8, <1>9 DEF Written
<1>11. u.may # {} => guard = "open_for_H1"
  BY <1>6, <1>9 DEF AsksOpen, SameBut
<1>12. QED
  BY <1>1, <1>2, <1>9, <1>10, <1>11, HarnessStepped

LEMMA StageKeeps == ASSUME IInv, StageRefresh PROVE IInv'
<1>1. /\ phase = "acquire" /\ todo # <<>> /\ todo' = Tail(todo) /\ Current.op = "stage"
      /\ bundle' = [bundle EXCEPT ![Current.role] = Current.arg]
      /\ HarnessOnly /\ control' = control
      /\ disposition' = disposition
  BY DEF StageRefresh, Executes, Done, recordVars, HarnessOnly
<1>2. PICK v, u \in Views :
        /\ Fits(v) /\ Current \in Instructions /\ Allowed(v, Current) /\ u = After(v, Current)
        /\ \E w : Runs(Tail(todo), u, w)
  BY <1>1, Ready
<1>3. PICK d \in Domains, x \in Words : d = Current.role /\ x = Current.arg
  BY <1>2 DEF Instructions
<1>4. v.staged[d] = "none" /\ x \in {"none", "exact", "corrupt"} /\ u = [v EXCEPT !.staged[d] = x]
  BY <1>1, <1>2, <1>3 DEF Allowed, After
<1>5. /\ control[d] \in Seq(Commands) /\ disposition[d] \in DispositionStates
      /\ control' = [control EXCEPT ![d] = control[d]] /\ disposition' = [disposition EXCEPT ![d] = disposition[d]]
  BY <1>1, Unchanged DEF IInv
<1>6. /\ Speaks(v, d, proc[d], control[d], bundle[d], receipt[d], disposition[d])
      /\ v.may # {} => guard = "open_for_H1"
  BY <1>2 DEF Fits, Said, RunFits
<1>7. /\ SameBut(v, u, d) /\ u.staged[d] = x
      /\ u.known = v.known /\ u.armed = v.armed /\ u.may = v.may /\ u.kept = v.kept
  BY <1>4, StagedChanged
<1>8. Speaks(u, d, proc[d], control[d], x, receipt[d], disposition[d])
  BY <1>4, <1>6, <1>7 DEF Speaks
<1>9. bundle' = [bundle EXCEPT ![d] = x]
  BY <1>1, <1>3
<1>10. u.may # {} => guard = "open_for_H1"
  BY <1>6, <1>7
<1>11. Written(u, d)
  BY <1>4, <1>5, <1>8, <1>9 DEF Written
<1>12. QED
  BY <1>1, <1>2, <1>7, <1>10, <1>11, HarnessStepped

LEMMA RecordKeeps == ASSUME IInv, AcceptSynchronized \/ RecordDisposition PROVE IInv'
<1>1. /\ phase = "acquire" /\ todo # <<>> /\ todo' = Tail(todo)
      /\ HarnessOnly /\ control' = control /\ bundle' = bundle
  BY DEF AcceptSynchronized, RecordDisposition, Executes, Done, recordVars, routerVars, HarnessOnly
<1>2. PICK v, u \in Views :
        /\ Fits(v) /\ Current \in Instructions /\ Allowed(v, Current) /\ u = After(v, Current)
        /\ \E w : Runs(Tail(todo), u, w)
  BY <1>1, Ready
<1>3. PICK d \in Domains, x \in Words : d = Current.role /\ x = Current.arg
  BY <1>2 DEF Instructions
<1>4. /\ control[d] \in Seq(Commands) /\ bundle[d] \in {"none", "exact", "corrupt"}
      /\ control' = [control EXCEPT ![d] = control[d]] /\ bundle' = [bundle EXCEPT ![d] = bundle[d]]
  BY <1>1, Unchanged DEF IInv
<1>5. /\ Speaks(v, d, proc[d], control[d], bundle[d], receipt[d], disposition[d])
      /\ v.may # {} => guard = "open_for_H1"
  BY <1>2 DEF Fits, Said, RunFits
<1>6. CASE AcceptSynchronized
  <2>1. Current.op = "accept"
    BY <1>6 DEF AcceptSynchronized, Executes
  <2>2. u = v
    BY <1>2, <2>1 DEF After
  <2>3. \/ x = "H0" /\ v.known[d] # "none"
        \/ x = "H1" /\ v.known[d] = "H1"
    BY <1>2, <1>3, <2>1 DEF Allowed
  <2> DEFINE a == IF x = "H0" THEN "synchronized_H0" ELSE "synchronized_H1"
  <2>4. disposition' = [disposition EXCEPT ![d] = a]
    BY <1>3, <1>6 DEF AcceptSynchronized
  <2>5. a \in DispositionStates /\ a \notin Keeping
    BY DEF DispositionStates, Keeping
  <2>6. (a = "synchronized_H0" => v.known[d] # "none") /\ (a = "synchronized_H1" => v.known[d] = "H1")
    BY <2>3
  <2> HIDE DEF a
  <2>7. Speaks(v, d, proc[d], control[d], bundle[d], receipt[d], a)
    BY <1>5, <2>5, <2>6 DEF Speaks
  <2>8. Written(v, d)
    BY <1>4, <2>4, <2>5, <2>7 DEF Written
  <2>9. QED
    BY <1>1, <1>2, <1>5, <2>2, <2>8, HarnessStepped
<1>7. CASE RecordDisposition
  <2>1. Current.op = "conclude" /\ disposition' = [disposition EXCEPT ![d] = x]
    BY <1>3, <1>7 DEF RecordDisposition, Executes
  <2>2. x \in DispositionStates \ {"synchronized_H0", "synchronized_H1"} /\ (x \in Keeping => d \notin v.may)
    BY <1>2, <1>3, <2>1 DEF Allowed
  <2>3. CASE x \in Keeping
    <3>1. u = [v EXCEPT !.kept = @ \cup {d}]
      BY <1>2, <1>3, <2>1, <2>3 DEF After
    <3>2. /\ SameBut(v, u, d) /\ u.kept = v.kept \cup {d}
          /\ u.known = v.known /\ u.staged = v.staged /\ u.armed = v.armed /\ u.may = v.may
      BY <3>1, KeptChanged
    <3>3. Speaks(u, d, proc[d], control[d], bundle[d], receipt[d], x)
      BY <1>5, <2>2, <2>3, <3>2 DEF Speaks
    <3>4. u.may # {} => guard = "open_for_H1"
      BY <1>5, <3>2
    <3>5. x \in DispositionStates
      BY <2>2
    <3>6. Written(u, d)
      BY <1>4, <2>1, <3>3, <3>5 DEF Written
    <3>7. QED
      BY <1>1, <1>2, <3>2, <3>4, <3>6, HarnessStepped
  <2>4. CASE x \notin Keeping
    <3>1. u = v
      BY <1>2, <1>3, <2>1, <2>4 DEF After
    <3>2. Speaks(v, d, proc[d], control[d], bundle[d], receipt[d], x) /\ x \in DispositionStates
      BY <1>5, <2>2, <2>4 DEF Speaks
    <3>3. Written(v, d)
      BY <1>4, <2>1, <3>2 DEF Written
    <3>4. QED
      BY <1>1, <1>2, <1>5, <3>1, <3>3, HarnessStepped
  <2>5. QED
    BY <2>3, <2>4
<1>8. QED
  BY <1>6, <1>7

\* What next_object returns of an output is in it, and is a receipt exactly if one is awaited.
LEMMA AwaitFinds ==
  ASSUME IInv, Await, NEW d \in Domains, d = Current.role, NEW o \in Objects, o = Current.arg
  PROVE  \E i \in DOMAIN output[d] :
           /\ output' = [output EXCEPT ![d] = Without(output[d], i)]
           /\ receipt' = IF output[d][i] \in Receipts THEN [receipt EXCEPT ![d] = output[d][i]] ELSE receipt
           /\ output[d][i] \in Objects /\ Admits(o, output[d][i])
<1> DEFINE S == Admitted(d, o)
           i == First(S)
<1>1. output[d] \in Seq(Objects)
  BY DEF IInv, TypeOKHarness, TypeOK
<1>2. S # {} /\ S \subseteq DOMAIN output[d] /\ \A k \in S : Admits(o, output[d][k])
  BY DEF Await, Admitted
<1>3. DOMAIN output[d] \subseteq Nat
  BY <1>1
<1> HIDE DEF S
<1>4. S \subseteq Nat
  BY <1>2, <1>3
<1>5. i \in S
  BY <1>2, <1>4, FirstIsOne
<1>6. i \in DOMAIN output[d] /\ Admits(o, output[d][i]) /\ output[d][i] \in Objects
  BY <1>1, <1>2, <1>5
<1>7. /\ output' = [output EXCEPT ![d] = Without(output[d], i)]
      /\ receipt' = IF output[d][i] \in Receipts THEN [receipt EXCEPT ![d] = output[d][i]] ELSE receipt
  BY DEF Await, S
<1> HIDE DEF i
<1>8. QED
  BY <1>6, <1>7

\* What is taken from the output, and what it tells.
LEMMA AwaitSpeaks ==
  ASSUME NEW v \in Views, NEW d \in Domains, NEW p, Body(p), NEW q \in Seq(Objects), NEW c, NEW b, NEW r, NEW a,
         Wrote(p, q, r), Speaks(v, d, p, c, b, r, a), NEW o \in Objects, MayAwait(v, d, o),
         NEW i \in DOMAIN q, NEW x \in Objects, x = q[i], Admits(o, x), NEW u \in Views, u = Heard(v, d, o),
         NEW s, s = IF x \in Receipts THEN x ELSE r
  PROVE  /\ Without(q, i) \in Seq(Objects) /\ Wrote(p, Without(q, i), s) /\ Speaks(u, d, p, c, b, s, a)
         /\ SameBut(v, u, d) \/ u = v
         /\ u.may = v.may
<1> DEFINE t == Without(q, i)
<1>1. /\ t \in Seq(Objects)
      /\ \A S : Carries(t, S) => Carries(q, S)
      /\ Alone(q, "receipt_H0") => Alone(t, "receipt_H0")
      /\ Alone(q, "receipt_H0") /\ q[i] = "receipt_H0" => ~Carries(t, {"receipt_H0"})
  BY TakenLeaves
<1> HIDE DEF t
<1>2. \A y : x = y => Carries(q, {y})
  BY DEF Carries
<1>3. CASE o \in Receipts
  <2>1. x \in Receipts /\ s = x
    BY <1>3 DEF Admits, Receipts, Observations
  <2>2. CASE o = "receipt_H0"
    <3>1. v.known[d] = "none" /\ d \notin v.may
      BY <2>2 DEF MayAwait
    <3>2. x = "receipt_H0"
      <4>1. p.represented # "H1"
        BY <3>1 DEF Speaks
      <4>2. ~Carries(q, {"receipt_H1"})
        BY <4>1 DEF Wrote
      <4>3. QED
        BY <1>2, <2>1, <4>2 DEF Receipts
    <3>3. u = [v EXCEPT !.known[d] = "H0"]
      BY <2>2 DEF Heard
    <3>4. /\ SameBut(v, u, d) /\ u.known[d] = "H0"
          /\ u.staged = v.staged /\ u.armed = v.armed /\ u.may = v.may /\ u.kept = v.kept
      BY <3>3, KnownChanged
    <3>5. r = "none" /\ p.bound /\ p.represented # "H1" /\ ~Carries(t, {"receipt_H0"})
      BY <1>1, <1>2, <3>1, <3>2 DEF Wrote, Speaks
    <3>6. Wrote(p, t, s)
      BY <1>1, <2>1, <3>2, <3>5 DEF Wrote
    <3>7. Speaks(u, d, p, c, b, s, a)
      BY <2>1, <3>1, <3>2, <3>4 DEF Speaks, Receipt
    <3>8. QED
      BY <1>1, <3>4, <3>6, <3>7 DEF t
  <2>3. CASE o = "receipt_H1"
    <3>1. v.known[d] = "H0"
      BY <2>3 DEF MayAwait
    <3>2. r = "receipt_H0"
      BY <3>1 DEF Speaks, Receipt
    <3>3. x = "receipt_H1"
      <4>1. ~Carries(q, {"receipt_H0"})
        BY <3>2 DEF Wrote
      <4>2. QED
        BY <1>2, <2>1, <4>1 DEF Receipts
    <3>4. p.bound /\ p.represented = "H1" /\ ~Carries(t, {"receipt_H0"})
      BY <1>1, <1>2, <3>2, <3>3 DEF Wrote
    <3>5. u = [v EXCEPT !.known[d] = "H1"]
      BY <2>3 DEF Heard
    <3>6. /\ SameBut(v, u, d) /\ u.known[d] = "H1"
          /\ u.staged = v.staged /\ u.armed = v.armed /\ u.may = v.may /\ u.kept = v.kept
      BY <3>5, KnownChanged
    <3>7. Wrote(p, t, s)
      BY <1>1, <2>1, <3>3, <3>4 DEF Wrote
    <3>8. Speaks(u, d, p, c, b, s, a)
      BY <2>1, <3>1, <3>3, <3>6 DEF Speaks, Receipt
    <3>9. QED
      BY <1>1, <3>6, <3>7, <3>8 DEF t
  <2>4. QED
    BY <1>3, <2>2, <2>3 DEF Receipts
<1>4. CASE o \notin Receipts
  <2>1. x \notin Receipts /\ s = r /\ (o = "arm_receipt" => x = "arm_receipt")
    BY <1>4 DEF Admits, Receipts, Observations
  <2>2. Wrote(p, t, s)
    BY <1>1, <2>1 DEF Wrote
  <2>3. CASE o = "arm_receipt" /\ v.armed[d] = "asked"
    <3>1. u = [v EXCEPT !.armed[d] = "harmless"]
      BY <2>3 DEF Heard
    <3>2. /\ SameBut(v, u, d) /\ u.armed[d] = "harmless"
          /\ u.known = v.known /\ u.staged = v.staged /\ u.may = v.may /\ u.kept = v.kept
      BY <3>1, ArmedChanged
    <3>3. p.plan # "none"
      BY <1>2, <2>1, <2>3 DEF Wrote
    <3>4. Speaks(u, d, p, c, b, s, a)
      BY <2>1, <2>3, <3>2, <3>3 DEF Speaks
    <3>5. QED
      BY <1>1, <2>2, <3>2, <3>4 DEF t
  <2>4. CASE o = "arm_receipt" /\ v.armed[d] # "asked"
    <3>1. u = [v EXCEPT !.armed[d] = v.armed[d]]
      BY <2>4 DEF Heard
    <3>2. u = v
      BY <3>1 DEF Views
    <3>3. QED
      BY <1>1, <2>1, <2>2, <3>2 DEF t
  <2>5. CASE o # "arm_receipt"
    <3>1. u = v
      BY <1>4, <2>5 DEF Heard, Receipts
    <3>2. QED
      BY <1>1, <2>1, <2>2, <3>1 DEF t
  <2>6. QED
    BY <2>3, <2>4, <2>5
<1>5. QED
  BY <1>3, <1>4

LEMMA AwaitKeeps == ASSUME IInv, Await PROVE IInv'
<1>1. /\ phase = "acquire" /\ todo # <<>> /\ todo' = Tail(todo) /\ Current.op = "await"
      /\ UNCHANGED <<case, phase, outcome, mishap>> /\ UNCHANGED <<witness, proc, control, bundle, owned>>
      /\ UNCHANGED <<guardVars, headVars>> /\ disposition' = disposition
  BY DEF Await, Executes, Done
<1>2. PICK v, u \in Views :
        /\ Fits(v) /\ Current \in Instructions /\ Allowed(v, Current) /\ u = After(v, Current)
        /\ \E w : Runs(Tail(todo), u, w)
  BY <1>1, Ready
<1>3. PICK d \in Domains, o \in Objects : d = Current.role /\ o = Current.arg
  BY <1>1, <1>2 DEF Instructions, Allowed, MayAwait
<1>4. MayAwait(v, d, o) /\ u = Heard(v, d, o)
  BY <1>1, <1>2, <1>3 DEF Allowed, After
<1>5. PICK i \in DOMAIN output[d] :
        /\ output' = [output EXCEPT ![d] = Without(output[d], i)]
        /\ receipt' = IF output[d][i] \in Receipts THEN [receipt EXCEPT ![d] = output[d][i]] ELSE receipt
        /\ output[d][i] \in Objects /\ Admits(o, output[d][i])
  BY <1>3, AwaitFinds
<1>6. PICK x \in Objects : x = output[d][i]
  BY <1>5
<1> DEFINE s == IF x \in Receipts THEN x ELSE receipt[d]
<1>7. /\ Body(proc[d]) /\ Wrote(proc[d], output[d], receipt[d]) /\ output[d] \in Seq(Objects)
      /\ Speaks(v, d, proc[d], control[d], bundle[d], receipt[d], disposition[d])
      /\ v.may # {} => guard = "open_for_H1"
      /\ output \in [Domains -> Seq(Objects)] /\ receipt \in [Domains -> {"none", "receipt_H0", "receipt_H1"}]
  BY <1>2 DEF IInv, Told, TypeOKHarness, TypeOK, Fits, Said, RunFits
<1>8. PICK q \in Seq(Objects) : q = output[d]
  BY <1>7
<1>9. /\ Without(q, i) \in Seq(Objects) /\ Wrote(proc[d], Without(q, i), s)
      /\ Speaks(u, d, proc[d], control[d], bundle[d], s, disposition[d])
      /\ SameBut(v, u, d) \/ u = v
      /\ u.may = v.may
  <2>1. i \in DOMAIN q /\ x = q[i] /\ Admits(o, x) /\ Wrote(proc[d], q, receipt[d])
    BY <1>5, <1>6, <1>7, <1>8
  <2>2. QED
    BY <1>4, <1>7, <2>1, AwaitSpeaks
<1>10. /\ receipt' \in [Domains -> {"none", "receipt_H0", "receipt_H1"}] /\ receipt'[d] = s
       /\ \A e \in Domains \ {d} : receipt'[e] = receipt[e]
  BY <1>5, <1>6, <1>7 DEF Receipts
<1> HIDE DEF s
<1> DEFINE t == Without(q, i)
<1>11. output' = [output EXCEPT ![d] = t] /\ t \in Seq(Objects)
  BY <1>5, <1>8, <1>9
<1>12. Wrote(proc[d], t, s)
  BY <1>9
<1> HIDE DEF t
<1>13. /\ output' \in [Domains -> Seq(Objects)] /\ output'[d] = t
       /\ \A e \in Domains \ {d} : output'[e] = output[e]
  BY <1>7, <1>11
<1>14. \A e \in Domains \ {d} : Rests(e)
  BY <1>1, <1>10, <1>13 DEF Rests
<1>15. TypeOKHarness'
  BY <1>1, <1>10, <1>13 DEF IInv, TypeOKHarness, TypeOK, guardVars, headVars
<1>16. /\ Body(proc'[d]) /\ Wrote(proc'[d], output'[d], receipt'[d])
       /\ Speaks(u, d, proc'[d], control'[d], bundle'[d], receipt'[d], disposition'[d])
  BY <1>1, <1>7, <1>9, <1>10, <1>12, <1>13
<1>17. Leaves(u)'
  BY <1>1, <1>2 DEF Leaves
<1>18. u.may # {} => guard = "open_for_H1"
  BY <1>7, <1>9
<1>19. QED
  BY <1>1, <1>2, <1>9, <1>14, <1>15, <1>16, <1>17, <1>18, DomainStepped

-----------------------------------------------------------------------------
(* The theorems *)

LEMMA Begins == Init => IInv
<1> SUFFICES ASSUME Init PROVE IInv
  OBVIOUS
<1>1. NewProcess \in Processes /\ Body(NewProcess) /\ NewProcess.represented = "none" /\ NewProcess.plan = "none"
      /\ ~NewProcess.bound
  BY DEF NewProcess, Processes, Body, Heads
<1>2. /\ \A d \in Domains : proc[d] = NewProcess /\ control[d] = <<>> /\ output[d] = <<>> /\ bundle[d] = "none"
      /\ \A d \in Domains : receipt[d] = "none" /\ disposition[d] = "unbound"
  BY DEF Init, RouterInit
<1>3. witness \in Witnesses /\ case \in Cases
  BY DEF Init, WitnessOf, Witnesses
<1>4. TypeOK
  <2>1. \A S : <<>> \in Seq(S)
    OBVIOUS
  <2>2. QED
    BY <1>1, <1>3, <2>1 DEF Init, RouterInit, TypeOK
<1>5. TypeOKHarness
  BY <1>3, <1>4 DEF Init, TypeOKHarness, Heads, DispositionStates
<1>6. \A S, x : ~Carries(<<>>, S) /\ Alone(<<>>, x)
  BY DEF Carries, Alone
<1>7. Told
  BY <1>1, <1>2, <1>6 DEF Told, Wrote
<1>8. Beginning \in Views
  BY DEF Beginning, Views, Heads
<1>9. Fits(Beginning)
  <2>1. RunFits(Beginning)
    BY DEF RunFits, Beginning, Init
  <2>2. ASSUME NEW d \in Domains
        PROVE Speaks(Beginning, d, proc[d], control[d], bundle[d], receipt[d], disposition[d])
    BY <1>1, <1>2, <1>6 DEF Speaks, Beginning, Receipt, Keeping
  <2>3. QED
    BY <2>1, <2>2 DEF Fits, Said
<1>10. Leaves(Beginning)
  BY <1>3, ProgramRuns DEF Leaves, Init
<1>11. QED
  BY <1>5, <1>7, <1>8, <1>9, <1>10 DEF IInv, Init

LEMMA Continued == IInv /\ [Next]_vars => IInv'
<1> SUFFICES ASSUME IInv, [Next]_vars PROVE IInv'
  OBVIOUS
<1>1. CASE Harness
  BY <1>1, LaunchKeeps, SendKeeps, AwaitKeeps, StageKeeps, RecordKeeps, RunKeeps, CleanKeeps DEF Harness
<1>2. CASE Timeout \/ IoError \/ TerminateRaises
  BY <1>2, RunKeeps, TerminateRaisesKeeps
<1>3. ASSUME NEW d \in Domains, Process(d) \/ ProcessDies(d) PROVE IInv'
  BY <1>3, ProcessKeeps, DiesKeeps
<1>4. CASE UNCHANGED vars
  <2>1. PICK v \in Views : Fits(v) /\ Leaves(v)
    BY DEF IInv
  <2>2. Fits(v)' /\ Leaves(v)' /\ Told' /\ TypeOKHarness'
    BY <1>4, <2>1 DEF vars, routerVars, IInv, Fits, RunFits, Said, Leaves, Told, TypeOKHarness, TypeOK
  <2>3. QED
    BY <1>4, <2>2 DEF IInv, vars
<1>5. QED
  BY <1>1, <1>2, <1>3, <1>4 DEF Next

LEMMA Matches == IInv => RecordsMatchProcesses
<1> SUFFICES ASSUME IInv, NEW d \in Domains
             PROVE  /\ disposition[d] = "synchronized_H0" /\ guard = "open_for_H0" =>
                         receipt[d] = "receipt_H0" /\ proc[d].represented = "H0" /\ proc[d].shown = "available"
                    /\ disposition[d] = "synchronized_H1" =>
                         receipt[d] = "receipt_H1" /\ proc[d].represented = "H1" /\ proc[d].shown = "blocked"
                    /\ disposition[d] \in {"stale", "head_unconfirmed", "protocol_invalid"} =>
                         proc[d].represented \in {"none", "H0"}
  BY DEF RecordsMatchProcesses, IInv
<1>1. PICK v \in Views : Fits(v)
  BY DEF IInv
<1>2. /\ Speaks(v, d, proc[d], control[d], bundle[d], receipt[d], disposition[d])
      /\ Body(proc[d]) /\ Wrote(proc[d], output[d], receipt[d]) /\ proc[d] \in Processes
      /\ v.may # {} => guard = "open_for_H1"
      /\ v.known[d] \in {"none", "H0", "H1"}
  BY <1>1 DEF Fits, Said, RunFits, IInv, Told, TypeOKHarness, TypeOK, Views
<1>3. proc[d].represented \in {"none", "H0", "H1"}
  BY <1>2 DEF Processes, Heads
<1>4. CASE disposition[d] = "synchronized_H0" /\ guard = "open_for_H0"
  <2>1. d \notin v.may /\ v.known[d] # "none"
    BY <1>2, <1>4 DEF Speaks
  <2>2. proc[d].represented # "H1" /\ receipt[d] \in {"receipt_H0", "receipt_H1"}
    BY <1>2, <2>1 DEF Speaks, Receipt
  <2>3. receipt[d] = "receipt_H0" /\ proc[d].represented = "H0"
    BY <1>2, <1>3, <2>2 DEF Wrote, Body
  <2>4. QED
    BY <1>2, <1>4, <2>3 DEF Body
<1>5. CASE disposition[d] = "synchronized_H1"
  <2>1. receipt[d] = "receipt_H1"
    BY <1>2, <1>5 DEF Speaks, Receipt
  <2>2. proc[d].represented = "H1"
    BY <1>2, <2>1 DEF Wrote
  <2>3. QED
    BY <1>2, <1>5, <2>1, <2>2 DEF Body
<1>6. CASE disposition[d] \in Keeping
  <2>1. d \notin v.may
    BY <1>2, <1>6 DEF Speaks
  <2>2. proc[d].represented # "H1"
    BY <1>2, <2>1 DEF Speaks
  <2>3. QED
    BY <1>3, <1>6, <2>2 DEF Keeping
<1>7. QED
  BY <1>4, <1>5, <1>6 DEF Keeping

\* What the harness recorded of a process agrees with the process.
THEOREM RecordsMatch == Spec => []RecordsMatchProcesses
  BY Begins, Continued, Matches, PTL DEF Spec

-----------------------------------------------------------------------------
(* The guard law *)

Shows == [d \in Domains |-> proc[d].represented]
Claim(a) == CASE a = "synchronized_H0" -> "H0" [] a = "synchronized_H1" -> "H1" [] OTHER -> "none"
Claims == [d \in Domains |-> CASE disposition[d] = "synchronized_H0" -> "H0"
                               [] disposition[d] = "synchronized_H1" -> "H1"
                               [] OTHER -> "none"]
Obeys == Law!Next \/ UNCHANGED Law!vars

LEMMA LawBegins == Init => Law!Init
<1> SUFFICES ASSUME Init PROVE Law!Init
  OBVIOUS
<1>1. \A d \in Domains : proc[d].represented = "none" /\ disposition[d] = "unbound"
  BY DEF Init, RouterInit, NewProcess
<1>2. Shows = [d \in Domains |-> "none"] /\ Claims = [d \in Domains |-> "none"]
  BY <1>1 DEF Shows, Claims
<1>3. publication # "reverified"
  BY DEF Init
<1>4. (publication = "reverified") = FALSE
  BY <1>3
<1>5. QED
  BY <1>2, <1>4 DEF Init, Law!Init, Shows, Claims

\* What leaves the processes' heads and the claims alone leaves them alone in the law.
LEMMA SameShown ==
  ASSUME \A d \in Domains : proc'[d].represented = proc[d].represented
  PROVE  Shows' = Shows
  BY DEF Shows

LEMMA SameClaims == ASSUME disposition' = disposition PROVE Claims' = Claims
  BY DEF Claims

\* The steps of which the law sees nothing.
LEMMA LawStutters ==
  ASSUME UNCHANGED <<guardVars, headVars, disposition>>,
         \A d \in Domains : proc'[d].represented = proc[d].represented
  PROVE  Obeys
<1>1. Shows' = Shows /\ Claims' = Claims
  BY SameShown, SameClaims
<1>2. UNCHANGED Law!vars
  BY <1>1 DEF Law!vars, guardVars, headVars, Shows, Claims
<1>3. QED
  BY <1>2 DEF Obeys

LEMMA LifeAlike ==
  ASSUME TypeOKHarness, NEW r, NEW l, proc' = [proc EXCEPT ![r].life = l]
  PROVE  \A d \in Domains : proc'[d].represented = proc[d].represented
  BY DEF TypeOKHarness, TypeOK, Processes

LEMMA QuietObeys ==
  ASSUME IInv,
         \/ Spawn \/ Resume \/ Send \/ Await \/ Watch \/ Terminate \/ StageRefresh \/ AssertRefreshEligible
         \/ Raise \/ Return \/ Clean \/ Timeout \/ IoError \/ TerminateRaises
         \/ (\E d \in Domains : ProcessDies(d)) \/ UNCHANGED vars
  PROVE  Obeys
<1>1. UNCHANGED <<guardVars, headVars, disposition>>
  <2>1. CASE \/ Spawn \/ Resume \/ Send \/ Await \/ Watch \/ Terminate \/ StageRefresh \/ AssertRefreshEligible
    BY <2>1 DEF Spawn, Resume, Send, Await, Watch, Terminate, StageRefresh, AssertRefreshEligible, recordVars
  <2>2. CASE Raise \/ Return \/ Clean \/ Timeout \/ IoError \/ TerminateRaises \/ \E d \in Domains : ProcessDies(d)
    BY <2>2 DEF Raise, Return, Clean, Timeout, IoError, TerminateRaises, ProcessDies, Abandon, recordVars
  <2>3. CASE UNCHANGED vars
    BY <2>3 DEF vars, guardVars, headVars
  <2>4. QED
    BY <2>1, <2>2, <2>3
<1>2. TypeOKHarness
  BY DEF IInv
<1>3. \A d \in Domains : proc'[d].represented = proc[d].represented
  <2>1. CASE proc' = proc
    BY <2>1
  <2>2. ASSUME NEW r, NEW l, proc' = [proc EXCEPT ![r].life = l] PROVE \A d \in Domains : proc'[d].represented = proc[d].represented
    BY <1>2, <2>2, LifeAlike
  <2>3. CASE Send \/ Await \/ Watch \/ StageRefresh \/ AssertRefreshEligible \/ Raise \/ Return
             \/ Timeout \/ IoError \/ UNCHANGED vars
    BY <2>1, <2>3 DEF Send, Await, Watch, StageRefresh, AssertRefreshEligible, Raise, Return, Timeout, IoError,
                      Abandon, routerVars, vars
  <2>4. CASE Spawn \/ Terminate \/ TerminateRaises
    BY <2>2, <2>4 DEF Spawn, Terminate, TerminateRaises, Reap
  <2>5. CASE Clean
    BY <2>1, <2>2, <2>5 DEF Clean, Reap, routerVars
  <2>6. CASE \E d \in Domains : ProcessDies(d)
    BY <2>2, <2>6 DEF ProcessDies, Crash
  <2>7. CASE Resume
    BY <1>2, <2>7 DEF Resume, TypeOKHarness, TypeOK, Processes
  <2>8. QED
    BY <2>3, <2>4, <2>5, <2>6, <2>7
<1>4. QED
  BY <1>1, <1>3, LawStutters

\* The steps on the guard, the head and the observation.
LEMMA RunObeys ==
  ASSUME IInv, \/ CloseForH0ToH1 \/ CommitHead \/ PublishObservation \/ VerifyH1Observation
               \/ ClassifyStale \/ OpenForH1 \/ FailClosed
  PROVE  Obeys
<1>1. /\ phase = "acquire" /\ todo # <<>> /\ proc' = proc /\ disposition' = disposition
  BY DEF CloseForH0ToH1, CommitHead, PublishObservation, VerifyH1Observation, ClassifyStale, OpenForH1,
         FailClosed, Executes, routerVars, recordVars
<1>2. Shows' = Shows /\ Claims' = Claims
  BY <1>1, SameShown, SameClaims
<1>3. PICK v, u \in Views :
        /\ Fits(v) /\ Current \in Instructions /\ Allowed(v, Current) /\ u = After(v, Current)
        /\ \E w : Runs(Tail(todo), u, w)
  BY <1>1, Ready
<1>4. v.head = head /\ (v.observed <=> publication = "reverified")
  BY <1>3 DEF Fits, RunFits
<1>5. CASE CloseForH0ToH1
  <2>1. Law!CloseForH0ToH1
    BY <1>2, <1>5 DEF CloseForH0ToH1, Law!CloseForH0ToH1, Law!headVars, Law!domainVars, headVars, Shows, Claims
  <2>2. QED
    BY <2>1 DEF Obeys, Law!Next
<1>6. CASE OpenForH1
  <2>1. Law!OpenForH1
    BY <1>2, <1>6 DEF OpenForH1, Law!OpenForH1, Law!headVars, Law!domainVars, headVars, Shows, Claims
  <2>2. QED
    BY <2>1 DEF Obeys, Law!Next
<1>7. CASE FailClosed
  <2>1. Law!FailClosed
    BY <1>2, <1>7 DEF FailClosed, Law!FailClosed, Law!headVars, Law!domainVars, headVars, Shows, Claims
  <2>2. QED
    BY <2>1 DEF Obeys, Law!Next
<1>8. CASE ClassifyStale
  <2>1. PICK d \in Domains : d = Current.role
    BY <1>3 DEF Instructions
  <2>2. Law!ClassifyStale(d)
    BY <1>2, <1>8, <2>1 DEF ClassifyStale, Law!ClassifyStale, Law!headVars, Law!domainVars, headVars, Shows, Claims
  <2>3. QED
    BY <2>2 DEF Obeys, Law!Next
<1>9. CASE VerifyH1Observation
  <2>1. v.observed
    BY <1>3, <1>9 DEF VerifyH1Observation, Executes, Allowed
  <2>2. publication = "reverified"
    BY <1>4, <2>1
  <2>3. Law!VerifyH1Observation
    BY <1>2, <1>9, <2>2 DEF VerifyH1Observation, Law!VerifyH1Observation, Law!headVars, Law!domainVars, headVars, Shows, Claims
  <2>4. QED
    BY <2>3 DEF Obeys, Law!Next
<1>10. CASE CommitHead
  <2>1. head = "H0"
    BY <1>3, <1>4, <1>10 DEF CommitHead, Executes, Allowed
  <2>2. Law!CommitHead
    BY <1>2, <1>10, <2>1 DEF CommitHead, Law!CommitHead, Law!guardVars, Law!domainVars, guardVars, Shows, Claims
  <2>3. QED
    BY <2>2 DEF Obeys, Law!Next
<1>11. CASE PublishObservation
  <2>1. publication' = Current.arg /\ UNCHANGED <<guardVars, head, bypassed>> /\ Current.op = "publish"
    BY <1>11 DEF PublishObservation, Executes
  <2>2. publication # "reverified" /\ (Current.arg = "reverified" => head = "H1")
    BY <1>3, <1>4, <2>1 DEF Allowed
  <2>3. CASE Current.arg = "reverified"
    <3>1. publication' = "reverified" /\ head = "H1"
      BY <2>1, <2>2, <2>3
    <3>2. Law!PublishObservation
      BY <1>2, <2>1, <2>2, <3>1 DEF Law!PublishObservation, Law!guardVars, Law!domainVars, guardVars, Shows, Claims
    <3>3. QED
      BY <3>2 DEF Obeys, Law!Next
  <2>4. CASE Current.arg # "reverified"
    <3>1. publication' # "reverified"
      BY <2>1, <2>4
    <3>2. UNCHANGED Law!vars
      BY <1>2, <2>1, <2>2, <3>1 DEF Law!vars, guardVars, Shows, Claims
    <3>3. QED
      BY <3>2 DEF Obeys
  <2>5. QED
    BY <2>3, <2>4
<1>12. QED
  BY <1>5, <1>6, <1>7, <1>8, <1>9, <1>10, <1>11

\* An acceptance is of a head the process represents: the harness holds its receipt.
LEMMA RecordObeys == ASSUME IInv, AcceptSynchronized \/ RecordDisposition PROVE Obeys
<1>1. /\ phase = "acquire" /\ todo # <<>> /\ proc' = proc /\ UNCHANGED <<guardVars, headVars>>
  BY DEF AcceptSynchronized, RecordDisposition, Executes, routerVars
<1>2. Shows' = Shows
  BY <1>1, SameShown
<1>3. PICK v, u \in Views :
        /\ Fits(v) /\ Current \in Instructions /\ Allowed(v, Current) /\ u = After(v, Current)
        /\ \E w : Runs(Tail(todo), u, w)
  BY <1>1, Ready
<1>4. PICK d \in Domains, x \in Words : d = Current.role /\ x = Current.arg
  BY <1>3 DEF Instructions
<1>5. disposition \in [Domains -> DispositionStates]
  BY DEF IInv, TypeOKHarness
<1>6. ASSUME NEW a, disposition' = [disposition EXCEPT ![d] = a]
      PROVE  Claims' = [Claims EXCEPT ![d] = Claim(a)]
  <2>1. \A e \in Domains : disposition'[e] = IF e = d THEN a ELSE disposition[e]
    BY <1>5, <1>6
  <2>2. \A e \in Domains : Claims'[e] = Claim(disposition'[e]) /\ Claims[e] = Claim(disposition[e])
    BY DEF Claims, Claim
  <2>3. \A e \in Domains : Claims'[e] = [Claims EXCEPT ![d] = Claim(a)][e]
    BY <2>1, <2>2 DEF Claims
  <2>4. QED
    BY <2>3 DEF Claims
<1>7. CASE AcceptSynchronized
  <2>1. Current.op = "accept" /\ guard = OpenFor(x)
    BY <1>4, <1>7 DEF AcceptSynchronized, Executes
  <2>2. \/ x = "H0" /\ v.known[d] # "none"
        \/ x = "H1" /\ v.known[d] = "H1"
    BY <1>3, <1>4, <2>1 DEF Allowed
  <2>3. /\ Speaks(v, d, proc[d], control[d], bundle[d], receipt[d], disposition[d])
        /\ Body(proc[d]) /\ Wrote(proc[d], output[d], receipt[d]) /\ proc[d] \in Processes
        /\ v.may # {} => guard = "open_for_H1"
        /\ v.known[d] \in {"none", "H0", "H1"}
    BY <1>3 DEF Fits, Said, RunFits, IInv, Told, TypeOKHarness, TypeOK, Views
  <2>4. proc[d].represented = x
    <3>1. CASE x = "H0"
      <4>1. guard # "open_for_H1"
        BY <2>1, <3>1 DEF OpenFor
      <4>2. d \notin v.may
        BY <2>3, <4>1
      <4>3. proc[d].represented # "H1"
        BY <2>3, <4>2 DEF Speaks
      <4>4. receipt[d] # "none"
        BY <2>2, <2>3, <3>1 DEF Speaks, Receipt
      <4>5. proc[d].represented # "none"
        BY <2>3, <4>4 DEF Wrote, Body
      <4>6. QED
        BY <2>3, <3>1, <4>3, <4>5 DEF Processes, Heads
    <3>2. CASE x = "H1"
      <4>1. v.known[d] = "H1"
        BY <2>2, <3>2
      <4>2. receipt[d] = "receipt_H1"
        BY <2>3, <4>1 DEF Speaks, Receipt
      <4>3. QED
        BY <2>3, <3>2, <4>2 DEF Wrote
    <3>3. QED
      BY <2>2, <3>1, <3>2
  <2>5. disposition' = [disposition EXCEPT ![d] = IF x = "H0" THEN "synchronized_H0" ELSE "synchronized_H1"]
    BY <1>4, <1>7 DEF AcceptSynchronized
  <2>6. Claim(IF x = "H0" THEN "synchronized_H0" ELSE "synchronized_H1") = x /\ x \in Heads
    BY <2>2 DEF Claim, Heads
  <2>7. Claims' = [Claims EXCEPT ![d] = x]
    BY <1>6, <2>5, <2>6
  <2>8. Shows[d] = x
    BY <2>4 DEF Shows
  <2>9. Law!OpenFor(x) = OpenFor(x) /\ Law!Heads = Heads
    BY DEF OpenFor, Law!OpenFor, Heads, Law!Heads
  <2>10. Law!Accept(d, x)
    BY <1>1, <1>2, <2>1, <2>7, <2>8, <2>9 DEF Law!Accept, Law!guardVars, Law!headVars, guardVars, headVars, Shows, Claims
  <2>11. QED
    BY <2>6, <2>9, <2>10 DEF Obeys, Law!Next
<1>8. CASE RecordDisposition
  <2>1. Current.op = "conclude" /\ disposition' = [disposition EXCEPT ![d] = x]
    BY <1>4, <1>8 DEF RecordDisposition, Executes
  <2>2. x \notin {"synchronized_H0", "synchronized_H1"}
    BY <1>3, <1>4, <2>1 DEF Allowed
  <2>3. Claims' = [Claims EXCEPT ![d] = "none"]
    BY <1>6, <2>1, <2>2 DEF Claim
  <2>4. Law!Withdraw(d)
    BY <1>1, <1>2, <2>3 DEF Law!Withdraw, Law!guardVars, Law!headVars, guardVars, headVars, Shows, Claims
  <2>5. QED
    BY <2>4 DEF Obeys, Law!Next
<1>9. QED
  BY <1>7, <1>8

\* A process that leaves H0 has been asked, and it is asked only when every domain is stale.
LEMMA ProcessObeys == ASSUME IInv, NEW d \in Domains, Process(d) PROVE Obeys
<1>1. HandleLine(d) /\ UNCHANGED <<guardVars, headVars>> /\ disposition' = disposition
  BY DEF Process, recordVars
<1>2. PICK v \in Views : Fits(v)
  BY DEF IInv
<1>3. /\ TypeOK /\ Body(proc[d]) /\ Wrote(proc[d], output[d], receipt[d])
      /\ Speaks(v, d, proc[d], control[d], bundle[d], receipt[d], disposition[d])
      /\ v.may # {} => guard = "open_for_H1"
  BY <1>2 DEF IInv, TypeOKHarness, Told, Fits, Said, RunFits
<1>4. PICK q \in Processes, t \in Seq(Objects) :
        /\ Emit(d, q, t)
        /\ Speaks(v, d, q, Tail(control[d]), bundle[d], receipt[d], disposition[d])
        /\ \/ q.represented = proc[d].represented
           \/ proc[d].represented = "none" /\ q.represented = "H0"
           \/ proc[d].represented = "H0" /\ q.represented = "H1"
  BY <1>1, <1>3, LineLeaves
<1>5. proc' = [proc EXCEPT ![d] = q] /\ proc \in [Domains -> Processes]
  BY <1>3, <1>4 DEF Emit, TypeOK
<1>6. \A e \in Domains : proc'[e].represented = IF e = d THEN q.represented ELSE proc[e].represented
  BY <1>5
<1>7. Shows' = [Shows EXCEPT ![d] = q.represented] /\ Shows[d] = proc[d].represented
  BY <1>6 DEF Shows
<1>8. Claims' = Claims
  BY <1>1, SameClaims
<1>9. CASE q.represented = proc[d].represented
  BY <1>1, <1>6, <1>9, LawStutters
<1>10. CASE proc[d].represented = "none" /\ q.represented = "H0"
  <2>1. Law!Materialize(d)
    BY <1>1, <1>7, <1>8, <1>10 DEF Law!Materialize, Law!guardVars, Law!headVars, guardVars, headVars, Shows, Claims
  <2>2. QED
    BY <2>1 DEF Obeys, Law!Next
<1>11. CASE proc[d].represented = "H0" /\ q.represented = "H1"
  <2>1. d \in v.may
    BY <1>4, <1>11 DEF Speaks
  <2>2. guard = "open_for_H1" /\ stale = Domains
    BY <1>3, <2>1 DEF IInv
  <2>3. Law!Refresh(d)
    BY <1>1, <1>7, <1>8, <1>11, <2>2 DEF Law!Refresh, Law!RefreshEligible, Law!guardVars, Law!headVars,
                                         guardVars, headVars, Shows, Claims
  <2>4. QED
    BY <2>3 DEF Obeys, Law!Next
<1>12. QED
  BY <1>4, <1>9, <1>10, <1>11

\* No domain shows H1 before H1 is committed, observed, verified and every domain stale, and no
\* head is claimed that the process does not represent.
THEOREM ObeysTheGuardLaw == Spec => ImplementsGuardLaw
<1>1. Init => Law!Init
  BY LawBegins
<1>2. IInv /\ [Next]_vars => [Law!Next]_Law!vars
  <2> SUFFICES ASSUME IInv, [Next]_vars PROVE Obeys
    BY DEF Obeys
  <2>1. CASE Harness
    BY <2>1, QuietObeys, RunObeys, RecordObeys DEF Harness
  <2>2. ASSUME NEW d \in Domains, Process(d) PROVE Obeys
    BY <2>2, ProcessObeys
  <2>3. CASE Timeout \/ IoError \/ TerminateRaises \/ (\E d \in Domains : ProcessDies(d)) \/ UNCHANGED vars
    BY <2>3, QuietObeys
  <2>4. QED
    BY <2>1, <2>2, <2>3 DEF Next
<1>3. QED
  BY <1>1, <1>2, Begins, Continued, PTL DEF Spec, ImplementsGuardLaw, Law!Spec

-----------------------------------------------------------------------------
(* The processes of PhysicalDomainClient, which sends any command at any time: for any set *)
(* of domains and any bounds their state is typed, and each writes one receipt for each    *)
(* head at most, H0 before H1.  Whether a receipt may still be written is told by two      *)
(* flags of the router, which are set together with it and never reset.                    *)

HeadReceipts == {"receipt_H0", "receipt_H1"}

ClientTyped == TypeOK /\ sent \in [Domains -> Nat]

\* Receipts in an output s: each once, H1 after H0.
Ordered(s) ==
  \A i, j \in DOMAIN s :
    /\ s[i] \in HeadReceipts /\ s[i] = s[j] => i = j
    /\ s[i] = "receipt_H1" /\ s[j] = "receipt_H0" => j < i

\* What the flags promise of an output: nothing before the binding, no H1 before the
\* refresh is accepted.
Promised(p, s) ==
  /\ ~p.bound => \A i \in DOMAIN s : s[i] \notin HeadReceipts
  /\ ~p.refreshAccepted => \A i \in DOMAIN s : s[i] # "receipt_H1"

ReceiptsTold == \A d \in Domains : Ordered(output[d]) /\ Promised(proc[d], output[d])

\* A bound process has an actor to inspect.
ShowsActor(p) == p.bound => p.shown # "none"

ClientInv == ClientTyped /\ ReceiptsTold /\ \A d \in Domains : ShowsActor(proc[d])

-----------------------------------------------------------------------------
(* Outputs *)

\* An object appended to an output is found at its end, the others stay.
LEMMA Appended ==
  ASSUME NEW s \in Seq(Objects), NEW t \in Seq(Objects)
  PROVE  /\ s \o t \in Seq(Objects)
         /\ \A i \in DOMAIN (s \o t) :
              \/ i \in DOMAIN s /\ (s \o t)[i] = s[i]
              \/ \E k \in DOMAIN t : i = Len(s) + k /\ (s \o t)[i] = t[k]
<1>1. s \o t \in Seq(Objects) /\ Len(s \o t) = Len(s) + Len(t)
  OBVIOUS
<1>2. ASSUME NEW i \in DOMAIN (s \o t), i \notin DOMAIN s
      PROVE  \E k \in DOMAIN t : i = Len(s) + k /\ (s \o t)[i] = t[k]
  <2>1. i - Len(s) \in DOMAIN t /\ i = Len(s) + (i - Len(s))
    BY <1>1, <1>2
  <2>2. (s \o t)[i] = t[i - Len(s)]
    BY <1>1, <1>2, <2>1
  <2>3. QED
    BY <2>1, <2>2
<1>3. \A i \in DOMAIN s : (s \o t)[i] = s[i]
  OBVIOUS
<1>4. QED
  BY <1>1, <1>2, <1>3

\* Objects without a receipt change nothing of what is promised.
LEMMA NoReceipt ==
  ASSUME NEW s \in Seq(Objects), NEW t \in Seq(Objects), NEW p \in Processes, NEW q \in Processes,
         Ordered(s), Promised(p, s),
         \A k \in DOMAIN t : t[k] \notin HeadReceipts,
         p.bound => q.bound, p.refreshAccepted => q.refreshAccepted
  PROVE  Ordered(s \o t) /\ Promised(q, s \o t)
<1>1. \A i \in DOMAIN (s \o t) :
        (s \o t)[i] \in HeadReceipts => i \in DOMAIN s /\ (s \o t)[i] = s[i]
  BY Appended
<1>2. Ordered(s \o t)
  BY <1>1 DEF Ordered, HeadReceipts
<1>3. Promised(q, s \o t)
  BY <1>1 DEF Promised, HeadReceipts, Processes
<1>4. QED
  BY <1>2, <1>3

\* The binding writes the receipt of H0, into an output that has none.
LEMMA BindingReceipt ==
  ASSUME NEW s \in Seq(Objects), NEW p \in Processes, NEW q \in Processes,
         Promised(p, s), ~p.bound, q.bound
  PROVE  LET t == <<"provenance", "receipt_H0">> IN Ordered(s \o t) /\ Promised(q, s \o t)
<1> DEFINE t == <<"provenance", "receipt_H0">>
<1>1. t \in Seq(Objects) /\ DOMAIN t = {1, 2} /\ t[1] = "provenance" /\ t[2] = "receipt_H0"
  BY DEF Objects
<1> HIDE DEF t
<1>2. \A i \in DOMAIN (s \o t) :
        (s \o t)[i] \in HeadReceipts => i = Len(s) + 2 /\ (s \o t)[i] = "receipt_H0"
  BY <1>1, Appended DEF Promised, HeadReceipts
<1>3. Ordered(s \o t) /\ Promised(q, s \o t)
  BY <1>2 DEF Ordered, Promised, HeadReceipts
<1>4. QED
  BY <1>3 DEF t

\* The refresh writes the receipt of H1 first, into an output that has none of it.
LEMMA RefreshReceipt ==
  ASSUME NEW s \in Seq(Objects), NEW t \in Seq(Objects), NEW p \in Processes, NEW q \in Processes,
         Ordered(s), Promised(p, s), ~p.refreshAccepted, q.bound, q.refreshAccepted,
         1 \in DOMAIN t, t[1] = "receipt_H1", \A k \in DOMAIN t : k # 1 => t[k] \notin HeadReceipts
  PROVE  Ordered(s \o t) /\ Promised(q, s \o t)
<1>1. \A i \in DOMAIN (s \o t) : (s \o t)[i] \in HeadReceipts =>
        \/ i \in DOMAIN s /\ (s \o t)[i] = s[i] /\ s[i] = "receipt_H0"
        \/ i = Len(s) + 1 /\ (s \o t)[i] = "receipt_H1"
  BY Appended DEF Promised, HeadReceipts
<1>2. \A i \in DOMAIN s : i < Len(s) + 1
  OBVIOUS
<1>3. Ordered(s \o t)
  BY <1>1, <1>2 DEF Ordered, HeadReceipts
<1>4. QED
  BY <1>3 DEF Promised

-----------------------------------------------------------------------------
(* One line *)

\* Every answer to a line is one Emit; it keeps the invariant if its process is typed and
\* its output is still as the flags of the process promise.
LEMMA EmitIInv ==
  ASSUME ClientInv, NEW d \in Domains, NEW q \in Processes, NEW t \in Seq(Objects),
         control[d] # <<>>, Emit(d, q, t), UNCHANGED sent,
         Ordered(output[d] \o t), Promised(q, output[d] \o t), ShowsActor(q)
  PROVE  ClientInv'
<1>1. /\ proc' = [proc EXCEPT ![d] = q]
      /\ control' = [control EXCEPT ![d] = Tail(control[d])]
      /\ output' = [output EXCEPT ![d] = output[d] \o t]
      /\ UNCHANGED <<witness, bundle, sent>>
  BY DEF Emit
<1>2. ClientTyped'
  <2>1. Tail(control[d]) \in Seq(Commands) /\ output[d] \o t \in Seq(Objects)
    BY Appended DEF ClientInv, ClientTyped, TypeOK
  <2>2. QED
    BY <1>1, <2>1 DEF ClientInv, ClientTyped, TypeOK
<1>3. ReceiptsTold'
  <2> SUFFICES ASSUME NEW e \in Domains
               PROVE  (Ordered(output[e]) /\ Promised(proc[e], output[e]))'
    BY DEF ReceiptsTold
  <2>1. CASE e = d
    <3>1. output'[e] = output[d] \o t /\ proc'[e] = q
      BY <1>1, <2>1 DEF ClientInv, ClientTyped, TypeOK
    <3>2. QED
      BY <3>1 DEF Ordered, Promised
  <2>2. CASE e # d
    <3>1. output'[e] = output[e] /\ proc'[e] = proc[e]
      BY <1>1, <2>2 DEF ClientInv, ClientTyped, TypeOK
    <3>2. QED
      BY <3>1 DEF ClientInv, ReceiptsTold, Ordered, Promised
  <2>3. QED
    BY <2>1, <2>2
<1>4. \A e \in Domains : ShowsActor(proc[e])'
  BY <1>1 DEF ClientInv, ClientTyped, TypeOK, ShowsActor
<1>5. QED
  BY <1>2, <1>3, <1>4 DEF ClientInv

\* An answer without a receipt, by a router that takes back no flag.
LEMMA QuietIInv ==
  ASSUME ClientInv, NEW d \in Domains, NEW q \in Processes, NEW o \in Objects \ HeadReceipts,
         control[d] # <<>>, Emit(d, q, <<o>>), UNCHANGED sent,
         q.bound = proc[d].bound, q.shown = proc[d].shown, proc[d].refreshAccepted => q.refreshAccepted
  PROVE  ClientInv'
<1>1. <<o>> \in Seq(Objects) /\ \A k \in DOMAIN <<o>> : <<o>>[k] \notin HeadReceipts
  OBVIOUS
<1>2. /\ output[d] \in Seq(Objects) /\ proc[d] \in Processes
      /\ Ordered(output[d]) /\ Promised(proc[d], output[d])
  BY DEF ClientInv, ClientTyped, TypeOK, ReceiptsTold
<1>3. Ordered(output[d] \o <<o>>) /\ Promised(q, output[d] \o <<o>>)
  BY <1>1, <1>2, NoReceipt
<1>4. ShowsActor(q)
  BY DEF ClientInv, ShowsActor
<1>5. QED
  BY <1>1, <1>3, <1>4, EmitIInv

\* The actions that refuse a line or inject a fault without publishing.
LEMMA RefusalIInv ==
  ASSUME ClientInv, NEW d \in Domains, UNCHANGED sent,
         \/ RejectAfterFailure(d) \/ RejectUnbound(d) \/ RejectUnknown(d) \/ RejectFaultArm(d)
         \/ RejectInspection(d) \/ RejectRefreshOrder(d) \/ RejectRefreshBundle(d)
  PROVE  ClientInv'
<1>1. proc[d] \in Processes
  BY DEF ClientInv, ClientTyped, TypeOK
<1>2. control[d] # <<>>
  BY DEF RejectAfterFailure, RejectUnbound, RejectUnknown, RejectFaultArm, RejectInspection,
         RejectRefreshOrder, RejectRefreshBundle, Operates, Takes
<1>3. "failure" \in Objects \ HeadReceipts
  BY DEF Objects, HeadReceipts
<1>4. CASE RejectAfterFailure(d)
  <2>1. Emit(d, proc[d], <<"failure">>)
    BY <1>4 DEF RejectAfterFailure
  <2>2. QED
    BY <1>1, <1>2, <1>3, <2>1, QuietIInv
<1>5. CASE Fail(d)
  <2> DEFINE q == [proc[d] EXCEPT !.failed = TRUE]
  <2>1. /\ q \in Processes /\ q.bound = proc[d].bound /\ q.shown = proc[d].shown
        /\ q.refreshAccepted = proc[d].refreshAccepted
    BY <1>1 DEF Processes
  <2>2. Emit(d, q, <<"failure">>)
    BY <1>5 DEF Fail
  <2> HIDE DEF q
  <2>3. QED
    BY <1>2, <1>3, <2>1, <2>2, QuietIInv
<1>6. CASE RejectRefreshBundle(d)
  <2> DEFINE q == [proc[d] EXCEPT !.refreshAccepted = TRUE, !.consumed = TRUE]
  <2>1. /\ q \in Processes /\ q.bound = proc[d].bound /\ q.shown = proc[d].shown
        /\ q.refreshAccepted
    BY <1>1 DEF Processes
  <2>2. Emit(d, q, <<"failure">>)
    BY <1>6 DEF RejectRefreshBundle
  <2> HIDE DEF q
  <2>3. QED
    BY <1>2, <1>3, <2>1, <2>2, QuietIInv
<1>7. QED
  BY <1>4, <1>5, <1>6 DEF RejectUnbound, RejectUnknown, RejectFaultArm, RejectInspection, RejectRefreshOrder

\* An injected fault that publishes nothing.
LEMMA InjectIInv ==
  ASSUME ClientInv, NEW d \in Domains, NEW p \in Processes, control[d] # <<>>, Inject(d, p), UNCHANGED sent,
         p.bound = proc[d].bound, p.shown = proc[d].shown, proc[d].refreshAccepted => p.refreshAccepted
  PROVE  ClientInv'
<1> DEFINE q == [p EXCEPT !.failed = TRUE]
<1>1. /\ q \in Processes /\ q.bound = p.bound /\ q.shown = p.shown
      /\ q.refreshAccepted = p.refreshAccepted
  BY DEF Processes
<1>2. "fault_result" \in Objects \ HeadReceipts
  BY DEF Objects, HeadReceipts
<1>3. Emit(d, q, <<"fault_result">>)
  BY DEF Inject
<1> HIDE DEF q
<1>4. QED
  BY <1>1, <1>2, <1>3, QuietIInv

\* The local step, the arming of a plan and the inspections: answers without a receipt.
LEMMA AnswerIInv ==
  ASSUME ClientInv, NEW d \in Domains, UNCHANGED sent,
         AcceptFaultArm(d) \/ ExecuteNonconsequentialStepOnce(d) \/ InspectPublishedRoute(d)
  PROVE  ClientInv'
<1>1. proc[d] \in Processes /\ control[d] \in Seq(Commands)
  BY DEF ClientInv, ClientTyped, TypeOK
<1>2. control[d] # <<>>
  BY DEF AcceptFaultArm, ExecuteNonconsequentialStepOnce, InspectPublishedRoute, Operates, Takes
<1>3. CASE AcceptFaultArm(d)
  <2> DEFINE q == [proc[d] EXCEPT !.plan = Head(control[d])]
  <2>1. Head(control[d]) \in Plans
    BY <1>3 DEF AcceptFaultArm, Operates, Takes
  <2>2. /\ q \in Processes /\ q.bound = proc[d].bound /\ q.shown = proc[d].shown
        /\ q.refreshAccepted = proc[d].refreshAccepted
    BY <1>1, <2>1 DEF Processes
  <2>3. Emit(d, q, <<"arm_receipt">>) /\ "arm_receipt" \in Objects \ HeadReceipts
    BY <1>3 DEF AcceptFaultArm, Objects, HeadReceipts
  <2> HIDE DEF q
  <2>4. QED
    BY <1>2, <2>2, <2>3, QuietIInv
<1>4. CASE ExecuteNonconsequentialStepOnce(d)
  <2>1. ASSUME Emit(d, [proc[d] EXCEPT !.stepped = TRUE], <<"step">>) PROVE ClientInv'
    <3> DEFINE q == [proc[d] EXCEPT !.stepped = TRUE]
    <3>1. /\ q \in Processes /\ q.bound = proc[d].bound /\ q.shown = proc[d].shown
          /\ q.refreshAccepted = proc[d].refreshAccepted
      BY <1>1 DEF Processes
    <3>2. Emit(d, q, <<"step">>) /\ "step" \in Objects \ HeadReceipts
      BY <2>1 DEF Objects, HeadReceipts
    <3> HIDE DEF q
    <3>3. QED
      BY <1>2, <3>1, <3>2, QuietIInv
  <2>2. ASSUME Fail(d) PROVE ClientInv'
    <3> DEFINE q == [proc[d] EXCEPT !.failed = TRUE]
    <3>1. /\ q \in Processes /\ q.bound = proc[d].bound /\ q.shown = proc[d].shown
          /\ q.refreshAccepted = proc[d].refreshAccepted
      BY <1>1 DEF Processes
    <3>2. Emit(d, q, <<"failure">>) /\ "failure" \in Objects \ HeadReceipts
      BY <2>2 DEF Fail, Objects, HeadReceipts
    <3> HIDE DEF q
    <3>3. QED
      BY <1>2, <3>1, <3>2, QuietIInv
  <2>3. QED
    BY <1>4, <2>1, <2>2 DEF ExecuteNonconsequentialStepOnce
<1>5. CASE InspectPublishedRoute(d)
  <2> DEFINE q == Inspected(proc[d], Head(control[d]))
  <2>1. /\ q \in Processes /\ q.bound = proc[d].bound /\ q.shown = proc[d].shown
        /\ q.refreshAccepted = proc[d].refreshAccepted
    BY <1>1 DEF Processes, Inspected, LaunchSlot, RefreshSlot
  <2>2. Emit(d, q, <<proc[d].shown>>)
    BY <1>5 DEF InspectPublishedRoute
  <2> HIDE DEF q
  <2>3. proc[d].bound
    BY <1>5 DEF InspectPublishedRoute, Operates
  <2>4. proc[d].shown \in Objects \ HeadReceipts
    BY <1>1, <2>3 DEF ClientInv, ShowsActor, Processes, Objects, HeadReceipts
  <2>5. QED
    BY <1>2, <2>1, <2>2, <2>4, QuietIInv
<1>6. QED
  BY <1>3, <1>4, <1>5

\* Inspections that meet their fault.
LEMMA FaultInspectionIInv ==
  ASSUME ClientInv, NEW d \in Domains, UNCHANGED sent, FaultInspection(d)
  PROVE  ClientInv'
<1> DEFINE q == Inspected(proc[d], Head(control[d]))
<1>1. proc[d] \in Processes /\ control[d] # <<>>
  BY DEF ClientInv, ClientTyped, TypeOK, FaultInspection, Operates, Takes
<1>2. /\ q \in Processes /\ q.bound = proc[d].bound /\ q.shown = proc[d].shown
      /\ q.refreshAccepted = proc[d].refreshAccepted
  BY <1>1 DEF Processes, Inspected, LaunchSlot, RefreshSlot
<1>3. Inject(d, proc[d]) \/ Inject(d, q)
  BY DEF FaultInspection
<1> HIDE DEF q
<1>4. QED
  BY <1>1, <1>2, <1>3, InjectIInv

\* A refresh whose fault strikes before the publication.
LEMMA FaultUnpublishedIInv ==
  ASSUME ClientInv, NEW d \in Domains, UNCHANGED sent, FaultUnpublishedRefresh(d)
  PROVE  ClientInv'
<1> DEFINE q == [proc[d] EXCEPT !.refreshAccepted = TRUE]
           r == [proc[d] EXCEPT !.refreshAccepted = TRUE, !.consumed = TRUE]
<1>1. proc[d] \in Processes /\ control[d] # <<>>
  BY DEF ClientInv, ClientTyped, TypeOK, FaultUnpublishedRefresh, Operates, Takes
<1>2. /\ q \in Processes /\ q.bound = proc[d].bound /\ q.shown = proc[d].shown /\ q.refreshAccepted
      /\ r \in Processes /\ r.bound = proc[d].bound /\ r.shown = proc[d].shown /\ r.refreshAccepted
  BY <1>1 DEF Processes
<1>3. Inject(d, q) \/ Inject(d, r)
  BY DEF FaultUnpublishedRefresh
<1> HIDE DEF q, r
<1>4. QED
  BY <1>1, <1>2, <1>3, InjectIInv

\* The binding, with the publication of H0.
LEMMA AcceptBindingIInv ==
  ASSUME ClientInv, NEW d \in Domains, UNCHANGED sent, AcceptBinding(d)
  PROVE  ClientInv'
<1> DEFINE q == [Published(proc[d], "H0") EXCEPT !.bound = TRUE, !.poison = (witness = "retention")]
           t == <<"provenance", "receipt_H0">>
<1>1. /\ proc[d] \in Processes /\ control[d] # <<>> /\ ~proc[d].bound
      /\ output[d] \in Seq(Objects) /\ Promised(proc[d], output[d])
  BY DEF ClientInv, ClientTyped, TypeOK, ReceiptsTold, AcceptBinding, Takes
<1>2. q \in Processes /\ q.bound /\ q.shown # "none"
  BY <1>1 DEF Processes, Published, Heads
<1>3. Emit(d, q, t)
  BY DEF AcceptBinding
<1>4. t \in Seq(Objects)
  BY DEF Objects
<1> HIDE DEF q
<1>5. Ordered(output[d] \o t) /\ Promised(q, output[d] \o t)
  BY <1>1, <1>2, BindingReceipt
<1>6. QED
  BY <1>1, <1>2, <1>3, <1>4, <1>5, EmitIInv DEF ShowsActor

\* The refresh, with the publication of H1.
LEMMA RefreshIInv ==
  ASSUME ClientInv, NEW d \in Domains, UNCHANGED sent, FaultPublishedRefresh(d) \/ RefreshOnce(d)
  PROVE  ClientInv'
<1> DEFINE q == Refreshed(proc[d])
           f == [Refreshed(proc[d]) EXCEPT !.failed = TRUE]
<1>1. /\ proc[d] \in Processes /\ control[d] # <<>> /\ proc[d].bound /\ ~proc[d].refreshAccepted
      /\ output[d] \in Seq(Objects) /\ Ordered(output[d]) /\ Promised(proc[d], output[d])
  BY DEF ClientInv, ClientTyped, TypeOK, ReceiptsTold, FaultPublishedRefresh, RefreshOnce, InRefreshOrder,
         Operates, Takes
<1>2. /\ q \in Processes /\ q.bound /\ q.refreshAccepted /\ q.shown # "none"
      /\ f \in Processes /\ f.bound /\ f.refreshAccepted /\ f.shown # "none"
  BY <1>1 DEF Processes, Refreshed, Published, Heads
<1>3. \/ Emit(d, f, <<"fault_result">>)
      \/ Emit(d, f, <<"receipt_H1", "fault_result">>)
      \/ Emit(d, q, <<"receipt_H1">>)
      \/ Emit(d, q, <<"receipt_H1", "retention">>)
  BY DEF FaultPublishedRefresh, RefreshOnce, Inject
<1> HIDE DEF q, f
<1>4. ASSUME NEW p \in {q, f},
             NEW t \in {<<"receipt_H1", "fault_result">>, <<"receipt_H1">>, <<"receipt_H1", "retention">>},
             Emit(d, p, t)
      PROVE  ClientInv'
  <2>1. /\ t \in Seq(Objects) /\ 1 \in DOMAIN t /\ t[1] = "receipt_H1"
        /\ \A k \in DOMAIN t : k # 1 => t[k] \notin HeadReceipts
    <3>1. CASE t = <<"receipt_H1">>
      BY <3>1 DEF Objects, HeadReceipts
    <3>2. CASE t = <<"receipt_H1", "fault_result">>
      BY <3>2 DEF Objects, HeadReceipts
    <3>3. CASE t = <<"receipt_H1", "retention">>
      BY <3>3 DEF Objects, HeadReceipts
    <3>4. QED
      BY <1>4, <3>1, <3>2, <3>3
  <2>2. p \in Processes /\ p.bound /\ p.refreshAccepted /\ ShowsActor(p)
    BY <1>2 DEF ShowsActor
  <2>3. Ordered(output[d] \o t) /\ Promised(p, output[d] \o t)
    BY <1>1, <2>1, <2>2, RefreshReceipt
  <2>4. QED
    BY <1>1, <1>4, <2>1, <2>2, <2>3, EmitIInv
<1>5. ASSUME Emit(d, f, <<"fault_result">>) PROVE ClientInv'
  <2> DEFINE t == <<"fault_result">>
  <2>1. t \in Seq(Objects) /\ \A k \in DOMAIN t : t[k] \notin HeadReceipts
    BY DEF Objects, HeadReceipts
  <2>2. Ordered(output[d] \o t) /\ Promised(f, output[d] \o t)
    BY <1>1, <1>2, <2>1, NoReceipt
  <2>3. QED
    BY <1>1, <1>2, <1>5, <2>1, <2>2, EmitIInv DEF ShowsActor
<1>6. QED
  BY <1>3, <1>4, <1>5

-----------------------------------------------------------------------------
(* Every step *)

LEMMA HandleLineIInv == ASSUME ClientInv, NEW d \in Domains, HandleLine(d), UNCHANGED sent PROVE ClientInv'
  BY RefusalIInv, AnswerIInv, FaultInspectionIInv, FaultUnpublishedIInv, AcceptBindingIInv, RefreshIInv
     DEF HandleLine

LEMMA ClientInitially == ClientInit => ClientInv
  BY DEF ClientInit, RouterInit, NewProcess, ClientInv, ClientTyped, TypeOK, ReceiptsTold, Ordered, Promised, ShowsActor,
         Processes, Objects, Commands

\* What the client, the death of a process and the staging of a bundle change is in no
\* output and in no flag.
LEMMA ClientIInv ==
  ASSUME ClientInv, NEW d \in Domains,
         \/ Start(d) \/ \E c \in Commands : Submit(d, c)
         \/ \E b \in {"exact", "corrupt"} : Stage(d, b)
         \/ Crash(d) /\ UNCHANGED sent
  PROVE  ClientInv'
<1> USE DEF ClientInv, ClientTyped, TypeOK, ReceiptsTold, ShowsActor
<1>1. ASSUME NEW life \in {"running", "exited"}, proc' = [proc EXCEPT ![d].life = life],
             UNCHANGED <<witness, control, output, bundle, sent>>
      PROVE  ClientInv'
  <2>1. \A e \in Domains :
          /\ proc'[e] \in Processes
          /\ proc'[e].bound = proc[e].bound /\ proc'[e].shown = proc[e].shown
          /\ proc'[e].refreshAccepted = proc[e].refreshAccepted
    <3> SUFFICES ASSUME NEW e \in Domains
                 PROVE  /\ proc'[e] \in Processes
                        /\ proc'[e].bound = proc[e].bound /\ proc'[e].shown = proc[e].shown
                        /\ proc'[e].refreshAccepted = proc[e].refreshAccepted
      OBVIOUS
    <3>1. proc[e] \in Processes
      OBVIOUS
    <3>2. proc'[e] = IF e = d THEN [proc[e] EXCEPT !.life = life] ELSE proc[e]
      BY <1>1
    <3>3. QED
      BY <3>1, <3>2 DEF Processes
  <2>2. proc' \in [Domains -> Processes]
    BY <1>1, <2>1
  <2>3. QED
    BY <1>1, <2>1, <2>2 DEF Ordered, Promised
<1>2. ASSUME NEW c \in Commands, Submit(d, c) PROVE ClientInv'
  BY <1>2 DEF Submit, Ordered, Promised
<1>3. ASSUME NEW b \in {"exact", "corrupt"}, Stage(d, b) PROVE ClientInv'
  BY <1>3 DEF Stage, Ordered, Promised
<1>4. QED
  BY <1>1, <1>2, <1>3 DEF Start, Crash

LEMMA ClientSteps == ClientInv /\ [ClientNext]_clientVars => ClientInv'
<1> SUFFICES ASSUME ClientInv, [ClientNext]_clientVars PROVE ClientInv'
  OBVIOUS
<1>1. CASE UNCHANGED clientVars
  BY <1>1 DEF clientVars, routerVars, ClientInv, ClientTyped, TypeOK, ReceiptsTold, Ordered, Promised, ShowsActor
<1>2. CASE ClientNext
  BY <1>2, HandleLineIInv, ClientIInv DEF ClientNext, ProcessStep
<1>3. QED
  BY <1>1, <1>2

\* The state of the processes is typed, whatever their client sends (HandleLine).
THEOREM ClientRouterTyped == ClientSpec => []TypeOK
<1>1. ClientInv => TypeOK
  BY DEF ClientInv, ClientTyped
<1>2. QED
  BY <1>1, ClientInitially, ClientSteps, PTL DEF ClientSpec

\* Each head is published at most once, H0 before H1, for any set of domains, any number of
\* commands and any depth of the pipe (bBindingAccepted and bRefreshAccepted of the router).
THEOREM ReceiptsInOrder == ClientSpec => []ReceiptsOnceInOrder
<1>1. ClientInv => ReceiptsOnceInOrder
  BY DEF ClientInv, ReceiptsTold, Ordered, HeadReceipts, ReceiptsOnceInOrder
<1>2. QED
  BY <1>1, ClientInitially, ClientSteps, PTL DEF ClientSpec

=============================================================================
