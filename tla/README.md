# Verification of THE_CITY

THE_CITY keeps an authoritative canonical record of a city. Agents, scenarios and disposable
Unreal processes may only propose: a canonical transaction revalidates the proposal on the
record it would change, commits an effect or a failure, and leaves an entry in a causal
ledger. Unreal shows the record and hands back evidence; it never holds authority. The
repository proves that machine scenario by scenario, in Python (`src/proof_kernel`), in C++
(`src/CityMaterializationProof`) and in the documents at its root.

This directory holds TLA+ models of that machine, checked by TLC on small instances, and
theorems about them checked by the TLA+ proof system. `PROJECT.json` lists, per component,
run, property, mutant and theorem, what this text explains, and `map` gives the source lines
that each definition stands for.

## 1. Inventory

The parts of the system, the state each keeps, and what makes each correct. "Hard" says
which behaviour an ordinary test does not reach.

**Canonical kernels** (`kernel.py`, `roundtrip.py`, `contention.py`,
`deployment_opportunity.py`, `live_commitment.py`, `shared_state_interference.py`,
`bounded_agent_selection.py`). State: a record (areas, routes with capacity and leases,
agents' means, commitments, terminal dispositions) and a ledger. Operations: one transaction
per action of the city, one adjudication per proposal from outside; a driver resolves them in
a fixed order. Hard: what a half-finished traversal or a refused claim must give back; the
order inside a batch bound to one record; proposals that are stale, foreign or handed in
again. Correct: means are neither lost nor doubled, leases follow the unit, the outcome of a
scenario follows from its causes alone, evidence is spent once.

**Resolution runtimes** (`causal_lod_equivalence.py`,
`record_relative_chronological_resolution.py`, `same_clock_successor_semantics.py`,
`external_input_boundary.py`; substrate in `resolution_semantics_substrate.py`). State: a
record with a schedule, per runtime a copy of it, a cursor into the external inputs, a local
display. Operations: inspect, jump, promote, demote, advance to the next boundary, open a
runtime on a record, resolve a boundary kept by the caller. Hard: stale displays and
boundaries, inputs offered again after a cursor reset, work created at the clock of its
creator. Correct: there is one history, the ledger explains the record, inputs go first, the
work comes to its end.

**External evidence arbitration** (`concurrent_external_evidence_arbitration.py`; its harness
and the Unreal surface only produce files). State: the record, admitted members, a constructed
batch, one resolution in progress. Operations: admit, construct, resolve with a fault at any
of its fault points, publish. Hard: any order of presentation, replays under another id, a
fault after provisional changes. Correct: one lawful successor, published whole, whatever the
order; every member spent.

**Physical current-head guard** (`PhysicalCurrentHeadGuard` in
`simultaneous_physical_domains.py`). State: guard state, verified observation, stale domains.
Operations: close, verify, classify stale, open, fail closed, refresh eligibility. Hard: it
never reads the head it guards; the order of the calls alone makes its answers true.

**Physical-domain process** (`SimultaneousPhysicalDomain*` in C++). State: flags of the
command router, the adapter's represented head, the published actor, an armed fault.
Operations: one per line of stdin. Hard: duplicated, reordered, pipelined and malformed
commands; failures inside a publication.

**Simultaneous physical domains harness** (`simultaneous_physical_domains_harness.py`).
Launches two processes suspended, binds and resumes them, accepts their representations,
moves the head behind the guard, publishes an observation file durably, refreshes, and
terminates what it launched; some seventy acquisitions are variants of this. Hard: a process may
die, answer late or never between any two steps; a system call may fail. Correct: it
implements the guard law, what it records is what the processes show, it ends, nothing is
left running.

**Live-evidence process** (plugin `CityLiveEvidenceProof`). State: flags, the set of operation
ids seen, the pending materialization, the actors of the game world. Operations: one per line,
and a materialization that spans ticks while the destroyed pair disappears. Hard: lines that
arrive during that wait, faults injected between receipt and observation, the terminal census.

**Live-evidence acquisition** (`live_cross_domain_evidence_round_trip_harness.py`; cases in
`live_cross_domain_evidence_round_trip.py`). Per case: connections, a process cohort, the
canonical round trip, claims about the worlds, a record of the case. Thirty-five frozen cases
(witnesses W1-W8, canonical faults C01-C06, failures F01-F18). Hard: deadlines against late
answers, deaths at any step, errors in the cleanup itself, expected failures told from
accidental ones. Correct: no claim that is not true of the game world, publication only on
evidence, no command after a failure, every identified child ended, a status that is earned.

**Cross-domain occupancy** (`cross_domain_canonical_occupancy_materialization*.py`,
`CrossDomainOccupancy*` in C++). Two processes show the origin and the destination of one
subject through three heads, R0, Rtransit, Rfinal. State: per process the flags of its router,
the generation it says it represents, its anchor and its subject, an armed stage; on the
harness's side the guard, the heads, the receipts, the descriptors of the pipes. Operations:
twenty-two stages of a publication, twelve of an observation, faults before or after each, a
replacement of one process. Hard: a failure between the destruction of the predecessor and the
spawn of the successor; evidence read through the descriptors of a process that is gone; head
states that are constants of the caller. Correct: the subject never has two bodies, a process
says what it shows, dispositions are so, evidence is of the process it names.

**Canonical occupancy transition** and **spatial topology identity**
(`canonical_occupancy_transition.py`, `canonical_spatial_topology_identity.py`): two more
kernels, one subject over one route and the closure of one route. Hard: a boundary the caller
has kept; a query by endpoints in any order.

**Acquisitions that keep evidence in files** (`integrated_unreal_lifecycle_harness.py`,
`canonical_spatial_topology_identity_harness.py`, and the outer halves of the occupancy and the
physical-domains harness). State: files, torn or whole, what the running command holds, the
Unreal processes. Operations: the operator's commands, each a sequence of writes; staging and
renaming; caches that a later run uses again. Hard: a command killed between any two of its
steps, sources edited while or between runs, commands given in another order. Correct: what a
verifier accepts is true and by the code that judges it; a successor is handed out only when
the predecessor's process is dead; evidence is not lost.

**Release verifiers** (`verify_*`). Sequential readers of what an acquisition wrote; they
compare facts with each other. Correct: they accept what was earned and nothing else; no field
of an accepted release can be anything.

**Specification validators** (`validate_*`), **policy adapter, source audits, edge closure**,
**Controltower tools**: sequential checks of specification files, reports and source text; no
state of the machine. Not modelled.

Interactions: the harnesses speak to the processes over stdin and stdout, one line per
command and object; they share with them nothing but a directory of bundles. Canonical
functions are called in process. Evidence files of the first Unreal actors are the proposals
that the kernels take in. Nothing but the canonical functions changes a record.

## 2. Plan

Written, in this order, the most important behaviour first:

1. the guard as a law, the process, the harness that composes them (section 3.1);
2. the arbitration and its law (3.2);
3. the live-evidence process, connection, case, the law of its claims and the verifier of its
   trace (3.3);
4. the resolution payloads and runtimes (3.4);
5. the canonical kernels, nine of them (3.5);
6. the occupancy router, its harness and its law (3.6);
7. the acquisitions that keep evidence in files, and what their verifiers demand (3.7);
8. proofs (section 5): of the guard and of the occupancy law in their own modules, of the others
   in six modules of their own.

Still open, in the order of what they would add:

* the validation of bundles and provenance of the physical domains, and of specification files;
* the payload of the integrated proof as a client of CanonicalResolution (its gate and token);
* proofs of the verifier of a live case (VerifiedAsEarned), of what a release leaves open
  (ReleaseIsClosed), and of the accounting of the kernels. TLC checks all of these.

Abstract specifications and what implements them: CurrentHeadGuard (the harness of 3.1),
ExternalArbitrationLaw (the arbitration), RoundTripLaw (a live case), OccupancyLaw (an
occupancy case).

## 3. Modules

Definitions keep the names of the code where TLA+ allows it. An operator named `...Mutated`
is a definition with a plausible mistake: it is in no specification and shows that a property
notices the mistake.

### 3.1 Simultaneous physical domains

| module | models |
| --- | --- |
| CurrentHeadGuard | the guard's methods and what they are called around, for any set of domains, and its proofs |
| PhysicalDomainRouter | one process: HandleLine, adapter, probe, published actor; no client |
| PhysicalDomainClient | that process under a client that writes any command at any time |
| SimultaneousPhysicalDomains | the harness with its two processes |
| SimultaneousPhysicalDomains_proofs | its proofs, and those of PhysicalDomainClient |

In CurrentHeadGuard `guard`, `verified` and `stale` are the object's fields; `head`,
`observed`, `represented` and `claim` are what the methods talk about without reading it.
`bypassed` remembers that the head moved under an open guard, which the guard-open control
does on purpose.

In PhysicalDomainRouter a process is a record of the router's and the adapter's flags. A
command is named by its schema, a bundle by whether it is the exact one, a receipt by the head
it names. One action handles one line to its end, as the game thread does. The compiled fault
boundaries are grouped by what the fault leaves behind.

In SimultaneousPhysicalDomains an acquisition is `Program(case)`, a sequence of instructions,
with an action per kind of instruction. What raises abandons the rest for the `finally`
clause. `mishap` says what goes wrong outside the program: nothing (`excluded`), nothing yet,
or something has happened, which is a death, a timeout or a failing system call at any point,
where a drain, which writes what it reads to a file, is one too. The last drain of a terminate
raises after the child is reaped and before its descriptors are closed (TerminateRaises); an
instruction that raises so goes to the `finally` clause, which swallows a second error.

### 3.2 External evidence arbitration

ExternalArbitrationLaw says that one set is adjudicated in one step, the first gets the slot,
all are spent. ExternalEvidenceArbitration has the four calls gate by gate, the resolution as
one action per step of its loop and per fault point. The caller is free: it submits altered
evidence, presents any sequence of what it was given, alters batch and member map, injects any
fault. Evidence is a record of which groups of fields are exact. ExternalEvidenceArbitration_proofs
proves that the detailed machine implements the law.

### 3.3 Live evidence

| module | models |
| --- | --- |
| LiveEvidenceProcess | the game mode: stdin queue, tick, pending replacement, faults, world |
| LiveEvidenceClient | that process under a parent with a few lines out of the ordinary |
| LiveEvidenceConnection | OriginalProtocolConnection over the queues, with deadline, death and drain |
| LiveEvidenceCase | one frozen case: prefix, failure, terminal census, cleanup, record |
| LiveEvidenceRelease | the trace a case writes, and what its verifier derives from it |
| LiveEvidenceCase_proofs | its proofs, and those of LiveEvidenceClient |
| RoundTripLaw | what a case promises of its claims |

A process that has accepted its shutdown dispatches the lines already queued until the engine
obeys (`exiting`); it is terminal, so that it answers a census and refuses the rest.

The parent is sequential: a script of steps per stage (`Script`), `stage` and `at` its
position. A step that raises in the prefix or the failure withdraws every claim and goes to
the cleanup; the census collects errors. The cleanup takes each process in turn: shutdown if
it is bound and healthy, wait, the signal it cannot ignore if it could be identified, drain,
sample, close. Processes tick, die and answer in between. `CalmCases` run without any mishap:
there a deadline passes only when the process has nothing left to do. In the others a deadline
may pass while the process would still answer, and up to MishapBound crashes or exceptions
happen anywhere, the failure of a drain thread (`stopped`) among them: the streams of a case
claim what they retain from one budget, so that once one thread has failed the others may
follow. What such a thread had drained is read no more, and the parent learns of it at its next
write, at its next read or at the end of the stream. Bytes are not counted.

LiveEvidenceRelease adds `trace`, the events `harness.jsonl` gets, written by the step that
causes them, and the verifier's relations over it, rule by rule: lifecycle of each process,
order of the protocol, heads and representations derived again from the trace, the outcome of
each case. The verifier reads nothing else. The trace of a case that has recorded an error is
dropped: its status is `acquisition_failure`, which the verifier refuses whatever it reads.
Digests, bytes of pipes, descriptors and clocks are not modelled.

### 3.4 Resolution runtimes

CanonicalPayloads holds the four payloads as one record with a schedule, gates, outcomes,
accepted inputs and a ledger, the discovery of the next boundary and its resolver; a hash is an
injective name of a record. CanonicalResolution holds the runtimes: `display` is what a
promotion shows and is not refreshed by an advance, as in the code. `Resume` presents any
boundary that can be written down. `Tamper` writes a local mark or a clock into a runtime,
once per run. One thing the model leaves out: `runtime_fail_closed_results` reports the label
its caller hands it, not the code that was raised. CanonicalResolution_proofs has its proofs.

### 3.5 Canonical kernels

CanonicalLedger has what the kernels share: a plan (the driver's remaining steps), the record,
the ledger, and `Resolve`, one transaction. A record stands for its own hash. PoliceTraversal has
the effects of the two-edge traversal that three kernels resolve. Then one module per kernel:
AshCrossing, BridgeRoundTrip, BridgeContention, DeploymentOpportunity, LiveCommitment,
CommitmentInterference, AgentSelection, OccupancyTransition, RouteClosure; CanonicalTransactions
puts them behind one record and states the properties.

What is handed in is free: `Proposals` are of any id of the scenario, made from the record at
hand, from any record published earlier in the run (the parent of a clock advance included) or
from none, with exact fields or not. Plans include the branches the code has, the exclusivity
rejection of the deployment, an early piece of evidence handed in twice, and two applies of
the round trip. Where the code leaves something behind, so does the model: in the contention
the unit is still on E_AB with its lease when a destruction-first run ends on a refused
destruction, and a refused selection still records its disposition.

### 3.6 Cross-domain occupancy

CrossDomainOccupancyRouter is one process: `HandleLine`, and the adapter whose publication is
cut at every stage an armed fault names, before or after it (`WorldAfter` says what each cut
leaves). A publication also ends where the engine destroys, spawns or configures no actor or
another world is found than was made, M18 to M21, with no fault armed (EngineRefuses); M22 cannot
fail. A receipt names the target and the subject of the world it was enumerated from.
CrossDomainOccupancy is the harness with its three slots, domain A, domain B and the
replacement, in the style of SimultaneousPhysicalDomains: `Program(case)` and one action per
kind of instruction. What differs from there is what differs in the code: launches overlap,
`next_object` takes the first object of the awaited schema and skips any other, the number of a
pipe goes to whoever is spawned after it was closed. A terminate whose last drain raises leaves
numbers open; nothing is spawned after it. `AllCases` are all 213 cases of the
acquisition. OccupancyLaw is what the proof promises of heads, guard and worlds, with its
proofs; CrossDomainOccupancy_proofs has those about the harness.

### 3.7 Evidence in files

| module | models |
| --- | --- |
| EvidenceStore | files, torn and then whole; one command at a time, as the steps it still has to do |
| IntegratedLifecycle | the operator's commands of the integrated witness, of its primary and its control root |
| TopologyAcquisition | one acquisition from the first process to the renamed release, with the four refused inputs |
| OccupancyAcquisition, OccupancyRelease | the eleven cached groups and the assembly; the release and its verifier |
| PhysicalDomainsAcquisition, PhysicalDomainsRelease | the command that writes in place; the release and its verifier |
| EvidenceReleases | all of them, each a scene, with crashes and edits |
| EvidenceReleases_proofs | its proofs |

A release is a function from occurrences (a witness, a control, a fault) and places to facts: a
process, a row about a process, a build, or what the code has frozen for the place. The
verifier knows a fact only by comparing it, so `Closed` can ask, for every fact of a release
that is accepted, whether another one would be refused when all that is derived from it is made
to agree.

What the code does here and a reader may not expect, each in the model:

* `resolve` of the integrated witness asks whether the termination receipt is a file: a torn
  one passes. A kill between the removals of the two source directories makes it unrepeatable,
  and an output not captured before it is a dead end. The pid handed to the termination command
  is trusted.
* An occupancy cache survives an edit of the sources. Only the census of the loaded module and
  the bytes of the source audit reject it, and neither the binding nor the authority group has
  them. A torn cache raises until the operator removes it; so does a staging directory left by a
  dead command whose process id comes again.
* The physical-domains acquisition demands a new directory and writes it in place. A killed run
  leaves a part of it, to be removed by hand; nothing of a failed run is kept. Nothing ties the
  loaded module to a build of the present sources, nor to one for all processes.
* Facts of a physical-domains release that its verifier does not compare, and that therefore are
  not in `Closed`: the machine of the guard, resulting dispositions, the publication of a head,
  dispositions at launch, the liveness samples of W1 and W2, the projections of W5 (its own
  booleans are trusted), the contents of the rebind and replay oracles. The head of a receipt is
  not tied to its place.

## 4. Runs

Twelve runs; the numbers are distinct states.

| run | states | instance and why it is enough |
| --- | --- | --- |
| guard_law | 2,025 | three domains, one more than launched, so that "all stale" differs from "both" |
| router_client | 185,569 | one process (they share nothing), six commands, two waiting: bind, inspect, arm, refresh, inspect, and one too many |
| spd_mishaps | 15,033 | both domains, all acquisitions, and any deaths, timeouts and failing system calls, or none at all |
| arbitration | 2,655 | the two inputs of the frozen table, presentations of up to three: missing, doubled, superfluous |
| evidence_client | 1,141,021 | one process, five witnesses, two lines or ends out of the ordinary, two lines waiting: any two mistakes together, lines behind a shutdown among them |
| case_mishaps | 747,171 | all 35 cases calm; five of them with a crash, an exception or a failing drain anywhere, premature deadlines, failing spawns of actors |
| resolution_runtimes | 45,523 | four payloads, two runtimes and two external inputs each: a stale boundary or input needs a second runtime |
| canonical_kernels | 8,246 | every scenario, switch, branch and fixture of the nine kernels, every proposal |
| occupancy | 207,996 | all 213 cases, each with no mishap and with any deaths, timeouts, failing system calls and refusals by the engine |
| releases | 77,526 | every scene, one command killed at any step, one edit of the sources at any moment; a repair that is killed again is not considered |
| spd_publication_fault, case_leak | | see Findings |

The five cases with mishaps in case_mishaps are a witness with both orders reversed (W6), a fault
of the canonical call (C01), a domain killed and replaced (F07), a torn publication (F14) and a
false observation (F16b); between them they take every kind of step that a failure has.

What they show:

* guard_law: ClaimsCurrent, RefreshedAfterStale and FailedClosedIsFinal hold for any order of
  the calls the guard admits.
* router_client: each head is published once and in order, whatever the client sends.
* spd_mishaps: every acquisition implements the guard law (ImplementsGuardLaw, a refinement);
  its records match the processes; nothing is left running; it ends whatever the processes do,
  and completes when nothing goes wrong.
* arbitration: the record is lawful, evidence is spent; the machine implements the law.
* evidence_client: an operation succeeds once; a census never finds a torn representation the
  process has not reported; the old pair stands until its successor.
* case_mishaps: a calm case has the outcome its row promises (NominalOutcome). In all of them
  claims are true of the game world itself (RoundTrip, a refinement of RoundTripLaw), publication
  rests on evidence, one command at a time, identified children are ended, the case ends; and
  the verifier, from the trace alone, accepts exactly the cases that are earned, whose
  streams are whole and whose processes were all shut down (VerifiedAsEarned). A process that dies by itself after its last
  sample is not shut down: the acquisition records the case as a success and the verifier
  refuses it.
* resolution_runtimes and canonical_kernels: the properties named in section 1.
* occupancy: one body (OneBody), a process says what it shows (SaysWhatItShows), dispositions
  match the worlds, evidence is of the process it names, nothing is left running, every case
  implements OccupancyLaw and ends.
* releases: what a verifier accepts or a command publishes is true (ReleaseIsTrue) and closed
  (ReleaseIsClosed); a successor comes after a death (Succession); evidence is not lost
  (NothingLost); a topology acquisition that fails leaves nothing (NothingLeftBehind).

Every property has a mutant of a mapped definition that violates it under its own run.

`CHECK_DEADLOCK FALSE` stands where the program may stop: an acquisition or a case that has
ended, a client at its bound, a driver with no step left, a history whose files an operator
would have to repair by hand. The cases of live evidence have an explicit final step instead.
The bounds are all in the guards: CommandBound, PipeBound, OddBound, PresentationBound,
MishapBound, InputBound, CrashBound, EditBound, one Tamper per run of a runtime. Deaths and
errors of an acquisition or occupancy case need none: each ends a process or the program. Most runs check a module as it is, with its own `.cfg`; an MC
module stands only where a constant needs a definition.

### Fairness

* HarnessSpec, of SimultaneousPhysicalDomains and of CrossDomainOccupancy: weak fairness of the
  harness, which is a running program, and of its timeout, because every wait has a deadline.
  The processes' steps are fair only in the behaviours where mishaps are excluded; in the others
  nothing is assumed of them.
* `Fairness` of LiveEvidenceCase: weak fairness of the parent's own steps (not of its mishaps)
  and of the death of a process that was sent SIGKILL; ticks of processes in calm cases only.
  In the others no process need ever answer.
* CanonicalResolution: weak fairness of Advance for each runtime: its coordinator goes on.

## 5. Proofs

The theorems hold for every value of the constants; each module names its assumptions.

**CurrentHeadGuard** (`Domains # {}`): TypeCorrect, ClaimsAreCurrent,
RefreshFollowsStale, FailClosedIsFinal, for any set of domains. Neither safety property is
inductive: ClaimsCurrent says nothing of how far the guard has come. `IInv` adds that
(GuardInv: open for H1 only when all are stale, stale only after verification, verified only
of an observed H1, and a head that moved under an open guard is `bypassed`) and what a domain
represents against it (DomainInv). One step per action, type, guard and domain parts apart.
With the refinement below they hold of the harness.

**ExternalEvidenceArbitration_proofs** (distinct ranks; every set of inputs can be ordered):
Lawful, Implements and Spent, for any set of inputs and any presentation bound. `IInv` says that a
constructed batch is the ordered set of one fixture with exactly its admitted members, and
that the working state of a call is, at each point of its loop, a prefix of the successor that
the law names; so Publish installs that successor, and it is the only step that changes the
record. Spent follows from what is published: whatever names an adjudicated input, or an event of
one, fails the admission gate that the code has for it and no gate before it.

**OccupancyLaw** (no assumption): LawTyped, RepresentedLast (resolved before observed, observed
before represented) and DomainsInStep (with its guard in use no domain is more than one
generation ahead of another), for any set of domains. DomainsInStep is not inductive: the
invariant says in addition what a guard in each of its states implies of every domain. With the
refinement ImplementsOccupancyLaw they hold of the occupancy cases.

**SimultaneousPhysicalDomains_proofs** (two distinct roles; cases among AllCases, the acquisitions
that `acquire_all` performs; any mishaps): EndsClean, RecordsMatch and ObeysTheGuardLaw.

Its first part is about PhysicalDomainClient, the process under any client (ClientRouterTyped,
ReceiptsInOrder; bounds are natural numbers, the fault target a domain), for any domains, any
number of commands and any depth of the pipe. The invariant relates an output to the router's
flags (Promised): a receipt may still be written only while `bound`, for H0, or
`refreshAccepted`, for H1, is unset. The flags are set together with the receipt and never reset.

EndsClean needs no program. CleanupInv: a process runs only when the harness owns it, because
one step resumes it and takes it over, and no step of its own revives a process; the `finally`
clause does not end before all owned are reaped.

The other two are true because of the *order* of a program's instructions: the predicate that a
wait passes to `next_object` admits the receipt of either head, and a fault case sends `refresh`
without asking the guard. The argument states this order once, without the state. A View is what
the harness knows at a position of its program: guard, heads, what it staged, armed and sent to
each domain, what it has had back. `Allowed(v, i)` says what instruction i relies on in view v,
`After(v, i)` what is known when it is done, `Runs(p, v, w)` that program p leads from v to w with
every instruction allowed. ProgramRuns shows by composition (a lemma for concatenation, one for
each phase of a program) that every program runs from the beginning. The invariant is then:

* some view fits the state (`Fits`): the guard and the heads are the view's; each process, with
  every line still in its pipe and every object not yet read, is where the view says it can be;
* the instructions still to do run from that view (`Leaves`).

A step of the harness executes an allowed instruction and moves to the view after it; a step of a
process, a death or a lost deadline keeps the view. TLC checked the invariant first, with the view
carried along as an additional variable, on all cases.
ObeysTheGuardLaw takes one step per action from it: a refresh happens only where the view has the
guard open for H1 and the domain stale; the other steps map to a step of the law or to a stutter.

**CrossDomainOccupancy_proofs** (three distinct slots, cases among AllCases, any mishaps):
ShowsWhatItSays, EndsClean, OneBodyAtMost, SaidAsShown, EvidenceOfItsOwn and ObeysTheLaw. There a
launch is several instructions, so that "nothing runs without a handle" rests on the programs:
every program is put together from pieces in which no process is resumed before it is identified
(Pieces, closed under concatenation), and HandlesFirst says this of what is still to be done.
ProcessInv says that each cut of a publication leaves the process truthful. That the two domains
never show the occupant at two places, that a disposition is what the world shows, that a
published record holds what its own run observed and that the case implements OccupancyLaw are
again matters of order, with the same argument: Views, Allowed, After, Runs, and an invariant that
the state fits a view from which the rest of the program runs.

**LiveEvidenceCase_proofs** (three labels, a natural mishap bound; any cases, any mishaps):
Alternates, NoneSurvives, OnEvidence, ObeysTheLaw, ClaimsAreTrue and HeadMovesUnclaimed.

Its first part is about LiveEvidenceClient, the process under a parent with lines out of the
ordinary (natural bounds, labels among the three): ProcessTyped, RepresentationIsWhole,
EachSucceedsOnce, OldPairStands, for any bounds. One statement per process about its state and
its whole output, `Holds`: a representation is whole unless reported otherwise; the world of a
fault event is that of every later census, because the process is terminal and waits for nothing
(WorldTold); what has succeeded is used up and not pending (Once); evidence follows the report of
R0, and R1 the evidence (Succeeds).

The invariant of the case is a stack; each level is inductive over the ones below it.

* TypeInv with ScriptInv: the types, and the order of the scripts. A View is what the parent knows
  at a position of its prefix or its failure stage: the calls made, the claims withdrawn, the child
  that is spawned and not resumed. `Allowed`, `After` and `Leads` are used as above; PrefixLeads
  and FailureLeads compose them for all 35 programs. LeadsInv says that the state fits a view
  from which the rest of the program leads on.
* AwaitInv: only the process the parent stands at is awaited, and only by a step that waits.
* ExchangeInv: of a command, the line in the pipe, the process that waits for an actor to go and
  the response not yet read, there is at most one, and none when nothing is asked; a connection
  that failed asks nothing more. Alternates is this and the types.
* CleanInv: what the cleanup has passed is swept: dead, sent SIGKILL, or never identified and never
  resumed, since no step sends a process back to an earlier life. NoneSurvives is its last position.
* EvidenceInv: WorldInv (a world shows what its process was given last, and a successor is on
  its way only after the head moved), SaidInv (an object not yet read is still true), RecordInv
  (what the parent has retained of a domain is so), ClaimInv (a claim is true, and nothing is on
  its way that would change the world it is about), CallInv (the calls made are those of the case,
  each with its capture). It needs ExchangeInv at every turn: an answer taken is the only one
  outstanding, so that it is the answer to the command whose effect it reports.

ObeysTheLaw follows from EvidenceInv before and after a step: the head moves only in the call that
HeadMoves finds grounded (Publish); a step of the parent changes at most one claim, to one that
ClaimInv shows true (ClaimCurrent, ClaimStale, Withdraw); a step of a process or a mishap changes at most one world,
and not one that is said to be current, because that one shows the head before and after
(Change). TLC checked the invariant first, on all cases with one mishap.

**CanonicalResolution_proofs** (a natural input bound): SpecOneHistory and SpecLedgerExplains, for
any number of runtimes and any inputs offered in any order. Neither says
enough of one record to be inductive. `IInv` says that whoever has not been tampered with stands
on one of the frozen stages of its payload, which an advance, a resumed boundary, a promotion, a
demotion and a fork lead from one to the next; of a runtime that was tampered with it says no more
than the shape of its record, as the properties do not speak of it (Standing). The stages of a payload, over any inputs, are
then shown to lie on one line but for the input that one has accepted (OneHistory), and to be
explained: a settlement of what was due first appends one entry that names the record before it,
judges the gate by that record and moves its commitment from scheduled to done (Explained).

**EvidenceReleases_proofs** (any number of edits and any natural number of deaths): SpecNothingLeftBehind,
SpecSuccession, SpecNothingLost and SpecReleaseIsTrue. No property of the files alone is inductive, since what a
command was allowed to do when it started it does many steps later. The invariant is therefore about
the job, what the running command still has to do: which kinds of steps are among them (`Kinds`),
and which kind never comes before which (`NoPair`). Both only grow smaller while the command goes
on, hold of a concatenation when they hold of its parts, and hold of nothing when the command is
killed; so a death needs one lemma for each scene. `IInv` has one invariant per scene:

* IntegratedInv: a job that makes the return input finds the source process dead, and each of its
  files is gone or is removed before; a job that empties the crew's directory finds the evidence
  captured and committed, or, in the control, the directory as it was made; the termination record
  exists only of a dead process.
* TopologyInv: the input of the return process comes after the death of the source and the removal
  of its root; every launch is followed by its kill with no other process between (Brackets), and
  every file of the staging directory by what removes or publishes it; without a death of the
  command, what is up or there is still to be ended by the job or by the handler.
* OccupancyInv and PhysicalInv: a file that is written again is not there, or torn, and what is
  written last into it is whole.

SpecReleaseIsTrue needs a second invariant, TruthInv, proved with the help of the first (SpecTruthInv).
It says what each file, and each step that is to write one, tells of the processes:

* IntegratedTruth: a log tells no more than its process has done, an output audit that nothing was
  done is there only when nothing was; an export is of such files, and a summary of all that are
  listed (Vouched, Held). So what verify_physical_witnesses accepts is so.
* TopologyTruth: the job of acquire is always the rest of a plan of fifty steps (`Plan`, `Follows`),
  or publishes nothing; before each step it is known which processes told what they had to, which
  are dead and which of their words are in the staging directory (SoFar). The last step finds all.
  That acquire makes this plan (AcquireFollows) also gives TopologyInv its start.
* OccupancyTruth: a whole cache file has the facts of its group by some build, a release those of
  the groups, each by some build of its own; the verifier's comparison with the present source
  leaves only that one, but for the binding and the authority group, which it does not compare
  (OccupancyTells).
* PhysicalTruth: an artifact is a function of what was found, found once all processes have run and
  not again while an artifact stands; each occurrence ran one build of the module.

TLC checked both invariants first, on all scenes (77,526 states).

Only model-checked: all liveness and what needs fairness (beyond the prover): AcquisitionEnds, the
ends of the occupancy and of the live cases; VerifiedAsEarned, which relates the trace of a live
case to its state; ReleaseIsClosed, which asks a verifier about every other fact at every place of a
finite release; the accounting of the canonical kernels, whose scenarios have no constants, so that
the run is already every case. RECURSIVE operators are used nowhere.

## 6. Findings

* spd_publication_fault: a real failure while the head observation is published ends a
  witness with its guard `closed_for_H0_to_H1`. The document (v0.1.1, lines 338-340) says
  `failed_closed`; only the injected faults call fail_closed. The closed guard refuses the same
  claims, so no safety property of section 4 suffers.
* case_leak: if the identity of a freshly spawned, suspended child cannot be read, cleanup
  cannot signal it, because the signal asks for that identity; the child stays suspended for
  ever, against the comment at its start and the contract's cleanup law.

Noted without a run: the disposition of a domain whose one refresh was consumed and rejected
still says `refresh_enabled`, although the router takes no retry and the document grants it
once. A process that dies by itself between the last liveness sample and the cleanup leaves no
error and its case is recorded as a success; the release verifier refuses the record
(VerifiedAsEarned).

## 7. Not modelled

Contents of bundles, receipts, provenance and evidence files beyond what a property tells
apart; hashing, except as a name; building, source audits and the schemas a verifier checks;
the validators of specification files; workspaces and file layout; the wall clock; how a player or the physics of Unreal brings an
outcome about. The components marked `not_modelled` in `PROJECT.json` have their reason there,
the ones with a place in the plan are in section 2.
