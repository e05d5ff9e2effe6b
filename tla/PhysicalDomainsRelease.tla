----------------------- MODULE PhysicalDomainsRelease -----------------------
(***************************************************************************)
(* What the release of the simultaneous physical domains says, and what    *)
(* its verifier compares with what.  An occurrence (a witness, a faulted   *)
(* refresh or observation, an attack, a relabelled binding) is a function  *)
(* from places to facts; a process is known by its binding, and the digest *)
(* of the binding is in all that is said of it.                            *)
(***************************************************************************)
EXTENDS Naturals, Sequences, FiniteSets, TLC

Roles == {"domain_A", "domain_B"}

\* One or two occurrences of every class that the verifier treats alike.
PrimaryOrders == {"W1", "W2"}
Retentions == {"W5/baseline", "W5/perturbed"}
Primaries == PrimaryOrders \cup Retentions \cup {"W3", "W4", "W6/A", "W7/A", "W8"}
RefreshFaults == {"refresh/read", "refresh/publication"}
ObservationFaults == {"observation/H0", "observation/H1"}
Faults == RefreshFaults \cup ObservationFaults
Attacks == {"attack/unobserved", "attack/second"}
Launched == Primaries \cup Faults \cup Attacks
Relabelled == {"binding/field", "binding/coordinated"}
Occurrences == Launched \cup Relabelled

WitnessId(o) ==
  CASE o \in RefreshFaults \cup Attacks -> "f_refresh_fault"
    [] o \in ObservationFaults -> "f_physical_observation_fault"
    [] o \in Relabelled -> "W1" [] OTHER -> o

-----------------------------------------------------------------------------
(* Places and facts *)

Place(p, what) == <<p, what>>
Case(what) == Place("", what)

ProcessesOf(o) == IF o \in Relabelled THEN {"domain_A"} ELSE Roles
Receipts == {"H0 receipt", "H1 receipt"}
Evidence == {"binding", "launch", "report", "images", "commands", "trace"}

\* What the verifier compares with constants of the code.
FrozenPlaces(o) ==
  {Case(what) : what \in
    CASE o \in PrimaryOrders -> {"witness", "refresh_order", "checkpoints", "inventories"}
      [] o = "W3" -> {"counters", "relation"}
      [] o = "W4" -> {"fault_point", "guard", "terminal_states"}
      [] o \in Retentions -> {"poison", "access"}
      [] o = "W6/A" -> {"dispositions", "failure"}
      [] o = "W7/A" -> {"terminations", "remaining"}
      [] o = "W8" -> {"control", "guard", "dispositions"}
      [] o \in Faults -> {"stage", "command", "owner", "relation"}
      [] o \in Attacks -> {"command", "path", "stage", "relation"}
      [] o \in Relabelled -> {"changed_fields", "failure", "rejected_before_runtime"}}

\* What is said of a process, besides its evidence.
SaidPlaces(o) ==
  CASE o \in PrimaryOrders ->
         {Place(p, what) : p \in Roles, what \in Receipts \cup {"H0 observation", "H1 observation"}}
    [] o = "W3" -> {Place(p, "step") : p \in Roles}
    [] o \in Faults -> {Place("domain_A", what) : what \in {"target", "arm", "result"}} \cup {Place("domain_B", "alive")}
    [] o \in Attacks ->
         {Place("domain_A", what) : what \in {"target"} \cup IF o = "attack/unobserved" THEN {} ELSE {"rejection"}}
           \cup {Place(p, "alive") : p \in Roles}
    [] o \in Relabelled -> {Place("domain_A", "submitted"), Place("domain_A", "termination")}
    [] OTHER -> {}

\* What a release holds and its verifier compares with nothing.
SilentPlaces(o) ==
  CASE o \in PrimaryOrders -> {Case("samples"), Case("dispositions")}
    [] o \in Retentions -> {Place(p, "projection") : p \in Roles}
    [] o \in Faults -> {Case("guard"), Case("disposition"), Case("publication")}
    [] OTHER -> {}

\* The local step of W3 comes with a binding of its own.
EvidencePlaces(o) ==
  CASE o \in Relabelled -> {Place("domain_A", "binding")}
    [] o = "W3" -> {Place(p, what) : p \in Roles, what \in Evidence \cup {"sample_binding"}}
    [] OTHER -> {Place(p, what) : p \in Roles, what \in Evidence}
RetainedPlaces(o) == IF o \in Retentions THEN {Place(p, "retained") : p \in Roles} ELSE {}
JudgedPlaces(o) == FrozenPlaces(o) \cup SaidPlaces(o) \cup EvidencePlaces(o)

Frozen(o, q) == <<"frozen", o, q>>
Binding(witness, role, birth) == <<"process", witness, role, birth>>
Build(n) == <<"build", n>>
Says(b, o, q) == <<"says", b, o, q>>
Altered == <<"altered", "", "", "">>

\* Only what is exact for a fault, an attack or an order is known of the commands.
Commands(o, p) == <<"commands", IF o \in Primaries \ PrimaryOrders THEN "any" ELSE o, p>>

\* What an occurrence leaves of processes with these bindings that have loaded these images.
Leaves(o, binding, images) ==
  [q \in JudgedPlaces(o) \cup SilentPlaces(o) \cup RetainedPlaces(o) |->
    LET p == q[1] what == q[2] IN
    CASE q \in FrozenPlaces(o) \cup SilentPlaces(o) -> Frozen(o, q)
      [] q \in RetainedPlaces(o) -> <<"retained", o>>
      [] q \in SaidPlaces(o) -> Says(binding[p], o, q)
      [] what \in {"binding", "sample_binding"} -> binding[p]
      [] what = "launch" -> <<"launch", binding[p]>>
      [] what = "report" -> <<"report", binding[p], images[p]>>
      [] what = "images" -> images[p]
      [] what = "commands" -> Commands(o, p)
      [] what = "trace" -> <<"trace", binding[p], Commands(o, p)>>]

\* Fresh processes: the version of the module each has loaded is part of its birth.
Fresh(o, n) == [p \in Roles |-> Binding(WitnessId(o), p, <<o, p, n[p]>>)]
Acquired(o, n) == Leaves(o, Fresh(o, n), [p \in Roles |-> Build(n[p])])

EvidenceAt(v, p) == [what \in Evidence |-> v[Place(p, what)]]
BoundTo(v, o) == [p \in ProcessesOf(o) |-> v[Place(p, "binding")]]

-----------------------------------------------------------------------------
(* acquire_all: the artifacts, from what was found *)

Only(found, class) == [o \in class |-> found[o]]
Fixed(name) == <<"fixed", name>>
Digest(value) == <<"sha256", value>>

Detached(found) == [o \in PrimaryOrders |-> [q \in SaidPlaces(o) |-> found[o][q]]]

Observed(found) ==
  [q \in {Place("domain_A", "H0 observation"), Place("domain_A", "H1 observation")} |-> found["W1"][q]]

\* What the authority cases are about: their own attacks, and what was found elsewhere.
Authority(found) ==
  [table |-> Fixed("authority"), attacks |-> Only(found, Attacks),
   case16 |-> found["refresh/publication"], case17 |-> Only(found, {"W6/A", "W7/A"}), case19 |-> found["W8"],
   case25 |-> Only(found, Retentions), case28 |-> found["W6/A"][Case("failure")],
   case33 |-> Observed(found)]

RegistryRow(e) == <<e["binding"], Digest(e["report"]), Digest(e["trace"]), Digest(e["images"])>>

InputAudit(found, source) ==
  LET all == {EvidenceAt(found[o], p) : o \in Launched, p \in Roles} IN
  [summary |-> Fixed("input_audit"), source |-> Digest(source),
   relabelled |-> Only(found, Relabelled),
   witnesses |-> [o \in Primaries |-> [p \in Roles |-> EvidenceAt(found[o], p)]],
   registry |-> {RegistryRow(e) : e \in all},
   catalog |-> {e["images"] : e \in all}]

Artifacts(found, source) ==
  [deterministic |-> Fixed("deterministic"), witnesses |-> Only(found, Primaries), detached |-> Detached(found),
   refresh_faults |-> Only(found, RefreshFaults), observation_faults |-> Only(found, ObservationFaults),
   authority |-> Authority(found), input_audit |-> InputAudit(found, source), oracles |-> Fixed("oracles"),
   source_audit |-> source]

ArtifactNames ==
  <<"deterministic", "witnesses", "detached", "authority", "refresh_faults", "observation_faults",
    "input_audit", "oracles", "source_audit">>

-----------------------------------------------------------------------------
(* The verifiers of one occurrence *)

VerifyCanonicalRelation(v, o) == v[Case("relation")] = Frozen(o, Case("relation"))
AreFrozen(v, o, names) == \A what \in names : v[Case(what)] = Frozen(o, Case(what))
IsBound(v, o, p, what) == v[Place(p, what)] = Says(v[Place(p, "binding")], o, Place(p, what))

\* _validated_process_binding: the role and the witness are the expected ones.
ValidatedProcessBinding(b, o, p) == b[1] = "process" /\ b[2] = WitnessId(o) /\ b[3] = p

\* The images are in the catalog of the input audit, and the report made whole with them is
\* the one whose digest was taken.
VerifyCompactRuntimeProvenance(e, audit) ==
  /\ e["images"] \in audit.catalog
  /\ e["report"] = <<"report", e["binding"], e["images"]>>

\* Every row of the trace is of the process, and the commands are the ones it was sent.
VerifyRuntimeInputTrace(e) == e["trace"] = <<"trace", e["binding"], e["commands"]>>

VerifyDomainEvidence(e, o, p, audit) ==
  /\ ValidatedProcessBinding(e["binding"], o, p)
  /\ e["launch"] = <<"launch", e["binding"]>>
  /\ VerifyCompactRuntimeProvenance(e, audit) /\ VerifyRuntimeInputTrace(e)

\* validate_materialization_receipt asks which process a receipt is of, and not which head.
IsReceipt(fact, b) == fact[1] = "says" /\ fact[2] = b

\* The detached receipts and observations are the embedded ones and of the process.
VerifyPrimary(r, o) ==
  LET v == r.witnesses[o] IN
  /\ AreFrozen(v, o, {"witness", "refresh_order", "checkpoints", "inventories"})
  /\ \A q \in SaidPlaces(o) :
       /\ r.detached[o][q] = v[q]
       /\ IF q[2] \in Receipts THEN IsReceipt(v[q], v[Place(q[1], "binding")]) ELSE IsBound(v, o, q[1], q[2])
  /\ \A p \in Roles : v[Place(p, "commands")] = Commands(o, p)

\* The step is of the process its sample names, whichever that is.
VerifyW3Payload(v) ==
  /\ \A p \in Roles : v[Place(p, "step")] = Says(v[Place(p, "sample_binding")], "W3", Place(p, "step"))
  /\ AreFrozen(v, "W3", {"counters"}) /\ VerifyCanonicalRelation(v, "W3")

\* The retained state of the two runs differs, the rest of both is what it must be.
VerifyOtherWitnesses(r) ==
  LET w == r.witnesses IN
  /\ VerifyW3Payload(w["W3"])
  /\ AreFrozen(w["W4"], "W4", {"fault_point", "guard", "terminal_states"})
  /\ \A o \in Retentions : AreFrozen(w[o], o, {"poison", "access"})
  /\ [q \in RetainedPlaces("W5/baseline") |-> w["W5/baseline"][q]]
       # [q \in RetainedPlaces("W5/perturbed") |-> w["W5/perturbed"][q]]
  /\ AreFrozen(w["W6/A"], "W6/A", {"dispositions", "failure"})
  /\ AreFrozen(w["W7/A"], "W7/A", {"terminations", "remaining"})

VerifyFaultResult(v, o) == IsBound(v, o, "domain_A", "result")
VerifyLivenessSample(v, o, p) == IsBound(v, o, p, "alive")

\* The row is of the command the label asks for, the armed process and its live peer.
VerifyFaultCaseBinding(v, o, audit) ==
  /\ AreFrozen(v, o, {"stage", "command", "owner"})
  /\ \A p \in Roles :
       VerifyDomainEvidence(EvidenceAt(v, p), o, p, audit) /\ v[Place(p, "commands")] = Commands(o, p)
  /\ IsBound(v, o, "domain_A", "target") /\ IsBound(v, o, "domain_A", "arm") /\ VerifyFaultResult(v, o)
  /\ VerifyLivenessSample(v, o, "domain_B")

\* No process, birth, result or evidence serves two rows, on either side.
VerifyFreshFaultMatrix(rows) ==
  LET all == {<<o, p>> : o \in DOMAIN rows, p \in Roles}
      distinct(F(_, _)) == Cardinality({F(x[1], x[2]) : x \in all}) = Cardinality(all)
      birth(o, p) == rows[o][Place(p, "binding")][4]
      binding(o, p) == rows[o][Place(p, "binding")]
      evidence(o, p) == EvidenceAt(rows[o], p)
  IN distinct(birth) /\ distinct(binding) /\ distinct(evidence)

VerifyRefreshFaultPayload(rows, audit) ==
  /\ \A o \in RefreshFaults :
       VerifyFaultCaseBinding(rows[o], o, audit) /\ VerifyCanonicalRelation(rows[o], o)
  /\ VerifyFreshFaultMatrix(rows)
VerifyPhysicalFaultPayload(rows, audit) ==
  /\ \A o \in ObservationFaults :
       VerifyFaultCaseBinding(rows[o], o, audit) /\ VerifyCanonicalRelation(rows[o], o)
  /\ VerifyFreshFaultMatrix(rows)

\* Both processes of an attack lived on, and a refusal by the engine is of the target; the
\* guard refuses what is sent before the observation without naming a process.
VerifyLiveAuthorityAttack(v, o, audit) ==
  /\ AreFrozen(v, o, {"command", "path", "stage"}) /\ VerifyCanonicalRelation(v, o)
  /\ \A p \in Roles : VerifyDomainEvidence(EvidenceAt(v, p), o, p, audit) /\ VerifyLivenessSample(v, o, p)
  /\ IsBound(v, o, "domain_A", "target")
  /\ o # "attack/unobserved" => IsBound(v, o, "domain_A", "rejection")

\* A case that tells of another witness holds what that witness has.
VerifyAuthorityConcreteExecution(r) ==
  LET a == r.authority w == r.witnesses IN
  /\ a.case16 = r.refresh_faults["refresh/publication"]
  /\ a.case17 = Only(w, {"W6/A", "W7/A"}) /\ a.case19 = w["W8"] /\ a.case25 = Only(w, Retentions)
  /\ a.case28 = w["W6/A"][Case("failure")]
  /\ a.case33 = Observed(w)

VerifyAuthorityPayload(r, audit) ==
  /\ r.authority.table = Fixed("authority")
  /\ \A o \in Attacks : VerifyLiveAuthorityAttack(r.authority.attacks[o], o, audit)
  /\ VerifyAuthorityConcreteExecution(r)
  /\ VerifyFreshFaultMatrix(r.authority.attacks)

\* Every relabelled binding was refused for the field that was changed, by a process of its
\* own that was then terminated.
VerifyBindingFieldAdversaries(cases) ==
  LET binding(o) == cases[o][Place("domain_A", "binding")] IN
  /\ \A o \in Relabelled :
       /\ AreFrozen(cases[o], o, {"changed_fields", "failure", "rejected_before_runtime"})
       /\ ValidatedProcessBinding(binding(o), o, "domain_A")
       /\ IsBound(cases[o], o, "domain_A", "submitted") /\ IsBound(cases[o], o, "domain_A", "termination")
  /\ Cardinality({binding(o)[4] : o \in Relabelled}) = Cardinality(Relabelled)

-----------------------------------------------------------------------------
(* The verifiers of the whole *)

VerifyRuntimeInputAuditContract(r) ==
  LET audit == r.input_audit IN
  /\ audit.summary = Fixed("input_audit")
  /\ audit.source = Digest(r.source_audit)
  /\ VerifyBindingFieldAdversaries(audit.relabelled)
  /\ \A row \in audit.registry : row[4] \in {Digest(image) : image \in audit.catalog}
  /\ Cardinality({row[1] : row \in audit.registry}) = Cardinality(audit.registry)

\* Every evidence in any artifact, with the occurrence it is told of: a process told of
\* twice is told of alike.
Population(r) ==
  LET told(rows) == {<<o, p, EvidenceAt(rows[o], p)>> : o \in DOMAIN rows, p \in Roles} IN
  told(r.witnesses) \cup told(r.refresh_faults) \cup told(r.observation_faults) \cup told(r.authority.attacks)
    \cup told(r.authority.case17) \cup told(r.authority.case25)
    \cup told("refresh/publication" :> r.authority.case16) \cup told("W8" :> r.authority.case19)

VerifyRuntimeEvidencePopulation(r) ==
  LET audit == r.input_audit
      all == Population(r)
      unique == {x[3] : x \in all}
  IN /\ \A x \in all : VerifyDomainEvidence(x[3], x[1], x[2], audit)
     /\ Cardinality({e["binding"] : e \in unique}) = Cardinality(unique)
     /\ Cardinality({e["binding"][4] : e \in unique}) = Cardinality(unique)
     /\ Cardinality(unique) = Cardinality(Launched) * Cardinality(Roles)
     /\ audit.registry = {RegistryRow(e) : e \in unique}
     /\ audit.catalog = {e["images"] : e \in unique}
     /\ \A o \in Primaries, p \in Roles : audit.witnesses[o][p] = EvidenceAt(r.witnesses[o], p)

\* What the code computes alone is as it computes it now, and the audit of the sources says
\* what it says now: that they are the ones the code commits to.
VerifyOracles(r, source) ==
  /\ r.deterministic = Fixed("deterministic") /\ r.oracles = Fixed("oracles")
  /\ AreFrozen(r.witnesses["W8"], "W8", {"control", "guard", "dispositions"})
  /\ VerifyAuthorityPayload(r, r.input_audit)
  /\ VerifyRefreshFaultPayload(r.refresh_faults, r.input_audit)
  /\ VerifyPhysicalFaultPayload(r.observation_faults, r.input_audit)
  /\ VerifyRuntimeInputAuditContract(r) /\ VerifyRuntimeEvidencePopulation(r)
  /\ r.source_audit = Build(source)

Verify(r, source) ==
  /\ VerifyRuntimeInputAuditContract(r)
  /\ \A o \in PrimaryOrders : VerifyPrimary(r, o)
  /\ VerifyOtherWitnesses(r) /\ VerifyOracles(r, source)

-----------------------------------------------------------------------------
(* The verifier's own adversaries *)

\* A fact is changed and all that is derived from it is made again.
Coordinated(found, source, o, v) == Artifacts([found EXCEPT ![o] = v], source)

\* The processes of one occurrence told again as if they were these.
Rebound(v, o, binding) == Leaves(o, binding, [p \in Roles |-> v[Place(p, "images")]])

\* Another's birth under one's own label, or another's process altogether.
Stolen(found, o, p, other, q) ==
  LET mine == BoundTo(found[o], o) theirs == BoundTo(found[other], other)[q] IN
  {Rebound(found[o], o, [mine EXCEPT ![p] = b]) : b \in {theirs, Binding(mine[p][2], mine[p][3], theirs[4])}}

\* An input audit that leaves something out, or tells a process otherwise than its witness.
Detuned(audit) ==
  {[audit EXCEPT !.summary = Altered], [audit EXCEPT !.source = Altered], [audit EXCEPT !.registry = {}],
   [audit EXCEPT !.catalog = {}], [audit EXCEPT !.witnesses["W1"]["domain_A"] = Altered]}

\* No fact that the verifier looks at can be another, and no process can be told of twice,
\* without a refusal; neither can a derived artifact.
NegativeTests(r, found, source) ==
  /\ \A o \in Occurrences : \A q \in JudgedPlaces(o) :
       ~Verify(Coordinated(found, source, o, [found[o] EXCEPT ![q] = Altered]), source)
  /\ \A o, other \in Launched : \A p, q \in Roles : <<o, p>> # <<other, q>> =>
       \A v \in Stolen(found, o, p, other, q) : ~Verify(Coordinated(found, source, o, v), source)
  /\ \A name \in DOMAIN r.authority \ {"attacks"} : ~Verify([r EXCEPT !.authority[name] = Altered], source)
  /\ \A a \in Detuned(r.input_audit) : ~Verify([r EXCEPT !.input_audit = a], source)

=============================================================================
