-------------------------- MODULE OccupancyRelease --------------------------
(***************************************************************************)
(* What the cross-domain occupancy release says, and what its verifier     *)
(* compares with what.  An occurrence (a witness, a control, a fault case) *)
(* is a function from the places of its evidence to facts: a process, a    *)
(* row about a process, a build of the module, or what the code has frozen *)
(* for the place.  The verifier knows a fact only by comparing it.         *)
(***************************************************************************)
EXTENDS Naturals, Sequences, FiniteSets

Domains == {"domain_A", "domain_B"}
RecordRoles == {"R0", "Rtransit", "Rfinal"}

\* One or two of the cases of every class, as their validator tells them apart.
Witnesses == {"W1", "W3"}
Replays == {"replay/W1", "replay/W3"}
WitnessOf(o) == CASE o = "replay/W1" -> "W1" [] o = "replay/W3" -> "W3" [] OTHER -> o
Controls == {"C1", "C2", "C5"}
Asymmetric == {"AF01"}
BindingCases == {"PB01"}
AuthorityCases == {"AS001"}
HeadFaults == {"HF01"}
MaterializationFaults == {"MF001"}
ObservationFaults == {"OF001"}
LivenessCases == {"LV01", "LV06"}
Positive == Witnesses \cup Replays
Occurrences == Positive \cup Controls \cup Asymmetric \cup BindingCases \cup AuthorityCases
  \cup HeadFaults \cup MaterializationFaults \cup ObservationFaults \cup LivenessCases

ProcessesOf(o) ==
  CASE o \in AuthorityCases -> {} [] o \in BindingCases -> {"domain_A"}
    [] o \in {"C5", "LV06"} -> Domains \cup {"replacement"} [] OTHER -> Domains

\* The process of a refused binding and the replacement that only copied labels leave
\* what was submitted for them and nothing from themselves.
Bound(o) == IF o \in BindingCases THEN {} ELSE IF o = "LV06" THEN Domains ELSE ProcessesOf(o)

-----------------------------------------------------------------------------
(* Places and facts *)

Place(p, record, what) == <<p, record, what>>
Case(what) == Place("", "", what)
Of(p, what) == Place(p, "", what)

Parts == {"launch_plan", "bind_receipt", "runtime_provenance", "commands", "bundles", "runtime_trace"}
Rows == {"receipt", "observation", "disposition"}
RecordsOf(o) == IF o \in Positive THEN RecordRoles ELSE {"R0"}
RowPlaces(o) == {Place(p, k, row) : p \in Bound(o) \cap Domains, k \in RecordsOf(o), row \in Rows}

\* What each validator compares with constants of the code.
FrozenPlaces(o) ==
  {Case(what) : what \in {"case", "canonical_chain"} \cup
    (CASE o \in Positive -> {"refresh_orders", "guard_history", "heads"}
       [] o = "C2" -> {"guard_history", "outcome", "failure"}
       [] o \in {"C1", "C5"} -> {"guard_history", "outcome"}
       [] o \in Asymmetric -> {"failure", "malformed_projection", "stopped_edge", "outcome"}
       [] o \in BindingCases -> {"changed_field", "failure"}
       [] o \in AuthorityCases -> {"stage", "reason", "boundary", "outcome"}
       [] o \in HeadFaults -> {"plan", "arm", "harness_trace", "publication", "guard"}
       [] o \in MaterializationFaults -> {"failure", "arm", "interval", "outcome", "injected_edge"}
       [] o \in ObservationFaults -> {"channel", "failure", "outcome", "fault_boundary"}
       [] o \in LivenessCases -> {"plan", "failure", "terminal_flag", "outcome"})}

Frozen(o, place) == <<"frozen", IF place[3] = "case" THEN o ELSE WitnessOf(o), place>>
Identity(n, o, p) == <<"process", n, o, p>>
Build(n) == <<"build", n>>
Row(id, record) == <<"row", id, record>>
Says(id) == <<"says", id>>
Altered == <<"altered">>

\* What an occurrence leaves when its processes ran the module of version n.
Leaves(o, n) ==
  LET id(p) == Identity(n, o, p) IN
  [q \in FrozenPlaces(o) \cup RowPlaces(o)
           \cup {Of(p, "binding") : p \in ProcessesOf(o)}
           \cup {Of(p, part) : p \in Bound(o), part \in Parts \cup {"loaded_images"}}
           \cup {Of(p, "submitted") : p \in ProcessesOf(o) \ Bound(o)}
           \cup {Of(p, what) : p \in Bound(o) \cap Domains, what \in {"liveness", "termination"}} |->
     IF q \in FrozenPlaces(o) THEN Frozen(o, q)
     ELSE IF q \in RowPlaces(o) THEN Row(id(q[1]), q[2])
     ELSE IF q[3] = "loaded_images" THEN Build(n)
     ELSE IF q[3] \in {"liveness", "termination"} THEN Says(id(q[1]))
     ELSE id(q[1])]

-----------------------------------------------------------------------------
(* The validators of one occurrence *)

Binding(v, p) == v[Of(p, "binding")]
Identities(v, o) == {Binding(v, p) : p \in ProcessesOf(o)}

IsFrozen(v, o) == \A q \in FrozenPlaces(o) : v[q] = Frozen(o, q)

\* A census of the images that asks what they are a build of and not of which.
DependencyCensusMutated(v, p, code) == v[Of(p, "loaded_images")][1] = "build"

\* validate_candidate_runtime_dependency_census: the images the process has loaded are the
\* ones the checked-out code commits to.
DependencyCensus(v, p, code) == v[Of(p, "loaded_images")] = Build(code)

\* The runtime trace forgotten.
ValidateProcessEvidenceMutated(v, p, code) ==
  /\ \A part \in Parts \ {"runtime_trace"} : v[Of(p, part)] = Binding(v, p)
  /\ DependencyCensus(v, p, code)

\* All that is said of a process binds it.
ValidateProcessEvidence(v, p, code) ==
  /\ \A part \in Parts : v[Of(p, part)] = Binding(v, p)
  /\ DependencyCensus(v, p, code)

\* A replacement that was never bound: what was submitted for it is no one else's.
Unbound(v, p) == v[Of(p, "submitted")] = Binding(v, p)

\* Every row found anywhere in the occurrence names a process that is registered in it; an
\* observation agrees with the receipts of its process and generation, and a disposition
\* refers to rows that are there.
RowsRelate(v, o) ==
  LET facts(row) == {v[q] : q \in {r \in RowPlaces(o) : r[3] = row}} IN
  /\ \A row \in Rows, f \in UNION {facts(r) : r \in Rows} : f[1] = "row" /\ f[2] \in Identities(v, o)
  /\ facts("disposition") \subseteq facts("receipt") \cap facts("observation")

ValidateLivenessObservation(v, o) ==
  \A p \in Bound(o) \cap Domains : v[Of(p, "liveness")] \in {Says(id) : id \in Identities(v, o)}

ValidateTerminations(v, o) ==
  \A p \in Bound(o) \cap Domains : v[Of(p, "termination")] \in {Says(id) : id \in Identities(v, o)}

ValidateEmbeddedRuntime(v, o, code) ==
  /\ \A p \in Bound(o) : ValidateProcessEvidence(v, p, code)
  /\ \A p \in ProcessesOf(o) \ Bound(o) : Unbound(v, p)
  /\ Cardinality(Identities(v, o)) = Cardinality(ProcessesOf(o))
  /\ RowsRelate(v, o) /\ ValidateLivenessObservation(v, o) /\ ValidateTerminations(v, o)

\* In a witness every row is of the process and the record of its place.
ValidatePrimary(v, o, code) ==
  /\ IsFrozen(v, o)
  /\ ValidateEmbeddedRuntime(v, o, code)
  /\ \A q \in RowPlaces(o) : v[q] = Row(Binding(v, q[1]), q[2])
  /\ \A p \in Domains : v[Of(p, "liveness")] = Says(Binding(v, p))

ValidateControls(v, o, code) == IsFrozen(v, o) /\ ValidateEmbeddedRuntime(v, o, code)
ValidateAsymmetric(v, o, code) == IsFrozen(v, o) /\ ValidateEmbeddedRuntime(v, o, code)
ValidateBindingAdversaries(v, o) == IsFrozen(v, o) /\ \A p \in ProcessesOf(o) : Unbound(v, p)
ValidateAuthorityAdversaries(v, o) == IsFrozen(v, o)
ValidateHeadFaults(v, o, code) == IsFrozen(v, o) /\ ValidateEmbeddedRuntime(v, o, code)
ValidateMaterializationFaults(v, o, code) == IsFrozen(v, o) /\ ValidateEmbeddedRuntime(v, o, code)
ValidateObservationFaults(v, o, code) == IsFrozen(v, o) /\ ValidateEmbeddedRuntime(v, o, code)

\* The terminal observation is of the process the case is about.
ValidateLivenessAdversaries(v, o, code) ==
  /\ IsFrozen(v, o) /\ ValidateEmbeddedRuntime(v, o, code)
  /\ v[Of("domain_A", "liveness")] = Says(Binding(v, "domain_A"))

-----------------------------------------------------------------------------
(* What is derived from several occurrences *)

Surface(v, o) ==
  [frozen |-> [q \in FrozenPlaces("W1") \ {Case("case")} |-> v[q]],
   rows |-> [q \in RowPlaces("W1") |-> IF v[q][1] = "row" THEN <<v[q][3]>> ELSE v[q]]]

Detached(found) == [w \in Witnesses |-> [q \in RowPlaces(w) |-> found[w][q]]]

InputAudit(found, source) ==
  [source |-> source,
   rows |-> [w \in Witnesses |-> [q \in {Of(p, what) : p \in Domains, what \in {"binding", "launch_plan",
                                                       "bundles", "commands", "loaded_images"}} |-> found[w][q]]]]

CanonicalEquivalence(found) ==
  [w \in Witnesses |-> [q \in {Case("canonical_chain"), Case("refresh_orders")} |-> found[w][q]]]

Surfaces(found) == [o \in Positive |-> Surface(found[o], o)]

\* The processes of every occurrence, and the images of those of its two domains.
Registry(found) ==
  [o \in Occurrences |->
    [identities |-> Identities(found[o], o),
     images |-> {found[o][Of(p, "loaded_images")] : p \in Bound(o) \cap Domains}]]

\* Everything else, by its digest.
ProofRun(found, source, rest) == [found |-> found, source |-> source, rest |-> rest]

\* _artifact_payloads and the proof run, of what the groups have found.
Artifacts(found, source) ==
  LET rest == [detached |-> <<"is", Detached(found)>>, input |-> <<"is", InputAudit(found, source)>>,
               equivalence |-> <<"is", CanonicalEquivalence(found)>>,
               surfaces |-> <<"is", Surfaces(found)>>, registry |-> <<"is", Registry(found)>>]
  IN [found |-> found, source |-> source, rest |-> rest, run |-> <<"is", ProofRun(found, source, rest)>>]

ValidateSourceAudit(r, code) == r.source = Build(code)
ValidateInputAudit(r) == r.rest.input = <<"is", InputAudit(r.found, r.source)>>
ValidateEquivalence(r) == r.rest.equivalence = <<"is", CanonicalEquivalence(r.found)>>
ValidateDetached(r) == r.rest.detached = <<"is", Detached(r.found)>>

\* The repeats are fresh processes that show the same.
ValidateReplay(r, code) ==
  /\ r.rest.surfaces = <<"is", Surfaces(r.found)>>
  /\ \A o \in Replays :
       /\ ValidatePrimary(r.found[o], o, code)
       /\ Surface(r.found[o], o) = Surface(r.found[WitnessOf(o)], WitnessOf(o))
       /\ \A w \in Witnesses : Identities(r.found[o], o) \cap Identities(r.found[w], w) = {}

\* No process is in two occurrences, and all that were bound have loaded the same.
ValidateRegistry(r) ==
  LET g == Registry(r.found) IN
  /\ r.rest.registry = <<"is", g>>
  /\ \A o, other \in Occurrences : o # other => g[o].identities \cap g[other].identities = {}
  /\ Cardinality(UNION {g[o].images : o \in Occurrences}) = 1

ValidateProofRun(r) == r.run = <<"is", ProofRun(r.found, r.source, r.rest)>>

ValidateArtifactValues(r, code) ==
  LET v == r.found IN
  /\ \A o \in Witnesses : ValidatePrimary(v[o], o, code)
  /\ \A o \in Controls : ValidateControls(v[o], o, code)
  /\ \A o \in Asymmetric : ValidateAsymmetric(v[o], o, code)
  /\ \A o \in BindingCases : ValidateBindingAdversaries(v[o], o)
  /\ \A o \in AuthorityCases : ValidateAuthorityAdversaries(v[o], o)
  /\ \A o \in HeadFaults : ValidateHeadFaults(v[o], o, code)
  /\ \A o \in MaterializationFaults : ValidateMaterializationFaults(v[o], o, code)
  /\ \A o \in ObservationFaults : ValidateObservationFaults(v[o], o, code)
  /\ \A o \in LivenessCases : ValidateLivenessAdversaries(v[o], o, code)
  /\ ValidateSourceAudit(r, code) /\ ValidateInputAudit(r) /\ ValidateEquivalence(r)
  /\ ValidateDetached(r) /\ ValidateReplay(r, code) /\ ValidateRegistry(r) /\ ValidateProofRun(r)

-----------------------------------------------------------------------------
(* The verifier's own adversaries *)

\* A fact of one occurrence is changed and all that is derived from it is made again, as
\* the coordinated mutations of _run_negative_tests do.
Coordinated(r, o, q, fact) == Artifacts([r.found EXCEPT ![o][q] = fact], r.source)

\* A derived file is changed on its own.
Detunes(r) ==
  {[r EXCEPT !.rest[name] = Altered] : name \in DOMAIN r.rest} \cup {[r EXCEPT !.run = Altered]}

\* No single fact of an accepted release can be another without a refusal, however much of
\* the release is made to agree with it; neither can a derived file.
NegativeTests(r, code) ==
  /\ \A o \in Occurrences : \A q \in DOMAIN r.found[o] :
       /\ ~ValidateArtifactValues(Coordinated(r, o, q, Altered), code)
       /\ o \in Positive /\ q \in RowPlaces(o) =>
            \A other \in RowPlaces(o) :
              r.found[o][other] # r.found[o][q] =>
                ~ValidateArtifactValues(Coordinated(r, o, q, r.found[o][other]), code)
  /\ \A d \in Detunes(r) : ~ValidateArtifactValues(d, code)

=============================================================================
