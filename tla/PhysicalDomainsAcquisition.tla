--------------------- MODULE PhysicalDomainsAcquisition ---------------------
(***************************************************************************)
(* The acquisition of the release of the simultaneous physical domains:    *)
(* one command that launches everything, holds what it finds and writes    *)
(* the artifacts in place, file by file, into a directory that must be     *)
(* new; and the commands that write and verify the manifest.  Nothing is   *)
(* kept of a run that fails.  The sources may be edited and the module     *)
(* built while the command runs.                                           *)
(***************************************************************************)
EXTENDS EvidenceStore, PhysicalDomainsRelease

CONSTANT EditBound   \* edits of the sources considered

Names == {ArtifactNames[i] : i \in DOMAIN ArtifactNames}
Files == Names \cup {"records", "document", "manifest"}
Directory == File("directory", "")
Nothing == [x \in Occurrences \cup {"audit"} |-> Absent]

\* The version of the sources, of the built module, and of the code the running command
\* has loaded; and what the command has found so far.
PhysicalInit ==
  /\ scene = "physical"
  /\ disk = [p \in Files |-> Absent] /\ job = <<>>
  /\ world = [source |-> 0, module |-> 0, code |-> 0, found |-> Nothing]
  /\ verdict = "none" /\ crashes = 0

-----------------------------------------------------------------------------
(* Around the commands *)

\* An edit of what the audit of the sources commits to.
Edit ==
  /\ world.source < EditBound
  /\ world' = [world EXCEPT !.source = @ + 1]
  /\ verdict' = "none"
  /\ UNCHANGED <<scene, disk, job, crashes>>

BuildModule ==
  /\ world.module # world.source
  /\ world' = [world EXCEPT !.module = world.source]
  /\ UNCHANGED <<scene, disk, job, verdict, crashes>>

\* The operator removes the directory of a run, which is the only way to run again.
RemoveRecords ==
  /\ job = <<>> /\ disk["records"] # Absent
  /\ disk' = [p \in Files |-> IF p \in Names \cup {"records"} THEN Absent ELSE disk[p]]
  /\ world' = [world EXCEPT !.found = Nothing] /\ verdict' = "none"
  /\ UNCHANGED <<scene, job, crashes>>

WriteDocument ==
  /\ job = <<>> /\ disk["document"] = Absent
  /\ disk' = [disk EXCEPT !["document"] = File("document", "")]
  /\ UNCHANGED <<scene, job, world, verdict, crashes>>

-----------------------------------------------------------------------------
(* acquire_all *)

WitnessOrder == <<"W1", "W2", "W3", "W4", "W5/baseline", "W5/perturbed", "W6/A", "W7/A", "W8">>
CaseOrder ==
  <<"refresh/read", "refresh/publication", "observation/H0", "observation/H1", "attack/unobserved", "attack/second",
    "binding/field", "binding/coordinated">>

Launches(order) == [i \in DOMAIN order |-> Step("launch", order[i], Absent)]
Writes(names) == [i \in DOMAIN names |-> Step("write", names[i], Absent)]

AcquireAll ==
  /\ job = <<>> /\ disk["records"] = Absent
  /\ job' = Put("records", Directory) \o Launches(WitnessOrder) \o Writes(<<"deterministic">>)
              \o Launches(CaseOrder) \o <<Step("audit", "audit", Absent)>> \o Writes(Tail(ArtifactNames))
  /\ world' = [world EXCEPT !.code = world.source, !.found = Nothing]
  /\ UNCHANGED <<scene, disk, verdict, crashes>>

\* A pair of processes of the module as it is, or one whose binding is refused; whatever
\* raises ends the command.
AcquireOccurrence ==
  /\ Does("launch")
  /\ \/ /\ world' = [world EXCEPT !.found[Now.path] = Acquired(Now.path, [p \in Roles |-> world.module])]
        /\ Proceed
     \/ job' = <<>> /\ UNCHANGED world
  /\ UNCHANGED <<scene, disk, verdict, crashes>>

\* _source_audit: the sources are read now, the code that judges them was loaded before.
SourceAudit ==
  /\ Does("audit")
  /\ IF world.source = world.code
       THEN world' = [world EXCEPT !.found["audit"] = Build(world.source)] /\ Proceed
       ELSE job' = <<>> /\ UNCHANGED world
  /\ UNCHANGED <<scene, disk, verdict, crashes>>

\* An artifact is made of what was found and written in place.
WriteArtifact ==
  LET content == CASE Now.path = "deterministic" -> Fixed("deterministic")
                   [] OTHER -> Artifacts(world.found, world.found["audit"])[Now.path]
  IN /\ Does("write")
     /\ job' = Write(Now.path, File("artifact", content)) \o Tail(job)
     /\ UNCHANGED <<scene, disk, world, verdict, crashes>>

-----------------------------------------------------------------------------
(* The verifier of the release, with the code as it is now *)

Released == [name \in Names |-> disk[name][2]]

\* artifact_role_set_valid and the strict loading of every member come first.
VerifyArtifacts == IF \A name \in Names : Whole(disk[name]) THEN Verify(Released, world.source) ELSE FALSE

Sums == File("sums", <<world.source, disk["document"], [name \in Names |-> disk[name]]>>)

WriteRelease ==
  /\ job = <<>> /\ disk["document"] # Absent
  /\ job' = IF VerifyArtifacts THEN Write("manifest", Sums) ELSE <<>>
  /\ verdict' = "none"
  /\ UNCHANGED <<scene, disk, world, crashes>>

VerifyRelease ==
  /\ job = <<>> /\ disk["document"] # Absent /\ disk["manifest"] # Absent
  /\ verdict' = IF disk["manifest"] = Sums /\ VerifyArtifacts THEN "accepted" ELSE "rejected"
  /\ UNCHANGED <<scene, disk, job, world, crashes>>

PhysicalCommands ==
  \/ AcquireAll \/ AcquireOccurrence \/ SourceAudit \/ WriteArtifact \/ WriteRelease \/ VerifyRelease

PhysicalNext ==
  \/ Edit \/ BuildModule \/ RemoveRecords \/ WriteDocument
  \/ PhysicalCommands \/ Perform(<<>>)

-----------------------------------------------------------------------------
(* What the module adds to the properties of EvidenceReleases *)

\* An accepted release is of these sources, and each of its occurrences was left by its own
\* processes, which ran one build of the module; nothing says that it is the build of
\* these sources, nor that it is the same for all.
PhysicalTrue ==
  /\ Released["source_audit"] = Build(world.source)
  /\ \A o \in Launched :
       \E n \in 0..world.source : world.found[o] = Acquired(o, [p \in Roles |-> n])
  /\ Released = Artifacts(world.found, Build(world.source))

\* The verifier accepts no other facts than these where it looks.
PhysicalClosed ==
  verdict = "accepted" => NegativeTests(Released, world.found, world.source)

\* What a command has written of the release no command writes again.
PhysicalKept == job # <<>> => \A name \in Names : Whole(disk[name]) => disk'[name] = disk[name]

=============================================================================
