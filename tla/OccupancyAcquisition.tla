------------------------ MODULE OccupancyAcquisition ------------------------
(***************************************************************************)
(* The acquisition of the cross-domain occupancy release: eleven groups,   *)
(* one after the other, each kept in a cache file that a later run of the  *)
(* command uses again, then the artifacts in a staging directory, renamed. *)
(* Between two runs the sources may be edited and the module built again.  *)
(***************************************************************************)
EXTENDS EvidenceStore, OccupancyRelease

CONSTANT EditBound   \* edits of the sources considered

\* acquire_all: the groups that are cached, in order, and what is in each.
Groups == <<"source_audit", "primary", "controls", "asymmetric", "binding", "head_faults",
            "materialization_faults", "observation_faults", "liveness", "authority", "replay">>
Contents(g) ==
  CASE g = "primary" -> Witnesses [] g = "controls" -> Controls [] g = "asymmetric" -> Asymmetric
    [] g = "binding" -> BindingCases [] g = "head_faults" -> HeadFaults
    [] g = "materialization_faults" -> MaterializationFaults
    [] g = "observation_faults" -> ObservationFaults [] g = "liveness" -> LivenessCases
    [] g = "authority" -> AuthorityCases [] g = "replay" -> Replays [] OTHER -> {}

Pids == {"staging_1", "staging_2"}
GroupNames == {Groups[i] : i \in DOMAIN Groups}
Files == GroupNames \cup Pids \cup {"artifacts", "manifest"}

\* The version of the sources, of the built module, and of the code the running command
\* has loaded; and what it holds of each group.
OccupancyInit ==
  /\ scene = "occupancy"
  /\ disk = [p \in Files |-> Absent] /\ job = <<>>
  /\ world = [source |-> 0, module |-> 0, code |-> 0, held |-> [g \in GroupNames |-> Absent]]
  /\ verdict = "none" /\ crashes = 0

-----------------------------------------------------------------------------
(* Between the commands *)

Edit ==
  /\ job = <<>> /\ world.source < EditBound
  /\ world' = [world EXCEPT !.source = @ + 1]
  /\ verdict' = "none"
  /\ UNCHANGED <<scene, disk, job, crashes>>

BuildModule ==
  /\ job = <<>> /\ world.module # world.source
  /\ world' = [world EXCEPT !.module = world.source]
  /\ UNCHANGED <<scene, disk, job, verdict, crashes>>

\* The operator removes a cache file that no longer parses, or the audit of the sources,
\* which is the one that an edit makes plainly wrong.
Repair(g) ==
  /\ job = <<>>
  /\ disk[g] = Torn \/ (g = "source_audit" /\ disk[g] # Absent)
  /\ disk' = [disk EXCEPT ![g] = Absent]
  /\ UNCHANGED <<scene, job, world, verdict, crashes>>

-----------------------------------------------------------------------------
(* acquire_all *)

AcquireAll(pid) ==
  LET groups == [i \in DOMAIN Groups |-> Step("group", Groups[i], Absent)] IN
  /\ job = <<>> /\ disk["artifacts"] = Absent
  /\ job' = groups \o <<Step("assemble", pid, Absent)>>
  /\ world' = [world EXCEPT !.code = world.source, !.held = [g \in GroupNames |-> Absent]]
  /\ UNCHANGED <<scene, disk, verdict, crashes>>

\* What a group finds: the sources as they are, or what its processes leave, which a
\* process that is bound does only when it runs the module this code commits to.
Finds(g) ==
  IF g = "source_audit" THEN File("audit", Build(world.source))
  ELSE File("found", [o \in Contents(g) |-> Leaves(o, world.module)])

Checked(g) == g \notin {"source_audit", "binding", "authority"}

\* _cache_group: whatever parses is used again, whenever it was made.
CacheGroup ==
  LET g == Now.path IN
  /\ Does("group")
  /\ \/ /\ Whole(disk[g])
        /\ world' = [world EXCEPT !.held[g] = disk[g]] /\ Proceed
     \/ /\ disk[g] = Torn
        /\ job' = <<>> /\ UNCHANGED world
     \/ /\ disk[g] = Absent /\ (Checked(g) => world.module = world.code)
        /\ world' = [world EXCEPT !.held[g] = Finds(g)]
        /\ job' = Write(g, Finds(g)) \o Tail(job)
     \/ /\ disk[g] = Absent
        /\ job' = <<>> /\ UNCHANGED world
  /\ UNCHANGED <<scene, disk, verdict, crashes>>

Found(held) ==
  [o \in Occurrences |-> held[CHOOSE g \in GroupNames : o \in Contents(g)][2][o]]

\* The registry of the processes is checked, the artifacts are written into a staging
\* directory that must be new, and renamed.
Assemble ==
  LET found == Found(world.held) IN
  /\ Does("assemble")
  /\ job' = IF \A o, other \in Occurrences :
                 o # other => Identities(found[o], o) \cap Identities(found[other], other) = {}
              THEN Make(Now.path, File("release", Artifacts(found, world.held["source_audit"][2])))
                     \o <<Step("rename", Now.path, Absent)>>
              ELSE <<>>
  /\ UNCHANGED <<scene, disk, world, verdict, crashes>>

Rename ==
  /\ Does("rename")
  /\ disk' = [disk EXCEPT !["artifacts"] = disk[Now.path], ![Now.path] = Absent]
  /\ Proceed
  /\ UNCHANGED <<scene, world, verdict, crashes>>

-----------------------------------------------------------------------------
(* The verifier of the release, with the code as it is now *)

VerifyArtifacts == Whole(disk["artifacts"]) /\ ValidateArtifactValues(disk["artifacts"][2], world.source)

WriteRelease ==
  /\ job = <<>> /\ Whole(disk["artifacts"])
  /\ job' = IF VerifyArtifacts
              THEN Write("manifest", File("sums", <<world.source, disk["artifacts"]>>))
              ELSE <<>>
  /\ UNCHANGED <<scene, disk, world, verdict, crashes>>

VerifyRelease ==
  /\ job = <<>> /\ disk["artifacts"] # Absent
  /\ verdict' = IF /\ disk["manifest"] = File("sums", <<world.source, disk["artifacts"]>>)
                   /\ VerifyArtifacts
                THEN "accepted" ELSE "rejected"
  /\ UNCHANGED <<scene, disk, job, world, crashes>>

OccupancyCommands ==
  \/ \E pid \in Pids : AcquireAll(pid)
  \/ CacheGroup \/ Assemble \/ Rename \/ WriteRelease \/ VerifyRelease

OccupancyNext ==
  \/ Edit \/ BuildModule \/ \E g \in GroupNames : Repair(g)
  \/ OccupancyCommands \/ Perform(<<>>)

-----------------------------------------------------------------------------
(* What the module adds to the properties of EvidenceReleases *)

\* An accepted release was found by this code and this module throughout, whenever its
\* groups were acquired; only the refused bindings may be older.  What was repeated was
\* found by processes of its own.
OccupancyTrue ==
  LET r == disk["artifacts"][2] IN
  /\ r.source = Build(world.source)
  /\ \A o \in Occurrences \ (BindingCases \cup AuthorityCases) : r.found[o] = Leaves(o, world.source)

\* The verifier accepts no other release than this, up to what it cannot tell apart.
OccupancyClosed == verdict = "accepted" => NegativeTests(disk["artifacts"][2], world.source)

\* What was acquired once no command acquires again, whatever dies.
OccupancyKept == job # <<>> => \A g \in GroupNames : Whole(disk[g]) => disk'[g] = disk[g]

=============================================================================
