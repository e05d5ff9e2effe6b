-------------------------- MODULE EvidenceReleases --------------------------
(***************************************************************************)
(* The acquisitions that keep their evidence in files, each a scene of its *)
(* own: the integrated lifecycle witness, and the releases of the spatial  *)
(* topology, the cross-domain occupancy and the physical domains.  A       *)
(* command may be killed between any two of its steps; what it wrote       *)
(* stays, what it held is gone.                                            *)
(***************************************************************************)
EXTENDS EvidenceStore

CONSTANT EditBound   \* edits of the sources considered

Integrated == INSTANCE IntegratedLifecycle
Topology == INSTANCE TopologyAcquisition
Occupancy == INSTANCE OccupancyAcquisition
Physical == INSTANCE PhysicalDomainsAcquisition

Init ==
  \/ Integrated!IntegratedInit \/ Topology!TopologyInit
  \/ Occupancy!OccupancyInit \/ Physical!PhysicalInit

\* The command dies with everything it holds; no handler runs.
Crash ==
  /\ job # <<>> /\ crashes < CrashBound
  /\ job' = <<>> /\ crashes' = crashes + 1
  /\ UNCHANGED <<scene, disk, world, verdict>>

Next ==
  \/ scene \in Integrated!Roots /\ Integrated!IntegratedNext
  \/ scene = "topology" /\ Topology!TopologyNext
  \/ scene = "occupancy" /\ Occupancy!OccupancyNext
  \/ scene = "physical" /\ Physical!PhysicalNext
  \/ Crash

Spec == Init /\ [][Next]_storeVars

-----------------------------------------------------------------------------
(* Properties *)

TypeOK ==
  /\ scene \in Integrated!Roots \cup {"topology", "occupancy", "physical"}
  /\ DOMAIN disk = CASE scene = "topology" -> Topology!Places
                     [] scene = "occupancy" -> Occupancy!Files
                     [] scene = "physical" -> Physical!Files
                     [] OTHER -> Integrated!Paths
  /\ \A i \in DOMAIN job : DOMAIN job[i] = {"do", "path", "content"}
  /\ verdict \in {"none", "accepted", "rejected"} /\ crashes \in 0..CrashBound

\* A release that its verifier accepts, or that a command has published, tells what its
\* processes did, by the code that judges it, whatever was killed or edited in between
\* (verify_physical_witnesses; "acquire"; verify_release).
ReleaseIsTrue ==
  /\ TypeOK
  /\ scene \in Integrated!Roots /\ verdict = "accepted" => Integrated!IntegratedTrue
  /\ scene = "topology" /\ disk["release"] # Absent => Topology!TopologyTrue
  /\ scene = "occupancy" /\ verdict = "accepted" => Occupancy!OccupancyTrue
  /\ scene = "physical" /\ verdict = "accepted" => Physical!PhysicalTrue

\* What a verifier accepts leaves nothing open: no fact of an accepted occupancy release
\* can be another, with all that is derived from it made to agree, without a refusal, nor
\* any fact of a release of the physical domains that its verifier looks at; and the engine
\* of the topology release takes exactly what the harness would hand it
\* (_run_negative_tests; proof_input_inventory and LoadAndVerify).
ReleaseIsClosed ==
  /\ scene = "occupancy" => Occupancy!OccupancyClosed
  /\ scene = "physical" => Physical!PhysicalClosed
  /\ scene = "topology" => Topology!AdapterAgrees

\* The successor of a record is handed to an engine only when the process that had the
\* record is dead and its files are gone, in whatever order the operator works and
\* wherever a command was killed (resolve_after_unload, _validate_return_prelaunch).
Succession ==
  [][ /\ scene \in Integrated!Roots => Integrated!IntegratedSuccession
      /\ scene = "topology" => Topology!TopologySuccession ]_storeVars

\* Evidence is never lost to a later step: what the crew made is captured before its
\* directory goes, a published release stays as it is, and a group that was acquired is
\* not acquired again (accept_q_and_prepare_return, acquire, _cache_group).
NothingLost ==
  [][ /\ scene \in Integrated!Roots => Integrated!IntegratedNothingLost
      /\ scene = "topology" /\ disk["release"] # Absent => disk'["release"] = disk["release"]
      /\ scene = "occupancy" => Occupancy!OccupancyKept
      /\ scene = "physical" => Physical!PhysicalKept ]_storeVars

\* A topology acquisition that fails leaves no engine running and no half evidence; only
\* its own death does (_acquire_staged and the finally of acquire).
NothingLeftBehind == scene = "topology" => Topology!TopologyClean

=============================================================================
