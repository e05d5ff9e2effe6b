------------------------ MODULE TopologyAcquisition ------------------------
(***************************************************************************)
(* The acquisition of the canonical spatial topology release, one command  *)
(* that runs to its end: a source process materializes R0, is killed and   *)
(* its whole root destroyed; R0 is resolved to R1; a return process        *)
(* materializes R1; four altered inputs are refused.  The evidence is kept *)
(* in a private staging directory and published by one rename.             *)
(***************************************************************************)
EXTENDS EvidenceStore

CompiledCases == {"noncanonical_launch_receipt", "altered_materialization_map", "cross_row"}
Cases == {"additional_directory"} \cup CompiledCases
Roles == {"source", "return"} \cup Cases
Places == Roles \cup {"staging", "release"}

-----------------------------------------------------------------------------
(* The three files of a proof input, and who accepts them *)

Branches == {"R0", "R1"}
Bundles == [members : {"exact", "missing", "extra"}, payload : Branches \cup {"other"},
            map : Branches \cup {"altered"}, receipt : Branches \cup {"altered", "badhash", "noncanonical"}]

Bundle(branch) == [members |-> "exact", payload |-> branch, map |-> branch, receipt |-> branch]

Accepted(branch) == [stage |-> "accepted", reason |-> branch]
Refused(stage, reason) == [stage |-> stage, reason |-> reason]

\* proof_input_inventory: the members, then the receipt on its own, then the raw hashes
\* it gives, and last that the branch is the one of the role.
ProofInputInventory(b, branch) ==
  IF b.members # "exact"
    THEN Refused("input_inventory", IF b.members = "missing" THEN "missing_input_file" ELSE "unexpected_input_file")
  ELSE IF b.receipt \in {"noncanonical", "badhash"} THEN Refused("launch_receipt", "invalid_launch_receipt")
  ELSE IF b.receipt \notin Branches THEN Refused("launch_receipt", "launch_receipt_hash_mismatch")
  ELSE IF b.payload # b.receipt \/ b.map # b.receipt THEN Refused("raw_hash", "artifact_raw_hash_mismatch")
  ELSE IF b.payload # branch THEN Refused("input_inventory", "unexpected_input_file")
  ELSE Accepted(branch)

\* LoadAndVerify: the raw hash of the receipt, as bytes, decides which branch's payload
\* and map are read; it knows of no role.
LoadAndVerify(b) ==
  IF b.members # "exact"
    THEN Refused("input_inventory", IF b.members = "missing" THEN "missing_input_file" ELSE "unexpected_input_file")
  ELSE IF b.receipt = "noncanonical" THEN Refused("launch_receipt", "invalid_launch_receipt")
  ELSE IF b.receipt \notin Branches THEN Refused("launch_receipt", "launch_receipt_hash_mismatch")
  ELSE IF {b.payload, b.map} # {b.receipt} THEN Refused("raw_hash", "artifact_raw_hash_mismatch")
  ELSE Accepted(b.receipt)

\* NEGATIVE_CASES, and the input each is given.
Expected(case) ==
  CASE case = "additional_directory" -> Refused("input_inventory", "unexpected_input_file")
    [] case = "noncanonical_launch_receipt" -> Refused("launch_receipt", "invalid_launch_receipt")
    [] OTHER -> Refused("raw_hash", "artifact_raw_hash_mismatch")

PrepareNegativeCase(case) ==
  CASE case = "additional_directory" -> [Bundle("R0") EXCEPT !.members = "extra"]
    [] case = "noncanonical_launch_receipt" -> [Bundle("R0") EXCEPT !.receipt = "noncanonical"]
    [] case = "altered_materialization_map" -> [Bundle("R0") EXCEPT !.map = "altered"]
    [] case = "cross_row" -> [Bundle("R1") EXCEPT !.payload = "R0"]

-----------------------------------------------------------------------------
(* One Unreal process of a role; at most one is up in an acquisition *)

Silent == <<"silent">>
Partial == <<"partial">>
NotStarted == [life |-> "none", cache |-> "private", log |-> Silent]
Unstarted == [r \in Roles |-> NotStarted]

Process(r) == world.process[r]
Up(r) == Process(r).life = "up"
Sets(r, p) == world' = [world EXCEPT !.process[r] = p]

\* A line of the log is seen in part before it is whole; staging in the engine may fail
\* after the input was accepted.
BeginsLine(r) ==
  /\ Up(r) /\ Process(r).log = Silent
  /\ Sets(r, [Process(r) EXCEPT !.log = Partial])
  /\ UNCHANGED <<scene, disk, job, verdict, crashes>>

EndsLine(r) ==
  LET d == LoadAndVerify(disk[r][2]) IN
  /\ Up(r) /\ Process(r).log = Partial
  /\ \E line \in {<<"disposition", d>>}
                    \cup (IF d.stage = "accepted" THEN {<<"operational", d>>} ELSE {}) :
       Sets(r, [Process(r) EXCEPT !.log = line])
  /\ UNCHANGED <<scene, disk, job, verdict, crashes>>

Exits(r) ==
  /\ Up(r)
  /\ Sets(r, [Process(r) EXCEPT !.life = "exited"])
  /\ UNCHANGED <<scene, disk, job, verdict, crashes>>

TopologyProcesses == \E r \in Roles : BeginsLine(r) \/ EndsLine(r) \/ Exits(r)

-----------------------------------------------------------------------------
(* The command *)

Does1(do, r) == <<Step(do, r, Absent)>>

\* _prepare_process_root and its inventory, _start_process, the wait, _terminate, and the
\* cache audit of the log.
Acquires(r, prelaunch, waits) ==
  prelaunch \o Does1("launch", r) \o waits \o Does1("kill", r) \o Does1("audit", r)

NegativeCase(case) ==
  Make(case, File("input", PrepareNegativeCase(case)))
    \o (IF case \in CompiledCases THEN Acquires(case, <<>>, Does1("refusal", case)) ELSE Does1("gate", case))
    \o Does1("keep", case)

AcquireStaged ==
  Make("staging", Copies(<<>>))
    \o (Make("source", File("input", Bundle("R0")))
          \o Acquires("source", Does1("inventory", "source"), Does1("receipt", "source") \o Does1("alive", "source"))
          \o Does1("keep", "source") \o Remove("source") \o Does1("resolve", "source"))
    \o (Make("return", File("input", Bundle("R1")))
          \o Acquires("return", Does1("inventory", "return") \o Does1("prelaunch", "return"), Does1("receipt", "return"))
          \o Does1("keep", "return"))
    \o NegativeCase("additional_directory") \o NegativeCase("noncanonical_launch_receipt")
    \o NegativeCase("altered_materialization_map") \o NegativeCase("cross_row")
    \o Does1("members", "staging") \o Does1("publish", "staging")

\* acquire: into a new runtime root and a new staging directory, whatever an earlier one
\* has left in others.
Acquire ==
  /\ job = <<>> /\ disk["release"] = Absent
  /\ job' = AcquireStaged
  /\ disk' = [p \in Places |-> Absent]
  /\ world' = [process |-> Unstarted, head |-> "R0"]
  /\ UNCHANGED <<scene, verdict, crashes>>

\* The finally that forgets the process.
HandlerMutated == IF disk["staging"] = Absent THEN <<>> ELSE Remove("staging")

\* A process that was started is terminated in the finally, and the staging is removed.
Handler ==
  LET started == {r \in Roles : Process(r).life \in {"up", "exited"}} IN
  (IF started = {} THEN <<>> ELSE Does1("kill", CHOOSE r \in started : TRUE))
    \o (IF disk["staging"] = Absent THEN <<>> ELSE Remove("staging"))

Fails == job' = Handler /\ UNCHANGED <<scene, disk, world, verdict, crashes>>
Passes == Proceed /\ UNCHANGED <<scene, disk, world, verdict, crashes>>
Demands(condition) == IF condition THEN Passes ELSE Fails

Branch(r) == IF r = "return" THEN "R1" ELSE "R0"

Inventory ==
  /\ Does("inventory")
  /\ Demands(ProofInputInventory(disk[Now.path][2], Branch(Now.path)) = Accepted(Branch(Now.path)))

\* _validate_return_prelaunch: the source's process group is dead and its root is gone.
ValidateReturnPrelaunch ==
  /\ Does("prelaunch")
  /\ Demands(Process("source").life = "dead" /\ disk["source"] = Absent)

StartProcess ==
  /\ Does("launch")
  /\ \E cache \in {"private", "shared"} :
       Sets(Now.path, [NotStarted EXCEPT !.life = "up", !.cache = cache])
  /\ Proceed
  /\ UNCHANGED <<scene, disk, verdict, crashes>>

\* The wait reads the whole log before it asks after the process.  Anything but the
\* line it waits for ends it, and so does the time.
WaitsFor(line) == (Process(Now.path).log = line /\ Passes) \/ Fails
WaitForReceipt == Does("receipt") /\ WaitsFor(<<"disposition", Accepted(Branch(Now.path))>>)
WaitForFailure == Does("refusal") /\ WaitsFor(<<"disposition", Expected(Now.path)>>)

MustBeAlive == Does("alive") /\ Demands(Up(Now.path))

\* _terminate: the group is dead afterwards; a group of which only the exited leader is
\* left may refuse the signal.
Terminate ==
  /\ Does("kill")
  /\ Sets(Now.path, [Process(Now.path) EXCEPT !.life = "dead"])
  /\ \/ Proceed
     \/ /\ Process(Now.path).life = "exited"
        /\ job' = IF disk["staging"] = Absent THEN <<>> ELSE Remove("staging")
  /\ UNCHANGED <<scene, disk, verdict, crashes>>

\* _complete_cache_audit; after a refusal the log must still be the expected one.
CompleteCacheAudit == Does("audit") /\ Demands(Process(Now.path).cache = "private")

Keep ==
  /\ Does("keep")
  /\ LET f == disk["staging"][2]
         kept == IF Now.path = "additional_directory" THEN Expected(Now.path) ELSE Process(Now.path).log[2]
     IN disk' = [disk EXCEPT !["staging"] =
                   Copies([q \in DOMAIN f \cup {Now.path} |-> IF q = Now.path THEN kept ELSE f[q]])]
  /\ Proceed
  /\ UNCHANGED <<scene, world, verdict, crashes>>

\* next_consequential_boundary, resolve_next_due and the termination witness.
Resolve ==
  /\ Does("resolve")
  /\ world' = [world EXCEPT !.head = "R1"] /\ Proceed
  /\ UNCHANGED <<scene, disk, verdict, crashes>>

Gate ==
  /\ Does("gate")
  /\ Demands(ProofInputInventory(disk[Now.path][2], "R0") = Expected(Now.path))

Members == Does("members") /\ Demands(DOMAIN disk["staging"][2] = Roles)

\* os.replace of the staging directory.
Publish ==
  /\ Does("publish")
  /\ IF disk["release"] = Absent
       THEN /\ disk' = [disk EXCEPT !["release"] = disk["staging"], !["staging"] = Absent]
            /\ Proceed
            /\ UNCHANGED <<scene, world, verdict, crashes>>
       ELSE Fails

TopologyCommands ==
  \/ Acquire \/ Inventory \/ ValidateReturnPrelaunch \/ StartProcess \/ WaitForReceipt
  \/ WaitForFailure \/ MustBeAlive \/ Terminate \/ CompleteCacheAudit \/ Keep \/ Resolve
  \/ Gate \/ Members \/ Publish

TopologyInit ==
  /\ scene = "topology"
  /\ disk = [p \in Places |-> Absent] /\ job = <<>>
  /\ world = [process |-> Unstarted, head |-> "R0"]
  /\ verdict = "none" /\ crashes = 0

TopologyNext == TopologyProcesses \/ TopologyCommands \/ Perform(Handler)

-----------------------------------------------------------------------------
(* What the module adds to the properties of EvidenceReleases *)

\* R1 is handed to an engine only when the one that had R0 is dead and its root is gone.
TopologySuccession ==
  disk["return"] = Absent /\ disk'["return"] # Absent =>
    Process("source").life = "dead" /\ disk["source"] = Absent

\* What is published tells what its processes did: the two that were given a branch have
\* materialized it, the altered inputs were refused for the frozen reason, and no process
\* used anything but its own cache or is still there.
TopologyTrue ==
  LET f == disk["release"][2] IN
  /\ f = [r \in Roles |-> IF r \in Cases THEN Expected(r) ELSE Accepted(Branch(r))]
  /\ \A r \in Roles \ {"additional_directory"} :
       Process(r) = [life |-> "dead", cache |-> "private", log |-> <<"disposition", f[r]>>]
  /\ Process("additional_directory") = NotStarted

\* However the command fails, it leaves no process and no half evidence; only its own
\* death does.
TopologyClean == job = <<>> /\ crashes = 0 => disk["staging"] = Absent /\ \A r \in Roles : ~Up(r)

\* The engine takes what the harness would hand it and nothing more than the two frozen
\* branches; for the rest they agree on the stage at which it is refused.
AdapterAgrees ==
  \A b \in Bundles, branch \in Branches :
    LET python == ProofInputInventory(b, branch)
        engine == LoadAndVerify(b)
    IN /\ python.stage = "accepted" => engine = python
       /\ engine.stage = "accepted" => b = Bundle(engine.reason)
       /\ "accepted" \notin {python.stage, engine.stage} => python.stage = engine.stage

=============================================================================
