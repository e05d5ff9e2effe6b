------------------------ MODULE IntegratedLifecycle ------------------------
(***************************************************************************)
(* The integrated lifecycle witness: a source process materializes R0 and  *)
(* lets the crew disable the gate, its evidence Q becomes canonical, the   *)
(* process is unloaded, and a return process materializes the successor.   *)
(* The operator gives the commands of the harness by hand, in any order,   *)
(* while the two processes run; a behaviour is of the primary root or of   *)
(* the control root, where the crew must not have acted.                   *)
(***************************************************************************)
EXTENDS EvidenceStore

Roots == {"primary", "control"}
Stages == {"source", "return"}

\* The record each stage materializes; the log and the receipt of each stage.
Final == IF scene = "primary" THEN "Rfinal" ELSE "Rcontrol"
Record(stage) == IF stage = "source" THEN "R0" ELSE Final
Input(stage) == IF stage = "source" THEN "source_input" ELSE "return_input"
Log(stage) == IF stage = "source" THEN "source_log" ELSE "return_log"
Receipt(stage) == IF stage = "source" THEN "source_receipt" ELSE "return_receipt"

Evidence == {"captured_Q", "Rinput", "final"}
State == {"prepared", "input_committed", "termination", "output_audit", "return_audit"}
Paths == {"source_input", "source_output", "return_input", "export"}
           \cup {Log(s) : s \in Stages} \cup {Receipt(s) : s \in Stages} \cup Evidence \cup State

Pair(record) == File("pair", record)
Empty == File("output", "empty")
PartOfQ == File("output", "part of Q")
Q == File("output", "Q")
LogOf(receipt, q) == File("log", [receipt |-> receipt, q |-> q])

NewProcess == [life |-> "none", read |-> "none", crew |-> "idle"]

IntegratedInit ==
  /\ scene \in Roots
  /\ disk = [p \in Paths |-> Absent]
  /\ job = <<>>
  /\ world = [s \in Stages |-> NewProcess]
  /\ verdict = "none" /\ crashes = 0

-----------------------------------------------------------------------------
(* The two Unreal processes *)

Becomes(s, p) == world' = [world EXCEPT ![s] = p]

Launch(s) ==
  /\ world[s].life = "none"
  /\ Becomes(s, [world[s] EXCEPT !.life = "up"])
  /\ disk' = [disk EXCEPT ![Log(s)] = LogOf("none", FALSE)]
  /\ UNCHANGED <<scene, job, verdict, crashes>>

\* LoadAndVerify, Materialize and EmitAcceptanceReceipt: a whole pair of its stage, or
\* nothing more happens in this process.
BeginPlay(s) ==
  /\ world[s].life = "up" /\ world[s].read = "none"
  /\ IF disk[Input(s)] = Pair(Record(s))
       THEN /\ Becomes(s, [world[s] EXCEPT !.read = Record(s)])
            /\ disk' = [disk EXCEPT ![Log(s)] = LogOf(Record(s), FALSE)]
       ELSE Becomes(s, [world[s] EXCEPT !.read = "refused"]) /\ UNCHANGED disk
  /\ UNCHANGED <<scene, job, verdict, crashes>>

\* TryDisableByCrew: once, where there is a proposal to make.  The output directory is
\* made again if it is gone.
TryDisableByCrew ==
  /\ world["source"].life = "up" /\ world["source"].read = "R0" /\ world["source"].crew = "idle"
  /\ Becomes("source", [world["source"] EXCEPT !.crew = "writing"])
  /\ disk' = [disk EXCEPT !["source_output"] = PartOfQ]
  /\ UNCHANGED <<scene, job, verdict, crashes>>

\* The end of SaveStringToFile; a file that was unlinked meanwhile stays so.
WriteExactQ ==
  /\ world["source"].life = "up" /\ world["source"].crew = "writing"
  /\ Becomes("source", [world["source"] EXCEPT !.crew = "written"])
  /\ disk' = [disk EXCEPT !["source_output"] = IF @ = PartOfQ THEN Q ELSE @]
  /\ UNCHANGED <<scene, job, verdict, crashes>>

LogQ ==
  /\ world["source"].life = "up" /\ world["source"].crew = "written"
  /\ Becomes("source", [world["source"] EXCEPT !.crew = "logged"])
  /\ disk' = [disk EXCEPT !["source_log"] = LogOf("R0", TRUE)]
  /\ UNCHANGED <<scene, job, verdict, crashes>>

Dies(s) ==
  /\ world[s].life = "up"
  /\ Becomes(s, [world[s] EXCEPT !.life = "dead"])
  /\ UNCHANGED <<scene, disk, job, verdict, crashes>>

IntegratedProcesses ==
  \/ \E s \in Stages : Launch(s) \/ BeginPlay(s) \/ Dies(s)
  \/ TryDisableByCrew \/ WriteExactQ \/ LogQ

-----------------------------------------------------------------------------
(* The commands of the harness *)

Prepare ==
  /\ \A p \in Paths \ {Log(s) : s \in Stages} : disk[p] = Absent
  /\ Starts(Make("source_input", Pair("R0")) \o <<Step("make", "source_output", Empty)>>
              \o Write("prepared", File("audit", "R0")))

\* capture_acceptance_receipt: the pair of the stage must still be there.
CaptureReceipt(s) ==
  /\ disk[Input(s)] = Pair(Record(s))
  /\ disk[Log(s)] # Absent /\ disk[Log(s)][2].receipt = Record(s)
  /\ Starts(Write(Receipt(s), File("receipt", Record(s))))

AcceptQ ==
  /\ scene = "primary"
  /\ disk["source_output"] = Q /\ disk["source_input"] = Pair("R0")
  /\ Starts(Write("captured_Q", Q) \o Write("Rinput", File("record", "Rinput"))
              \o Write("input_committed", File("commit", "Rinput")))

\* The operator names the source process; a process that lives is refused.
RecordTermination ==
  /\ world["source"].life = "dead"
  /\ Starts(Write("termination", File("exited", "source")))

Unload ==
  Remove("source_input") \o Remove("source_output") \o Make("return_input", Pair(Final))
    \o Write("return_audit", File("audit", Final))

\* The death of the source not waited for.
ResolveAfterUnloadMutated ==
  /\ scene = "primary"
  /\ disk["Rinput"] = File("record", "Rinput")
  /\ Starts(Write("final", File("record", Final)) \o Unload)

\* resolve_after_unload: only the presence of the termination witness is looked at.
ResolveAfterUnload ==
  /\ scene = "primary"
  /\ disk["termination"] # Absent
  /\ disk["Rinput"] = File("record", "Rinput")
  /\ Starts(Write("final", File("record", Final)) \o Unload)

\* The output of the control not looked at.
ResolveControlAfterUnloadMutated ==
  /\ scene = "control"
  /\ disk["termination"] # Absent
  /\ Starts(Write("output_audit", File("audit", "empty")) \o Write("final", File("record", Final))
              \o (IF disk["return_input"] # Absent THEN <<>> ELSE Unload))

ResolveControlAfterUnload ==
  /\ scene = "control"
  /\ disk["termination"] # Absent
  /\ disk["source_output"] = Empty
  /\ Starts(Write("output_audit", File("audit", "empty")) \o Write("final", File("record", Final))
              \o (IF disk["return_input"] # Absent THEN <<>> ELSE Unload))

\* What export_witness_artifacts copies, in this order; the input of the control's return
\* process takes the place of its evidence file.
Exported ==
  <<"source_receipt", "return_receipt">>
    \o (IF scene = "primary" THEN <<"captured_Q", "Rinput", "final", "prepared", "input_committed">>
        ELSE <<"return_input", "prepared", "output_audit">>)
    \o <<"termination", "return_audit", "source_log", "return_log">>

\* The copies go to a destination that has none of them yet: another one after an export
\* that did not end.
ExportWitness ==
  /\ disk["export"][1] # "summary"
  /\ \A s \in Stages : disk[Receipt(s)] = File("receipt", Record(s))
  /\ IF scene = "primary"
       THEN disk["captured_Q"] = Q /\ disk["Rinput"] = File("record", "Rinput")
              /\ disk["final"] = File("record", Final)
       ELSE disk["return_input"] = Pair(Final) /\ disk["output_audit"] = File("audit", "empty")
  /\ disk["source_input"] = Absent /\ disk["source_output"] = Absent
  /\ Starts(Put("export", Copies(<<>>)) \o [i \in DOMAIN Exported |-> Copy(Exported[i], "export")]
              \o <<Step("summarize", "export", Torn)>>)

Summarize ==
  /\ Does("summarize")
  /\ disk' = [disk EXCEPT !["export"] = File("summary", @[2])]
  /\ Proceed
  /\ UNCHANGED <<scene, world, verdict, crashes>>

\* verify_physical_witnesses: every member parses to what the frozen records make of it,
\* a receipt is in its process's log, and only the primary log tells of Q.
Genuine(f) ==
  /\ \A p \in DOMAIN f : f[p] # Torn
  /\ \A s \in Stages : f[Receipt(s)] = File("receipt", Record(s)) /\ f[Log(s)][2].receipt = Record(s)
  /\ f["source_log"][2].q = (scene = "primary")
  /\ f["return_audit"] = File("audit", Final) /\ f["prepared"] = File("audit", "R0")
  /\ IF scene = "primary"
       THEN f["captured_Q"] = Q /\ f["final"] = File("record", Final)
       ELSE f["return_input"] = Pair(Final) /\ f["output_audit"] = File("audit", "empty")

VerifyPhysicalWitnesses ==
  /\ job = <<>> /\ disk["export"][1] = "summary"
  /\ verdict' = IF Genuine(disk["export"][2]) THEN "accepted" ELSE "rejected"
  /\ UNCHANGED <<scene, disk, job, world, crashes>>

IntegratedCommands ==
  \/ Prepare \/ AcceptQ \/ ResolveAfterUnload \/ ResolveControlAfterUnload \/ ExportWitness
  \/ \E s \in Stages : CaptureReceipt(s)
  \/ RecordTermination \/ Perform(<<>>) \/ Summarize \/ VerifyPhysicalWitnesses

IntegratedNext == IntegratedProcesses \/ IntegratedCommands

-----------------------------------------------------------------------------
(* What the module adds to the properties of EvidenceReleases *)

\* The next epoch is opened only after the last is closed: when the input of the return
\* process is made, the inputs of the source are gone, and so is its process.
IntegratedSuccession ==
  disk["return_input"] = Absent /\ disk'["return_input"] # Absent =>
    /\ world["source"].life = "dead"
    /\ disk["source_input"] = Absent /\ disk["source_output"] = Absent

\* Evidence the crew has made is not destroyed with its process: it is captured first,
\* or there is no continuation.
IntegratedNothingLost ==
  disk["source_output"] \in {PartOfQ, Q} /\ disk'["source_output"] = Torn =>
    scene = "primary" /\ disk["captured_Q"] # Absent /\ disk["Rinput"] = File("record", "Rinput")

\* An accepted release is whole, and tells of the crew what happened.
IntegratedTrue ==
  LET f == disk["export"][2] IN
  /\ \A i \in DOMAIN Exported : f[Exported[i]] \notin {Absent, Torn}
  /\ scene = "primary" => world["source"].crew = "logged"
  /\ scene = "control" => world["source"].crew = "idle"
  /\ world["return"].read = Final /\ world["source"].read = "R0"

=============================================================================
