--------------------------- MODULE EvidenceStore ---------------------------
(***************************************************************************)
(* What the acquisitions of proof_kernel share: files that outlive the     *)
(* command that writes them, and one command at a time, which is the       *)
(* sequence of what it still has to do and is lost when it dies.  A file   *)
(* or a directory is written in two steps, torn and then whole, because    *)
(* write_text, copyfile and rmtree are not atomic; os.replace is.          *)
(***************************************************************************)
EXTENDS Naturals, Sequences, FiniteSets

CONSTANT CrashBound   \* deaths of a command considered
ASSUME CrashAssumption == CrashBound \in Nat

VARIABLES
  scene,    \* which acquisition this behaviour is of
  disk,     \* the content of each path
  job,      \* what the running command still has to do; <<>> if none runs
  world,    \* what the Unreal processes and the memory of the command hold
  verdict,  \* what the verifier of the release said last
  crashes   \* deaths of a command so far

storeVars == <<scene, disk, job, world, verdict, crashes>>

Absent == <<"absent">>
Torn == <<"torn">>
File(kind, of) == <<kind, of>>
Copies(f) == File("copies", f)

Step(do, path, content) == [do |-> do, path |-> path, content |-> content]
Put(path, content) == <<Step("put", path, content)>>
Write(path, content) == Put(path, Torn) \o Put(path, content)
Make(path, content) == <<Step("make", path, Torn)>> \o Put(path, content)
Remove(path) == <<Step("empty", path, Torn), Step("drop", path, Absent)>>
Copy(from, to) == Step("copy", to, from)

Whole(f) == f \notin {Absent, Torn}

FileSteps == {"put", "make", "empty", "drop", "copy"}

\* A directory is made only where there is none, removed only if it is there and still
\* as it was emptied, and what is copied must be there.
Possible(s) ==
  CASE s.do = "make" -> disk[s.path] = Absent
    [] s.do = "empty" -> disk[s.path] # Absent
    [] s.do = "drop" -> disk[s.path] = Torn
    [] s.do = "copy" -> disk[s.content] # Absent
    [] OTHER -> TRUE

Copied(s) ==
  LET f == disk[s.path][2]
  IN Copies([q \in DOMAIN f \cup {s.content} |-> IF q = s.content THEN disk[q] ELSE f[q]])

Now == Head(job)
Does(do) == job # <<>> /\ Now.do = do
Proceed == job' = Tail(job)

\* The next step of the running command on the files; whatever raises ends it, and only
\* what its handler still does follows.
Perform(handler) ==
  /\ job # <<>> /\ Now.do \in FileSteps
  /\ IF Possible(Now)
       THEN /\ disk' = [disk EXCEPT ![Now.path] = IF Now.do = "copy" THEN Copied(Now) ELSE Now.content]
            /\ Proceed
       ELSE job' = handler /\ UNCHANGED disk
  /\ UNCHANGED <<scene, world, verdict, crashes>>

\* A command starts: its conditions are read, and its writes are still to come.
Starts(steps) == job = <<>> /\ job' = steps /\ UNCHANGED <<scene, disk, world, verdict, crashes>>

=============================================================================
