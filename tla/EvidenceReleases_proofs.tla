------------------------ MODULE EvidenceReleases_proofs ------------------------
(***************************************************************************)
(* The acquisitions, for any number of deaths of a command and of edits of *)
(* the sources: the order of a succession, what is kept of the evidence,   *)
(* what a failed acquisition leaves behind, and that what is released is   *)
(* true. The argument is about the job, the steps that the running command *)
(* still has to do: which kinds of steps are among them, and which never   *)
(* comes before which. Both only grow smaller while the command goes on,   *)
(* and vanish when it dies. The second invariant, of the truth, adds what  *)
(* each file says of the processes that made it, and how far the command   *)
(* has come.                                                               *)
(***************************************************************************)
EXTENDS EvidenceReleases, Integers, TLAPS

-----------------------------------------------------------------------------
(* Jobs *)

IsJob(s) == s \in Seq({s[i] : i \in DOMAIN s})

Kind(e) == <<e.do, e.path>>
Kinds(s) == {Kind(s[i]) : i \in DOMAIN s}

\* A step of a kind of A is not followed by one of a kind of B.
NoPair(s, A, B) == \A i, j \in DOMAIN s : i < j /\ Kind(s[i]) \in A => Kind(s[j]) \notin B

LEMMA SeqIsJob == ASSUME NEW S, NEW s \in Seq(S) PROVE IsJob(s)
<1>1. s = [i \in 1..Len(s) |-> s[i]] /\ Len(s) \in Nat /\ DOMAIN s = 1..Len(s)
  OBVIOUS
<1>2. QED BY <1>1 DEF IsJob

LEMMA EmptyJob == IsJob(<<>>) /\ Kinds(<<>>) = {} /\ \A A, B : NoPair(<<>>, A, B)
<1>1. DOMAIN <<>> = {}  OBVIOUS
<1>2. QED BY <1>1 DEF IsJob, Kinds, NoPair

LEMMA OneStep ==
  ASSUME NEW e
  PROVE  /\ IsJob(<<e>>) /\ Kinds(<<e>>) = {Kind(e)} /\ \A A, B : NoPair(<<e>>, A, B)
         /\ <<e>> # <<>> /\ Len(<<e>>) = 1 /\ <<e>>[1] = e
<1>1. Len(<<e>>) = 1 /\ DOMAIN <<e>> = {1} /\ <<e>>[1] = e  OBVIOUS
<1>2. <<e>> \in Seq({e})  OBVIOUS
<1>3. IsJob(<<e>>)  BY <1>1, <1>2 DEF IsJob
<1>4. Kinds(<<e>>) = {Kind(e)}  BY <1>1 DEF Kinds
<1>5. \A A, B : NoPair(<<e>>, A, B)  BY <1>1 DEF NoPair
<1>6. QED BY <1>1, <1>3, <1>4, <1>5

LEMMA JobIsSeq ==
  ASSUME NEW s, IsJob(s)
  PROVE  /\ Len(s) \in Nat /\ DOMAIN s = 1..Len(s) /\ s = [i \in 1..Len(s) |-> s[i]]
  BY DEF IsJob

\* One step further.
LEMMA Onward ==
  ASSUME NEW s, IsJob(s), s # <<>>
  PROVE  /\ IsJob(Tail(s)) /\ Len(Tail(s)) = Len(s) - 1 /\ Len(s) \in Nat \ {0}
         /\ Head(s) = s[1] /\ 1 \in DOMAIN s
         /\ \A i \in DOMAIN Tail(s) : i + 1 \in DOMAIN s /\ Tail(s)[i] = s[i + 1]
         /\ \A i \in DOMAIN s : i = 1 \/ (i - 1 \in DOMAIN Tail(s) /\ s[i] = Tail(s)[i - 1])
<1> DEFINE S == {s[i] : i \in DOMAIN s}
           t == Tail(s)
<1>1. s \in Seq(S)  BY DEF IsJob
<1> HIDE DEF S
<1>2. /\ t \in Seq(S) /\ Len(t) = Len(s) - 1 /\ Len(s) \in Nat \ {0} /\ Head(s) = s[1]
      /\ DOMAIN t = 1..(Len(s) - 1) /\ DOMAIN s = 1..Len(s)
      /\ \A i \in 1..(Len(s) - 1) : t[i] = s[i + 1]
  BY <1>1
<1>3. IsJob(t)  BY <1>2, SeqIsJob
<1>4. QED BY <1>2, <1>3

LEMMA TailKinds ==
  ASSUME NEW s, IsJob(s), s # <<>>
  PROVE  /\ Kinds(s) = {Kind(Head(s))} \cup Kinds(Tail(s))
<1>1. ASSUME NEW k, k \in Kinds(s) PROVE k = Kind(Head(s)) \/ k \in Kinds(Tail(s))
  <2>1. PICK i \in DOMAIN s : k = Kind(s[i])  BY <1>1 DEF Kinds
  <2>2. QED BY <2>1, Onward DEF Kinds
<1>2. ASSUME NEW k, k \in Kinds(Tail(s)) PROVE k \in Kinds(s)
  <2>1. PICK i \in DOMAIN Tail(s) : k = Kind(Tail(s)[i])  BY <1>2 DEF Kinds
  <2>2. QED BY <2>1, Onward DEF Kinds
<1>3. Kind(Head(s)) \in Kinds(s)  BY Onward DEF Kinds
<1>4. QED BY <1>1, <1>2, <1>3

LEMMA TailNoPair ==
  ASSUME NEW s, IsJob(s), s # <<>>, NEW A, NEW B, NoPair(s, A, B)
  PROVE  /\ NoPair(Tail(s), A, B)
         /\ Kind(Head(s)) \in A => Kinds(Tail(s)) \cap B = {}
<1>1. ASSUME NEW i \in DOMAIN Tail(s), NEW j \in DOMAIN Tail(s), i < j, Kind(Tail(s)[i]) \in A
      PROVE  Kind(Tail(s)[j]) \notin B
  <2>1. i + 1 \in DOMAIN s /\ j + 1 \in DOMAIN s /\ Tail(s)[i] = s[i + 1] /\ Tail(s)[j] = s[j + 1]
    BY Onward
  <2>2. i \in Int /\ j \in Int /\ i + 1 < j + 1
    <3>1. DOMAIN Tail(s) = 1..Len(Tail(s)) /\ Len(Tail(s)) \in Nat
      BY Onward, JobIsSeq
    <3>2. QED BY <1>1, <3>1
  <2>3. QED BY <1>1, <2>1, <2>2 DEF NoPair
<1>2. ASSUME Kind(Head(s)) \in A, NEW k \in Kinds(Tail(s)) PROVE k \notin B
  <2>1. PICK i \in DOMAIN Tail(s) : k = Kind(Tail(s)[i])  BY DEF Kinds
  <2>2. i + 1 \in DOMAIN s /\ Tail(s)[i] = s[i + 1] /\ Head(s) = s[1] /\ 1 \in DOMAIN s
    BY Onward
  <2>3. 1 < i + 1
    <3>1. DOMAIN Tail(s) = 1..Len(Tail(s)) /\ Len(Tail(s)) \in Nat
      BY Onward, JobIsSeq
    <3>2. QED BY <3>1
  <2>4. QED BY <1>2, <2>1, <2>2, <2>3 DEF NoPair
<1>3. QED BY <1>1, <1>2 DEF NoPair

\* Two parts of a job, one after the other.
LEMMA Joined ==
  ASSUME NEW s, NEW t, IsJob(s), IsJob(t)
  PROVE  /\ IsJob(s \o t) /\ Len(s \o t) = Len(s) + Len(t)
         /\ DOMAIN (s \o t) = 1..(Len(s) + Len(t))
         /\ Len(s) \in Nat /\ Len(t) \in Nat /\ DOMAIN s = 1..Len(s) /\ DOMAIN t = 1..Len(t)
         /\ \A i \in DOMAIN s : (s \o t)[i] = s[i]
         /\ \A i \in DOMAIN t : (s \o t)[Len(s) + i] = t[i]
         /\ \A i \in DOMAIN (s \o t) : i \in DOMAIN s \/ (i - Len(s) \in DOMAIN t /\ i = Len(s) + (i - Len(s)))
<1> DEFINE S == {s[i] : i \in DOMAIN s} \cup {t[i] : i \in DOMAIN t}
           u == s \o t
<1>1. /\ Len(s) \in Nat /\ DOMAIN s = 1..Len(s) /\ s = [i \in 1..Len(s) |-> s[i]]
      /\ Len(t) \in Nat /\ DOMAIN t = 1..Len(t) /\ t = [i \in 1..Len(t) |-> t[i]]
  BY JobIsSeq
<1>2. s \in Seq(S) /\ t \in Seq(S)  BY <1>1
<1> HIDE DEF S
<1>3. /\ u \in Seq(S) /\ Len(u) = Len(s) + Len(t)
      /\ \A i \in 1..Len(s) : u[i] = s[i]
      /\ \A i \in 1..Len(t) : u[Len(s) + i] = t[i]
  BY <1>1, <1>2
<1>4. IsJob(u)  BY <1>3, SeqIsJob
<1>5. DOMAIN u = 1..(Len(s) + Len(t))  BY <1>3
<1>6. ASSUME NEW i \in DOMAIN u PROVE i \in DOMAIN s \/ (i - Len(s) \in DOMAIN t /\ i = Len(s) + (i - Len(s)))
  BY <1>1, <1>5
<1>7. QED BY <1>1, <1>3, <1>4, <1>5, <1>6

LEMMA JoinedKinds ==
  ASSUME NEW s, NEW t, IsJob(s), IsJob(t)
  PROVE  Kinds(s \o t) = Kinds(s) \cup Kinds(t)
<1>1. ASSUME NEW k \in Kinds(s \o t) PROVE k \in Kinds(s) \cup Kinds(t)
  <2>1. PICK i \in DOMAIN (s \o t) : k = Kind((s \o t)[i])  BY DEF Kinds
  <2>2. CASE i \in DOMAIN s  BY <2>1, <2>2, Joined DEF Kinds
  <2>3. CASE i \notin DOMAIN s
    <3>1. i - Len(s) \in DOMAIN t /\ (s \o t)[i] = t[i - Len(s)]
      BY <2>3, Joined
    <3>2. QED BY <2>1, <3>1 DEF Kinds
  <2>4. QED BY <2>2, <2>3
<1>2. ASSUME NEW k \in Kinds(s) PROVE k \in Kinds(s \o t)
  <2>1. PICK i \in DOMAIN s : k = Kind(s[i])  BY DEF Kinds
  <2>2. i \in DOMAIN (s \o t) /\ (s \o t)[i] = s[i]  BY Joined
  <2>3. QED BY <2>1, <2>2 DEF Kinds
<1>3. ASSUME NEW k \in Kinds(t) PROVE k \in Kinds(s \o t)
  <2>1. PICK i \in DOMAIN t : k = Kind(t[i])  BY DEF Kinds
  <2>2. Len(s) + i \in DOMAIN (s \o t) /\ (s \o t)[Len(s) + i] = t[i]
    BY Joined
  <2>3. QED BY <2>1, <2>2 DEF Kinds
<1>4. QED BY <1>1, <1>2, <1>3

LEMMA JoinedNoPair ==
  ASSUME NEW s, NEW t, IsJob(s), IsJob(t), NEW A, NEW B, NoPair(s, A, B), NoPair(t, A, B),
         Kinds(s) \cap A = {} \/ Kinds(t) \cap B = {}
  PROVE  NoPair(s \o t, A, B)
<1> DEFINE u == s \o t
<1> SUFFICES ASSUME NEW i \in DOMAIN u, NEW j \in DOMAIN u, i < j, Kind(u[i]) \in A PROVE Kind(u[j]) \notin B
  BY Zenon DEF NoPair
<1>1. CASE i \in DOMAIN s /\ j \in DOMAIN s  BY <1>1, Joined DEF NoPair
<1>2. CASE i \in DOMAIN s /\ j \notin DOMAIN s
  <2>1. u[i] = s[i] /\ j - Len(s) \in DOMAIN t /\ u[j] = t[j - Len(s)]
    BY <1>2, Joined
  <2>2. Kind(s[i]) \in Kinds(s) /\ Kind(t[j - Len(s)]) \in Kinds(t)
    BY <1>2, <2>1 DEF Kinds
  <2>3. QED BY <2>1, <2>2
<1>3. CASE i \notin DOMAIN s
  <2>1. i - Len(s) \in DOMAIN t /\ i = Len(s) + (i - Len(s))  BY <1>3, Joined
  <2>1a. u[i] = t[i - Len(s)]
    BY <2>1, Joined
  <2>2. j \notin DOMAIN s  BY <1>3, Joined
  <2>3. j - Len(s) \in DOMAIN t /\ u[j] = t[j - Len(s)]  BY <2>2, Joined
  <2>4. i - Len(s) < j - Len(s)  BY Joined
  <2>5. QED BY <2>1, <2>1a, <2>3, <2>4 DEF NoPair
<1>4. QED BY <1>1, <1>2, <1>3

LEMMA NoPairNone ==
  ASSUME NEW s, NEW A, NEW B, Kinds(s) \cap A = {} \/ Kinds(s) \cap B = {}
  PROVE  NoPair(s, A, B)
  BY DEF NoPair, Kinds

Items(s) == {s[i] : i \in DOMAIN s}

LEMMA KindsOfItems == ASSUME NEW s PROVE Kinds(s) = {Kind(e) : e \in Items(s)}
  BY DEF Kinds, Items

LEMMA TailItems ==
  ASSUME NEW s, IsJob(s), s # <<>>
  PROVE  Items(s) = {Head(s)} \cup Items(Tail(s))
<1>1. ASSUME NEW e \in Items(s) PROVE e = Head(s) \/ e \in Items(Tail(s))
  <2>1. PICK i \in DOMAIN s : e = s[i]  BY DEF Items
  <2>2. QED BY <2>1, Onward DEF Items
<1>2. ASSUME NEW e \in Items(Tail(s)) PROVE e \in Items(s)
  <2>1. PICK i \in DOMAIN Tail(s) : e = Tail(s)[i]  BY DEF Items
  <2>2. QED BY <2>1, Onward DEF Items
<1>3. Head(s) \in Items(s)  BY Onward DEF Items
<1>4. QED BY <1>1, <1>2, <1>3

LEMMA JoinedItems ==
  ASSUME NEW s, NEW t, IsJob(s), IsJob(t)
  PROVE  Items(s \o t) = Items(s) \cup Items(t)
<1>1. ASSUME NEW e \in Items(s \o t) PROVE e \in Items(s) \cup Items(t)
  <2>1. PICK i \in DOMAIN (s \o t) : e = (s \o t)[i]  BY DEF Items
  <2>2. CASE i \in DOMAIN s  BY <2>1, <2>2, Joined DEF Items
  <2>3. CASE i \notin DOMAIN s
    <3>1. i - Len(s) \in DOMAIN t /\ (s \o t)[i] = t[i - Len(s)]
      BY <2>3, Joined
    <3>2. QED BY <2>1, <3>1 DEF Items
  <2>4. QED BY <2>2, <2>3
<1>2. ASSUME NEW e \in Items(s) PROVE e \in Items(s \o t)
  <2>1. PICK i \in DOMAIN s : e = s[i]  BY DEF Items
  <2>2. i \in DOMAIN (s \o t) /\ (s \o t)[i] = s[i]  BY Joined
  <2>3. QED BY <2>1, <2>2 DEF Items
<1>3. ASSUME NEW e \in Items(t) PROVE e \in Items(s \o t)
  <2>1. PICK i \in DOMAIN t : e = t[i]  BY DEF Items
  <2>2. Len(s) + i \in DOMAIN (s \o t) /\ (s \o t)[Len(s) + i] = t[i]
    BY Joined
  <2>3. QED BY <2>1, <2>2 DEF Items
<1>4. QED BY <1>1, <1>2, <1>3

\* A step on the files is the same in every scene.
LEMMA PerformSame ==
  ASSUME NEW h
  PROVE  /\ Integrated!Perform(h) => Perform(h)
         /\ Topology!Perform(h) => Perform(h)
         /\ Occupancy!Perform(h) => Perform(h)
         /\ Physical!Perform(h) => Perform(h)
<1>1. Integrated!Perform(h) => Perform(h)
  BY Zenon DEF Integrated!Perform, Perform, Integrated!Now, Now, Integrated!FileSteps, FileSteps, Integrated!Possible, Possible,
               Integrated!Copied, Copied, Integrated!Copies, Copies, Integrated!File, File, Integrated!Proceed, Proceed,
               Integrated!Absent, Absent, Integrated!Torn, Torn
<1>2. Topology!Perform(h) => Perform(h)
  BY Zenon DEF Topology!Perform, Perform, Topology!Now, Now, Topology!FileSteps, FileSteps, Topology!Possible, Possible,
               Topology!Copied, Copied, Topology!Copies, Copies, Topology!File, File, Topology!Proceed, Proceed,
               Topology!Absent, Absent, Topology!Torn, Torn
<1>3. Occupancy!Perform(h) => Perform(h)
  BY Zenon DEF Occupancy!Perform, Perform, Occupancy!Now, Now, Occupancy!FileSteps, FileSteps, Occupancy!Possible, Possible,
               Occupancy!Copied, Copied, Occupancy!Copies, Copies, Occupancy!File, File, Occupancy!Proceed, Proceed,
               Occupancy!Absent, Absent, Occupancy!Torn, Torn
<1>4. Physical!Perform(h) => Perform(h)
  BY Zenon DEF Physical!Perform, Perform, Physical!Now, Now, Physical!FileSteps, FileSteps, Physical!Possible, Possible,
               Physical!Copied, Copied, Physical!Copies, Copies, Physical!File, File, Physical!Proceed, Proceed,
               Physical!Absent, Absent, Physical!Torn, Torn
<1>5. QED BY <1>1, <1>2, <1>3, <1>4

\* The command does its next step on the files, or its handler takes over.
LEMMA Performed ==
  ASSUME NEW h, NEW D, disk = [p \in D |-> disk[p]], Perform(h)
  PROVE  /\ UNCHANGED <<scene, world, verdict, crashes>> /\ job # <<>> /\ Now.do \in FileSteps
         /\ disk' = [p \in D |-> disk'[p]]
         /\ \/ job' = h /\ disk' = disk /\ ~Possible(Now)
            \/ /\ job' = Tail(job) /\ Possible(Now)
               /\ \A p \in D : p # Now.path => disk'[p] = disk[p]
               /\ Now.path \in D /\ Now.do # "copy" => disk'[Now.path] = Now.content
<1>1. UNCHANGED <<scene, world, verdict, crashes>> /\ job # <<>> /\ Now.do \in FileSteps
  BY DEF Perform
<1>2. CASE Possible(Now)
  <2>1. PICK c : disk' = [disk EXCEPT ![Now.path] = c] /\ (Now.do # "copy" => c = Now.content)
    <3>1. disk' = [disk EXCEPT ![Now.path] = IF Now.do = "copy" THEN Copied(Now) ELSE Now.content]
      BY <1>2 DEF Perform
    <3>2. QED BY <3>1
  <2>2. job' = Tail(job)  BY <1>2 DEF Perform, Proceed
  <2>3. QED BY <1>1, <1>2, <2>1, <2>2
<1>3. CASE ~Possible(Now)  BY <1>1, <1>3 DEF Perform
<1>4. QED BY <1>2, <1>3

\* What remains of a job has fewer kinds, and no new pairs.
LEMMA JobGoesOn ==
  ASSUME IsJob(job), job # <<>>, job' = Tail(job)
  PROVE  /\ IsJob(job')
         /\ Kinds(job) = {Kind(Now)} \cup Kinds(job')
         /\ Items(job) = {Now} \cup Items(job')
         /\ \A A, B : NoPair(job, A, B) => /\ NoPair(job', A, B)
                                           /\ Kind(Now) \in A => Kinds(job') \cap B = {}
  BY Onward, TailKinds, TailItems, TailNoPair DEF Now

-----------------------------------------------------------------------------
(* What is invariant in each scene *)

On(p) == {<<d, p>> : d \in FileSteps}
OnAny(P) == {<<d, p>> : d \in FileSteps, p \in P}
To(do, p) == {<<do, p>>}

\* All that the running command has still to do with the files of P: what is written
\* before the last time is torn.
LastWrites(s, P) ==
  \A i, j \in DOMAIN s :
    i < j /\ s[i].path = s[j].path /\ s[j].path \in P /\ {s[i].do, s[j].do} \subseteq FileSteps =>
      s[i].do # "copy" /\ s[i].content = Torn

\* A removal ends with the absence, and nothing else does.
Shaped(e) ==
  /\ e.do = "drop" => e.content = Absent
  /\ e.do = "empty" => e.content = Torn
  /\ e.do \in {"put", "make"} => e.content # Absent
ShapedJob(s) == \A i \in DOMAIN s : Shaped(s[i])

Dead(s) == world[s].life = "dead"
Remaking(src) == {<<d, src>> : d \in {"put", "make", "copy"}}
Sources == {"source_input", "source_output"}
Destroying == <<"empty", "source_output">>
Proofs == {"captured_Q", "Rinput"}
NotPut(P) == {<<d, p>> : d \in FileSteps \ {"put"}, p \in P}

\* The successor's input is made, and the crew's evidence destroyed, when the source is dead
\* and what comes before is done or still comes before.
IntegratedSuccessionInv ==
  /\ Kinds(job) \cap On("return_input") # {} =>
       Dead("source") /\ \A src \in Sources : /\ disk[src] = Absent \/ <<"drop", src>> \in Kinds(job)
                                              /\ Kinds(job) \cap Remaking(src) = {}
  /\ \A src \in Sources : NoPair(job, On("return_input"), To("drop", src))
  /\ disk["termination"] # Absent \/ <<"put", "termination">> \in Kinds(job) => Dead("source")

IntegratedEvidenceInv ==
  /\ Destroying \in Kinds(job) =>
       /\ Dead("source")
       /\ scene = "primary" => /\ disk["captured_Q"] # Absent /\ disk["Rinput"] = Integrated!File("record", "Rinput")
                               /\ Kinds(job) \cap OnAny(Proofs) = {}
       /\ scene = "control" => disk["source_output"] = Integrated!Empty
  /\ NoPair(job, On("source_output"), {Destroying})
  /\ disk["Rinput"] # Absent => disk["captured_Q"] # Absent
  /\ <<"put", "Rinput">> \in Kinds(job) => disk["captured_Q"] # Absent \/ <<"put", "captured_Q">> \in Kinds(job)
  /\ NoPair(job, To("put", "Rinput"), To("put", "captured_Q"))
  /\ Kinds(job) \cap NotPut(Proofs \cup {"termination"}) = {}
  /\ Kinds(job) \cap ({<<"put", "source_output">>} \cup To("copy", "source_output")) = {}

IntegratedInv ==
  /\ IsJob(job)
  /\ disk = [p \in Integrated!Paths |-> disk[p]]
  /\ world = [s \in Integrated!Stages |-> world[s]]
  /\ \A s \in Integrated!Stages :
       world[s] = [life |-> world[s].life, read |-> world[s].read, crew |-> world[s].crew]
  /\ ShapedJob(job)
  /\ IntegratedSuccessionInv /\ IntegratedEvidenceInv

-----------------------------------------------------------------------------

Proc(r) == world.process[r]
Started(r) == Proc(r).life \in {"up", "exited"}

\* What makes a file of the source, or of the staging directory, is followed by what
\* removes it, which nothing comes after.
Making(p) == {<<d, p>> : d \in FileSteps \ {"drop"}}
Staging == Making("staging") \cup {<<"keep", p>> : p \in Topology!Places}
Ending == {<<"publish", "staging">>, <<"drop", "staging">>}

TopologySuccessionInv ==
  /\ Kinds(job) \cap On("return") # {} =>
       /\ Proc("source").life = "dead" \/ <<"kill", "source">> \in Kinds(job)
       /\ disk["source"] = Absent \/ <<"drop", "source">> \in Kinds(job)
  /\ Kinds(job) \cap On("return") # {} /\ <<"launch", "source">> \in Kinds(job) => <<"kill", "source">> \in Kinds(job)
  /\ Kinds(job) \cap On("return") # {} /\ Kinds(job) \cap Making("source") # {} => <<"drop", "source">> \in Kinds(job)
  /\ NoPair(job, On("return"), To("kill", "source"))
  /\ NoPair(job, On("return"), To("drop", "source"))
  /\ NoPair(job, To("kill", "source"), To("launch", "source"))
  /\ NoPair(job, To("drop", "source"), Making("source"))
  /\ Kinds(job) \cap On("release") = {}

\* A process that dies after the launch of another is launched after it too.
Brackets(s) ==
  \A i, j \in DOMAIN s : \A r \in Topology!Roles :
    i < j /\ s[i].do = "launch" /\ s[i].path # r /\ Kind(s[j]) = <<"kill", r>> =>
      \E k \in DOMAIN s : i < k /\ Kind(s[k]) = <<"launch", r>>

TopologyOrderly(s) ==
  /\ Brackets(s)
  /\ \A r \in Topology!Roles :
       /\ <<"launch", r>> \in Kinds(s) => <<"kill", r>> \in Kinds(s)
       /\ NoPair(s, To("kill", r), To("launch", r))
       /\ NoPair(s, To("launch", r), To("launch", r))

TopologyCleanInv ==
  /\ TopologyOrderly(job)
  /\ Kinds(job) \cap Staging # {} => Kinds(job) \cap Ending # {}
  /\ NoPair(job, Ending, Staging)
  /\ crashes = 0 =>
       /\ disk["staging"] # Absent => Kinds(job) \cap Ending # {}
       /\ \A r \in Topology!Roles :
            Started(r) => <<"kill", r>> \in Kinds(job) /\ <<"launch", r>> \notin Kinds(job)
       /\ \A r, q \in Topology!Roles : Started(r) /\ Started(q) => r = q

TopologyWorld ==
  /\ world = [process |-> world.process, head |-> world.head]
  /\ world.process = [r \in Topology!Roles |-> world.process[r]]
  /\ \A r \in Topology!Roles :
       Proc(r) = [life |-> Proc(r).life, cache |-> Proc(r).cache, log |-> Proc(r).log]

TopologyInv ==
  /\ IsJob(job)
  /\ disk = [p \in Topology!Places |-> disk[p]]
  /\ TopologyWorld
  /\ \A e \in Items(job) : e.path \in Topology!Places /\ (e.do = "kill" => e.path \in Topology!Roles)
  /\ ShapedJob(job)
  /\ TopologySuccessionInv /\ TopologyCleanInv

-----------------------------------------------------------------------------

\* A group is written when it is not there, and none is pending while it is.
OccupancyInv ==
  /\ IsJob(job)
  /\ disk = [p \in Occupancy!Files |-> disk[p]]
  /\ \A i \in DOMAIN job : /\ job[i].do = "group" => job[i].path \in Occupancy!GroupNames
                           /\ job[i].do \in {"assemble", "rename"} => job[i].path \in Occupancy!Pids
  /\ \A g \in Occupancy!GroupNames : Kinds(job) \cap On(g) # {} => ~Whole(disk[g])
  /\ NoPair(job, {<<"group", g>> : g \in Occupancy!GroupNames}, OnAny(Occupancy!GroupNames))
  /\ LastWrites(job, Occupancy!GroupNames)

\* An artifact is written once, into a directory that was new.
Writings == {<<"write", n>> : n \in Physical!Names}

PhysicalInv ==
  /\ IsJob(job)
  /\ disk = [p \in Physical!Files |-> disk[p]]
  /\ \A e \in Items(job) :
       /\ e.do = "write" => e.path \in Physical!Names
       /\ e.do \in FileSteps /\ e.path = "records" => e.do = "put" /\ e.content # Absent
  /\ disk["records"] = Absent => \A n \in Physical!Names : disk[n] = Absent
  /\ Kinds(job) \cap (Writings \cup OnAny(Physical!Names)) # {} =>
       disk["records"] # Absent \/ <<"put", "records">> \in Kinds(job)
  /\ NoPair(job, Writings \cup OnAny(Physical!Names), To("put", "records"))
  /\ NoPair(job, Writings, OnAny(Physical!Names))
  /\ \A n \in Physical!Names :
       /\ <<"write", n>> \in Kinds(job) => disk[n] = Absent /\ Kinds(job) \cap On(n) = {}
       /\ Kinds(job) \cap On(n) # {} => ~Whole(disk[n])
       /\ NoPair(job, To("write", n), To("write", n))
  /\ LastWrites(job, Physical!Names)

IInv ==
  /\ scene \in Integrated!Roots \cup {"topology", "occupancy", "physical"}
  /\ crashes \in Nat
  /\ scene \in Integrated!Roots => IntegratedInv
  /\ scene = "topology" => TopologyInv
  /\ scene = "occupancy" => OccupancyInv
  /\ scene = "physical" => PhysicalInv

-----------------------------------------------------------------------------
(* The parts of a job *)

LEMMA PutParts ==
  ASSUME NEW p, NEW c
  PROVE  IsJob(Put(p, c)) /\ Items(Put(p, c)) = {Step("put", p, c)} /\ Kinds(Put(p, c)) = {<<"put", p>>}
<1>1. IsJob(Put(p, c)) /\ Items(Put(p, c)) = {Step("put", p, c)} /\ Kinds(Put(p, c)) = {Kind(Step("put", p, c))}
  BY OneStep DEF Put, Items
<1>2. QED BY <1>1 DEF Kind, Step

LEMMA TwoSteps ==
  ASSUME NEW a, NEW b
  PROVE  /\ IsJob(<<a, b>>) /\ Items(<<a, b>>) = {a, b} /\ Kinds(<<a, b>>) = {Kind(a), Kind(b)}
         /\ \A A, B : Kind(b) \notin B => NoPair(<<a, b>>, A, B)
<1>1. Len(<<a, b>>) = 2 /\ DOMAIN <<a, b>> = {1, 2} /\ <<a, b>>[1] = a /\ <<a, b>>[2] = b
  OBVIOUS
<1>2. <<a, b>> \in Seq({a, b})  OBVIOUS
<1>3. IsJob(<<a, b>>)  BY <1>2, SeqIsJob
<1>4. Items(<<a, b>>) = {a, b}  BY <1>1 DEF Items
<1>5. Kinds(<<a, b>>) = {Kind(a), Kind(b)}  BY <1>1 DEF Kinds
<1>6. ASSUME NEW A, NEW B, Kind(b) \notin B PROVE NoPair(<<a, b>>, A, B)
  BY <1>1, <1>6 DEF NoPair
<1>7. QED BY <1>3, <1>4, <1>5, <1>6

LEMMA WriteParts ==
  ASSUME NEW p, NEW c
  PROVE  /\ IsJob(Write(p, c)) /\ Items(Write(p, c)) = {Step("put", p, Torn), Step("put", p, c)}
         /\ Kinds(Write(p, c)) = {<<"put", p>>}
<1>1. /\ IsJob(Put(p, Torn)) /\ Items(Put(p, Torn)) = {Step("put", p, Torn)} /\ Kinds(Put(p, Torn)) = {<<"put", p>>}
      /\ IsJob(Put(p, c)) /\ Items(Put(p, c)) = {Step("put", p, c)} /\ Kinds(Put(p, c)) = {<<"put", p>>}
  BY PutParts
<1>2. QED BY <1>1, Joined, JoinedItems, JoinedKinds DEF Write

LEMMA MakeParts ==
  ASSUME NEW p, NEW c
  PROVE  /\ IsJob(Make(p, c)) /\ Items(Make(p, c)) = {Step("make", p, Torn), Step("put", p, c)}
         /\ Kinds(Make(p, c)) = {<<"make", p>>, <<"put", p>>}
<1> DEFINE e == Step("make", p, Torn)
<1>1. /\ IsJob(Put(p, c)) /\ Items(Put(p, c)) = {Step("put", p, c)} /\ Kinds(Put(p, c)) = {<<"put", p>>}
  BY PutParts
<1>2. IsJob(<<e>>) /\ Items(<<e>>) = {e} /\ Kinds(<<e>>) = {Kind(e)}
  BY OneStep DEF Items
<1>3. Kind(e) = <<"make", p>>  BY DEF Kind, Step
<1> HIDE DEF e
<1>4. Make(p, c) = <<e>> \o Put(p, c)  BY DEF Make, e
<1>5. QED BY <1>1, <1>2, <1>3, <1>4, Joined, JoinedItems, JoinedKinds DEF e

LEMMA RemoveParts ==
  ASSUME NEW p
  PROVE  /\ IsJob(Remove(p)) /\ Items(Remove(p)) = {Step("empty", p, Torn), Step("drop", p, Absent)}
         /\ Kinds(Remove(p)) = {<<"empty", p>>, <<"drop", p>>}
         /\ \A A, B : <<"drop", p>> \notin B => NoPair(Remove(p), A, B)
<1>1. Kind(Step("empty", p, Torn)) = <<"empty", p>> /\ Kind(Step("drop", p, Absent)) = <<"drop", p>>
  BY DEF Kind, Step
<1>2. QED BY <1>1, TwoSteps DEF Remove

LEMMA ShapedItems == ASSUME NEW s PROVE ShapedJob(s) <=> \A e \in Items(s) : Shaped(e)
  BY DEF ShapedJob, Items

LEMMA ShapedJoined ==
  ASSUME NEW s, NEW t, IsJob(s), IsJob(t), ShapedJob(s), ShapedJob(t)
  PROVE  ShapedJob(s \o t)
<1>1. \A e \in Items(s) \cup Items(t) : Shaped(e)  BY ShapedItems
<1>2. QED BY <1>1, JoinedItems, ShapedItems

LEMMA ShapedParts ==
  ASSUME NEW p, NEW c, c # Absent
  PROVE  /\ ShapedJob(Put(p, c)) /\ ShapedJob(Write(p, c)) /\ ShapedJob(Make(p, c)) /\ ShapedJob(Remove(p))
         /\ ShapedJob(<<>>)
<1>1. /\ Shaped(Step("put", p, c)) /\ Shaped(Step("put", p, Torn)) /\ Shaped(Step("make", p, Torn))
      /\ Shaped(Step("empty", p, Torn)) /\ Shaped(Step("drop", p, Absent))
  BY DEF Shaped, Step, Torn, Absent
<1>2. /\ \A e \in {Step("put", p, c)} : Shaped(e)
      /\ \A e \in {Step("put", p, Torn), Step("put", p, c)} : Shaped(e)
      /\ \A e \in {Step("make", p, Torn), Step("put", p, c)} : Shaped(e)
      /\ \A e \in {Step("empty", p, Torn), Step("drop", p, Absent)} : Shaped(e)
  BY <1>1, Zenon
<1>3. Items(<<>>) = {}  BY DEF Items
<1>4. \A e \in Items(Put(p, c)) : Shaped(e)
  <2>1. Items(Put(p, c)) = {Step("put", p, c)}  BY PutParts
  <2>2. QED BY <1>2, <2>1, Zenon
<1>5. \A e \in Items(Write(p, c)) : Shaped(e)
  <2>1. Items(Write(p, c)) = {Step("put", p, Torn), Step("put", p, c)}
    BY WriteParts
  <2>2. QED BY <1>2, <2>1, Zenon
<1>6. \A e \in Items(Make(p, c)) : Shaped(e)
  <2>1. Items(Make(p, c)) = {Step("make", p, Torn), Step("put", p, c)}
    BY MakeParts
  <2>2. QED BY <1>2, <2>1, Zenon
<1>7. \A e \in Items(Remove(p)) : Shaped(e)  BY <1>2, RemoveParts, Zenon
<1>8. QED BY <1>3, <1>4, <1>5, <1>6, <1>7, ShapedItems

-----------------------------------------------------------------------------
(* The integrated lifecycle *)

Logs == {"source_log", "return_log"}

LEMMA IntegratedNames ==
  /\ {"source_input", "source_output", "return_input", "export", "termination", "captured_Q", "Rinput",
      "source_log", "return_log"} \subseteq Integrated!Paths
  /\ \A s \in Integrated!Stages : Integrated!Log(s) \in Logs
                                  /\ Integrated!Receipt(s) \in {"source_receipt", "return_receipt"}
  /\ Integrated!Stages = {"source", "return"} /\ Integrated!Roots = {"primary", "control"}
<1>1. Integrated!Stages = {"source", "return"} /\ Integrated!Roots = {"primary", "control"}
  BY DEF Integrated!Stages, Integrated!Roots
<1>2. \A s \in Integrated!Stages : Integrated!Log(s) \in Logs
                                   /\ Integrated!Receipt(s) \in {"source_receipt", "return_receipt"}
  BY <1>1 DEF Integrated!Log, Integrated!Receipt, Logs
<1>3. Integrated!Log("source") = "source_log" /\ Integrated!Log("return") = "return_log"
  BY DEF Integrated!Log
<1>4. "source_log" \in {Integrated!Log(s) : s \in Integrated!Stages}
      /\ "return_log" \in {Integrated!Log(s) : s \in Integrated!Stages}
  BY <1>1, <1>3
<1>5. QED BY <1>1, <1>2, <1>4 DEF Integrated!Paths, Integrated!Evidence, Integrated!State

\* What a process does to the files and to the death of the source.
IntegratedProcessStep ==
  /\ UNCHANGED <<scene, job, verdict, crashes>>
  /\ disk' = [p \in Integrated!Paths |-> disk'[p]]
  /\ \A p \in Integrated!Paths : p \notin Logs /\ p # "source_output" => disk'[p] = disk[p]
  /\ Dead("source") => Dead("source")' /\ disk'["source_output"] = disk["source_output"]
  /\ disk'["source_output"] \in {disk["source_output"], Integrated!PartOfQ, Integrated!Q}
  /\ world' = [s \in Integrated!Stages |-> world'[s]]
  /\ \A s \in Integrated!Stages :
       world'[s] = [life |-> world'[s].life, read |-> world'[s].read, crew |-> world'[s].crew]

\* One process, which is not dead, changes, and writes a log or what the crew makes.
LEMMA ProcessWrites ==
  ASSUME IntegratedInv, UNCHANGED <<scene, job, verdict, crashes>>,
         NEW s \in Integrated!Stages, NEW p, world' = [world EXCEPT ![s] = p],
         p = [life |-> p.life, read |-> p.read, crew |-> p.crew], ~Dead(s),
         NEW path, NEW c, disk' = [disk EXCEPT ![path] = c],
         \/ path \in Logs
         \/ path = "source_output" /\ s = "source" /\ c \in {disk["source_output"], Integrated!PartOfQ, Integrated!Q}
  PROVE  IntegratedProcessStep
<1>1. /\ world = [t \in Integrated!Stages |-> world[t]] /\ disk = [q \in Integrated!Paths |-> disk[q]]
      /\ \A t \in Integrated!Stages :
           world[t] = [life |-> world[t].life, read |-> world[t].read, crew |-> world[t].crew]
  BY DEF IntegratedInv
<1>2. /\ world' = [t \in Integrated!Stages |-> world'[t]] /\ world'[s] = p
      /\ \A t \in Integrated!Stages : t # s => world'[t] = world[t]
  BY <1>1
<1>3. disk' = [q \in Integrated!Paths |-> disk'[q]] /\ \A q \in Integrated!Paths : q # path => disk'[q] = disk[q]
  BY <1>1
<1>4. Dead("source") => Dead("source")' /\ disk'["source_output"] = disk["source_output"]
  <2> SUFFICES ASSUME Dead("source") PROVE Dead("source")' /\ disk'["source_output"] = disk["source_output"]
    OBVIOUS
  <2>1. s # "source" /\ path \in Logs  OBVIOUS
  <2>2. Dead("source")'  BY <1>2, <2>1, IntegratedNames DEF Dead
  <2>3. "source_output" # path  BY <2>1 DEF Logs
  <2>4. QED BY <1>3, <2>2, <2>3, IntegratedNames
<1>5. \A t \in Integrated!Stages :
        world'[t] = [life |-> world'[t].life, read |-> world'[t].read, crew |-> world'[t].crew]
  BY <1>1, <1>2
<1>6. disk'["source_output"] \in {disk["source_output"], Integrated!PartOfQ, Integrated!Q}
  <2>1. CASE path \in Logs  BY <1>3, <2>1, IntegratedNames DEF Logs
  <2>2. CASE path = "source_output" /\ c \in {disk["source_output"], Integrated!PartOfQ, Integrated!Q}
    <3>1. disk'["source_output"] = c  BY <1>1, <2>2, IntegratedNames
    <3>2. QED BY <2>2, <3>1
  <2>3. QED BY <2>1, <2>2
<1>7. QED BY <1>2, <1>3, <1>4, <1>5, <1>6 DEF IntegratedProcessStep

LEMMA ProcessSteps == ASSUME IntegratedInv, Integrated!IntegratedProcesses PROVE IntegratedProcessStep
<1>1. /\ world = [t \in Integrated!Stages |-> world[t]] /\ disk = [q \in Integrated!Paths |-> disk[q]]
      /\ \A t \in Integrated!Stages :
           world[t] = [life |-> world[t].life, read |-> world[t].read, crew |-> world[t].crew]
  BY DEF IntegratedInv
<1>2. disk = [disk EXCEPT !["source_log"] = disk["source_log"]]  BY <1>1
<1>3. ASSUME NEW s \in Integrated!Stages, Integrated!Launch(s) \/ Integrated!BeginPlay(s) \/ Integrated!Dies(s)
      PROVE  IntegratedProcessStep
  <2>1. UNCHANGED <<scene, job, verdict, crashes>> /\ ~Dead(s)
    BY <1>3 DEF Integrated!Launch, Integrated!BeginPlay, Integrated!Dies, Dead
  <2>2. PICK p : /\ world' = [world EXCEPT ![s] = p]
                 /\ \/ p = [world[s] EXCEPT !.life = "up"]
                    \/ p = [world[s] EXCEPT !.read = Integrated!Record(s)]
                    \/ p = [world[s] EXCEPT !.read = "refused"]
                    \/ p = [world[s] EXCEPT !.life = "dead"]
    BY <1>3, Zenon DEF Integrated!Launch, Integrated!BeginPlay, Integrated!Dies, Integrated!Becomes
  <2>3. p = [life |-> p.life, read |-> p.read, crew |-> p.crew]  BY <1>1, <2>2
  <2>4. PICK path, c : disk' = [disk EXCEPT ![path] = c] /\ path \in Logs
    <3>1. "source_log" \in Logs  BY DEF Logs
    <3>2. CASE UNCHANGED disk  BY <1>2, <3>1, <3>2
    <3>3. CASE ~UNCHANGED disk
      BY <1>3, <3>3, IntegratedNames, Zenon DEF Integrated!Launch, Integrated!BeginPlay, Integrated!Dies
    <3>4. QED BY <3>2, <3>3
  <2>5. QED BY <2>1, <2>2, <2>3, <2>4, ProcessWrites
<1>4. ASSUME Integrated!TryDisableByCrew \/ Integrated!WriteExactQ \/ Integrated!LogQ PROVE IntegratedProcessStep
  <2> DEFINE s == "source"
  <2>1. UNCHANGED <<scene, job, verdict, crashes>> /\ ~Dead(s) /\ s \in Integrated!Stages
    BY <1>4, IntegratedNames DEF Integrated!TryDisableByCrew, Integrated!WriteExactQ, Integrated!LogQ, Dead
  <2>2. PICK p, crew : /\ world' = [world EXCEPT ![s] = p]
                       /\ p = [world[s] EXCEPT !.crew = crew]
    BY <1>4, Zenon DEF Integrated!TryDisableByCrew, Integrated!WriteExactQ, Integrated!LogQ, Integrated!Becomes
  <2>3. p = [life |-> p.life, read |-> p.read, crew |-> p.crew]
    BY <1>1, <2>1, <2>2
  <2>4. PICK path, c : disk' = [disk EXCEPT ![path] = c]
                       /\ \/ path \in Logs
                          \/ /\ path = "source_output"
                             /\ c \in {disk["source_output"], Integrated!PartOfQ, Integrated!Q}
    <3>1. "source_log" \in Logs  BY DEF Logs
    <3>2. CASE Integrated!TryDisableByCrew
      BY <3>2, Zenon DEF Integrated!TryDisableByCrew
    <3>3. CASE Integrated!WriteExactQ
      <4>1. disk' = [disk EXCEPT !["source_output"] = IF disk["source_output"] = Integrated!PartOfQ THEN Integrated!Q
                                                      ELSE disk["source_output"]]
        BY <1>1, <3>3, IntegratedNames DEF Integrated!WriteExactQ
      <4>2. QED BY <4>1
    <3>4. CASE Integrated!LogQ  BY <3>1, <3>4, Zenon DEF Integrated!LogQ
    <3>5. QED BY <1>4, <3>2, <3>3, <3>4
  <2>5. QED BY <2>1, <2>2, <2>3, <2>4, ProcessWrites
<1>5. QED BY <1>3, <1>4 DEF Integrated!IntegratedProcesses

\* A process is of no consequence for what a command still has to do.
LEMMA ProcessKeeps == ASSUME IntegratedInv, IntegratedProcessStep PROVE IntegratedInv'
<1>1. UNCHANGED <<scene, job, verdict, crashes>>  BY DEF IntegratedProcessStep
<1>2. /\ \A p \in {"source_input", "return_input", "termination", "captured_Q", "Rinput"} : disk'[p] = disk[p]
      /\ Dead("source") => Dead("source")' /\ disk'["source_output"] = disk["source_output"]
  BY IntegratedNames DEF IntegratedProcessStep, Logs
<1>3. IntegratedSuccessionInv'
  BY <1>1, <1>2 DEF IntegratedSuccessionInv, IntegratedInv, Sources
<1>4. IntegratedEvidenceInv'
  BY <1>1, <1>2 DEF IntegratedEvidenceInv, IntegratedInv
<1>5. QED BY <1>1, <1>3, <1>4 DEF IntegratedInv, IntegratedProcessStep

\* A job that has nothing to do with the evidence and its successor.
Witnessed == {"captured_Q", "Rinput", "termination", "return_input"}
Benign(s) ==
  /\ IsJob(s) /\ ShapedJob(s)
  /\ Kinds(s) \cap OnAny(Witnessed) = {}
  /\ Kinds(s) \cap On("source_output") \subseteq To("make", "source_output")

LEMMA BenignKeeps ==
  ASSUME IntegratedInv, Benign(job'), UNCHANGED <<scene, disk, world>>
  PROVE  IntegratedInv'
<1>1. /\ Kinds(job') \cap On("return_input") = {} /\ Kinds(job') \cap OnAny(Proofs) = {}
      /\ Kinds(job') \cap NotPut(Proofs \cup {"termination"}) = {}
      /\ <<"put", "termination">> \notin Kinds(job') /\ <<"put", "Rinput">> \notin Kinds(job')
  BY DEF Benign, OnAny, On, Witnessed, Proofs, NotPut, FileSteps
<1>2. /\ Destroying \notin Kinds(job')
      /\ Kinds(job') \cap ({<<"put", "source_output">>} \cup To("copy", "source_output")) = {}
  BY DEF Benign, On, To, Destroying, FileSteps
<1>3. \A src \in Sources : NoPair(job', On("return_input"), To("drop", src))
  BY <1>1, NoPairNone
<1>4. NoPair(job', On("source_output"), {Destroying})
  <2>1. Kinds(job') \cap {Destroying} = {}  BY <1>2
  <2>2. QED BY <2>1, NoPairNone
<1>5. NoPair(job', To("put", "Rinput"), To("put", "captured_Q"))
  <2>1. Kinds(job') \cap To("put", "Rinput") = {}  BY <1>1 DEF To
  <2>2. QED BY <2>1, NoPairNone
<1>6. IntegratedSuccessionInv'
  BY <1>1, <1>3 DEF IntegratedSuccessionInv, IntegratedInv, Dead
<1>7. IntegratedEvidenceInv'
  BY <1>1, <1>2, <1>4, <1>5 DEF IntegratedEvidenceInv, IntegratedInv
<1>8. QED BY <1>6, <1>7 DEF IntegratedInv, Benign

LEMMA BenignJoined == ASSUME NEW s, NEW t, Benign(s), Benign(t) PROVE Benign(s \o t)
<1>1. IsJob(s \o t) /\ ShapedJob(s \o t) /\ Kinds(s \o t) = Kinds(s) \cup Kinds(t)
  BY Joined, ShapedJoined, JoinedKinds DEF Benign
<1>2. QED BY <1>1 DEF Benign

LEMMA BenignParts ==
  ASSUME NEW p, p \notin Witnessed, p # "source_output", NEW c, c # Absent
  PROVE  Benign(Put(p, c)) /\ Benign(Write(p, c)) /\ Benign(Make(p, c)) /\ Benign(<<>>)
<1>1. \A d : <<d, p>> \notin OnAny(Witnessed) /\ <<d, p>> \notin On("source_output")
  BY DEF OnAny, On
<1>2. Benign(Put(p, c))  BY <1>1, PutParts, ShapedParts DEF Benign
<1>3. Benign(Write(p, c))  BY <1>1, WriteParts, ShapedParts DEF Benign
<1>4. Benign(Make(p, c))  BY <1>1, MakeParts, ShapedParts DEF Benign
<1>5. Benign(<<>>)  BY EmptyJob, ShapedParts DEF Benign
<1>6. QED BY <1>2, <1>3, <1>4, <1>5

LEMMA Tuples ==
  ASSUME NEW S, NEW a \in S, NEW b \in S, NEW c \in S, NEW d \in S, NEW e \in S
  PROVE  /\ <<a, b>> \in Seq(S) /\ <<a, b, c>> \in Seq(S) /\ <<a, b, c, d>> \in Seq(S)
         /\ <<a, b, c, d, e>> \in Seq(S)
  OBVIOUS

\* The commands that are of no consequence.
LEMMA IntegratedIdle ==
  ASSUME IntegratedInv,
         \/ Integrated!Prepare \/ \E s \in Integrated!Stages : Integrated!CaptureReceipt(s)
         \/ Integrated!ExportWitness \/ Integrated!VerifyPhysicalWitnesses
  PROVE  IntegratedInv'
<1>1. CASE Integrated!Prepare
  <2> DEFINE m == Make("source_input", Integrated!Pair("R0"))
             o == <<Step("make", "source_output", Integrated!Empty)>>
             w == Write("prepared", Integrated!File("audit", "R0"))
  <2>1. UNCHANGED <<scene, disk, world>> /\ job' = (m \o o) \o w
    BY <1>1, Zenon DEF Integrated!Prepare, Integrated!Starts, Integrated!Make, Make, Integrated!Put, Put, Integrated!Step, Step,
       Integrated!Write, Write, Integrated!Torn, Torn
  <2>2. Integrated!Pair("R0") # Absent /\ Integrated!File("audit", "R0") # Absent /\ Integrated!Empty # Absent
    BY DEF Integrated!Pair, Integrated!File, Integrated!Empty, Absent
  <2>3. Benign(m) /\ Benign(w)  BY <2>2, BenignParts DEF Witnessed
  <2>4. Benign(o)
    <3> DEFINE e == Step("make", "source_output", Integrated!Empty)
    <3>1. Kind(e) = <<"make", "source_output">> /\ Shaped(e)
      BY <2>2 DEF Kind, Step, Shaped
    <3>2. IsJob(o) /\ Kinds(o) = {Kind(e)} /\ Items(o) = {e}
      BY OneStep DEF Items
    <3> HIDE DEF e
    <3>3. ShapedJob(o)  BY <3>1, <3>2, ShapedItems
    <3>4. <<"make", "source_output">> \notin OnAny(Witnessed)
      BY DEF OnAny, Witnessed
    <3>5. QED BY <3>1, <3>2, <3>3, <3>4 DEF Benign, To
  <2> HIDE DEF m, o, w
  <2>5. Benign((m \o o) \o w)  BY <2>3, <2>4, BenignJoined
  <2>6. QED BY <2>1, <2>5, BenignKeeps
<1>2. ASSUME NEW s \in Integrated!Stages, Integrated!CaptureReceipt(s) PROVE IntegratedInv'
  <2> DEFINE p == Integrated!Receipt(s)
             c == Integrated!File("receipt", Integrated!Record(s))
  <2>1. UNCHANGED <<scene, disk, world>> /\ job' = Write(p, c)
    BY <1>2, Zenon DEF Integrated!CaptureReceipt, Integrated!Starts, Integrated!Put, Put, Integrated!Step, Step,
       Integrated!Write, Write, Integrated!Torn, Torn
  <2>2. c # Absent  BY DEF Integrated!File, Absent
  <2>3. p \notin Witnessed /\ p # "source_output"
    BY IntegratedNames DEF Witnessed
  <2> HIDE DEF p, c
  <2>4. Benign(job')  BY <2>1, <2>2, <2>3, BenignParts
  <2>5. QED BY <2>1, <2>4, BenignKeeps
<1>3. CASE Integrated!ExportWitness
  <2> DEFINE E == Integrated!Exported
             b == Put("export", Integrated!Copies(<<>>))
             c == [i \in DOMAIN E |-> Integrated!Copy(E[i], "export")]
             z == <<Step("summarize", "export", Torn)>>
  <2>1. UNCHANGED <<scene, disk, world>> /\ job' = (b \o c) \o z
    BY <1>3, Zenon DEF Integrated!ExportWitness, Integrated!Starts, Integrated!Put, Put, Integrated!Step, Step,
       Integrated!Torn, Torn
  <2>2. Benign(b)
    <3>1. Integrated!Copies(<<>>) # Absent
      BY DEF Integrated!Copies, Integrated!File, Absent
    <3>2. QED BY <3>1, BenignParts DEF Witnessed
  <2>3. \A e : Kind(e) \in {<<"copy", "export">>, <<"summarize", "export">>} =>
                 Shaped(e) /\ Kind(e) \notin OnAny(Witnessed) /\ Kind(e) \notin On("source_output")
    BY DEF Kind, Shaped, OnAny, On, Witnessed
  <2>4. Benign(c)
    <3>1. PICK S : E \in Seq(S)
      <4> DEFINE S == {"source_receipt", "return_receipt", "captured_Q", "Rinput", "final", "prepared", "input_committed",
                       "return_input", "output_audit", "termination", "return_audit", "source_log", "return_log"}
      <4>1. /\ <<"source_receipt", "return_receipt">> \in Seq(S)
            /\ <<"captured_Q", "Rinput", "final", "prepared", "input_committed">> \in Seq(S)
            /\ <<"return_input", "prepared", "output_audit">> \in Seq(S)
            /\ <<"termination", "return_audit", "source_log", "return_log">> \in Seq(S)
        BY Tuples
      <4> HIDE DEF S
      <4>2. \A x, y \in Seq(S) : x \o y \in Seq(S)  OBVIOUS
      <4>3. QED BY <4>1, <4>2, Zenon DEF Integrated!Exported
    <3>2. c \in Seq({c[i] : i \in DOMAIN c})  BY <3>1
    <3>3. \A i \in DOMAIN c : Kind(c[i]) = <<"copy", "export">>
      BY DEF Integrated!Copy, Integrated!Step, Kind
    <3> HIDE DEF c
    <3>4. IsJob(c)  BY <3>2 DEF IsJob
    <3>5. ShapedJob(c)  BY <2>3, <3>3 DEF ShapedJob
    <3>6. Kinds(c) \subseteq {<<"copy", "export">>}  BY <3>3 DEF Kinds
    <3>7. <<"copy", "export">> \notin OnAny(Witnessed) /\ <<"copy", "export">> \notin On("source_output")
      BY DEF OnAny, On, Witnessed
    <3>8. QED BY <3>4, <3>5, <3>6, <3>7 DEF Benign
  <2>5. Benign(z)
    <3> DEFINE e == Step("summarize", "export", Torn)
    <3>1. Kind(e) = <<"summarize", "export">>  BY DEF Kind, Step
    <3>2. IsJob(z) /\ Kinds(z) = {Kind(e)} /\ Items(z) = {e}
      BY OneStep DEF Items
    <3> HIDE DEF e
    <3>3. Shaped(e) /\ Kind(e) \notin OnAny(Witnessed) /\ Kind(e) \notin On("source_output")
      BY <2>3, <3>1
    <3>4. ShapedJob(z)  BY <3>2, <3>3, ShapedItems
    <3>5. QED BY <3>2, <3>3, <3>4 DEF Benign
  <2> HIDE DEF b, c, z
  <2>6. Benign((b \o c) \o z)  BY <2>2, <2>4, <2>5, BenignJoined
  <2>7. QED BY <2>1, <2>6, BenignKeeps
<1>4. CASE Integrated!VerifyPhysicalWitnesses
  <2>1. UNCHANGED <<scene, disk, world>> /\ job' = <<>>
    BY <1>4 DEF Integrated!VerifyPhysicalWitnesses
  <2>2. Benign(<<>>)
    <3>1. Torn # Absent /\ "x" \notin Witnessed /\ "x" # "source_output"
      BY DEF Torn, Absent, Witnessed
    <3>2. QED BY <3>1, BenignParts
  <2>3. QED BY <2>1, <2>2, BenignKeeps
<1>5. QED BY <1>1, <1>2, <1>3, <1>4

LEMMA IntegratedTermination == ASSUME IntegratedInv, Integrated!RecordTermination PROVE IntegratedInv'
<1> DEFINE c == Integrated!File("exited", "source")
           p == "termination"
<1>1. UNCHANGED <<scene, disk, world>> /\ job' = Write(p, c) /\ Dead("source")
  BY Zenon DEF Integrated!RecordTermination, Integrated!Starts, Integrated!Put, Put, Integrated!Step, Step,
     Integrated!Write, Write, Integrated!Torn, Torn, Dead
<1>2. c # Absent  BY DEF Integrated!File, Absent
<1>3. IsJob(job') /\ ShapedJob(job') /\ Kinds(job') = {<<"put", "termination">>}
  BY <1>1, <1>2, WriteParts, ShapedParts
<1>4. /\ Kinds(job') \cap On("return_input") = {} /\ Destroying \notin Kinds(job')
      /\ Kinds(job') \cap To("put", "Rinput") = {} /\ Kinds(job') \cap {Destroying} = {}
      /\ <<"put", "Rinput">> \notin Kinds(job')
      /\ Kinds(job') \cap NotPut(Proofs \cup {"termination"}) = {}
      /\ Kinds(job') \cap ({<<"put", "source_output">>} \cup To("copy", "source_output")) = {}
  BY <1>3 DEF On, Destroying, To, NotPut
<1>5. /\ \A src \in Sources : NoPair(job', On("return_input"), To("drop", src))
      /\ NoPair(job', On("source_output"), {Destroying})
      /\ NoPair(job', To("put", "Rinput"), To("put", "captured_Q"))
  BY <1>4, NoPairNone
<1>6. IntegratedSuccessionInv'
  BY <1>1, <1>4, <1>5 DEF IntegratedSuccessionInv, IntegratedInv, Dead
<1>7. IntegratedEvidenceInv'
  BY <1>1, <1>4, <1>5 DEF IntegratedEvidenceInv, IntegratedInv
<1>8. QED BY <1>1, <1>3, <1>6, <1>7 DEF IntegratedInv

\* The evidence is captured before the record that takes it in is written.
LEMMA IntegratedAcceptance == ASSUME IntegratedInv, Integrated!AcceptQ PROVE IntegratedInv'
<1> DEFINE q == Write("captured_Q", Integrated!Q)
           r == Write("Rinput", Integrated!File("record", "Rinput"))
           m == Write("input_committed", Integrated!File("commit", "Rinput"))
<1>1. UNCHANGED <<scene, disk, world>> /\ job' = (q \o r) \o m
  BY Zenon DEF Integrated!AcceptQ, Integrated!Starts, Integrated!Put, Put, Integrated!Step, Step,
     Integrated!Write, Write, Integrated!Torn, Torn
<1>2. Integrated!Q # Absent /\ Integrated!File("record", "Rinput") # Absent /\ Integrated!File("commit", "Rinput") # Absent
  BY DEF Integrated!Q, Integrated!File, Absent
<1>3. /\ IsJob(q) /\ IsJob(r) /\ IsJob(m) /\ ShapedJob(q) /\ ShapedJob(r) /\ ShapedJob(m)
      /\ Kinds(q) = {<<"put", "captured_Q">>} /\ Kinds(r) = {<<"put", "Rinput">>} /\ Kinds(m) = {<<"put", "input_committed">>}
  BY <1>2, WriteParts, ShapedParts
<1> HIDE DEF q, r, m
<1>4. IsJob(q \o r) /\ ShapedJob(q \o r) /\ Kinds(q \o r) = Kinds(q) \cup Kinds(r)
  BY <1>3, Joined, ShapedJoined, JoinedKinds
<1>5. IsJob(job') /\ ShapedJob(job')
      /\ Kinds(job') = {<<"put", "captured_Q">>, <<"put", "Rinput">>, <<"put", "input_committed">>}
  BY <1>1, <1>3, <1>4, Joined, ShapedJoined, JoinedKinds
<1>6. /\ Kinds(job') \cap On("return_input") = {} /\ Destroying \notin Kinds(job')
      /\ Kinds(job') \cap {Destroying} = {} /\ <<"put", "captured_Q">> \in Kinds(job')
      /\ <<"put", "termination">> \notin Kinds(job')
      /\ Kinds(job') \cap NotPut(Proofs \cup {"termination"}) = {}
      /\ Kinds(job') \cap ({<<"put", "source_output">>} \cup To("copy", "source_output")) = {}
  BY <1>5 DEF On, Destroying, To, NotPut
<1>7. /\ \A src \in Sources : NoPair(job', On("return_input"), To("drop", src))
      /\ NoPair(job', On("source_output"), {Destroying})
  BY <1>6, NoPairNone
<1>8. NoPair(job', To("put", "Rinput"), To("put", "captured_Q"))
  <2>1. /\ Kinds(q) \cap To("put", "Rinput") = {} /\ Kinds(r) \cap To("put", "captured_Q") = {}
        /\ Kinds(m) \cap To("put", "captured_Q") = {}
    BY <1>3 DEF To
  <2>2. NoPair(q \o r, To("put", "Rinput"), To("put", "captured_Q"))
    BY <1>3, <2>1, NoPairNone, JoinedNoPair
  <2>3. QED BY <1>1, <1>3, <1>4, <2>1, <2>2, NoPairNone, JoinedNoPair
<1>9. IntegratedSuccessionInv'
  BY <1>1, <1>6, <1>7 DEF IntegratedSuccessionInv, IntegratedInv, Dead
<1>10. IntegratedEvidenceInv'
  BY <1>1, <1>6, <1>7, <1>8 DEF IntegratedEvidenceInv, IntegratedInv
<1>11. QED BY <1>1, <1>5, <1>9, <1>10 DEF IntegratedInv

\* Unloading removes the source before the successor's input is made.
LEMMA UnloadParts ==
  LET u == Integrated!Unload IN
  /\ IsJob(u) /\ ShapedJob(u)
  /\ Kinds(u) = {<<"empty", "source_input">>, <<"drop", "source_input">>, Destroying, <<"drop", "source_output">>,
                 <<"make", "return_input">>, <<"put", "return_input">>, <<"put", "return_audit">>}
  /\ \A src \in Sources : NoPair(u, On("return_input"), To("drop", src))
  /\ NoPair(u, On("source_output"), {Destroying})
<1> DEFINE a == Remove("source_input")
           b == Remove("source_output")
           m == Make("return_input", Integrated!Pair(Integrated!Final))
           w == Write("return_audit", Integrated!File("audit", Integrated!Final))
           u == Integrated!Unload
<1>1. u = ((a \o b) \o m) \o w
  BY Zenon DEF Integrated!Unload, Integrated!Remove, Remove, Integrated!Make, Make, Integrated!Put, Put, Integrated!Step, Step,
     Integrated!Write, Write, Integrated!Torn, Torn, Integrated!Absent, Absent
<1>2. Integrated!Pair(Integrated!Final) # Absent /\ Integrated!File("audit", Integrated!Final) # Absent
  BY DEF Integrated!Pair, Integrated!File, Absent
<1>3. /\ IsJob(a) /\ IsJob(b) /\ IsJob(m) /\ IsJob(w)
      /\ ShapedJob(a) /\ ShapedJob(b) /\ ShapedJob(m) /\ ShapedJob(w)
      /\ Kinds(a) = {<<"empty", "source_input">>, <<"drop", "source_input">>}
      /\ Kinds(b) = {<<"empty", "source_output">>, <<"drop", "source_output">>}
      /\ Kinds(m) = {<<"make", "return_input">>, <<"put", "return_input">>}
      /\ Kinds(w) = {<<"put", "return_audit">>}
  <2>1. Torn # Absent  BY DEF Torn, Absent
  <2>2. QED BY <1>2, <2>1, RemoveParts, MakeParts, WriteParts, ShapedParts
<1>4. NoPair(b, On("source_output"), {Destroying})
  BY RemoveParts DEF Destroying
<1> HIDE DEF a, b, m, w, u
<1>5. IsJob(a \o b) /\ ShapedJob(a \o b) /\ Kinds(a \o b) = Kinds(a) \cup Kinds(b)
  BY <1>3, Joined, ShapedJoined, JoinedKinds
<1>6. IsJob((a \o b) \o m) /\ ShapedJob((a \o b) \o m) /\ Kinds((a \o b) \o m) = Kinds(a) \cup Kinds(b) \cup Kinds(m)
  BY <1>3, <1>5, Joined, ShapedJoined, JoinedKinds
<1>7. IsJob(u) /\ ShapedJob(u) /\ Kinds(u) = Kinds(a) \cup Kinds(b) \cup Kinds(m) \cup Kinds(w)
  BY <1>1, <1>3, <1>6, Joined, ShapedJoined, JoinedKinds
<1>8. ASSUME NEW src \in Sources PROVE NoPair(u, On("return_input"), To("drop", src))
  <2>1. /\ Kinds(a \o b) \cap On("return_input") = {}
        /\ Kinds(m) \cap To("drop", src) = {} /\ Kinds(w) \cap To("drop", src) = {}
    BY <1>3, <1>5 DEF On, To
  <2>2. NoPair((a \o b) \o m, On("return_input"), To("drop", src))
    BY <1>3, <1>5, <2>1, NoPairNone, JoinedNoPair
  <2>3. QED BY <1>1, <1>3, <1>6, <2>1, <2>2, NoPairNone, JoinedNoPair
<1>9. NoPair(u, On("source_output"), {Destroying})
  <2> DEFINE D == {Destroying}
  <2>1. Kinds(a) \cap On("source_output") = {} /\ Kinds(m) \cap D = {} /\ Kinds(w) \cap D = {}
    BY <1>3 DEF On, Destroying
  <2>2. NoPair(b, On("source_output"), D)  BY <1>4
  <2> HIDE DEF D
  <2>3. NoPair(a \o b, On("source_output"), D)
    BY <1>3, <2>1, <2>2, NoPairNone, JoinedNoPair
  <2>4. NoPair((a \o b) \o m, On("source_output"), D)
    BY <1>3, <1>5, <2>1, <2>3, NoPairNone, JoinedNoPair
  <2>5. NoPair(u, On("source_output"), D)
    BY <1>1, <1>3, <1>6, <2>1, <2>4, NoPairNone, JoinedNoPair
  <2>6. QED BY <2>5 DEF D
<1>10. Kinds(u) = {<<"empty", "source_input">>, <<"drop", "source_input">>, Destroying, <<"drop", "source_output">>,
                   <<"make", "return_input">>, <<"put", "return_input">>, <<"put", "return_audit">>}
  BY <1>3, <1>7 DEF Destroying
<1>11. QED BY <1>7, <1>8, <1>9, <1>10 DEF u

\* A record is written, and then, or not at all, the source unloaded.
LEMMA Unloads ==
  ASSUME IntegratedInv, UNCHANGED <<scene, disk, world>>, Dead("source"),
         NEW f, IsJob(f), ShapedJob(f), Kinds(f) \subseteq {<<"put", "final">>, <<"put", "output_audit">>},
         job' = f \o Integrated!Unload,
         scene = "primary" => disk["Rinput"] = Integrated!File("record", "Rinput"),
         scene = "control" => disk["source_output"] = Integrated!Empty
  PROVE  IntegratedInv'
<1> DEFINE u == Integrated!Unload
<1>1. /\ IsJob(u) /\ ShapedJob(u)
      /\ Kinds(u) = {<<"empty", "source_input">>, <<"drop", "source_input">>, Destroying, <<"drop", "source_output">>,
                     <<"make", "return_input">>, <<"put", "return_input">>, <<"put", "return_audit">>}
      /\ \A src \in Sources : NoPair(u, On("return_input"), To("drop", src))
      /\ NoPair(u, On("source_output"), {Destroying})
  BY UnloadParts
<1> HIDE DEF u
<1>2. job' = f \o u /\ IsJob(job') /\ ShapedJob(job') /\ Kinds(job') = Kinds(f) \cup Kinds(u)
  BY <1>1, Joined, ShapedJoined, JoinedKinds DEF u
<1>3. /\ \A src \in Sources : <<"drop", src>> \in Kinds(job') /\ Kinds(job') \cap Remaking(src) = {}
      /\ <<"put", "termination">> \notin Kinds(job') /\ <<"put", "Rinput">> \notin Kinds(job')
      /\ Kinds(job') \cap OnAny(Proofs) = {}
      /\ Kinds(job') \cap NotPut(Proofs \cup {"termination"}) = {}
      /\ Kinds(job') \cap ({<<"put", "source_output">>} \cup To("copy", "source_output")) = {}
  <2>1. Kinds(job') \subseteq {<<"put", "final">>, <<"put", "output_audit">>, <<"empty", "source_input">>, <<"drop", "source_input">>,
                               <<"empty", "source_output">>, <<"drop", "source_output">>,
                               <<"make", "return_input">>, <<"put", "return_input">>, <<"put", "return_audit">>}
    BY <1>1, <1>2 DEF Destroying
  <2>2. \A src \in Sources : <<"drop", src>> \in Kinds(job')
    BY <1>1, <1>2 DEF Sources
  <2>3. \A src \in Sources : Kinds(job') \cap Remaking(src) = {}
    BY <2>1 DEF Sources, Remaking
  <2>4. Kinds(job') \cap OnAny(Proofs) = {} /\ Kinds(job') \cap NotPut(Proofs \cup {"termination"}) = {}
    BY <2>1 DEF OnAny, NotPut, Proofs
  <2>5. <<"put", "termination">> \notin Kinds(job') /\ <<"put", "Rinput">> \notin Kinds(job')
    BY <2>1
  <2>6. Kinds(job') \cap ({<<"put", "source_output">>} \cup To("copy", "source_output")) = {}
    BY <2>1 DEF To
  <2>7. QED BY <2>2, <2>3, <2>4, <2>5, <2>6
<1>4. disk["Rinput"] # Absent => disk["captured_Q"] # Absent
  BY DEF IntegratedInv, IntegratedEvidenceInv
<1>5. scene = "primary" => disk["captured_Q"] # Absent
  <2>1. Integrated!File("record", "Rinput") # Absent
    BY DEF Integrated!File, Absent
  <2>2. QED BY <1>4, <2>1
<1>6. \A src \in Sources : NoPair(job', On("return_input"), To("drop", src))
  <2>1. Kinds(f) \cap On("return_input") = {}  BY DEF On
  <2>2. QED BY <1>1, <1>2, <2>1, NoPairNone, JoinedNoPair
<1>7. NoPair(job', On("source_output"), {Destroying})
  <2> DEFINE D == {Destroying}
  <2>1. Kinds(f) \cap On("source_output") = {} /\ NoPair(u, On("source_output"), D)
    BY <1>1 DEF On
  <2> HIDE DEF D
  <2>2. NoPair(job', On("source_output"), D)
    BY <1>1, <1>2, <2>1, NoPairNone, JoinedNoPair
  <2>3. QED BY <2>2 DEF D
<1>8. NoPair(job', To("put", "Rinput"), To("put", "captured_Q"))
  <2>1. Kinds(job') \cap To("put", "Rinput") = {}  BY <1>3 DEF To
  <2>2. QED BY <2>1, NoPairNone
<1>9. IntegratedSuccessionInv'
  BY <1>3, <1>6 DEF IntegratedSuccessionInv, IntegratedInv, Dead
<1>10. IntegratedEvidenceInv'
  BY <1>3, <1>4, <1>5, <1>7, <1>8 DEF IntegratedEvidenceInv, Dead
<1>11. QED BY <1>2, <1>9, <1>10 DEF IntegratedInv

LEMMA IntegratedResolution ==
  ASSUME IntegratedInv, Integrated!ResolveAfterUnload \/ Integrated!ResolveControlAfterUnload
  PROVE  IntegratedInv'
<1> DEFINE w == Write("final", Integrated!File("record", Integrated!Final))
           o == Write("output_audit", Integrated!File("audit", "empty"))
           u == Integrated!Unload
<1>1. /\ UNCHANGED <<scene, disk, world>>
      /\ disk["termination"] # Absent
      /\ \/ scene = "primary" /\ disk["Rinput"] = Integrated!File("record", "Rinput") /\ job' = w \o u
         \/ scene = "control" /\ disk["source_output"] = Integrated!Empty
            /\ (job' = (o \o w) \o u \/ job' = (o \o w) \o <<>>)
  <2>1. CASE Integrated!ResolveAfterUnload
    BY <2>1, Zenon DEF Integrated!ResolveAfterUnload, Integrated!Starts, Integrated!Put, Put, Integrated!Step, Step,
       Integrated!Write, Write, Integrated!Torn, Torn, Integrated!Absent, Absent
  <2>2. CASE Integrated!ResolveControlAfterUnload
    BY <2>2, Zenon DEF Integrated!ResolveControlAfterUnload, Integrated!Starts, Integrated!Put, Put, Integrated!Step, Step,
       Integrated!Write, Write, Integrated!Torn, Torn, Integrated!Absent, Absent
  <2>3. QED BY <2>1, <2>2
<1>2. Dead("source")  BY <1>1 DEF IntegratedInv, IntegratedSuccessionInv
<1>3. /\ IsJob(w) /\ ShapedJob(w) /\ Kinds(w) = {<<"put", "final">>}
      /\ IsJob(o) /\ ShapedJob(o) /\ Kinds(o) = {<<"put", "output_audit">>}
  <2>1. Integrated!File("record", Integrated!Final) # Absent /\ Integrated!File("audit", "empty") # Absent
    BY DEF Integrated!File, Absent
  <2>2. QED BY <2>1, WriteParts, ShapedParts
<1> HIDE DEF w, o, u
<1>4. IsJob(o \o w) /\ ShapedJob(o \o w) /\ Kinds(o \o w) = {<<"put", "final">>, <<"put", "output_audit">>}
  BY <1>3, Joined, ShapedJoined, JoinedKinds
<1>5. ASSUME NEW f, IsJob(f), ShapedJob(f), Kinds(f) \subseteq {<<"put", "final">>, <<"put", "output_audit">>}, job' = f \o u
      PROVE  IntegratedInv'
  BY <1>1, <1>2, <1>5, Unloads DEF u
<1>6. CASE job' = w \o u  BY <1>3, <1>5, <1>6
<1>7. CASE job' = (o \o w) \o u  BY <1>4, <1>5, <1>7
<1>8. CASE job' = (o \o w) \o <<>>
  <2>1. \A p \in {"final", "output_audit"} : <<"put", p>> \notin OnAny(Witnessed) /\ <<"put", p>> \notin On("source_output")
    BY DEF OnAny, On, Witnessed
  <2>2. Benign(o \o w)  BY <1>4, <2>1 DEF Benign
  <2>3. Torn # Absent /\ "x" \notin Witnessed /\ "x" # "source_output"
    BY DEF Torn, Absent, Witnessed
  <2>4. Benign(<<>>)  BY <2>3, BenignParts
  <2>5. Benign(job')  BY <1>8, <2>2, <2>4, BenignJoined
  <2>6. QED BY <1>1, <2>5, BenignKeeps
<1>9. QED BY <1>1, <1>6, <1>7, <1>8

\* The next step on the files.
LEMMA IntegratedPerforms ==
  ASSUME IntegratedInv, Integrated!Perform(<<>>)
  PROVE  IntegratedInv'
<1> DEFINE D == Integrated!Paths
           k == Kind(Now)
<1>1. Perform(<<>>) /\ disk = [p \in D |-> disk[p]]
  BY PerformSame DEF IntegratedInv
<1>2. /\ UNCHANGED <<scene, world, verdict, crashes>> /\ job # <<>> /\ Now.do \in FileSteps
      /\ disk' = [p \in D |-> disk'[p]]
      /\ \/ job' = <<>> /\ disk' = disk /\ ~Possible(Now)
         \/ /\ job' = Tail(job) /\ Possible(Now)
            /\ \A p \in D : p # Now.path => disk'[p] = disk[p]
            /\ Now.path \in D /\ Now.do # "copy" => disk'[Now.path] = Now.content
  BY <1>1, Performed
<1>3. CASE job' = <<>> /\ disk' = disk
  <2>1. Torn # Absent /\ "x" \notin Witnessed /\ "x" # "source_output"
    BY DEF Torn, Absent, Witnessed
  <2>2. Benign(<<>>)  BY <2>1, BenignParts
  <2>3. QED BY <1>2, <1>3, <2>2, BenignKeeps
<1>4. CASE /\ job' = Tail(job) /\ Possible(Now)
           /\ \A p \in D : p # Now.path => disk'[p] = disk[p]
           /\ Now.path \in D /\ Now.do # "copy" => disk'[Now.path] = Now.content
  <2>1. /\ IsJob(job') /\ Kinds(job) = {k} \cup Kinds(job') /\ Items(job) = {Now} \cup Items(job')
        /\ \A A, B : NoPair(job, A, B) => /\ NoPair(job', A, B)
                                          /\ k \in A => Kinds(job') \cap B = {}
    BY <1>2, <1>4, JobGoesOn DEF IntegratedInv
  <2>2. ShapedJob(job') /\ Shaped(Now)  BY <2>1, ShapedItems DEF IntegratedInv
  <2>3. k = <<Now.do, Now.path>> /\ Now.do \in FileSteps  BY <1>2 DEF Kind
  <2> HIDE DEF k
  <2>4. \A p \in D : p # Now.path => disk'[p] = disk[p]  BY <1>4
  <2>5. {"source_input", "source_output", "return_input", "termination", "captured_Q", "Rinput"} \subseteq D
    BY IntegratedNames
  <2>6. ASSUME NEW P, Now.path \in P, Kinds(job) \cap NotPut(P) = {}
        PROVE  k = <<"put", Now.path>> /\ (Now.path \in D => disk'[Now.path] # Absent)
    <3>1. Now.do = "put"  BY <2>1, <2>3, <2>6 DEF NotPut, FileSteps
    <3>2. QED BY <1>4, <2>2, <2>3, <3>1 DEF Shaped
  <2>7. Kinds(job) \cap NotPut(Proofs \cup {"termination"}) = {}
    BY DEF IntegratedInv, IntegratedEvidenceInv
  <2>8. IntegratedSuccessionInv'
    <3>1. ASSUME Kinds(job') \cap On("return_input") # {}, NEW src \in Sources
          PROVE  (disk[src] = Absent \/ <<"drop", src>> \in Kinds(job))' /\ Kinds(job') \cap Remaking(src) = {}
      <4>1. (disk[src] = Absent \/ <<"drop", src>> \in Kinds(job)) /\ Kinds(job) \cap Remaking(src) = {}
        BY <2>1, <3>1 DEF IntegratedInv, IntegratedSuccessionInv
      <4>2. CASE Now.path # src
        BY <2>1, <2>3, <2>4, <2>5, <4>1, <4>2 DEF Sources
      <4>3. CASE Now.path = src /\ Now.do = "drop"
        <5>1. disk'[src] = Absent
          BY <1>4, <2>2, <2>5, <4>3 DEF Shaped, Sources
        <5>2. QED BY <2>1, <4>1, <5>1
      <4>4. CASE Now.path = src /\ Now.do = "empty"
        <5>1. disk[src] # Absent  BY <1>4, <4>4 DEF Possible
        <5>2. QED BY <2>1, <2>3, <4>1, <4>4, <5>1
      <4>5. Now.path = src => Now.do \in {"drop", "empty"}
        BY <2>1, <2>3, <4>1 DEF Remaking, FileSteps
      <4>6. QED BY <4>2, <4>3, <4>4, <4>5
    <3>2. Kinds(job') \cap On("return_input") # {} => Dead("source")'
      BY <1>2, <2>1 DEF IntegratedInv, IntegratedSuccessionInv, Dead
    <3>3. \A src \in Sources : NoPair(job', On("return_input"), To("drop", src))
      BY <2>1 DEF IntegratedInv, IntegratedSuccessionInv
    <3>4. ASSUME disk'["termination"] # Absent \/ <<"put", "termination">> \in Kinds(job') PROVE Dead("source")'
      <4>1. disk["termination"] # Absent \/ <<"put", "termination">> \in Kinds(job)
        <5>1. CASE Now.path = "termination"  BY <2>1, <2>6, <2>7, <5>1
        <5>2. CASE Now.path # "termination"  BY <2>1, <2>4, <2>5, <3>4, <5>2
        <5>3. QED BY <5>1, <5>2
      <4>2. QED BY <1>2, <4>1 DEF IntegratedInv, IntegratedSuccessionInv, Dead
    <3>5. QED BY <3>1, <3>2, <3>3, <3>4 DEF IntegratedSuccessionInv
  <2>9. IntegratedEvidenceInv'
    <3>1. NoPair(job', On("source_output"), {Destroying}) /\ (k \in On("source_output") => Kinds(job') \cap {Destroying} = {})
      BY <2>1 DEF IntegratedInv, IntegratedEvidenceInv
    <3>2. NoPair(job', To("put", "Rinput"), To("put", "captured_Q"))
          /\ (k \in To("put", "Rinput") => Kinds(job') \cap To("put", "captured_Q") = {})
      BY <2>1 DEF IntegratedInv, IntegratedEvidenceInv
    <3>3. ASSUME Destroying \in Kinds(job')
          PROVE  /\ Dead("source")'
                 /\ scene = "primary" => /\ disk'["captured_Q"] # Absent /\ disk'["Rinput"] = Integrated!File("record", "Rinput")
                                         /\ Kinds(job') \cap OnAny(Proofs) = {}
                 /\ scene = "control" => disk'["source_output"] = Integrated!Empty
      <4>1. /\ Dead("source")
            /\ scene = "primary" => /\ disk["captured_Q"] # Absent /\ disk["Rinput"] = Integrated!File("record", "Rinput")
                                    /\ Kinds(job) \cap OnAny(Proofs) = {}
            /\ scene = "control" => disk["source_output"] = Integrated!Empty
        BY <2>1, <3>3 DEF IntegratedInv, IntegratedEvidenceInv
      <4>2. Now.path # "source_output"  BY <2>3, <3>1, <3>3 DEF On
      <4>3. scene = "primary" => Now.path \notin Proofs
        BY <2>1, <2>3, <4>1 DEF OnAny
      <4>4. disk'["source_output"] = disk["source_output"]
            /\ (scene = "primary" => disk'["captured_Q"] = disk["captured_Q"] /\ disk'["Rinput"] = disk["Rinput"])
        BY <2>4, <2>5, <4>2, <4>3 DEF Proofs
      <4>5. QED BY <1>2, <2>1, <4>1, <4>4 DEF Dead
    <3>4. /\ disk["Rinput"] # Absent => disk["captured_Q"] # Absent
          /\ <<"put", "Rinput">> \in Kinds(job) => disk["captured_Q"] # Absent \/ <<"put", "captured_Q">> \in Kinds(job)
      BY DEF IntegratedInv, IntegratedEvidenceInv
    <3>5. disk["captured_Q"] # Absent => disk'["captured_Q"] # Absent
      <4>1. CASE Now.path = "captured_Q"  BY <2>5, <2>6, <2>7, <4>1 DEF Proofs
      <4>2. CASE Now.path # "captured_Q"  BY <2>4, <2>5, <4>2
      <4>3. QED BY <4>1, <4>2
    <3>6. <<"put", "Rinput">> \in Kinds(job') => disk'["captured_Q"] # Absent \/ <<"put", "captured_Q">> \in Kinds(job')
      <4>1. CASE k = <<"put", "captured_Q">>
        <5>1. Now.path = "captured_Q"  BY <2>3, <4>1
        <5>2. QED BY <2>5, <2>6, <2>7, <5>1 DEF Proofs
      <4>2. CASE k # <<"put", "captured_Q">>  BY <2>1, <3>4, <3>5, <4>2
      <4>3. QED BY <4>1, <4>2
    <3>7. disk'["Rinput"] # Absent => disk'["captured_Q"] # Absent
      <4>1. CASE Now.path = "Rinput"
        <5>1. k = <<"put", "Rinput">> /\ k # <<"put", "captured_Q">>
          BY <2>6, <2>7, <4>1 DEF Proofs
        <5>2. <<"put", "captured_Q">> \notin Kinds(job')  BY <3>2, <5>1 DEF To
        <5>3. QED BY <2>1, <3>4, <3>5, <5>1, <5>2
      <4>2. CASE Now.path # "Rinput"  BY <2>4, <2>5, <3>4, <3>5, <4>2
      <4>3. QED BY <4>1, <4>2
    <3>8. /\ Kinds(job') \cap NotPut(Proofs \cup {"termination"}) = {}
          /\ Kinds(job') \cap ({<<"put", "source_output">>} \cup To("copy", "source_output")) = {}
      BY <2>1 DEF IntegratedInv, IntegratedEvidenceInv
    <3>9. QED BY <1>2, <3>1, <3>2, <3>3, <3>6, <3>7, <3>8 DEF IntegratedEvidenceInv
  <2>10. QED BY <1>2, <2>1, <2>2, <2>8, <2>9 DEF IntegratedInv
<1>5. QED BY <1>2, <1>3, <1>4

LEMMA IntegratedSummary == ASSUME IntegratedInv, Integrated!Summarize PROVE IntegratedInv'
<1> DEFINE k == Kind(Now)
<1>1. /\ UNCHANGED <<scene, world>> /\ job # <<>> /\ Now.do = "summarize" /\ job' = Tail(job)
      /\ disk = [p \in Integrated!Paths |-> disk[p]]
  BY DEF Integrated!Summarize, Integrated!Does, Integrated!Now, Now, Integrated!Proceed, IntegratedInv
<1>2. PICK c : disk' = [disk EXCEPT !["export"] = c]
  BY Zenon DEF Integrated!Summarize
<1>3. disk' = [p \in Integrated!Paths |-> disk'[p]] /\ \A p \in Integrated!Paths : p # "export" => disk'[p] = disk[p]
  BY <1>1, <1>2
<1>4. \A p \in {"source_input", "source_output", "return_input", "termination", "captured_Q", "Rinput"} : disk'[p] = disk[p]
  BY <1>3, IntegratedNames
<1>5. /\ IsJob(job') /\ Kinds(job) = {k} \cup Kinds(job') /\ Items(job) = {Now} \cup Items(job')
      /\ \A A, B : NoPair(job, A, B) => NoPair(job', A, B)
  BY <1>1, JobGoesOn DEF IntegratedInv
<1>6. ShapedJob(job')  BY <1>5, ShapedItems DEF IntegratedInv
<1>7. \A p : k # <<"drop", p>> /\ k # <<"put", p>>  BY <1>1 DEF Kind
<1> HIDE DEF k
<1>8. IntegratedSuccessionInv'
  <2>1. IntegratedSuccessionInv /\ \A src \in Sources : src \in {"source_input", "source_output"}
    BY DEF IntegratedInv, Sources
  <2>2. \A src \in Sources : <<"drop", src>> \in Kinds(job) => <<"drop", src>> \in Kinds(job')
    BY <1>5, <1>7
  <2>3. QED BY <1>1, <1>4, <1>5, <2>1, <2>2 DEF IntegratedSuccessionInv, Dead
<1>9. IntegratedEvidenceInv'
  <2>1. IntegratedEvidenceInv  BY DEF IntegratedInv
  <2>2. <<"put", "captured_Q">> \in Kinds(job) => <<"put", "captured_Q">> \in Kinds(job')
    BY <1>5, <1>7
  <2>3. QED BY <1>1, <1>4, <1>5, <2>1, <2>2 DEF IntegratedEvidenceInv, Dead
<1>10. QED BY <1>1, <1>3, <1>5, <1>6, <1>8, <1>9 DEF IntegratedInv

LEMMA IntegratedKeeps == ASSUME IntegratedInv, Integrated!IntegratedNext PROVE IntegratedInv'
  BY ProcessSteps, ProcessKeeps, IntegratedIdle, IntegratedTermination, IntegratedAcceptance, IntegratedResolution,
     IntegratedPerforms, IntegratedSummary DEF Integrated!IntegratedNext, Integrated!IntegratedCommands

\* A step of which the action properties of this scene could be about.
LEMMA IntegratedWrites ==
  ASSUME IntegratedInv, Integrated!IntegratedNext
  PROVE  \/ /\ disk'["return_input"] = disk["return_input"]
            /\ \/ disk'["source_output"] = disk["source_output"]
               \/ disk'["source_output"] \in {Integrated!PartOfQ, Integrated!Q}
         \/ Perform(<<>>) /\ disk = [p \in Integrated!Paths |-> disk[p]] /\ ShapedJob(job)
<1>1. CASE Integrated!IntegratedProcesses
  <2>1. IntegratedProcessStep  BY <1>1, ProcessSteps
  <2>2. disk'["return_input"] = disk["return_input"]
    BY <2>1, IntegratedNames DEF IntegratedProcessStep, Logs
  <2>3. QED BY <2>1, <2>2 DEF IntegratedProcessStep
<1>2. CASE \/ Integrated!Prepare \/ Integrated!AcceptQ \/ Integrated!ResolveAfterUnload
           \/ Integrated!ResolveControlAfterUnload \/ Integrated!ExportWitness
           \/ \E s \in Integrated!Stages : Integrated!CaptureReceipt(s)
           \/ Integrated!RecordTermination \/ Integrated!VerifyPhysicalWitnesses
  <2>1. disk' = disk
    BY <1>2, Zenon DEF Integrated!Prepare, Integrated!AcceptQ, Integrated!ResolveAfterUnload, Integrated!ResolveControlAfterUnload,
       Integrated!ExportWitness, Integrated!CaptureReceipt, Integrated!RecordTermination, Integrated!VerifyPhysicalWitnesses,
       Integrated!Starts
  <2>2. QED BY <2>1
<1>3. CASE Integrated!Summarize
  <2>1. PICK c : disk' = [disk EXCEPT !["export"] = c]
    BY <1>3, Zenon DEF Integrated!Summarize
  <2>2. disk'["return_input"] = disk["return_input"] /\ disk'["source_output"] = disk["source_output"]
    <3>1. disk = [p \in Integrated!Paths |-> disk[p]]  BY DEF IntegratedInv
    <3>2. QED BY <2>1, <3>1, IntegratedNames
  <2>3. QED BY <2>2
<1>4. CASE Integrated!Perform(<<>>)  BY <1>4, PerformSame DEF IntegratedInv
<1>5. QED BY <1>1, <1>2, <1>3, <1>4 DEF Integrated!IntegratedNext, Integrated!IntegratedCommands

LEMMA IntegratedSucceeds ==
  ASSUME IntegratedInv, Integrated!IntegratedNext
  PROVE  Integrated!IntegratedSuccession
<1> SUFFICES ASSUME disk["return_input"] = Absent, disk'["return_input"] # Absent
             PROVE  Dead("source") /\ disk["source_input"] = Absent /\ disk["source_output"] = Absent
  BY DEF Integrated!IntegratedSuccession, Integrated!Absent, Absent, Dead
<1> DEFINE k == Kind(Now)
<1>1. Perform(<<>>) /\ disk = [p \in Integrated!Paths |-> disk[p]]
  BY IntegratedWrites
<1>2. /\ job # <<>> /\ Now.do \in FileSteps
      /\ \/ disk' = disk
         \/ job' = Tail(job) /\ \A p \in Integrated!Paths : p # Now.path => disk'[p] = disk[p]
  BY <1>1, Performed
<1>3. job' = Tail(job) /\ Now.path = "return_input"  BY <1>2, IntegratedNames
<1>4. /\ Kinds(job) = {k} \cup Kinds(job')
      /\ \A A, B : NoPair(job, A, B) => (k \in A => Kinds(job') \cap B = {})
  BY <1>2, <1>3, JobGoesOn DEF IntegratedInv
<1>5. k = <<Now.do, "return_input">>  BY <1>3 DEF Kind
<1> HIDE DEF k
<1>6. k \in On("return_input")  BY <1>2, <1>5 DEF On
<1>7. Dead("source") /\ \A src \in Sources : disk[src] = Absent \/ <<"drop", src>> \in Kinds(job)
  BY <1>4, <1>6 DEF IntegratedInv, IntegratedSuccessionInv
<1>8. ASSUME NEW src \in Sources PROVE <<"drop", src>> \notin Kinds(job)
  <2>1. Kinds(job') \cap To("drop", src) = {}
    BY <1>4, <1>6 DEF IntegratedInv, IntegratedSuccessionInv
  <2>2. k # <<"drop", src>>  BY <1>5 DEF Sources
  <2>3. QED BY <1>4, <2>1, <2>2 DEF To
<1>9. QED BY <1>7, <1>8 DEF Sources

LEMMA IntegratedLosesNothing ==
  ASSUME IntegratedInv, Integrated!IntegratedNext, scene \in Integrated!Roots
  PROVE  Integrated!IntegratedNothingLost
<1> SUFFICES ASSUME disk["source_output"] \in {Integrated!PartOfQ, Integrated!Q}, disk'["source_output"] = Torn
             PROVE  scene = "primary" /\ disk["captured_Q"] # Absent /\ disk["Rinput"] = Integrated!File("record", "Rinput")
  BY DEF Integrated!IntegratedNothingLost, Integrated!Absent, Absent, Integrated!Torn, Torn
<1> DEFINE k == Kind(Now)
<1>1. /\ Torn \notin {Integrated!PartOfQ, Integrated!Q}
      /\ Integrated!Empty \notin {Integrated!PartOfQ, Integrated!Q}
  BY DEF Torn, Integrated!PartOfQ, Integrated!Q, Integrated!Empty, Integrated!File
<1>2. Perform(<<>>) /\ disk = [p \in Integrated!Paths |-> disk[p]] /\ ShapedJob(job)
  BY <1>1, IntegratedWrites
<1>3. /\ job # <<>> /\ Now.do \in FileSteps
      /\ \/ disk' = disk
         \/ /\ job' = Tail(job) /\ Possible(Now)
            /\ \A p \in Integrated!Paths : p # Now.path => disk'[p] = disk[p]
            /\ Now.path \in Integrated!Paths /\ Now.do # "copy" => disk'[Now.path] = Now.content
  BY <1>2, Performed
<1>4. /\ job' = Tail(job) /\ Possible(Now) /\ Now.path = "source_output"
      /\ Now.do # "copy" => Now.content = Torn
  BY <1>1, <1>3, IntegratedNames
<1>5. Kinds(job) = {k} \cup Kinds(job') /\ Items(job) = {Now} \cup Items(job')
  BY <1>3, <1>4, JobGoesOn DEF IntegratedInv
<1>6. k = <<Now.do, "source_output">> /\ Shaped(Now)
  <2>1. Shaped(Now)  BY <1>2, <1>5, ShapedItems
  <2>2. QED BY <1>4, <2>1 DEF Kind
<1> HIDE DEF k
<1>7. Now.do = "empty"
  <2>1. Now.do \notin {"put", "copy"}
    <3>1. <<"put", "source_output">> \notin Kinds(job) /\ <<"copy", "source_output">> \notin Kinds(job)
      BY DEF IntegratedInv, IntegratedEvidenceInv, To
    <3>2. k \in Kinds(job)  BY <1>5
    <3>3. k # <<"put", "source_output">> /\ k # <<"copy", "source_output">>
      BY <3>1, <3>2
    <3>4. QED BY <1>6, <3>3
  <2>2. Now.do # "make"
    <3>1. disk["source_output"] # Absent
      <4>1. Absent \notin {Integrated!PartOfQ, Integrated!Q}
        BY DEF Absent, Integrated!PartOfQ, Integrated!Q, Integrated!File
      <4>2. QED BY <4>1
    <3>2. QED BY <1>4, <3>1 DEF Possible
  <2>3. Now.do # "drop"  BY <1>4, <1>6 DEF Shaped, Torn, Absent
  <2>4. QED BY <1>3, <2>1, <2>2, <2>3 DEF FileSteps
<1>8. Destroying \in Kinds(job)  BY <1>5, <1>6, <1>7 DEF Destroying
<1>9. /\ scene = "primary" => disk["captured_Q"] # Absent /\ disk["Rinput"] = Integrated!File("record", "Rinput")
      /\ scene = "control" => disk["source_output"] = Integrated!Empty
  BY <1>8 DEF IntegratedInv, IntegratedEvidenceInv
<1>10. QED BY <1>1, <1>9, IntegratedNames

-----------------------------------------------------------------------------
(* What is written once *)

LEMMA TailLastWrites ==
  ASSUME NEW s, IsJob(s), s # <<>>, NEW P, LastWrites(s, P)
  PROVE  /\ LastWrites(Tail(s), P)
         /\ Head(s).do \in FileSteps /\ Head(s).path \in P /\ Kinds(Tail(s)) \cap On(Head(s).path) # {} =>
              Head(s).do # "copy" /\ Head(s).content = Torn
<1> DEFINE t == Tail(s)
<1>1. /\ DOMAIN t = 1..Len(t) /\ Len(t) \in Nat /\ Head(s) = s[1] /\ 1 \in DOMAIN s
      /\ \A i \in DOMAIN t : i + 1 \in DOMAIN s /\ t[i] = s[i + 1]
  BY Onward, JobIsSeq
<1> HIDE DEF t
<1>2. ASSUME NEW i \in DOMAIN t, NEW j \in DOMAIN t, i < j, t[i].path = t[j].path, t[j].path \in P,
             {t[i].do, t[j].do} \subseteq FileSteps
      PROVE  t[i].do # "copy" /\ t[i].content = Torn
  <2>1. i + 1 \in DOMAIN s /\ j + 1 \in DOMAIN s /\ t[i] = s[i + 1] /\ t[j] = s[j + 1]
    BY <1>1
  <2>2. i + 1 < j + 1  BY <1>1, <1>2
  <2>3. QED BY <1>2, <2>1, <2>2 DEF LastWrites
<1>3. ASSUME Head(s).do \in FileSteps, Head(s).path \in P, Kinds(t) \cap On(Head(s).path) # {}
      PROVE  Head(s).do # "copy" /\ Head(s).content = Torn
  <2>1. PICK j \in DOMAIN t : Kind(t[j]) \in On(Head(s).path)
    BY <1>3 DEF Kinds
  <2>2. t[j].do \in FileSteps /\ t[j].path = Head(s).path
    BY <2>1 DEF Kind, On
  <2>3. j + 1 \in DOMAIN s /\ t[j] = s[j + 1] /\ 1 < j + 1  BY <1>1
  <2>4. QED BY <1>1, <1>3, <2>2, <2>3 DEF LastWrites
<1>4. QED BY <1>2, <1>3 DEF LastWrites, t

LEMMA NoLastWrites ==
  ASSUME NEW s, NEW P, Kinds(s) \cap OnAny(P) = {}
  PROVE  LastWrites(s, P)
<1> SUFFICES ASSUME NEW j \in DOMAIN s, s[j].path \in P, s[j].do \in FileSteps PROVE FALSE
  BY DEF LastWrites
<1>1. Kind(s[j]) \in Kinds(s) /\ Kind(s[j]) \in OnAny(P)
  BY DEF Kinds, Kind, OnAny
<1>2. QED BY <1>1

LEMMA JoinedLastWrites ==
  ASSUME NEW s, NEW t, IsJob(s), IsJob(t), NEW P, LastWrites(s, P), Kinds(t) \cap OnAny(P) = {}
  PROVE  LastWrites(s \o t, P)
<1> DEFINE u == s \o t
<1>1. /\ \A i \in DOMAIN u : i \in DOMAIN s \/ (i - Len(s) \in DOMAIN t /\ i = Len(s) + (i - Len(s)))
      /\ \A i \in DOMAIN s : u[i] = s[i]
      /\ \A i \in DOMAIN t : u[Len(s) + i] = t[i]
      /\ \A i \in DOMAIN u : \A j \in DOMAIN u : i < j /\ j \in DOMAIN s => i \in DOMAIN s
  BY Joined
<1> HIDE DEF u
<1>2. ASSUME NEW i \in DOMAIN u, NEW j \in DOMAIN u, i < j, u[i].path = u[j].path, u[j].path \in P,
             {u[i].do, u[j].do} \subseteq FileSteps
      PROVE  u[i].do # "copy" /\ u[i].content = Torn
  <2>1. ASSUME j \notin DOMAIN s PROVE FALSE
    <3>1. j - Len(s) \in DOMAIN t /\ u[j] = t[j - Len(s)]  BY <1>1, <2>1
    <3>2. Kind(u[j]) \in Kinds(t) /\ Kind(u[j]) \in OnAny(P)
      BY <1>2, <3>1 DEF Kinds, Kind, OnAny
    <3>3. QED BY <3>2
  <2>2. i \in DOMAIN s /\ j \in DOMAIN s /\ u[i] = s[i] /\ u[j] = s[j]
    BY <1>1, <1>2, <2>1
  <2>3. QED BY <1>2, <2>2 DEF LastWrites
<1>3. LastWrites(u, P)  BY <1>2 DEF LastWrites
<1>4. QED BY <1>3 DEF u

\* A file is written, and what follows does not touch those that are watched.
LEMMA WriteIsLast ==
  ASSUME NEW p, NEW c, NEW t, IsJob(t), NEW P, Kinds(t) \cap OnAny(P) = {}
  PROVE  LastWrites(Write(p, c) \o t, P)
<1> DEFINE a == Put(p, Torn)
           b == Put(p, c)
           w == Write(p, c)
<1>1. IsJob(a) /\ IsJob(b) /\ Len(a) = 1 /\ Len(b) = 1 /\ a[1] = Step("put", p, Torn)
  BY PutParts, OneStep DEF Put
<1>2. w = a \o b  BY DEF Write
<1> HIDE DEF a, b, w
<1>3. IsJob(w) /\ DOMAIN w = 1..2 /\ w[1] = Step("put", p, Torn)
  <2>1. DOMAIN a = 1..1 /\ 1 \in DOMAIN a  BY <1>1, JobIsSeq
  <2>2. /\ IsJob(a \o b) /\ DOMAIN (a \o b) = 1..(Len(a) + Len(b))
        /\ \A i \in DOMAIN a : (a \o b)[i] = a[i]
    BY <1>1, Joined
  <2>3. QED BY <1>1, <1>2, <2>1, <2>2
<1>4. w[1].do = "put" /\ w[1].content = Torn  BY <1>3 DEF Step
<1>5. \A i, j \in DOMAIN w : i < j => i = 1  BY <1>3
<1>6. LastWrites(w, P)  BY <1>4, <1>5 DEF LastWrites
<1>7. QED BY <1>3, <1>6, JoinedLastWrites DEF w

-----------------------------------------------------------------------------
(* The occupancy release *)

Grouping == {<<"group", g>> : g \in Occupancy!GroupNames}

LEMMA OccupancyNames ==
  /\ Occupancy!GroupNames \subseteq Occupancy!Files /\ Occupancy!Pids \subseteq Occupancy!Files
  /\ {"artifacts", "manifest"} \subseteq Occupancy!Files
  /\ Occupancy!Pids \cap Occupancy!GroupNames = {}
  /\ "artifacts" \notin Occupancy!GroupNames /\ "manifest" \notin Occupancy!GroupNames
<1>1. Occupancy!GroupNames = {"source_audit", "primary", "controls", "asymmetric", "binding", "head_faults",
                              "materialization_faults", "observation_faults", "liveness", "authority", "replay"}
  <2>1. DOMAIN Occupancy!Groups = 1..11  BY DEF Occupancy!Groups
  <2>2. /\ Occupancy!Groups[1] = "source_audit" /\ Occupancy!Groups[2] = "primary" /\ Occupancy!Groups[3] = "controls"
        /\ Occupancy!Groups[4] = "asymmetric" /\ Occupancy!Groups[5] = "binding" /\ Occupancy!Groups[6] = "head_faults"
        /\ Occupancy!Groups[7] = "materialization_faults" /\ Occupancy!Groups[8] = "observation_faults"
        /\ Occupancy!Groups[9] = "liveness" /\ Occupancy!Groups[10] = "authority" /\ Occupancy!Groups[11] = "replay"
    BY DEF Occupancy!Groups
  <2>3. \A i \in 1..11 : i \in {1, 2, 3, 4, 5, 6, 7, 8, 9, 10, 11}  OBVIOUS
  <2>4. QED BY <2>1, <2>2, <2>3 DEF Occupancy!GroupNames
<1>2. QED BY <1>1 DEF Occupancy!Files, Occupancy!Pids

\* A job that has nothing to do with the files of the groups.
Ungrouped(s) ==
  /\ IsJob(s)
  /\ \A i \in DOMAIN s : /\ s[i].do = "group" => s[i].path \in Occupancy!GroupNames
                         /\ s[i].do \in {"assemble", "rename"} => s[i].path \in Occupancy!Pids
  /\ Kinds(s) \cap OnAny(Occupancy!GroupNames) = {}

LEMMA UngroupedKeeps ==
  ASSUME disk' = [p \in Occupancy!Files |-> disk'[p]], Ungrouped(job')
  PROVE  OccupancyInv'
<1>1. /\ NoPair(job', Grouping, OnAny(Occupancy!GroupNames)) /\ LastWrites(job', Occupancy!GroupNames)
  BY NoPairNone, NoLastWrites DEF Ungrouped
<1>2. \A g \in Occupancy!GroupNames : Kinds(job') \cap On(g) = {}
  BY DEF Ungrouped, On, OnAny
<1>3. QED BY <1>1, <1>2 DEF OccupancyInv, Ungrouped, Grouping

LEMMA UngroupedParts ==
  /\ Ungrouped(<<>>)
  /\ \A p, c : p \notin Occupancy!GroupNames => Ungrouped(Write(p, c)) /\ Ungrouped(Make(p, c))
  /\ \A e : e.do \in {"assemble", "rename"} /\ e.path \in Occupancy!Pids => Ungrouped(<<e>>)
<1>1. ASSUME NEW s, IsJob(s),
             \A e \in Items(s) : /\ e.do = "group" => e.path \in Occupancy!GroupNames
                                 /\ e.do \in {"assemble", "rename"} => e.path \in Occupancy!Pids
                                 /\ e.do \in FileSteps => e.path \notin Occupancy!GroupNames
      PROVE  Ungrouped(s)
  <2>1. Kinds(s) \cap OnAny(Occupancy!GroupNames) = {}
    BY <1>1 DEF Kinds, Kind, Items, OnAny
  <2>2. QED BY <1>1, <2>1 DEF Ungrouped, Items
<1>2. Ungrouped(<<>>)
  <2>1. Items(<<>>) = {}  BY DEF Items
  <2>2. QED BY <1>1, <2>1, EmptyJob
<1>3. ASSUME NEW p, NEW c, p \notin Occupancy!GroupNames PROVE Ungrouped(Write(p, c)) /\ Ungrouped(Make(p, c))
  <2>1. /\ IsJob(Write(p, c)) /\ Items(Write(p, c)) = {Step("put", p, Torn), Step("put", p, c)}
        /\ IsJob(Make(p, c)) /\ Items(Make(p, c)) = {Step("make", p, Torn), Step("put", p, c)}
    BY WriteParts, MakeParts
  <2>2. \A e \in {Step("put", p, Torn), Step("put", p, c), Step("make", p, Torn)} :
          e.path = p /\ e.do \in {"put", "make"}
    BY DEF Step
  <2>3. QED BY <1>1, <1>3, <2>1, <2>2
<1>4. ASSUME NEW e, e.do \in {"assemble", "rename"}, e.path \in Occupancy!Pids PROVE Ungrouped(<<e>>)
  <2>1. IsJob(<<e>>) /\ Items(<<e>>) = {e}  BY OneStep DEF Items
  <2>2. e.do \notin FileSteps /\ e.do # "group"  BY <1>4 DEF FileSteps
  <2>3. QED BY <1>1, <1>4, <2>1, <2>2
<1>5. QED BY <1>2, <1>3, <1>4

LEMMA UngroupedJoined == ASSUME NEW s, NEW t, Ungrouped(s), Ungrouped(t) PROVE Ungrouped(s \o t)
<1> DEFINE u == s \o t
<1>1. IsJob(u) /\ Kinds(u) = Kinds(s) \cup Kinds(t) /\ Items(u) = Items(s) \cup Items(t)
  BY Joined, JoinedKinds, JoinedItems DEF Ungrouped
<1>2. \A e \in Items(s) \cup Items(t) : /\ e.do = "group" => e.path \in Occupancy!GroupNames
                                        /\ e.do \in {"assemble", "rename"} => e.path \in Occupancy!Pids
  BY DEF Ungrouped, Items
<1> HIDE DEF u
<1>3. \A i \in DOMAIN u : u[i] \in Items(s) \cup Items(t)  BY <1>1 DEF Items
<1>4. QED BY <1>1, <1>2, <1>3 DEF Ungrouped, u

LEMMA OccupancyIdle ==
  ASSUME OccupancyInv,
         \/ Occupancy!Edit \/ Occupancy!BuildModule \/ Occupancy!VerifyRelease
         \/ \E g \in Occupancy!GroupNames : Occupancy!Repair(g)
  PROVE  OccupancyInv' /\ Occupancy!OccupancyKept
<1>1. job = <<>> /\ job' = <<>>
  BY DEF Occupancy!Edit, Occupancy!BuildModule, Occupancy!VerifyRelease, Occupancy!Repair
<1>2. disk' = [p \in Occupancy!Files |-> disk'[p]]
  BY DEF Occupancy!Edit, Occupancy!BuildModule, Occupancy!VerifyRelease, Occupancy!Repair, OccupancyInv
<1>3. QED BY <1>1, <1>2, UngroupedParts, UngroupedKeeps DEF Occupancy!OccupancyKept

LEMMA OccupancyAcquires ==
  ASSUME OccupancyInv, NEW pid \in Occupancy!Pids, Occupancy!AcquireAll(pid)
  PROVE  OccupancyInv' /\ Occupancy!OccupancyKept
<1> DEFINE G == Occupancy!Groups
           a == [i \in DOMAIN G |-> Occupancy!Step("group", G[i], Occupancy!Absent)]
           z == <<Step("assemble", pid, Absent)>>
<1>1. job = <<>> /\ disk' = disk /\ job' = a \o z
  BY Zenon DEF Occupancy!AcquireAll, Occupancy!Step, Step, Occupancy!Absent, Absent
<1>2. Ungrouped(a)
  <2>1. DOMAIN G = 1..11  BY DEF Occupancy!Groups
  <2>2. a \in Seq({a[i] : i \in DOMAIN a}) /\ DOMAIN a = DOMAIN G  BY <2>1
  <2>3. \A i \in DOMAIN G : a[i].do = "group" /\ a[i].path = G[i] /\ G[i] \in Occupancy!GroupNames
    BY DEF Occupancy!Step, Occupancy!GroupNames
  <2> HIDE DEF a, G
  <2>4. Kinds(a) \cap OnAny(Occupancy!GroupNames) = {}
    BY <2>2, <2>3 DEF Kinds, Kind, OnAny, FileSteps
  <2>5. QED BY <2>2, <2>3, <2>4 DEF Ungrouped, IsJob
<1>3. Ungrouped(z)
  <2>1. Step("assemble", pid, Absent).do = "assemble" /\ Step("assemble", pid, Absent).path = pid
    BY DEF Step
  <2>2. QED BY <2>1, UngroupedParts
<1> HIDE DEF a, z
<1>4. Ungrouped(job')  BY <1>1, <1>2, <1>3, UngroupedJoined
<1>5. QED BY <1>1, <1>4, UngroupedKeeps DEF OccupancyInv, Occupancy!OccupancyKept

\* What is left after the next step, and what that step is about.
LEMMA OccupancyRest ==
  ASSUME OccupancyInv, job # <<>>
  PROVE  /\ IsJob(Tail(job))
         /\ \A i \in DOMAIN Tail(job) :
              /\ Tail(job)[i].do = "group" => Tail(job)[i].path \in Occupancy!GroupNames
              /\ Tail(job)[i].do \in {"assemble", "rename"} => Tail(job)[i].path \in Occupancy!Pids
         /\ NoPair(Tail(job), Grouping, OnAny(Occupancy!GroupNames))
         /\ LastWrites(Tail(job), Occupancy!GroupNames)
         /\ Kinds(job) = {Kind(Now)} \cup Kinds(Tail(job))
         /\ Now.do = "group" => /\ Now.path \in Occupancy!GroupNames
                                /\ Kinds(Tail(job)) \cap OnAny(Occupancy!GroupNames) = {}
         /\ Now.do \in {"assemble", "rename"} => Now.path \in Occupancy!Pids
<1> DEFINE t == Tail(job)
<1>1. IsJob(job) /\ NoPair(job, Grouping, OnAny(Occupancy!GroupNames)) /\ LastWrites(job, Occupancy!GroupNames)
  BY DEF OccupancyInv, Grouping
<1>2. /\ IsJob(t) /\ Now = job[1] /\ 1 \in DOMAIN job
      /\ \A i \in DOMAIN t : i + 1 \in DOMAIN job /\ t[i] = job[i + 1]
  BY <1>1, Onward DEF Now
<1>3. /\ NoPair(t, Grouping, OnAny(Occupancy!GroupNames))
      /\ Kind(Now) \in Grouping => Kinds(t) \cap OnAny(Occupancy!GroupNames) = {}
  BY <1>1, TailNoPair DEF Now
<1>4. LastWrites(t, Occupancy!GroupNames)  BY <1>1, TailLastWrites
<1>5. Kinds(job) = {Kind(Now)} \cup Kinds(t)  BY <1>1, TailKinds DEF Now
<1> HIDE DEF t
<1>6. /\ \A i \in DOMAIN t : /\ t[i].do = "group" => t[i].path \in Occupancy!GroupNames
                             /\ t[i].do \in {"assemble", "rename"} => t[i].path \in Occupancy!Pids
      /\ Now.do = "group" => Now.path \in Occupancy!GroupNames
      /\ Now.do \in {"assemble", "rename"} => Now.path \in Occupancy!Pids
  BY <1>2 DEF OccupancyInv
<1>7. Now.do = "group" => Kind(Now) \in Grouping  BY <1>6 DEF Kind, Grouping
<1>8. QED BY <1>2, <1>3, <1>4, <1>5, <1>6, <1>7 DEF t

\* A step is done, and the files of the groups that are pending are as they were.
LEMMA OccupancyGoesOn ==
  ASSUME OccupancyInv, job # <<>>, job' = Tail(job), disk' = [p \in Occupancy!Files |-> disk'[p]],
         \A g \in Occupancy!GroupNames : Kinds(Tail(job)) \cap On(g) # {} => ~Whole(disk'[g])
  PROVE  OccupancyInv'
<1>1. /\ IsJob(job')
      /\ \A i \in DOMAIN job' :
           /\ job'[i].do = "group" => job'[i].path \in Occupancy!GroupNames
           /\ job'[i].do \in {"assemble", "rename"} => job'[i].path \in Occupancy!Pids
      /\ NoPair(job', Grouping, OnAny(Occupancy!GroupNames)) /\ LastWrites(job', Occupancy!GroupNames)
  BY OccupancyRest
<1>2. QED BY <1>1 DEF OccupancyInv, Grouping

LEMMA OccupancyCaches ==
  ASSUME OccupancyInv, Occupancy!CacheGroup
  PROVE  OccupancyInv' /\ Occupancy!OccupancyKept
<1> DEFINE g == Now.path
           t == Tail(job)
<1>1. /\ job # <<>> /\ Now.do = "group" /\ disk' = disk
      /\ \/ job' = t \/ job' = <<>>
         \/ disk[g] = Absent /\ \E c : job' = Write(g, c) \o t
  <2>1. /\ job # <<>> /\ Now.do = "group" /\ disk' = disk
        /\ \/ job' = t \/ job' = <<>>
           \/ disk[g] = Absent /\ job' = Occupancy!Write(g, Occupancy!Finds(g)) \o t
    BY Zenon DEF Occupancy!CacheGroup, Occupancy!Does, Occupancy!Now, Now, Occupancy!Proceed, Occupancy!Absent, Absent
  <2>2. Occupancy!Write(g, Occupancy!Finds(g)) = Write(g, Occupancy!Finds(g))
    BY Zenon DEF Occupancy!Write, Write, Occupancy!Put, Put, Occupancy!Step, Step, Occupancy!Torn, Torn
  <2>3. QED BY <2>1, <2>2
<1>2. disk' = [p \in Occupancy!Files |-> disk'[p]]  BY <1>1 DEF OccupancyInv
<1>3. /\ g \in Occupancy!GroupNames /\ Kinds(t) \cap OnAny(Occupancy!GroupNames) = {}
      /\ IsJob(t) /\ NoPair(t, Grouping, OnAny(Occupancy!GroupNames))
      /\ \A i \in DOMAIN t : /\ t[i].do = "group" => t[i].path \in Occupancy!GroupNames
                             /\ t[i].do \in {"assemble", "rename"} => t[i].path \in Occupancy!Pids
  BY <1>1, OccupancyRest
<1>4. \A h \in Occupancy!GroupNames : Kinds(t) \cap On(h) = {}
  BY <1>3 DEF On, OnAny
<1>5. ASSUME job' = t PROVE OccupancyInv'
  BY <1>1, <1>2, <1>4, <1>5, OccupancyGoesOn
<1>6. ASSUME job' = <<>> PROVE OccupancyInv'
  BY <1>2, <1>6, UngroupedParts, UngroupedKeeps
<1>7. ASSUME disk[g] = Absent, NEW c, job' = Write(g, c) \o t PROVE OccupancyInv'
  <2> DEFINE w == Write(g, c)
  <2>1. IsJob(w) /\ Items(w) = {Step("put", g, Torn), Step("put", g, c)} /\ Kinds(w) = {<<"put", g>>}
    BY WriteParts
  <2>2. LastWrites(w \o t, Occupancy!GroupNames)  BY <1>3, WriteIsLast
  <2> HIDE DEF w, t, g
  <2>3. IsJob(w \o t) /\ Kinds(w \o t) = {<<"put", g>>} \cup Kinds(t) /\ Items(w \o t) = Items(w) \cup Items(t)
    BY <1>3, <2>1, Joined, JoinedKinds, JoinedItems
  <2>4. Kinds(w) \cap Grouping = {}  BY <2>1 DEF Grouping
  <2>5. NoPair(w \o t, Grouping, OnAny(Occupancy!GroupNames))
    BY <1>3, <2>1, <2>4, NoPairNone, JoinedNoPair
  <2>6. \A e \in Items(w \o t) : /\ e.do = "group" => e.path \in Occupancy!GroupNames
                                 /\ e.do \in {"assemble", "rename"} => e.path \in Occupancy!Pids
    <3>1. \A e \in Items(w) : e.do = "put"  BY <2>1 DEF Step
    <3>2. QED BY <1>3, <2>3, <3>1 DEF Items
  <2>7. \A h \in Occupancy!GroupNames : Kinds(w \o t) \cap On(h) # {} => ~Whole(disk'[h])
    <3>1. \A h \in Occupancy!GroupNames : Kinds(w \o t) \cap On(h) # {} => h = g
      BY <1>4, <2>3 DEF On
    <3>2. ~Whole(disk'[g])  BY <1>1, <1>7 DEF Whole
    <3>3. QED BY <3>1, <3>2
  <2>8. job' = w \o t  BY <1>7 DEF w, t, g
  <2>9. QED BY <1>2, <2>2, <2>3, <2>5, <2>6, <2>7, <2>8 DEF OccupancyInv, Grouping, Items
<1>8. Occupancy!OccupancyKept  BY <1>1 DEF Occupancy!OccupancyKept
<1>9. QED BY <1>1, <1>5, <1>6, <1>7, <1>8

\* What is written outside the groups.
LEMMA OccupancyPublishes ==
  ASSUME OccupancyInv, Occupancy!Assemble \/ Occupancy!WriteRelease
  PROVE  OccupancyInv' /\ Occupancy!OccupancyKept
<1>1. CASE Occupancy!Assemble
  <2>1. PICK c : /\ job # <<>> /\ Now.do = "assemble" /\ disk' = disk
                 /\ \/ job' = Make(Now.path, c) \o <<Step("rename", Now.path, Absent)>>
                    \/ job' = <<>>
    BY <1>1, Zenon DEF Occupancy!Assemble, Occupancy!Does, Occupancy!Now, Now, Occupancy!Make, Make, Occupancy!Put, Put,
                       Occupancy!Step, Step, Occupancy!Torn, Torn, Occupancy!Absent, Absent
  <2>2. Now.path \in Occupancy!Pids /\ Now.path \notin Occupancy!GroupNames
    BY <2>1, OccupancyRest, OccupancyNames
  <2>3. Ungrouped(Make(Now.path, c))  BY <2>2, UngroupedParts
  <2>4. Ungrouped(<<Step("rename", Now.path, Absent)>>)
    <3>1. Step("rename", Now.path, Absent).do = "rename" /\ Step("rename", Now.path, Absent).path = Now.path
      BY DEF Step
    <3>2. QED BY <2>2, <3>1, UngroupedParts
  <2>5. Ungrouped(job')  BY <2>1, <2>3, <2>4, UngroupedJoined, UngroupedParts
  <2>6. QED BY <2>1, <2>5, UngroupedKeeps DEF OccupancyInv, Occupancy!OccupancyKept
<1>2. CASE Occupancy!WriteRelease
  <2>1. PICK c : job = <<>> /\ disk' = disk /\ (job' = Write("manifest", c) \/ job' = <<>>)
    BY <1>2, Zenon DEF Occupancy!WriteRelease, Occupancy!Write, Write, Occupancy!Put, Put, Occupancy!Step, Step,
                       Occupancy!Torn, Torn
  <2>2. Ungrouped(job')  BY <2>1, UngroupedParts, OccupancyNames
  <2>3. QED BY <2>1, <2>2, UngroupedKeeps DEF OccupancyInv, Occupancy!OccupancyKept
<1>3. QED BY <1>1, <1>2

LEMMA OccupancyRenames ==
  ASSUME OccupancyInv, Occupancy!Rename
  PROVE  OccupancyInv' /\ Occupancy!OccupancyKept
<1>1. /\ job # <<>> /\ Now.do = "rename" /\ job' = Tail(job)
      /\ disk' = [disk EXCEPT !["artifacts"] = disk[Now.path], ![Now.path] = Absent]
  BY Zenon DEF Occupancy!Rename, Occupancy!Does, Occupancy!Now, Now, Occupancy!Proceed, Occupancy!Absent, Absent
<1>2. Now.path \in Occupancy!Pids /\ Now.path \notin Occupancy!GroupNames /\ "artifacts" \notin Occupancy!GroupNames
  BY <1>1, OccupancyRest, OccupancyNames
<1>3. disk' = [p \in Occupancy!Files |-> disk'[p]] /\ \A g \in Occupancy!GroupNames : disk'[g] = disk[g]
  BY <1>1, <1>2, OccupancyNames DEF OccupancyInv
<1>4. \A g \in Occupancy!GroupNames : Kinds(Tail(job)) \cap On(g) # {} => ~Whole(disk'[g])
  BY <1>1, <1>3, OccupancyRest DEF OccupancyInv
<1>5. QED BY <1>1, <1>3, <1>4, OccupancyGoesOn DEF Occupancy!OccupancyKept

LEMMA OccupancyPerforms ==
  ASSUME OccupancyInv, Perform(<<>>)
  PROVE  OccupancyInv' /\ Occupancy!OccupancyKept
<1>1. disk = [p \in Occupancy!Files |-> disk[p]]  BY DEF OccupancyInv
<1>2. /\ job # <<>> /\ Now.do \in FileSteps /\ disk' = [p \in Occupancy!Files |-> disk'[p]]
      /\ \/ job' = <<>> /\ disk' = disk
         \/ /\ job' = Tail(job)
            /\ \A p \in Occupancy!Files : p # Now.path => disk'[p] = disk[p]
            /\ Now.path \in Occupancy!Files /\ Now.do # "copy" => disk'[Now.path] = Now.content
  BY <1>1, Performed
<1>3. CASE job' = <<>> /\ disk' = disk
  BY <1>2, <1>3, UngroupedParts, UngroupedKeeps DEF Occupancy!OccupancyKept
<1>4. CASE /\ job' = Tail(job)
           /\ \A p \in Occupancy!Files : p # Now.path => disk'[p] = disk[p]
           /\ Now.path \in Occupancy!Files /\ Now.do # "copy" => disk'[Now.path] = Now.content
  <2>1. Kind(Now) \in On(Now.path) /\ Kind(Now) \in Kinds(job) /\ Kinds(Tail(job)) \subseteq Kinds(job)
    BY <1>2, OccupancyRest DEF Kind, On
  <2>2. \A g \in Occupancy!GroupNames : g \in Occupancy!Files
    BY OccupancyNames
  <2>3. Occupancy!OccupancyKept
    <3> SUFFICES ASSUME NEW g \in Occupancy!GroupNames, Whole(disk[g]) PROVE disk'[g] = disk[g]
      BY Zenon DEF Occupancy!OccupancyKept, Occupancy!Whole, Whole, Occupancy!Absent, Absent, Occupancy!Torn, Torn
    <3>1. g # Now.path  BY <2>1 DEF OccupancyInv
    <3>2. QED BY <1>4, <2>2, <3>1
  <2>4. ASSUME NEW g \in Occupancy!GroupNames, Kinds(Tail(job)) \cap On(g) # {} PROVE ~Whole(disk'[g])
    <3>1. CASE g = Now.path
      <4>1. IsJob(job) /\ LastWrites(job, Occupancy!GroupNames)
        BY DEF OccupancyInv
      <4>2. Now.do # "copy" /\ Now.content = Torn
        BY <1>2, <2>4, <3>1, <4>1, TailLastWrites DEF Now
      <4>3. QED BY <1>4, <2>2, <3>1, <4>2 DEF Whole
    <3>2. CASE g # Now.path  BY <1>4, <2>1, <2>2, <2>4, <3>2 DEF OccupancyInv
    <3>3. QED BY <3>1, <3>2
  <2>5. QED BY <1>2, <1>4, <2>3, <2>4, OccupancyGoesOn
<1>5. QED BY <1>2, <1>3, <1>4

\* What a command of the occupancy acquisition has still to write is not there yet, and what
\* is there it does not write.
LEMMA OccupancyKeeps ==
  ASSUME OccupancyInv, Occupancy!OccupancyNext
  PROVE  OccupancyInv' /\ Occupancy!OccupancyKept
<1>1. Occupancy!Perform(<<>>) => Perform(<<>>)  BY PerformSame
<1>2. QED
  BY <1>1, OccupancyIdle, OccupancyAcquires, OccupancyCaches, OccupancyPublishes, OccupancyRenames, OccupancyPerforms
     DEF Occupancy!OccupancyNext, Occupancy!OccupancyCommands

-----------------------------------------------------------------------------
(* The release of the physical domains *)

PNames == Physical!Names

LEMMA PhysicalNames ==
  /\ PNames \subseteq Physical!Files /\ {"records", "document", "manifest"} \subseteq Physical!Files
  /\ "records" \notin PNames /\ "document" \notin PNames /\ "manifest" \notin PNames
  /\ "deterministic" \in PNames
  /\ Physical!ArtifactNames \in Seq(PNames) /\ Len(Physical!ArtifactNames) = 9
  /\ Physical!ArtifactNames[1] = "deterministic"
  /\ \A i, j \in 1..9 : Physical!ArtifactNames[i] = Physical!ArtifactNames[j] => i = j
<1> DEFINE a == Physical!ArtifactNames
<1>1. /\ Len(a) = 9 /\ DOMAIN a = 1..9
      /\ a[1] = "deterministic" /\ a[2] = "witnesses" /\ a[3] = "detached" /\ a[4] = "authority" /\ a[5] = "refresh_faults"
      /\ a[6] = "observation_faults" /\ a[7] = "input_audit" /\ a[8] = "oracles" /\ a[9] = "source_audit"
  BY DEF Physical!ArtifactNames
<1>2. a \in Seq({a[i] : i \in DOMAIN a})  BY DEF Physical!ArtifactNames
<1>3. PNames = {a[i] : i \in DOMAIN a}  BY DEF PNames, Physical!Names
<1> HIDE DEF a
<1>4. \A i \in 1..9 : i \in {1, 2, 3, 4, 5, 6, 7, 8, 9}  OBVIOUS
<1>5. PNames = {"deterministic", "witnesses", "detached", "authority", "refresh_faults", "observation_faults",
                "input_audit", "oracles", "source_audit"}
  BY <1>1, <1>3, <1>4
<1>6. \A i, j \in 1..9 : a[i] = a[j] => i = j
  <2> SUFFICES ASSUME NEW i \in 1..9, NEW j \in 1..9, a[i] = a[j] PROVE i = j
    OBVIOUS
  <2>1. i \in {1, 2, 3, 4, 5, 6, 7, 8, 9} /\ j \in {1, 2, 3, 4, 5, 6, 7, 8, 9}
    BY <1>4
  <2>2. CASE i \in {1, 2, 3}  BY <1>1, <2>1, <2>2
  <2>3. CASE i \in {4, 5, 6}  BY <1>1, <2>1, <2>3
  <2>4. CASE i \in {7, 8, 9}  BY <1>1, <2>1, <2>4
  <2>5. QED BY <2>1, <2>2, <2>3, <2>4
<1>7. a \in Seq(PNames)  BY <1>2, <1>3
<1>8. PNames \subseteq Physical!Files /\ {"records", "document", "manifest"} \subseteq Physical!Files
  BY DEF Physical!Files, PNames
<1>9. QED BY <1>1, <1>5, <1>6, <1>7, <1>8 DEF a

\* A job that launches, audits and writes each artifact once at most.
Composing(s) ==
  /\ IsJob(s)
  /\ \A e \in Items(s) : e.do \in {"launch", "audit", "write"} /\ (e.do = "write" => e.path \in PNames)
  /\ \A n \in PNames : NoPair(s, To("write", n), To("write", n))

LEMMA ComposingKinds ==
  ASSUME NEW s, Composing(s)
  PROVE  /\ Kinds(s) \cap OnAny(PNames) = {} /\ <<"put", "records">> \notin Kinds(s)
         /\ \A e \in Items(s) : e.do \notin FileSteps
<1>1. \A e \in Items(s) : e.do \notin FileSteps  BY DEF Composing, FileSteps
<1>2. \A k \in Kinds(s) : k[1] \notin FileSteps
  BY <1>1, KindsOfItems DEF Kind
<1>3. <<"put", "records">>[1] \in FileSteps /\ \A k \in OnAny(PNames) : k[1] \in FileSteps
  BY DEF FileSteps, OnAny
<1>4. QED BY <1>1, <1>2, <1>3

LEMMA ComposingJoined ==
  ASSUME NEW s, NEW t, Composing(s), Composing(t), Kinds(s) \cap Kinds(t) \cap Writings = {}
  PROVE  Composing(s \o t) /\ Kinds(s \o t) = Kinds(s) \cup Kinds(t)
<1>1. IsJob(s \o t) /\ Items(s \o t) = Items(s) \cup Items(t) /\ Kinds(s \o t) = Kinds(s) \cup Kinds(t)
  BY Joined, JoinedItems, JoinedKinds DEF Composing
<1>2. ASSUME NEW n \in PNames PROVE NoPair(s \o t, To("write", n), To("write", n))
  <2>1. Kinds(s) \cap To("write", n) = {} \/ Kinds(t) \cap To("write", n) = {}
    BY DEF To, Writings, PNames
  <2>2. QED BY <2>1, JoinedNoPair DEF Composing
<1>3. QED BY <1>1, <1>2 DEF Composing

LEMMA ComposingStep ==
  ASSUME NEW e, e.do \in {"launch", "audit"} \/ (e.do = "write" /\ e.path \in PNames)
  PROVE  Composing(<<e>>) /\ Kinds(<<e>>) = {Kind(e)}
<1>1. IsJob(<<e>>) /\ Items(<<e>>) = {e} /\ Kinds(<<e>>) = {Kind(e)} /\ \A A, B : NoPair(<<e>>, A, B)
  BY OneStep DEF Items
<1>2. QED BY <1>1 DEF Composing

LEMMA ComposingLaunches ==
  ASSUME NEW S, NEW order \in Seq(S)
  PROVE  Composing(Physical!Launches(order)) /\ Kinds(Physical!Launches(order)) \cap Writings = {}
<1> DEFINE s == Physical!Launches(order)
<1>1. s = [i \in 1..Len(order) |-> s[i]] /\ Len(order) \in Nat /\ DOMAIN s = 1..Len(order)
  BY DEF Physical!Launches
<1>2. \A i \in DOMAIN s : s[i].do = "launch"
  BY <1>1 DEF Physical!Launches, Physical!Step
<1>3. s \in Seq({s[i] : i \in DOMAIN s})  BY <1>1
<1> HIDE DEF s
<1>4. \A k \in Kinds(s) : k[1] = "launch"  BY <1>2 DEF Kinds, Kind
<1>5. Kinds(s) \cap Writings = {}  BY <1>4 DEF Writings
<1>6. \A n \in PNames : Kinds(s) \cap To("write", n) = {}
  BY <1>5 DEF Writings, To, PNames
<1>7. QED BY <1>2, <1>3, <1>5, <1>6, NoPairNone DEF Composing, Items, IsJob, s

LEMMA ComposingWrites ==
  ASSUME NEW names \in Seq(PNames), \A i, j \in DOMAIN names : names[i] = names[j] => i = j
  PROVE  /\ Composing(Physical!Writes(names))
         /\ \A k \in Kinds(Physical!Writes(names)) : \E i \in DOMAIN names : k = <<"write", names[i]>>
<1> DEFINE s == Physical!Writes(names)
<1>1. s = [i \in 1..Len(names) |-> s[i]] /\ Len(names) \in Nat /\ DOMAIN s = 1..Len(names) /\ DOMAIN names = DOMAIN s
  BY DEF Physical!Writes
<1>2. \A i \in DOMAIN s : s[i].do = "write" /\ s[i].path = names[i]
  BY <1>1 DEF Physical!Writes, Physical!Step
<1>3. s \in Seq({s[i] : i \in DOMAIN s})  BY <1>1
<1> HIDE DEF s
<1>4. \A i \in DOMAIN s : Kind(s[i]) = <<"write", names[i]>>  BY <1>2 DEF Kind
<1>5. ASSUME NEW n \in PNames PROVE NoPair(s, To("write", n), To("write", n))
  <2> SUFFICES ASSUME NEW i \in DOMAIN s, NEW j \in DOMAIN s, i < j, Kind(s[i]) = <<"write", n>>,
                      Kind(s[j]) = <<"write", n>>
               PROVE  FALSE
    BY DEF NoPair, To
  <2>1. names[i] = n /\ names[j] = n  BY <1>4
  <2>2. i = j /\ i \in Nat  BY <1>1, <2>1
  <2>3. QED BY <2>2
<1>6. \A i \in DOMAIN s : names[i] \in PNames  BY <1>1
<1>7. QED BY <1>1, <1>2, <1>3, <1>4, <1>5, <1>6 DEF Composing, Items, IsJob, Kinds, s

\* The job of acquire_all: its directory first.
Acquiring(s) ==
  /\ IsJob(s)
  /\ \A e \in Items(s) : \/ e.do \in {"launch", "audit"} \/ (e.do = "write" /\ e.path \in PNames)
                         \/ e = Step("put", "records", Physical!Directory)
  /\ NoPair(s, Writings, To("put", "records"))
  /\ \A n \in PNames : NoPair(s, To("write", n), To("write", n))

LEMMA AcquiringJoined ==
  ASSUME NEW s, NEW t, Acquiring(s), Composing(t), Kinds(s) \cap Kinds(t) \cap Writings = {}
  PROVE  Acquiring(s \o t) /\ Kinds(s \o t) = Kinds(s) \cup Kinds(t)
<1>1. IsJob(s \o t) /\ Items(s \o t) = Items(s) \cup Items(t) /\ Kinds(s \o t) = Kinds(s) \cup Kinds(t)
  BY Joined, JoinedItems, JoinedKinds DEF Acquiring, Composing
<1>2. ASSUME NEW n \in PNames PROVE NoPair(s \o t, To("write", n), To("write", n))
  <2>1. Kinds(s) \cap To("write", n) = {} \/ Kinds(t) \cap To("write", n) = {}
    BY DEF To, Writings, PNames
  <2>2. QED BY <2>1, JoinedNoPair DEF Acquiring, Composing
<1>3. NoPair(s \o t, Writings, To("put", "records"))
  <2>1. Kinds(t) \cap To("put", "records") = {}  BY ComposingKinds DEF To
  <2>2. NoPair(t, Writings, To("put", "records"))  BY <2>1, NoPairNone
  <2>3. QED BY <2>1, <2>2, JoinedNoPair DEF Acquiring, Composing
<1>4. QED BY <1>1, <1>2, <1>3 DEF Acquiring, Composing

LEMMA AcquisitionIsAcquiring ==
  ASSUME Physical!AcquireAll
  PROVE  Acquiring(job') /\ <<"put", "records">> \in Kinds(job')
<1> DEFINE put == Put("records", Physical!Directory)
           one == Physical!Launches(Physical!WitnessOrder)
           fixed == Physical!Writes(<<"deterministic">>)
           two == Physical!Launches(Physical!CaseOrder)
           audit == <<Step("audit", "audit", Absent)>>
           rest == Physical!Writes(Tail(Physical!ArtifactNames))
           names == Tail(Physical!ArtifactNames)
<1>1. job' = put \o one \o fixed \o two \o audit \o rest
  BY Zenon DEF Physical!AcquireAll, Physical!Put, Put, Physical!Step, Step, Physical!Absent, Absent
<1>2. Acquiring(put) /\ Kinds(put) = {<<"put", "records">>}
  <2>1. /\ IsJob(put) /\ Items(put) = {Step("put", "records", Physical!Directory)} /\ Kinds(put) = {<<"put", "records">>}
    BY PutParts
  <2>2. \A A, B : NoPair(put, A, B)  BY OneStep DEF Put
  <2> HIDE DEF put
  <2>3. QED BY <2>1, <2>2 DEF Acquiring
<1>3. Composing(one) /\ Kinds(one) \cap Writings = {} /\ Composing(two) /\ Kinds(two) \cap Writings = {}
  <2>1. /\ Physical!WitnessOrder \in Seq({Physical!WitnessOrder[i] : i \in DOMAIN Physical!WitnessOrder})
        /\ Physical!CaseOrder \in Seq({Physical!CaseOrder[i] : i \in DOMAIN Physical!CaseOrder})
    BY DEF Physical!WitnessOrder, Physical!CaseOrder
  <2>2. QED BY <2>1, ComposingLaunches
<1>4. Composing(fixed) /\ \A k \in Kinds(fixed) : k = <<"write", "deterministic">>
  <2> DEFINE d == <<"deterministic">>
  <2>1. d \in Seq(PNames) /\ DOMAIN d = {1} /\ d[1] = "deterministic"
    BY PhysicalNames
  <2>2. \A i, j \in DOMAIN d : d[i] = d[j] => i = j  BY <2>1
  <2> HIDE DEF d
  <2>3. Composing(Physical!Writes(d)) /\ \A k \in Kinds(Physical!Writes(d)) : \E i \in DOMAIN d : k = <<"write", d[i]>>
    BY <2>1, <2>2, ComposingWrites
  <2>4. QED BY <2>1, <2>3 DEF d
<1>5. Composing(audit) /\ Kinds(audit) \cap Writings = {}
  <2>1. Step("audit", "audit", Absent).do = "audit" /\ Kind(Step("audit", "audit", Absent)) \notin Writings
    BY DEF Step, Kind, Writings
  <2>2. QED BY <2>1, ComposingStep
<1>6. Composing(rest) /\ <<"write", "deterministic">> \notin Kinds(rest)
  <2> DEFINE a == Physical!ArtifactNames
  <2>1. /\ a \in Seq(PNames) /\ Len(a) = 9 /\ a[1] = "deterministic"
        /\ \A i, j \in 1..9 : a[i] = a[j] => i = j
    BY PhysicalNames
  <2> HIDE DEF a
  <2>2. /\ Tail(a) \in Seq(PNames) /\ DOMAIN Tail(a) = 1..8
        /\ \A i \in 1..8 : Tail(a)[i] = a[i + 1]
    <3>1. Len(<<>>) = 0  OBVIOUS
    <3>2. IsJob(a) /\ a # <<>>
      <4>1. IsJob(a)  BY <2>1, SeqIsJob
      <4>2. a # <<>>  BY <2>1, <3>1
      <4>3. QED BY <4>1, <4>2
    <3>3. IsJob(Tail(a)) /\ Len(Tail(a)) = 9 - 1 /\ \A i \in DOMAIN Tail(a) : Tail(a)[i] = a[i + 1]
      BY <2>1, <3>2, Onward
    <3>4. DOMAIN Tail(a) = 1..8
      <4>1. DOMAIN Tail(a) = 1..Len(Tail(a))  BY <3>3, JobIsSeq
      <4>2. Len(Tail(a)) = 8  BY <3>3
      <4>3. QED BY <4>1, <4>2
    <3>5. Tail(a) \in Seq(PNames)  BY <2>1, <3>2
    <3>6. QED BY <3>3, <3>4, <3>5
  <2>3. \A i, j \in DOMAIN Tail(a) : Tail(a)[i] = Tail(a)[j] => i = j
    <3> SUFFICES ASSUME NEW i \in 1..8, NEW j \in 1..8, Tail(a)[i] = Tail(a)[j] PROVE i = j
      BY <2>2
    <3>1. i + 1 \in 1..9 /\ j + 1 \in 1..9  OBVIOUS
    <3>1a. a[i + 1] = a[j + 1]
      BY <2>2
    <3>2. i + 1 = j + 1  BY <2>1, <3>1, <3>1a
    <3>3. QED BY <3>2
  <2>4. \A i \in DOMAIN Tail(a) : Tail(a)[i] # "deterministic"
    <3> SUFFICES ASSUME NEW i \in 1..8, Tail(a)[i] = "deterministic" PROVE FALSE
      BY <2>2
    <3>1. i + 1 \in 1..9 /\ 1 \in 1..9  OBVIOUS
    <3>1a. a[i + 1] = a[1]
      BY <2>1, <2>2
    <3>2. i + 1 = 1  BY <2>1, <3>1, <3>1a
    <3>3. QED BY <3>2
  <2>5. /\ Composing(Physical!Writes(Tail(a)))
        /\ \A k \in Kinds(Physical!Writes(Tail(a))) : \E i \in DOMAIN Tail(a) : k = <<"write", Tail(a)[i]>>
    BY <2>2, <2>3, ComposingWrites
  <2>6. <<"write", "deterministic">> \notin Kinds(Physical!Writes(Tail(a)))
    BY <2>4, <2>5
  <2>7. QED BY <2>5, <2>6 DEF a
<1> HIDE DEF put, one, fixed, two, audit, rest
<1>7. Acquiring(put \o one) /\ Kinds(put \o one) = {<<"put", "records">>} \cup Kinds(one)
  BY <1>2, <1>3, AcquiringJoined
<1>8. <<"put", "records">> \notin Writings  BY DEF Writings
<1> DEFINE s1 == put \o one
           s2 == s1 \o fixed
           s3 == s2 \o two
           s4 == s3 \o audit
           s5 == s4 \o rest
<1>9. Kinds(s1) \cap Writings = {} /\ Acquiring(s1) /\ <<"put", "records">> \in Kinds(s1)
  BY <1>3, <1>7, <1>8
<1> HIDE DEF s1
<1>10. Acquiring(s2) /\ Kinds(s2) = Kinds(s1) \cup Kinds(fixed)
  BY <1>4, <1>9, AcquiringJoined
<1> HIDE DEF s2
<1>11. Acquiring(s3) /\ Kinds(s3) = Kinds(s2) \cup Kinds(two)
  BY <1>3, <1>10, AcquiringJoined
<1> HIDE DEF s3
<1>12. Acquiring(s4) /\ Kinds(s4) = Kinds(s3) \cup Kinds(audit)
  BY <1>5, <1>11, AcquiringJoined
<1>13. Kinds(s4) \cap Kinds(rest) \cap Writings = {}
  <2> SUFFICES ASSUME NEW k \in Kinds(s4), k \in Kinds(rest), k \in Writings PROVE FALSE
    OBVIOUS
  <2>1. k \in Kinds(fixed)  BY <1>3, <1>5, <1>9, <1>10, <1>11, <1>12
  <2>2. QED BY <1>4, <1>6, <2>1
<1> HIDE DEF s4
<1>14. Acquiring(s5) /\ Kinds(s5) = Kinds(s4) \cup Kinds(rest)
  BY <1>6, <1>12, <1>13, AcquiringJoined
<1>15. job' = s5  BY <1>1 DEF s1, s2, s3, s4
<1>16. QED BY <1>9, <1>10, <1>11, <1>12, <1>14, <1>15

LEMMA PhysicalAcquires ==
  ASSUME PhysicalInv, Physical!AcquireAll
  PROVE  PhysicalInv' /\ Physical!PhysicalKept
<1>1. job = <<>> /\ disk' = disk /\ disk["records"] = Absent
  BY Zenon DEF Physical!AcquireAll, Physical!Absent, Absent
<1>2. Acquiring(job') /\ <<"put", "records">> \in Kinds(job')
  BY AcquisitionIsAcquiring
<1>3. Physical!Directory # Absent
  <2>1. Physical!Directory = <<"directory", "">> /\ Absent = <<"absent">>
    BY DEF Physical!Directory, Physical!File, Absent
  <2>2. <<"directory", "">> # <<"absent">>  OBVIOUS
  <2>3. QED BY <2>1, <2>2, Zenon
<1>4. \A e \in Items(job') : /\ e.do = "write" => e.path \in PNames
                             /\ e.do \in FileSteps => e.do = "put" /\ e.path = "records" /\ e.content # Absent
  <2>1. /\ Step("put", "records", Physical!Directory).do = "put"
        /\ Step("put", "records", Physical!Directory).path = "records"
        /\ Step("put", "records", Physical!Directory).content # Absent
    BY <1>3 DEF Step
  <2>2. QED BY <1>2, <2>1 DEF Acquiring, FileSteps
<1>5. Kinds(job') \cap OnAny(PNames) = {}
  <2> SUFFICES ASSUME NEW e \in Items(job'), Kind(e) \in OnAny(PNames) PROVE FALSE
    BY KindsOfItems
  <2>1. e.do \in FileSteps /\ e.path \in PNames  BY DEF Kind, OnAny
  <2>2. QED BY <1>4, <2>1, PhysicalNames
<1>6. \A n \in PNames : Kinds(job') \cap On(n) = {}  BY <1>5 DEF On, OnAny
<1>7. NoPair(job', Writings \cup OnAny(PNames), To("put", "records"))
  BY <1>2, <1>5 DEF Acquiring, NoPair, Kinds
<1>8. NoPair(job', Writings, OnAny(PNames)) /\ LastWrites(job', PNames)
  BY <1>5, NoPairNone, NoLastWrites
<1>9. \A n \in PNames : disk[n] = Absent  BY <1>1 DEF PhysicalInv, PNames
<1>10. PhysicalInv'
  BY <1>1, <1>2, <1>4, <1>6, <1>7, <1>8, <1>9 DEF PhysicalInv, PNames, Acquiring
<1>11. QED BY <1>1, <1>10 DEF Physical!PhysicalKept

\* A command that has nothing to do with the artifacts, or none at all.
LEMMA PhysicalElsewhere ==
  ASSUME disk' = [p \in Physical!Files |-> disk'[p]], disk'["records"] = Absent => \A n \in PNames : disk'[n] = Absent,
         IsJob(job'), \A e \in Items(job') : e.do = "put" /\ e.path = "manifest"
  PROVE  PhysicalInv'
<1>1. \A k \in Kinds(job') : k = <<"put", "manifest">>
  BY KindsOfItems DEF Kind
<1>2. Kinds(job') \cap (Writings \cup OnAny(PNames)) = {} /\ <<"put", "manifest">> \notin To("put", "records")
  BY <1>1, PhysicalNames DEF Writings, OnAny, To
<1>3. \A n \in PNames : <<"write", n>> \notin Kinds(job') /\ Kinds(job') \cap On(n) = {} /\ Kinds(job') \cap To("write", n) = {}
  BY <1>1, PhysicalNames DEF On, To
<1>4. LastWrites(job', PNames)  BY <1>2, NoLastWrites
<1>5. /\ NoPair(job', Writings \cup OnAny(PNames), To("put", "records")) /\ NoPair(job', Writings, OnAny(PNames))
      /\ \A n \in PNames : NoPair(job', To("write", n), To("write", n))
  BY <1>2, <1>3, NoPairNone
<1>6. \A e \in Items(job') : e.do # "write" /\ e.path # "records"  OBVIOUS
<1>7. QED BY <1>2, <1>3, <1>4, <1>5, <1>6 DEF PhysicalInv, PNames

LEMMA PhysicalIdle ==
  ASSUME PhysicalInv,
         \/ Physical!Edit \/ Physical!BuildModule \/ Physical!RemoveRecords \/ Physical!WriteDocument
         \/ Physical!WriteRelease \/ Physical!VerifyRelease
  PROVE  PhysicalInv' /\ Physical!PhysicalKept
<1>1. CASE Physical!Edit \/ Physical!BuildModule
  <2>1. disk' = disk /\ job' = job
    BY <1>1 DEF Physical!Edit, Physical!BuildModule
  <2>2. QED BY <2>1 DEF PhysicalInv, Physical!PhysicalKept
<1>2. CASE \/ Physical!RemoveRecords \/ Physical!WriteDocument
           \/ Physical!WriteRelease \/ Physical!VerifyRelease
  <2>1. job = <<>> /\ (job' = <<>> \/ \E c : job' = Write("manifest", c))
    BY <1>2, Zenon DEF Physical!RemoveRecords, Physical!WriteDocument, Physical!WriteRelease, Physical!VerifyRelease,
                       Physical!Write, Write, Physical!Put, Put, Physical!Step, Step, Physical!Torn, Torn
  <2>2. IsJob(job') /\ \A e \in Items(job') : e.do = "put" /\ e.path = "manifest"
    <3>1. CASE job' = <<>>  BY <3>1, EmptyJob DEF Items
    <3>2. ASSUME NEW c, job' = Write("manifest", c)
          PROVE  IsJob(job') /\ \A e \in Items(job') : e.do = "put" /\ e.path = "manifest"
      <4>1. IsJob(job') /\ Items(job') = {Step("put", "manifest", Torn), Step("put", "manifest", c)}
        BY <3>2, WriteParts
      <4>2. QED BY <4>1 DEF Step
    <3>3. QED BY <2>1, <3>1, <3>2
  <2>3. /\ disk' = [p \in Physical!Files |-> disk'[p]]
        /\ disk'["records"] = Absent => \A n \in PNames : disk'[n] = Absent
    <3>1. CASE Physical!RemoveRecords
      <4>1. disk' = [p \in Physical!Files |-> IF p \in PNames \cup {"records"} THEN Absent ELSE disk[p]]
        BY <3>1, Zenon DEF Physical!RemoveRecords, PNames, Physical!Absent, Absent
      <4>2. QED BY <4>1, PhysicalNames
    <3>2. CASE Physical!WriteDocument
      <4> DEFINE c == Physical!File("document", "")
      <4>1. disk' = [disk EXCEPT !["document"] = c]
        BY <3>2, Zenon DEF Physical!WriteDocument
      <4> HIDE DEF c
      <4>2. disk = [p \in Physical!Files |-> disk[p]]  BY DEF PhysicalInv
      <4>2a. disk' = [p \in Physical!Files |-> disk'[p]] /\ \A p \in Physical!Files : p # "document" => disk'[p] = disk[p]
        BY <4>1, <4>2
      <4>3. QED BY <4>2a, PhysicalNames DEF PhysicalInv, PNames
    <3>3. CASE Physical!WriteRelease \/ Physical!VerifyRelease
      <4>1. disk' = disk
        BY <3>3 DEF Physical!WriteRelease, Physical!VerifyRelease
      <4>2. QED BY <4>1 DEF PhysicalInv, PNames
    <3>4. QED BY <1>2, <3>1, <3>2, <3>3
  <2>4. QED BY <2>1, <2>2, <2>3, PhysicalElsewhere DEF Physical!PhysicalKept
<1>3. QED BY <1>1, <1>2

\* What is left after the next step, and what that step is about.
LEMMA PhysicalRest ==
  ASSUME PhysicalInv, job # <<>>
  PROVE  /\ IsJob(Tail(job))
         /\ \A e \in Items(Tail(job)) \cup {Now} :
              /\ e.do = "write" => e.path \in PNames
              /\ e.do \in FileSteps /\ e.path = "records" => e.do = "put" /\ e.content # Absent
         /\ Kinds(job) = {Kind(Now)} \cup Kinds(Tail(job))
         /\ NoPair(Tail(job), Writings \cup OnAny(PNames), To("put", "records"))
         /\ NoPair(Tail(job), Writings, OnAny(PNames))
         /\ \A n \in PNames : NoPair(Tail(job), To("write", n), To("write", n))
         /\ LastWrites(Tail(job), PNames)
         /\ Kind(Now) \in Writings => Kinds(Tail(job)) \cap OnAny(PNames) = {}
         /\ Kind(Now) \in Writings \cup OnAny(PNames) => disk["records"] # Absent
         /\ \A n \in PNames : Kind(Now) = <<"write", n>> => <<"write", n>> \notin Kinds(Tail(job))
<1> DEFINE t == Tail(job)
<1>1. /\ IsJob(job) /\ LastWrites(job, PNames)
      /\ NoPair(job, Writings \cup OnAny(PNames), To("put", "records")) /\ NoPair(job, Writings, OnAny(PNames))
      /\ \A n \in PNames : NoPair(job, To("write", n), To("write", n))
      /\ \A e \in Items(job) : /\ e.do = "write" => e.path \in PNames
                               /\ e.do \in FileSteps /\ e.path = "records" => e.do = "put" /\ e.content # Absent
      /\ Kinds(job) \cap (Writings \cup OnAny(PNames)) # {} =>
           disk["records"] # Absent \/ <<"put", "records">> \in Kinds(job)
  BY Zenon DEF PhysicalInv, PNames
<1>2. IsJob(t) /\ Items(job) = {Now} \cup Items(t) /\ Kinds(job) = {Kind(Now)} \cup Kinds(t)
  BY <1>1, Onward, TailItems, TailKinds DEF Now
<1>3. /\ NoPair(t, Writings \cup OnAny(PNames), To("put", "records"))
      /\ Kind(Now) \in Writings \cup OnAny(PNames) => Kinds(t) \cap To("put", "records") = {}
  BY <1>1, TailNoPair DEF Now
<1>4. /\ NoPair(t, Writings, OnAny(PNames))
      /\ Kind(Now) \in Writings => Kinds(t) \cap OnAny(PNames) = {}
  BY <1>1, TailNoPair DEF Now
<1>5. \A n \in PNames : /\ NoPair(t, To("write", n), To("write", n))
                        /\ Kind(Now) \in To("write", n) => Kinds(t) \cap To("write", n) = {}
  BY <1>1, TailNoPair DEF Now
<1>6. LastWrites(t, PNames)  BY <1>1, TailLastWrites
<1> HIDE DEF t
<1>7. ASSUME Kind(Now) \in Writings \cup OnAny(PNames) PROVE disk["records"] # Absent
  <2>1. Kind(Now) # <<"put", "records">>
    BY <1>7, PhysicalNames DEF Writings, OnAny, PNames
  <2>2. <<"put", "records">> \notin Kinds(job)
    BY <1>2, <1>3, <1>7, <2>1 DEF To
  <2>3. QED BY <1>1, <1>2, <1>7, <2>2
<1>8. \A n \in PNames : Kind(Now) = <<"write", n>> => <<"write", n>> \notin Kinds(t)
  BY <1>5 DEF To
<1>9. \A e \in Items(t) \cup {Now} :
              /\ e.do = "write" => e.path \in PNames
              /\ e.do \in FileSteps /\ e.path = "records" => e.do = "put" /\ e.content # Absent
  BY <1>1, <1>2
<1>10. QED BY <1>2, <1>3, <1>4, <1>5, <1>6, <1>7, <1>8, <1>9 DEF t

\* A step is done; the directory and the artifacts that are pending are as they should be.
LEMMA PhysicalGoesOn ==
  ASSUME PhysicalInv, job # <<>>, job' = Tail(job), disk' = [p \in Physical!Files |-> disk'[p]],
         disk'["records"] = Absent => \A n \in PNames : disk'[n] = Absent,
         Kinds(Tail(job)) \cap (Writings \cup OnAny(PNames)) # {} =>
           disk'["records"] # Absent \/ <<"put", "records">> \in Kinds(Tail(job)),
         \A n \in PNames : /\ <<"write", n>> \in Kinds(Tail(job)) => disk'[n] = Absent
                           /\ Kinds(Tail(job)) \cap On(n) # {} => ~Whole(disk'[n])
  PROVE  PhysicalInv'
<1>1. \A n \in PNames : <<"write", n>> \in Kinds(job) => Kinds(job) \cap On(n) = {}
  BY DEF PhysicalInv, PNames
<1>2. \A n \in PNames : <<"write", n>> \in Kinds(job') => Kinds(job') \cap On(n) = {}
  BY <1>1, PhysicalRest
<1>3. /\ IsJob(job')
      /\ \A e \in Items(job') : /\ e.do = "write" => e.path \in PNames
                                /\ e.do \in FileSteps /\ e.path = "records" => e.do = "put" /\ e.content # Absent
      /\ NoPair(job', Writings \cup OnAny(PNames), To("put", "records"))
      /\ NoPair(job', Writings, OnAny(PNames))
      /\ \A n \in PNames : NoPair(job', To("write", n), To("write", n))
      /\ LastWrites(job', PNames)
  BY PhysicalRest
<1>4. QED BY <1>2, <1>3, Zenon DEF PhysicalInv, PNames

\* A step that leaves the files as they are: the rest follows, or nothing.
LEMMA PhysicalPasses ==
  ASSUME PhysicalInv, job # <<>>, disk' = disk, job' = <<>> \/ (job' = Tail(job) /\ Kind(Now) # <<"put", "records">>)
  PROVE  PhysicalInv'
<1>1. /\ disk = [p \in Physical!Files |-> disk[p]]
      /\ disk["records"] = Absent => \A n \in PNames : disk[n] = Absent
      /\ Kinds(job) \cap (Writings \cup OnAny(PNames)) # {} =>
           disk["records"] # Absent \/ <<"put", "records">> \in Kinds(job)
      /\ \A n \in PNames : /\ <<"write", n>> \in Kinds(job) => disk[n] = Absent
                           /\ Kinds(job) \cap On(n) # {} => ~Whole(disk[n])
  BY DEF PhysicalInv, PNames
<1>2. ASSUME job' = <<>> PROVE PhysicalInv'
  <2>1. IsJob(job') /\ Items(job') = {}  BY <1>2, EmptyJob DEF Items
  <2>2. QED BY <1>1, <2>1, PhysicalElsewhere
<1>3. ASSUME job' = Tail(job), Kind(Now) # <<"put", "records">> PROVE PhysicalInv'
  <2>1. Kinds(job) = {Kind(Now)} \cup Kinds(Tail(job))  BY PhysicalRest
  <2>2. Kinds(Tail(job)) \cap (Writings \cup OnAny(PNames)) # {} =>
           disk["records"] # Absent \/ <<"put", "records">> \in Kinds(Tail(job))
    BY <1>1, <1>3, <2>1
  <2>3. ASSUME NEW n \in PNames
        PROVE  /\ <<"write", n>> \in Kinds(Tail(job)) => disk[n] = Absent
               /\ Kinds(Tail(job)) \cap On(n) # {} => ~Whole(disk[n])
    <3>1. Kinds(Tail(job)) \subseteq Kinds(job)  BY <2>1
    <3>2. Kinds(Tail(job)) \cap On(n) # {} => Kinds(job) \cap On(n) # {}
      BY <3>1
    <3>3. QED BY <1>1, <3>1, <3>2
  <2>4. QED BY <1>1, <1>3, <2>2, <2>3, PhysicalGoesOn
<1>4. QED BY <1>2, <1>3

LEMMA PhysicalObserves ==
  ASSUME PhysicalInv, Physical!AcquireOccurrence \/ Physical!SourceAudit
  PROVE  PhysicalInv' /\ Physical!PhysicalKept
<1>1. job # <<>> /\ Now.do \in {"launch", "audit"} /\ disk' = disk /\ (job' = <<>> \/ job' = Tail(job))
  BY Zenon DEF Physical!AcquireOccurrence, Physical!SourceAudit, Physical!Does, Physical!Now, Now, Physical!Proceed
<1>2. Kind(Now) # <<"put", "records">>  BY <1>1 DEF Kind
<1>3. QED BY <1>1, <1>2, PhysicalPasses DEF Physical!PhysicalKept

LEMMA PhysicalWrites ==
  ASSUME PhysicalInv, Physical!WriteArtifact
  PROVE  PhysicalInv' /\ Physical!PhysicalKept
<1> DEFINE n == Now.path
           t == Tail(job)
<1>1. PICK c : job # <<>> /\ Now.do = "write" /\ disk' = disk /\ job' = Write(n, c) \o t
  BY Zenon DEF Physical!WriteArtifact, Physical!Does, Physical!Now, Now, Physical!Write, Write, Physical!Put, Put,
               Physical!Step, Step, Physical!Torn, Torn
<1>2. /\ disk = [p \in Physical!Files |-> disk[p]]
      /\ disk["records"] = Absent => \A m \in PNames : disk[m] = Absent
      /\ \A m \in PNames : <<"write", m>> \in Kinds(job) => disk[m] = Absent /\ Kinds(job) \cap On(m) = {}
  BY DEF PhysicalInv, PNames
<1>3. /\ IsJob(t)
      /\ \A e \in Items(t) \cup {Now} :
           /\ e.do = "write" => e.path \in PNames
           /\ e.do \in FileSteps /\ e.path = "records" => e.do = "put" /\ e.content # Absent
      /\ Kinds(job) = {Kind(Now)} \cup Kinds(t)
      /\ NoPair(t, Writings \cup OnAny(PNames), To("put", "records"))
      /\ NoPair(t, Writings, OnAny(PNames))
      /\ \A m \in PNames : NoPair(t, To("write", m), To("write", m))
      /\ Kind(Now) \in Writings => Kinds(t) \cap OnAny(PNames) = {}
      /\ Kind(Now) \in Writings \cup OnAny(PNames) => disk["records"] # Absent
      /\ \A m \in PNames : Kind(Now) = <<"write", m>> => <<"write", m>> \notin Kinds(t)
  BY <1>1, PhysicalRest
<1> HIDE DEF t
<1>4. n \in PNames /\ Kind(Now) = <<"write", n>>  BY <1>1, <1>3 DEF Kind
<1>5. Kind(Now) \in Writings  BY <1>4 DEF Writings, PNames
<1>6. /\ Kinds(t) \cap OnAny(PNames) = {} /\ disk["records"] # Absent
      /\ <<"write", n>> \notin Kinds(t) /\ <<"write", n>> \in Kinds(job) /\ Kinds(t) \subseteq Kinds(job)
  BY <1>3, <1>4, <1>5
<1> DEFINE w == Write(n, c)
<1>7. IsJob(w) /\ Items(w) = {Step("put", n, Torn), Step("put", n, c)} /\ Kinds(w) = {<<"put", n>>}
  BY WriteParts
<1>8. LastWrites(w \o t, PNames)  BY <1>3, <1>6, WriteIsLast
<1>9. job' = w \o t  BY <1>1 DEF t
<1> HIDE DEF w, n
<1>10. IsJob(job') /\ Kinds(job') = {<<"put", n>>} \cup Kinds(t) /\ Items(job') = Items(w) \cup Items(t)
  BY <1>3, <1>7, <1>9, Joined, JoinedKinds, JoinedItems
<1>11. ASSUME NEW e \in Items(job')
       PROVE  /\ e.do = "write" => e.path \in PNames
              /\ e.do \in FileSteps /\ e.path = "records" => e.do = "put" /\ e.content # Absent
  <2>1. \A i \in Items(w) : i.do = "put" /\ i.path = n  BY <1>7 DEF Step
  <2>2. n # "records"  BY <1>4, PhysicalNames
  <2>3. QED BY <1>3, <1>10, <2>1, <2>2
<1>12. Kinds(w) \cap Writings = {} /\ <<"put", n>> # <<"put", "records">>
  BY <1>4, <1>7, PhysicalNames DEF Writings
<1>13. NoPair(job', Writings \cup OnAny(PNames), To("put", "records"))
  <2>1. Kinds(t) \cap To("put", "records") = {}
    <3>1. <<"put", "records">> \notin Kinds(t)
      <4>1. NoPair(job, Writings \cup OnAny(PNames), To("put", "records")) /\ IsJob(job)
        BY DEF PhysicalInv, PNames
      <4>2. QED BY <1>1, <1>5, <4>1, TailNoPair DEF Now, To, t
    <3>2. QED BY <3>1 DEF To
  <2>2. Kinds(w) \cap To("put", "records") = {}  BY <1>7, <1>12 DEF To
  <2>3. Kinds(job') \cap To("put", "records") = {}  BY <1>7, <1>10, <2>1, <2>2
  <2>4. QED BY <2>3, NoPairNone
<1>14. NoPair(job', Writings, OnAny(PNames))
  <2>1. NoPair(w, Writings, OnAny(PNames))  BY <1>12, NoPairNone
  <2>2. QED BY <1>3, <1>7, <1>9, <1>12, <2>1, JoinedNoPair
<1>15. ASSUME NEW m \in PNames PROVE NoPair(job', To("write", m), To("write", m))
  <2>1. Kinds(w) \cap To("write", m) = {}  BY <1>7 DEF To
  <2>2. NoPair(w, To("write", m), To("write", m))  BY <2>1, NoPairNone
  <2>3. QED BY <1>3, <1>7, <1>9, <2>1, <2>2, JoinedNoPair
<1>16. ASSUME NEW m \in PNames
       PROVE  /\ <<"write", m>> \in Kinds(job') => disk'[m] = Absent /\ Kinds(job') \cap On(m) = {}
              /\ Kinds(job') \cap On(m) # {} => ~Whole(disk'[m])
  <2>1. Kinds(t) \cap On(m) = {}  BY <1>6 DEF On, OnAny
  <2>2. m # n => Kinds(job') \cap On(m) = {}  BY <1>10, <2>1 DEF On
  <2>3. <<"write", m>> \in Kinds(job') => m # n /\ disk'[m] = Absent
    BY <1>1, <1>2, <1>6, <1>10
  <2>4. ~Whole(disk'[n])  BY <1>1, <1>2, <1>4, <1>6 DEF Whole
  <2>5. QED BY <2>2, <2>3, <2>4
<1>17. disk' = [p \in Physical!Files |-> disk'[p]] /\ disk'["records"] # Absent
  BY <1>1, <1>2, <1>6
<1>18. PhysicalInv'
  BY <1>8, <1>9, <1>10, <1>11, <1>13, <1>14, <1>15, <1>16, <1>17, Zenon DEF PhysicalInv, PNames
<1>19. QED BY <1>1, <1>18 DEF Physical!PhysicalKept

LEMMA PhysicalPerforms ==
  ASSUME PhysicalInv, Perform(<<>>)
  PROVE  PhysicalInv' /\ Physical!PhysicalKept
<1>1. /\ disk = [p \in Physical!Files |-> disk[p]] /\ IsJob(job) /\ LastWrites(job, PNames)
      /\ disk["records"] = Absent => \A n \in PNames : disk[n] = Absent
      /\ Kinds(job) \cap (Writings \cup OnAny(PNames)) # {} =>
           disk["records"] # Absent \/ <<"put", "records">> \in Kinds(job)
      /\ \A n \in PNames : /\ <<"write", n>> \in Kinds(job) => disk[n] = Absent /\ Kinds(job) \cap On(n) = {}
                           /\ Kinds(job) \cap On(n) # {} => ~Whole(disk[n])
  BY DEF PhysicalInv, PNames
<1>2. /\ job # <<>> /\ Now.do \in FileSteps /\ disk' = [p \in Physical!Files |-> disk'[p]]
      /\ \/ job' = <<>> /\ disk' = disk
         \/ /\ job' = Tail(job)
            /\ \A p \in Physical!Files : p # Now.path => disk'[p] = disk[p]
            /\ Now.path \in Physical!Files /\ Now.do # "copy" => disk'[Now.path] = Now.content
  BY <1>1, Performed
<1>3. CASE job' = <<>> /\ disk' = disk
  BY <1>2, <1>3, PhysicalPasses DEF Physical!PhysicalKept
<1>4. CASE /\ job' = Tail(job)
           /\ \A p \in Physical!Files : p # Now.path => disk'[p] = disk[p]
           /\ Now.path \in Physical!Files /\ Now.do # "copy" => disk'[Now.path] = Now.content
  <2>1. Kind(Now) \in On(Now.path) /\ Kinds(job) = {Kind(Now)} \cup Kinds(Tail(job))
    BY <1>2, PhysicalRest DEF Kind, On
  <2>2. \A n \in PNames : n \in Physical!Files /\ n # "records"
    BY PhysicalNames
  <2>3. Physical!PhysicalKept
    <3> SUFFICES ASSUME NEW n \in PNames, Whole(disk[n]) PROVE disk'[n] = disk[n]
      BY Zenon DEF Physical!PhysicalKept, Physical!Whole, Whole, Physical!Absent, Absent, Physical!Torn, Torn, PNames
    <3>1. n # Now.path  BY <1>1, <2>1
    <3>2. QED BY <1>4, <2>2, <3>1
  <2>4. ASSUME NEW n \in PNames, <<"write", n>> \in Kinds(Tail(job)) PROVE disk'[n] = Absent
    <3>1. n # Now.path  BY <1>1, <2>1, <2>4
    <3>2. QED BY <1>1, <1>4, <2>1, <2>2, <2>4, <3>1
  <2>5. ASSUME NEW n \in PNames, Kinds(Tail(job)) \cap On(n) # {} PROVE ~Whole(disk'[n])
    <3>1. CASE n = Now.path
      <4>1. Now.do # "copy" /\ Now.content = Torn
        BY <1>1, <1>2, <2>5, <3>1, TailLastWrites DEF Now
      <4>2. QED BY <1>4, <2>2, <3>1, <4>1 DEF Whole
    <3>2. CASE n # Now.path  BY <1>1, <1>4, <2>1, <2>2, <2>5, <3>2
    <3>3. QED BY <3>1, <3>2
  <2>6. disk["records"] # Absent => disk'["records"] # Absent
    <3>1. CASE Now.path = "records"
      <4>1. Now.do = "put" /\ Now.content # Absent
        BY <1>2, <3>1, PhysicalRest
      <4>2. QED BY <1>4, <3>1, <4>1, PhysicalNames
    <3>2. CASE Now.path # "records"  BY <1>4, <3>2, PhysicalNames
    <3>3. QED BY <3>1, <3>2
  <2>7. disk'["records"] = Absent => \A n \in PNames : disk'[n] = Absent
    <3> SUFFICES ASSUME disk'["records"] = Absent, NEW n \in PNames PROVE disk'[n] = Absent
      OBVIOUS
    <3>1. disk["records"] = Absent /\ disk[n] = Absent  BY <1>1, <2>6
    <3>2. n # Now.path
      <4> SUFFICES ASSUME n = Now.path PROVE FALSE  OBVIOUS
      <4>1. Kind(Now) \in OnAny(PNames)  BY <2>1 DEF On, OnAny
      <4>2. disk["records"] # Absent  BY <1>2, <4>1, PhysicalRest
      <4>3. QED BY <3>1, <4>2
    <3>3. QED BY <1>4, <2>2, <3>1, <3>2
  <2>8. ASSUME Kinds(Tail(job)) \cap (Writings \cup OnAny(PNames)) # {}
        PROVE  disk'["records"] # Absent \/ <<"put", "records">> \in Kinds(Tail(job))
    <3>1. disk["records"] # Absent \/ <<"put", "records">> \in Kinds(job)
      BY <1>1, <2>1, <2>8
    <3>2. CASE Kind(Now) = <<"put", "records">>
      <4>1. Now.path = "records" /\ Now.do = "put"  BY <3>2 DEF Kind
      <4>2. Now.content # Absent  BY <1>2, <4>1, PhysicalRest
      <4>3. QED BY <1>4, <4>1, <4>2, PhysicalNames
    <3>3. CASE Kind(Now) # <<"put", "records">>  BY <2>1, <2>6, <3>1, <3>3
    <3>4. QED BY <3>2, <3>3
  <2>9. QED BY <1>2, <1>4, <2>3, <2>4, <2>5, <2>7, <2>8, PhysicalGoesOn
<1>5. QED BY <1>2, <1>3, <1>4

\* An artifact that is still to be written is not there, and one that is there stays as it is.
LEMMA PhysicalKeeps ==
  ASSUME PhysicalInv, Physical!PhysicalNext
  PROVE  PhysicalInv' /\ Physical!PhysicalKept
<1>1. Physical!Perform(<<>>) => Perform(<<>>)  BY PerformSame
<1>2. QED
  BY <1>1, PhysicalIdle, PhysicalAcquires, PhysicalObserves, PhysicalWrites, PhysicalPerforms
     DEF Physical!PhysicalNext, Physical!PhysicalCommands

-----------------------------------------------------------------------------
(* The release of the spatial topology: its one job *)

LEMMA TopologySame ==
  /\ Topology!Absent = Absent /\ Topology!Torn = Torn
  /\ \A p, c : Topology!Make(p, c) = Make(p, c)
  /\ \A p : Topology!Remove(p) = Remove(p)
  /\ \A do, r : Topology!Does1(do, r) = <<Step(do, r, Absent)>>
<1>1. Topology!Absent = Absent /\ Topology!Torn = Torn
  BY Zenon DEF Topology!Absent, Absent, Topology!Torn, Torn
<1>2. \A p, c : Topology!Make(p, c) = Make(p, c)
  BY Zenon DEF Topology!Make, Make, Topology!Put, Put, Topology!Step, Step, Topology!Torn, Torn
<1>3. \A p : Topology!Remove(p) = Remove(p)
  BY Zenon DEF Topology!Remove, Remove, Topology!Step, Step, Topology!Torn, Torn, Topology!Absent, Absent
<1>4. \A do, r : Topology!Does1(do, r) = <<Step(do, r, Absent)>>
  BY Zenon DEF Topology!Does1, Topology!Step, Step, Topology!Absent, Absent
<1>5. QED BY <1>1, <1>2, <1>3, <1>4

LEMMA TopologyNames ==
  /\ {"staging", "source", "return", "release"} \subseteq Topology!Places
  /\ Topology!Roles \cup {"staging"} \subseteq Topology!Places
  /\ {"source", "return", "additional_directory", "noncanonical_launch_receipt", "altered_materialization_map", "cross_row"}
       = Topology!Roles
  /\ "staging" \notin Topology!Roles /\ "release" \notin Topology!Roles \cup {"staging"}
  BY DEF Topology!Places, Topology!Roles, Topology!Cases, Topology!CompiledCases

\* Every step has three words; each has its place in the plan of acquire.
Words == {"do", "path", "content"}

LEMMA StepIsWorded == ASSUME NEW d, NEW p, NEW c PROVE DOMAIN Step(d, p, c) = Words
  BY DEF Step, Words

Running == Topology!Roles \ {"additional_directory"}

\* The steps of acquire in their order, and where the process of a role is launched and killed.
Plan == <<
  <<"make", "staging">>, <<"put", "staging">>,
  <<"make", "source">>, <<"put", "source">>, <<"inventory", "source">>, <<"launch", "source">>, <<"receipt", "source">>,
  <<"alive", "source">>, <<"kill", "source">>, <<"audit", "source">>, <<"keep", "source">>,
  <<"empty", "source">>, <<"drop", "source">>, <<"resolve", "source">>,
  <<"make", "return">>, <<"put", "return">>, <<"inventory", "return">>, <<"prelaunch", "return">>, <<"launch", "return">>,
  <<"receipt", "return">>, <<"kill", "return">>, <<"audit", "return">>, <<"keep", "return">>,
  <<"make", "additional_directory">>, <<"put", "additional_directory">>,
  <<"gate", "additional_directory">>, <<"keep", "additional_directory">>,
  <<"make", "noncanonical_launch_receipt">>, <<"put", "noncanonical_launch_receipt">>,
  <<"launch", "noncanonical_launch_receipt">>, <<"refusal", "noncanonical_launch_receipt">>,
  <<"kill", "noncanonical_launch_receipt">>, <<"audit", "noncanonical_launch_receipt">>,
  <<"keep", "noncanonical_launch_receipt">>,
  <<"make", "altered_materialization_map">>, <<"put", "altered_materialization_map">>,
  <<"launch", "altered_materialization_map">>, <<"refusal", "altered_materialization_map">>,
  <<"kill", "altered_materialization_map">>, <<"audit", "altered_materialization_map">>,
  <<"keep", "altered_materialization_map">>,
  <<"make", "cross_row">>, <<"put", "cross_row">>, <<"launch", "cross_row">>, <<"refusal", "cross_row">>,
  <<"kill", "cross_row">>, <<"audit", "cross_row">>, <<"keep", "cross_row">>,
  <<"members", "staging">>, <<"publish", "staging">> >>
KilledAt(r) ==
  CASE r = "source" -> 9 [] r = "return" -> 21 [] r = "noncanonical_launch_receipt" -> 32
    [] r = "altered_materialization_map" -> 39 [] OTHER -> 46
LaunchedAt(r) ==
  CASE r = "source" -> 6 [] r = "return" -> 19 [] r = "noncanonical_launch_receipt" -> 30
    [] r = "altered_materialization_map" -> 37 [] OTHER -> 44
ToldAt(r) == IF r = "source" THEN 7 ELSE KilledAt(r) - 1
KeptAt(r) == IF r = "additional_directory" THEN 27 ELSE KilledAt(r) + 2

\* The steps of s are n of the plan, from the k-th on.
Fits(e, k) == Kind(e) = Plan[k] /\ DOMAIN e = Words /\ Shaped(e) /\ (k = 2 => e.content = Copies(<<>>))
Follows(s, k, n) == IsJob(s) /\ Len(s) = n /\ \A i \in 1..n : Fits(s[i], k + i - 1)

LEMMA FollowsOn ==
  ASSUME NEW s, NEW t, NEW k \in Nat, NEW n \in Nat, NEW m \in Nat, Follows(s, k, n), Follows(t, k + n, m)
  PROVE  Follows(s \o t, k, n + m)
<1>1. /\ IsJob(s) /\ Len(s) = n /\ IsJob(t) /\ Len(t) = m
      /\ \A i \in 1..n : Fits(s[i], k + i - 1)
      /\ \A i \in 1..m : Fits(t[i], k + n + i - 1)
  BY DEF Follows
<1>2. /\ IsJob(s \o t) /\ Len(s \o t) = n + m /\ DOMAIN s = 1..n /\ DOMAIN t = 1..m
      /\ \A i \in DOMAIN s : (s \o t)[i] = s[i]
      /\ \A i \in DOMAIN t : (s \o t)[n + i] = t[i]
  <2>1. /\ IsJob(s \o t) /\ Len(s \o t) = Len(s) + Len(t) /\ DOMAIN s = 1..Len(s) /\ DOMAIN t = 1..Len(t)
        /\ \A i \in DOMAIN s : (s \o t)[i] = s[i]
        /\ \A i \in DOMAIN t : (s \o t)[Len(s) + i] = t[i]
    <3>1. IsJob(s) /\ IsJob(t)  BY <1>1
    <3>2. QED BY <3>1, Joined
  <2>2. QED BY <1>1, <2>1, Zenon
<1>3. ASSUME NEW i \in 1..(n + m) PROVE Fits((s \o t)[i], k + i - 1)
  <2>1. CASE i \in 1..n  BY <1>1, <1>2, <2>1
  <2>2. CASE i \notin 1..n
    <3>1. i - n \in 1..m /\ i = n + (i - n) /\ k + n + (i - n) - 1 = k + i - 1
      BY <2>2
    <3>2. (s \o t)[i] = t[i - n]  BY <1>2, <3>1
    <3>3. Fits(t[i - n], k + n + (i - n) - 1)  BY <1>1, <3>1
    <3>4. QED BY <3>1, <3>2, <3>3
  <2>3. QED BY <2>1, <2>2
<1>4. QED BY <1>2, <1>3 DEF Follows

LEMMA OneFollows ==
  ASSUME NEW do, NEW r, NEW c, NEW k \in Nat, Plan[k] = <<do, r>>, Shaped(Step(do, r, c)), k = 2 => c = Copies(<<>>)
  PROVE  Follows(<<Step(do, r, c)>>, k, 1)
<1> DEFINE e == Step(do, r, c)
<1>1. Kind(e) = <<do, r>> /\ DOMAIN e = Words /\ e.content = c /\ Shaped(e)
  BY StepIsWorded DEF Kind, Step
<1> HIDE DEF e
<1>2. Fits(e, k)  BY <1>1 DEF Fits
<1>3. IsJob(<<e>>) /\ Len(<<e>>) = 1 /\ <<e>>[1] = e  BY OneStep
<1>4. \A i \in 1..1 : i = 1 /\ k + i - 1 = k  OBVIOUS
<1>5. Follows(<<e>>, k, 1)  BY <1>2, <1>3, <1>4 DEF Follows
<1>6. QED BY <1>5 DEF e

LEMMA WordFollows ==
  ASSUME NEW do, NEW r, NEW k \in Nat, Plan[k] = <<do, r>>, do \notin FileSteps, k # 2
  PROVE  Follows(Topology!Does1(do, r), k, 1)
<1>1. Shaped(Step(do, r, Absent))  BY DEF Shaped, Step, FileSteps
<1>2. QED BY <1>1, TopologySame, OneFollows

LEMMA MakeFollows ==
  ASSUME NEW r, NEW c, NEW k \in Nat, Plan[k] = <<"make", r>>, NEW j, j = k + 1, Plan[j] = <<"put", r>>,
         c # Absent, k > 2 \/ (k = 1 /\ c = Copies(<<>>))
  PROVE  Follows(Topology!Make(r, c), k, 2)
<1> DEFINE a == <<Step("make", r, Torn)>>
           b == <<Step("put", r, c)>>
<1>1. Topology!Make(r, c) = a \o b  BY TopologySame DEF Make, Put
<1>2. Shaped(Step("make", r, Torn)) /\ Shaped(Step("put", r, c))
  BY DEF Shaped, Step, Torn, Absent
<1>3. Follows(a, k, 1) /\ Follows(b, k + 1, 1)  BY <1>2, OneFollows
<1> HIDE DEF a, b
<1>4. QED BY <1>1, <1>3, FollowsOn

LEMMA RemoveFollows ==
  ASSUME NEW r, NEW k \in Nat, Plan[k] = <<"empty", r>>, Plan[k + 1] = <<"drop", r>>, k > 2
  PROVE  Follows(Topology!Remove(r), k, 2)
<1> DEFINE a == <<Step("empty", r, Torn)>>
           b == <<Step("drop", r, Absent)>>
<1>1. Topology!Remove(r) = <<Step("empty", r, Torn), Step("drop", r, Absent)>>
  BY TopologySame DEF Remove
<1> DEFINE s == Topology!Remove(r)
<1>2. Kind(Step("empty", r, Torn)) = <<"empty", r>> /\ Kind(Step("drop", r, Absent)) = <<"drop", r>>
  BY DEF Kind, Step
<1>3. Fits(Step("empty", r, Torn), k) /\ Fits(Step("drop", r, Absent), k + 1)
  BY <1>2, StepIsWorded DEF Fits, Shaped, Step
<1>4. IsJob(s)  BY TopologySame, RemoveParts
<1>5. Len(s) = 2 /\ s[1] = Step("empty", r, Torn) /\ s[2] = Step("drop", r, Absent)
  BY <1>1
<1>6. \A i \in 1..2 : (i = 1 /\ k + i - 1 = k) \/ (i = 2 /\ k + i - 1 = k + 1)
  OBVIOUS
<1> HIDE DEF s
<1>7. Follows(s, k, 2)  BY <1>3, <1>4, <1>5, <1>6 DEF Follows
<1>8. QED BY <1>7 DEF s

\* The input of a process is something.
LEMMA InputFollows ==
  ASSUME NEW r, NEW b, NEW k \in Nat, Plan[k] = <<"make", r>>, NEW j, j = k + 1, Plan[j] = <<"put", r>>, k > 2
  PROVE  Follows(Topology!Make(r, Topology!File("input", b)), k, 2)
<1>1. Topology!File("input", b) = <<"input", b>> /\ Absent = <<"absent">>
  BY Zenon DEF Topology!File, Absent
<1>2. <<"input", b>> # <<"absent">>  OBVIOUS
<1>3. Topology!File("input", b) # Absent  BY <1>1, <1>2, Zenon
<1>4. QED BY <1>3, MakeFollows

LEMMA AcquiresFollow ==
  ASSUME NEW r, NEW s, NEW t, NEW k \in Nat, NEW n \in Nat, NEW m \in Nat, k > 2,
         NEW l, NEW j, NEW i, NEW h, NEW q, l = k + n, j = l + 1, i = j + m, h = i + 1, q = n + m + 3,
         Follows(s, k, n), Plan[l] = <<"launch", r>>, Follows(t, j, m), Plan[i] = <<"kill", r>>, Plan[h] = <<"audit", r>>
  PROVE  Follows(Topology!Acquires(r, s, t), k, q)
<1> DEFINE a == Topology!Does1("launch", r)
           b == Topology!Does1("kill", r)
           c == Topology!Does1("audit", r)
<1>1. Topology!Acquires(r, s, t) = s \o a \o t \o b \o c
  BY Zenon DEF Topology!Acquires
<1>2. Follows(a, l, 1) /\ Follows(b, i, 1) /\ Follows(c, h, 1)
  BY WordFollows DEF FileSteps
<1> HIDE DEF a, b, c
<1>3. Follows(s \o a, k, n + 1)  BY <1>2, FollowsOn
<1> DEFINE u == s \o a
           v == u \o t
<1> HIDE DEF u
<1>4. /\ k + (n + 1) = j /\ n + 1 \in Nat /\ n + 1 + m \in Nat /\ n + 1 + m + 1 \in Nat
      /\ k + (n + 1 + m) = i /\ k + (n + 1 + m + 1) = h
  OBVIOUS
<1>5. Follows(v, k, n + 1 + m)  BY <1>3, <1>4, FollowsOn DEF u
<1> HIDE DEF v
<1>6. Follows(v \o b, k, n + 1 + m + 1)  BY <1>2, <1>4, <1>5, FollowsOn
<1> DEFINE w == v \o b
<1> HIDE DEF w
<1>7. Follows(w \o c, k, n + 1 + m + 1 + 1)
  BY <1>2, <1>4, <1>6, FollowsOn DEF w
<1>8. n + 1 + m + 1 + 1 = q  OBVIOUS
<1>9. QED BY <1>1, <1>7, <1>8 DEF u, v, w

LEMMA NegativeFollows ==
  ASSUME NEW r, NEW k \in Nat, k > 2, r \in Topology!CompiledCases,
         Plan[k] = <<"make", r>>, Plan[k + 1] = <<"put", r>>, Plan[k + 2] = <<"launch", r>>, Plan[k + 3] = <<"refusal", r>>,
         Plan[k + 4] = <<"kill", r>>, Plan[k + 5] = <<"audit", r>>, Plan[k + 6] = <<"keep", r>>
  PROVE  Follows(Topology!NegativeCase(r), k, 7)
<1> DEFINE a == Topology!Make(r, Topology!File("input", Topology!PrepareNegativeCase(r)))
           t == Topology!Does1("refusal", r)
           b == Topology!Acquires(r, <<>>, t)
           c == Topology!Does1("keep", r)
<1>1. Topology!NegativeCase(r) = a \o b \o c
  BY Zenon DEF Topology!NegativeCase
<1>2. Follows(a, k, 2) /\ Follows(t, k + 3, 1) /\ Follows(c, k + 6, 1)
  <2>1. Follows(a, k, 2)  BY InputFollows
  <2>2. k + 3 \in Nat /\ k + 6 \in Nat /\ k + 3 # 2 /\ k + 6 # 2  OBVIOUS
  <2>3. QED BY <2>1, <2>2, WordFollows DEF FileSteps
<1>3. Follows(<<>>, k + 2, 0)  BY EmptyJob DEF Follows
<1> HIDE DEF a, t, c
<1>4. ASSUME NEW k2, NEW k3, NEW k4, NEW k5, k2 = k + 2, k3 = k2 + 1, k4 = k3 + 1, k5 = k4 + 1
      PROVE  Follows(b, k2, 4)
  <2>1. k2 \in Nat /\ k2 > 2 /\ k2 = k2 + 0 /\ k3 = k + 3 /\ k4 = k + 4 /\ k5 = k + 5 /\ 4 = 0 + 1 + 3
    BY <1>4
  <2>2. /\ Plan[k2] = <<"launch", r>> /\ Plan[k4] = <<"kill", r>> /\ Plan[k5] = <<"audit", r>>
        /\ Follows(<<>>, k2, 0) /\ Follows(t, k3, 1)
    BY <1>2, <1>3, <1>4, <2>1
  <2>3. QED BY <1>4, <2>1, <2>2, AcquiresFollow
<1>5. Follows(b, k + 2, 4)  BY <1>4
<1> HIDE DEF b
<1>6. Follows(a \o b, k, 2 + 4)  BY <1>2, <1>5, FollowsOn
<1> DEFINE d == a \o b
<1> HIDE DEF d
<1>7. Follows(d \o c, k, 6 + 1)
  <2>1. Follows(d, k, 6)  BY <1>6 DEF d
  <2>2. QED BY <1>2, <2>1, FollowsOn
<1>8. QED BY <1>1, <1>7 DEF d

SourceRun ==
  Topology!Make("source", Topology!File("input", Topology!Bundle("R0")))
    \o Topology!Acquires("source", Topology!Does1("inventory", "source"),
                         Topology!Does1("receipt", "source") \o Topology!Does1("alive", "source"))
    \o Topology!Does1("keep", "source") \o Topology!Remove("source") \o Topology!Does1("resolve", "source")

ReturnRun ==
  Topology!Make("return", Topology!File("input", Topology!Bundle("R1")))
    \o Topology!Acquires("return", Topology!Does1("inventory", "return") \o Topology!Does1("prelaunch", "return"),
                         Topology!Does1("receipt", "return"))
    \o Topology!Does1("keep", "return")

LEMMA SourceFollows == Follows(SourceRun, 3, 12)
<1> DEFINE r == "source"
           a == Topology!Make(r, Topology!File("input", Topology!Bundle("R0")))
           s == Topology!Does1("inventory", r)
           t1 == Topology!Does1("receipt", r)
           t2 == Topology!Does1("alive", r)
           b == Topology!Acquires(r, s, t1 \o t2)
           c == Topology!Does1("keep", r)
           d == Topology!Remove(r)
           e == Topology!Does1("resolve", r)
<1>1. SourceRun = a \o b \o c \o d \o e  BY DEF SourceRun
<1>2. /\ Plan[3] = <<"make", r>> /\ Plan[4] = <<"put", r>> /\ Plan[5] = <<"inventory", r>> /\ Plan[6] = <<"launch", r>>
      /\ Plan[7] = <<"receipt", r>> /\ Plan[8] = <<"alive", r>> /\ Plan[9] = <<"kill", r>> /\ Plan[10] = <<"audit", r>>
      /\ Plan[11] = <<"keep", r>> /\ Plan[12] = <<"empty", r>> /\ Plan[13] = <<"drop", r>> /\ Plan[14] = <<"resolve", r>>
  BY DEF Plan
<1>3. \A b0 : Follows(Topology!Make(r, Topology!File("input", b0)), 3, 2)
  <2>1. Plan[3] = <<"make", r>> /\ Plan[4] = <<"put", r>>  BY <1>2
  <2>2. QED BY <2>1, InputFollows
<1>4. /\ Follows(s, 5, 1) /\ Follows(t1, 7, 1) /\ Follows(t2, 8, 1) /\ Follows(c, 11, 1) /\ Follows(d, 12, 2)
      /\ Follows(e, 14, 1)
  BY <1>2, WordFollows, RemoveFollows DEF FileSteps
<1> HIDE DEF s, t1, t2, c, d, e
<1>5. Follows(a, 3, 2)  BY <1>3
<1> HIDE DEF a
<1>6. Follows(t1 \o t2, 7, 2)  BY <1>4, FollowsOn
<1>7. Follows(b, 5, 6)
  <2> DEFINE t == t1 \o t2
             k == 5  l == 6  j == 7  i == 9  h == 10  n == 1  m == 2  q == 6
  <2>1. /\ Plan[l] = <<"launch", r>> /\ Plan[i] = <<"kill", r>> /\ Plan[h] = <<"audit", r>>
        /\ Follows(s, k, n) /\ Follows(t, j, m)
    BY <1>2, <1>4, <1>6
  <2>2. k \in Nat /\ n \in Nat /\ m \in Nat /\ k > 2 /\ l = k + n /\ j = l + 1 /\ i = j + m /\ h = i + 1 /\ q = n + m + 3
    OBVIOUS
  <2> HIDE DEF r, t, k, l, j, i, h, n, m, q
  <2>3. Follows(Topology!Acquires(r, s, t), k, q)
    BY <2>1, <2>2, AcquiresFollow
  <2>4. QED BY <2>3 DEF t, k, q
<1> HIDE DEF b, r
<1>8. Follows(a \o b, 3, 8)  BY <1>5, <1>7, FollowsOn
<1>9. Follows((a \o b) \o c, 3, 9)  BY <1>4, <1>8, FollowsOn
<1>10. Follows(((a \o b) \o c) \o d, 3, 11)  BY <1>4, <1>9, FollowsOn
<1>11. Follows((((a \o b) \o c) \o d) \o e, 3, 12)  BY <1>4, <1>10, FollowsOn
<1>12. QED BY <1>1, <1>11

LEMMA ReturnFollows == Follows(ReturnRun, 15, 9)
<1> DEFINE r == "return"
           a == Topology!Make(r, Topology!File("input", Topology!Bundle("R1")))
           s1 == Topology!Does1("inventory", r)
           s2 == Topology!Does1("prelaunch", r)
           t == Topology!Does1("receipt", r)
           b == Topology!Acquires(r, s1 \o s2, t)
           c == Topology!Does1("keep", r)
<1>1. ReturnRun = a \o b \o c  BY DEF ReturnRun
<1>2. /\ Plan[15] = <<"make", r>> /\ Plan[16] = <<"put", r>> /\ Plan[17] = <<"inventory", r>> /\ Plan[18] = <<"prelaunch", r>>
      /\ Plan[19] = <<"launch", r>> /\ Plan[20] = <<"receipt", r>> /\ Plan[21] = <<"kill", r>> /\ Plan[22] = <<"audit", r>>
      /\ Plan[23] = <<"keep", r>>
  BY DEF Plan
<1>3. \A b0 : Follows(Topology!Make(r, Topology!File("input", b0)), 15, 2)
  <2>1. Plan[15] = <<"make", r>> /\ Plan[16] = <<"put", r>>  BY <1>2
  <2>2. QED BY <2>1, InputFollows
<1>4. Follows(s1, 17, 1) /\ Follows(s2, 18, 1) /\ Follows(t, 20, 1) /\ Follows(c, 23, 1)
  BY <1>2, WordFollows DEF FileSteps
<1> HIDE DEF s1, s2, t, c
<1>5. Follows(a, 15, 2)  BY <1>3
<1> HIDE DEF a
<1>6. Follows(s1 \o s2, 17, 2)  BY <1>4, FollowsOn
<1>7. Follows(b, 17, 6)
  <2> DEFINE s == s1 \o s2
             k == 17  l == 19  j == 20  i == 21  h == 22  n == 2  m == 1  q == 6
  <2>1. /\ Plan[l] = <<"launch", r>> /\ Plan[i] = <<"kill", r>> /\ Plan[h] = <<"audit", r>>
        /\ Follows(s, k, n) /\ Follows(t, j, m)
    BY <1>2, <1>4, <1>6
  <2>2. k \in Nat /\ n \in Nat /\ m \in Nat /\ k > 2 /\ l = k + n /\ j = l + 1 /\ i = j + m /\ h = i + 1 /\ q = n + m + 3
    OBVIOUS
  <2> HIDE DEF r, s, k, l, j, i, h, n, m, q
  <2>3. Follows(Topology!Acquires(r, s, t), k, q)
    BY <2>1, <2>2, AcquiresFollow
  <2>4. QED BY <2>3 DEF s, k, q
<1> HIDE DEF b, r
<1>8. Follows(a \o b, 15, 8)  BY <1>5, <1>7, FollowsOn
<1>9. Follows((a \o b) \o c, 15, 9)  BY <1>4, <1>8, FollowsOn
<1>10. QED BY <1>1, <1>9

LEMMA GateFollows == Follows(Topology!NegativeCase("additional_directory"), 24, 4)
<1> DEFINE r == "additional_directory"
           a == Topology!Make(r, Topology!File("input", Topology!PrepareNegativeCase(r)))
           b == Topology!Does1("gate", r)
           c == Topology!Does1("keep", r)
<1>1. r \notin Topology!CompiledCases  BY DEF Topology!CompiledCases
<1>2. Topology!NegativeCase(r) = a \o b \o c
  BY <1>1, Zenon DEF Topology!NegativeCase
<1>3. /\ Plan[24] = <<"make", r>> /\ Plan[25] = <<"put", r>> /\ Plan[26] = <<"gate", r>> /\ Plan[27] = <<"keep", r>>
  BY DEF Plan
<1>4. ASSUME NEW b0 PROVE Follows(Topology!Make(r, Topology!File("input", b0)), 24, 2)
  <2> DEFINE k == 24  j == 25
  <2>1. Plan[k] = <<"make", r>> /\ Plan[j] = <<"put", r>> /\ k \in Nat /\ k > 2 /\ j = k + 1
    BY <1>3
  <2> HIDE DEF r, k, j
  <2>2. Follows(Topology!Make(r, Topology!File("input", b0)), k, 2)
    BY <2>1, InputFollows
  <2>3. QED BY <2>2 DEF k
<1>5. Follows(b, 26, 1) /\ Follows(c, 27, 1)
  BY <1>3, WordFollows DEF FileSteps
<1>6. Follows(a, 24, 2)  BY <1>4
<1> HIDE DEF a, b, c
<1>7. Follows(a \o b, 24, 3)  BY <1>5, <1>6, FollowsOn
<1>8. Follows((a \o b) \o c, 24, 4)  BY <1>5, <1>7, FollowsOn
<1>9. QED BY <1>2, <1>8

LEMMA AcquireFollows == Follows(Topology!AcquireStaged, 1, 50)
<1> DEFINE base == Topology!Make("staging", Topology!Copies(<<>>))
           n1 == Topology!NegativeCase("additional_directory")
           n2 == Topology!NegativeCase("noncanonical_launch_receipt")
           n3 == Topology!NegativeCase("altered_materialization_map")
           n4 == Topology!NegativeCase("cross_row")
           members == Topology!Does1("members", "staging")
           publish == Topology!Does1("publish", "staging")
           s2 == (base \o SourceRun) \o ReturnRun
<1>1. Topology!AcquireStaged = s2 \o n1 \o n2 \o n3 \o n4 \o members \o publish
  BY Zenon DEF Topology!AcquireStaged, SourceRun, ReturnRun
<1>2. Follows(base, 1, 2)
  <2>1. Plan[1] = <<"make", "staging">> /\ Plan[2] = <<"put", "staging">>
    BY DEF Plan
  <2>2. Topology!Copies(<<>>) = Copies(<<>>)
    BY Zenon DEF Topology!Copies, Topology!File, Copies, File
  <2>3. Copies(<<>>) # Absent  BY DEF Copies, File, Absent
  <2>4. ASSUME NEW x, x = Copies(<<>>), x # Absent PROVE Follows(Topology!Make("staging", x), 1, 2)
    BY <2>1, <2>4, MakeFollows
  <2>5. QED BY <2>2, <2>3, <2>4
<1>3. /\ Plan[49] = <<"members", "staging">> /\ Plan[50] = <<"publish", "staging">>
  BY DEF Plan
<1>4. Follows(members, 49, 1) /\ Follows(publish, 50, 1)
  BY <1>3, WordFollows DEF FileSteps
<1>5. Follows(n1, 24, 4)  BY GateFollows
<1>6. {"noncanonical_launch_receipt", "altered_materialization_map", "cross_row"} = Topology!CompiledCases
  BY DEF Topology!CompiledCases
<1>7. Follows(n2, 28, 7)
  <2> DEFINE r == "noncanonical_launch_receipt"
  <2>1. /\ Plan[28] = <<"make", r>> /\ Plan[29] = <<"put", r>> /\ Plan[30] = <<"launch", r>> /\ Plan[31] = <<"refusal", r>>
        /\ Plan[32] = <<"kill", r>> /\ Plan[33] = <<"audit", r>> /\ Plan[34] = <<"keep", r>>
    BY DEF Plan
  <2>2. QED BY <1>6, <2>1, NegativeFollows
<1>8. Follows(n3, 35, 7)
  <2> DEFINE r == "altered_materialization_map"
  <2>1. /\ Plan[35] = <<"make", r>> /\ Plan[36] = <<"put", r>> /\ Plan[37] = <<"launch", r>> /\ Plan[38] = <<"refusal", r>>
        /\ Plan[39] = <<"kill", r>> /\ Plan[40] = <<"audit", r>> /\ Plan[41] = <<"keep", r>>
    BY DEF Plan
  <2>2. QED BY <1>6, <2>1, NegativeFollows
<1>9. Follows(n4, 42, 7)
  <2> DEFINE r == "cross_row"
  <2>1. /\ Plan[42] = <<"make", r>> /\ Plan[43] = <<"put", r>> /\ Plan[44] = <<"launch", r>> /\ Plan[45] = <<"refusal", r>>
        /\ Plan[46] = <<"kill", r>> /\ Plan[47] = <<"audit", r>> /\ Plan[48] = <<"keep", r>>
    BY DEF Plan
  <2>2. QED BY <1>6, <2>1, NegativeFollows
<1> HIDE DEF base, n1, n2, n3, n4, members, publish
<1>10. Follows(base \o SourceRun, 1, 14)  BY <1>2, SourceFollows, FollowsOn
<1>11. Follows(s2, 1, 23)  BY <1>10, ReturnFollows, FollowsOn
<1> HIDE DEF s2
<1>12. Follows(s2 \o n1, 1, 27)  BY <1>5, <1>11, FollowsOn
<1>13. Follows((s2 \o n1) \o n2, 1, 34)  BY <1>7, <1>12, FollowsOn
<1>14. Follows(((s2 \o n1) \o n2) \o n3, 1, 41)  BY <1>8, <1>13, FollowsOn
<1>15. Follows((((s2 \o n1) \o n2) \o n3) \o n4, 1, 48)
  BY <1>9, <1>14, FollowsOn
<1>16. Follows(((((s2 \o n1) \o n2) \o n3) \o n4) \o members, 1, 49)
  BY <1>4, <1>15, FollowsOn
<1>17. Follows((((((s2 \o n1) \o n2) \o n3) \o n4) \o members) \o publish, 1, 50)
  BY <1>4, <1>16, FollowsOn
<1>18. QED BY <1>1, <1>17

\* What a step of the plan is about, and where the plan has what is done with a process.
LEMMA PlanSays ==
  ASSUME NEW k \in 1..50
  PROVE  /\ Plan[k] = <<Plan[k][1], Plan[k][2]>>
         /\ Plan[k] = <<"publish", "staging">> <=> k = 50
         /\ Plan[k] \in On("staging") => k \in {1, 2}
         /\ k = 2 => Plan[k] = <<"put", "staging">>
         /\ Plan[k][1] = "keep" => Plan[k][2] \in Topology!Roles /\ KeptAt(Plan[k][2]) = k
         /\ Plan[k][1] \in {"launch", "kill"} => Plan[k][2] \in Running
         /\ Plan[k][1] = "launch" => k < ToldAt(Plan[k][2])
         /\ Plan[k][1] = "kill" => KilledAt(Plan[k][2]) = k
<1>1. /\ Plan[k] = <<Plan[k][1], Plan[k][2]>> /\ (Plan[k] = <<"publish", "staging">> <=> k = 50)
      /\ k = 2 => Plan[k] = <<"put", "staging">>
  BY DEF Plan
<1>2. Plan[k][1] \in FileSteps /\ Plan[k][2] = "staging" => k \in {1, 2}
  BY DEF Plan, FileSteps
<1>3. Plan[k] \in On("staging") => k \in {1, 2}  BY <1>2 DEF On
<1>4. /\ Plan[k][1] = "keep" => k \in {11, 23, 27, 34, 41, 48}
      /\ Plan[k][1] = "launch" => k \in {6, 19, 30, 37, 44}
      /\ Plan[k][1] = "kill" => k \in {9, 21, 32, 39, 46}
  BY DEF Plan
<1>5. /\ Plan[11][2] = "source" /\ Plan[23][2] = "return" /\ Plan[27][2] = "additional_directory"
      /\ Plan[34][2] = "noncanonical_launch_receipt" /\ Plan[41][2] = "altered_materialization_map" /\ Plan[48][2] = "cross_row"
      /\ Plan[6][2] = "source" /\ Plan[19][2] = "return" /\ Plan[30][2] = "noncanonical_launch_receipt"
      /\ Plan[37][2] = "altered_materialization_map" /\ Plan[44][2] = "cross_row"
      /\ Plan[9][2] = "source" /\ Plan[21][2] = "return" /\ Plan[32][2] = "noncanonical_launch_receipt"
      /\ Plan[39][2] = "altered_materialization_map" /\ Plan[46][2] = "cross_row"
  BY DEF Plan
<1>6. Plan[k][1] = "keep" => Plan[k][2] \in Topology!Roles /\ KeptAt(Plan[k][2]) = k
  BY <1>4, <1>5, TopologyNames DEF KeptAt, KilledAt
<1>7. /\ Plan[k][1] = "launch" => Plan[k][2] \in Running /\ k < ToldAt(Plan[k][2])
      /\ Plan[k][1] = "kill" => Plan[k][2] \in Running /\ KilledAt(Plan[k][2]) = k
  BY <1>4, <1>5, TopologyNames DEF ToldAt, KilledAt, Running
<1>8. QED BY <1>1, <1>3, <1>6, <1>7

LEMMA PlanHas ==
  /\ \A r \in Running : /\ Plan[ToldAt(r)] = IF r \in {"source", "return"} THEN <<"receipt", r>> ELSE <<"refusal", r>>
                        /\ Plan[KilledAt(r)] = <<"kill", r>> /\ Plan[KilledAt(r) + 1] = <<"audit", r>>
                        /\ KilledAt(r) \in Nat /\ ToldAt(r) \in 7..45 /\ ToldAt(r) < KilledAt(r) /\ KeptAt(r) = KilledAt(r) + 2
  /\ \A r \in Topology!Roles : Plan[KeptAt(r)] = <<"keep", r>> /\ KeptAt(r) \in 3..48
<1>1. Running = {"source", "return", "noncanonical_launch_receipt", "altered_materialization_map", "cross_row"}
  BY TopologyNames DEF Running
<1>2. \A r \in Running : /\ Plan[ToldAt(r)] = IF r \in {"source", "return"} THEN <<"receipt", r>> ELSE <<"refusal", r>>
                         /\ Plan[KilledAt(r)] = <<"kill", r>> /\ Plan[KilledAt(r) + 1] = <<"audit", r>>
  <2>1. /\ ToldAt("source") = 7 /\ KilledAt("source") = 9 /\ ToldAt("return") = 20 /\ KilledAt("return") = 21
        /\ ToldAt("noncanonical_launch_receipt") = 31 /\ KilledAt("noncanonical_launch_receipt") = 32
        /\ ToldAt("altered_materialization_map") = 38 /\ KilledAt("altered_materialization_map") = 39
        /\ ToldAt("cross_row") = 45 /\ KilledAt("cross_row") = 46
    BY DEF ToldAt, KilledAt
  <2>2. /\ Plan[7] = <<"receipt", "source">> /\ Plan[9] = <<"kill", "source">> /\ Plan[9 + 1] = <<"audit", "source">>
        /\ Plan[20] = <<"receipt", "return">> /\ Plan[21] = <<"kill", "return">> /\ Plan[21 + 1] = <<"audit", "return">>
    BY DEF Plan
  <2>3. \A i \in {31, 38, 45} : LET r == Plan[i][2]
                                IN Plan[i] = <<"refusal", r>> /\ Plan[i + 1] = <<"kill", r>> /\ Plan[i + 2] = <<"audit", r>>
    BY DEF Plan
  <2>4. /\ Plan[31][2] = "noncanonical_launch_receipt" /\ Plan[38][2] = "altered_materialization_map"
        /\ Plan[45][2] = "cross_row"
    BY DEF Plan
  <2>5. \A r \in Running \ {"source", "return"} :
          Plan[ToldAt(r)] = <<"refusal", r>> /\ Plan[KilledAt(r)] = <<"kill", r>> /\ Plan[KilledAt(r) + 1] = <<"audit", r>>
    BY <1>1, <2>1, <2>3, <2>4
  <2>6. QED BY <1>1, <2>1, <2>2, <2>5
<1>3. \A r \in Running : /\ KilledAt(r) \in Nat /\ ToldAt(r) \in 7..45 /\ ToldAt(r) < KilledAt(r) /\ KeptAt(r) = KilledAt(r) + 2
  BY <1>1 DEF ToldAt, KilledAt, KeptAt
<1>4. \A r \in Topology!Roles : Plan[KeptAt(r)] = <<"keep", r>> /\ KeptAt(r) \in 3..48
  BY TopologyNames DEF Plan, KeptAt, KilledAt
<1>5. QED BY <1>2, <1>3, <1>4

\* What is written where, and which steps are about the source and the return.
LEMMA PlanPlaces ==
  ASSUME NEW k \in 1..50
  PROVE  /\ Plan[k][2] \in Topology!Roles \cup {"staging"}
         /\ Plan[k] \in Ending => k = 50
         /\ Plan[k] \in On("return") => k \in {15, 16}
         /\ Plan[k] = <<"kill", "source">> => k = 9
         /\ Plan[k] = <<"drop", "source">> => k = 13
         /\ Plan[k] \in Making("source") => k < 13
         /\ Plan[k][1] = "launch" => Plan[k][2] \in Running /\ k = LaunchedAt(Plan[k][2])
<1>1. /\ Plan[k][2] \in Topology!Roles \cup {"staging"}
      /\ Plan[k] \in Ending => k = 50
      /\ Plan[k] = <<"kill", "source">> => k = 9
      /\ Plan[k] = <<"drop", "source">> => k = 13
  BY TopologyNames DEF Plan, Ending
<1>2. /\ Plan[k][1] \in FileSteps /\ Plan[k][2] = "return" => k \in {15, 16}
      /\ Plan[k][1] \in FileSteps \ {"drop"} /\ Plan[k][2] = "source" => k < 13
  BY DEF Plan, FileSteps
<1>3. Plan[k] \in On("return") => k \in {15, 16}  BY <1>2 DEF On
<1>4. Plan[k] \in Making("source") => k < 13  BY <1>2 DEF Making
<1>5. Plan[k][1] = "launch" => Plan[k][2] \in Running /\ k = LaunchedAt(Plan[k][2])
  <2>1. Plan[k][1] = "launch" => k \in {6, 19, 30, 37, 44}  BY DEF Plan
  <2>2. /\ Plan[6][2] = "source" /\ Plan[19][2] = "return" /\ Plan[30][2] = "noncanonical_launch_receipt"
        /\ Plan[37][2] = "altered_materialization_map" /\ Plan[44][2] = "cross_row"
    BY DEF Plan
  <2>3. QED BY <2>1, <2>2, TopologyNames DEF LaunchedAt, KilledAt, Running
<1>6. QED BY <1>1, <1>3, <1>4, <1>5

\* One process at a time: it is launched and killed before the next is launched.
LEMMA PlanRuns ==
  ASSUME NEW r \in Running
  PROVE  /\ Plan[LaunchedAt(r)] = <<"launch", r>> /\ LaunchedAt(r) \in 1..50
         /\ Plan[KilledAt(r)] = <<"kill", r>> /\ KilledAt(r) \in 1..50
         /\ LaunchedAt(r) < KilledAt(r)
         /\ \A q \in Running : q # r /\ LaunchedAt(q) < KilledAt(r) => LaunchedAt(q) < LaunchedAt(r)
<1>1. Running = {"source", "return", "noncanonical_launch_receipt", "altered_materialization_map", "cross_row"}
  BY TopologyNames DEF Running
<1>2. /\ LaunchedAt("source") = 6 /\ KilledAt("source") = 9 /\ LaunchedAt("return") = 19 /\ KilledAt("return") = 21
      /\ LaunchedAt("noncanonical_launch_receipt") = 30 /\ KilledAt("noncanonical_launch_receipt") = 32
      /\ LaunchedAt("altered_materialization_map") = 37 /\ KilledAt("altered_materialization_map") = 39
      /\ LaunchedAt("cross_row") = 44 /\ KilledAt("cross_row") = 46
  BY DEF LaunchedAt, KilledAt
<1>3. Plan[KilledAt(r)] = <<"kill", r>>  BY PlanHas
<1>4. Plan[LaunchedAt(r)] = <<"launch", r>>  BY <1>1, <1>2 DEF Plan
<1>5. QED BY <1>1, <1>2, <1>3, <1>4

\* The job of acquire, as it is when it starts.
LEMMA AcquireStagedParts ==
  LET s == Topology!AcquireStaged
  IN /\ IsJob(s) /\ ShapedJob(s)
     /\ \A e \in Items(s) : e.path \in Topology!Places /\ (e.do = "kill" => e.path \in Topology!Roles)
     /\ TopologyOrderly(s)
     /\ <<"publish", "staging">> \in Kinds(s) /\ NoPair(s, Ending, Staging)
     /\ <<"kill", "source">> \in Kinds(s) /\ <<"drop", "source">> \in Kinds(s)
     /\ NoPair(s, On("return"), To("kill", "source")) /\ NoPair(s, On("return"), To("drop", "source"))
     /\ NoPair(s, To("drop", "source"), Making("source"))
     /\ Kinds(s) \cap On("release") = {}
<1> DEFINE s == Topology!AcquireStaged
<1>1. IsJob(s) /\ DOMAIN s = 1..50 /\ \A i \in 1..50 : Kind(s[i]) = Plan[i] /\ Shaped(s[i])
  <2>1. IsJob(s) /\ Len(s) = 50 /\ \A i \in 1..50 : Fits(s[i], 1 + i - 1)
    BY AcquireFollows DEF Follows
  <2> HIDE DEF s
  <2>2. \A i \in 1..50 : 1 + i - 1 = i  OBVIOUS
  <2>3. QED BY <2>1, <2>2, JobIsSeq DEF Fits
<1> HIDE DEF s
<1>2. Kinds(s) = {Plan[i] : i \in 1..50}  BY <1>1 DEF Kinds
<1>3. ASSUME NEW A, NEW B, \A i, j \in 1..50 : i < j /\ Plan[i] \in A => Plan[j] \notin B PROVE NoPair(s, A, B)
  BY <1>1, <1>3, Zenon DEF NoPair
<1>4. /\ ShapedJob(s)
      /\ \A e \in Items(s) : e.path \in Topology!Places /\ (e.do = "kill" => e.path \in Topology!Roles)
  <2>1. ASSUME NEW i \in 1..50 PROVE s[i].path \in Topology!Places /\ (s[i].do = "kill" => s[i].path \in Topology!Roles)
    <3>1. s[i].do = Plan[i][1] /\ s[i].path = Plan[i][2]
      <4>1. Plan[i] = <<s[i].do, s[i].path>>  BY <1>1 DEF Kind
      <4>2. QED BY <4>1
    <3>2. Plan[i][2] \in Topology!Roles \cup {"staging"} /\ (Plan[i][1] = "kill" => Plan[i][2] \in Running)
      BY PlanPlaces, PlanSays
    <3>3. QED BY <3>1, <3>2, TopologyNames DEF Running
  <2>2. QED BY <1>1, <2>1 DEF ShapedJob, Items
<1>5. /\ NoPair(s, Ending, Staging) /\ NoPair(s, To("drop", "source"), Making("source"))
      /\ NoPair(s, On("return"), To("kill", "source")) /\ NoPair(s, On("return"), To("drop", "source"))
  <2> DEFINE Pair(A, B) == \E i, j \in 1..50 : i < j /\ Plan[i] \in A /\ Plan[j] \in B
  <2>1. ~Pair(Ending, Staging)  BY PlanPlaces
  <2>2. ~Pair(To("drop", "source"), Making("source"))  BY PlanPlaces DEF To
  <2>3. ~Pair(On("return"), To("kill", "source"))  BY PlanPlaces DEF To
  <2>4. ~Pair(On("return"), To("drop", "source"))  BY PlanPlaces DEF To
  <2>5. QED BY <1>3, <2>1, <2>2, <2>3, <2>4, Zenon
<1>6. /\ <<"publish", "staging">> \in Kinds(s) /\ <<"kill", "source">> \in Kinds(s) /\ <<"drop", "source">> \in Kinds(s)
  <2>1. Plan[50] = <<"publish", "staging">> /\ Plan[9] = <<"kill", "source">> /\ Plan[13] = <<"drop", "source">>
    BY DEF Plan
  <2>2. QED BY <1>2, <2>1
<1>7. Kinds(s) \cap On("release") = {}
  <2>1. \A i \in 1..50 : Plan[i][2] # "release"  BY PlanPlaces, TopologyNames
  <2>2. QED BY <1>2, <2>1 DEF On
<1>8. ASSUME NEW i \in 1..50, NEW r
      PROVE  /\ Plan[i] = <<"launch", r>> => r \in Running /\ i = LaunchedAt(r)
             /\ Plan[i] = <<"kill", r>> => r \in Running /\ i = KilledAt(r)
  <2>1. CASE Plan[i] = <<"launch", r>>
    <3>1. Plan[i][1] = "launch" /\ Plan[i][2] = r  BY <2>1
    <3>2. QED BY <2>1, <3>1, PlanPlaces
  <2>2. CASE Plan[i] = <<"kill", r>>
    <3>1. Plan[i][1] = "kill" /\ Plan[i][2] = r  BY <2>2
    <3>2. Plan[i][1] = "kill" => Plan[i][2] \in Running /\ KilledAt(Plan[i][2]) = i
      BY PlanSays
    <3>3. QED BY <2>2, <3>1, <3>2
  <2>3. QED BY <2>1, <2>2
<1>9. ASSUME NEW r
      PROVE  /\ <<"launch", r>> \in Kinds(s) => <<"kill", r>> \in Kinds(s)
             /\ NoPair(s, To("kill", r), To("launch", r)) /\ NoPair(s, To("launch", r), To("launch", r))
  <2>1. <<"launch", r>> \in Kinds(s) => <<"kill", r>> \in Kinds(s)
    BY <1>2, <1>8, PlanRuns, Zenon
  <2>2. ASSUME NEW i \in 1..50, NEW j \in 1..50, i < j, Plan[j] = <<"launch", r>>
        PROVE  Plan[i] \notin {<<"launch", r>>, <<"kill", r>>}
    <3>1. r \in Running /\ j = LaunchedAt(r)  BY <1>8, <2>2
    <3>2. LaunchedAt(r) < KilledAt(r) /\ LaunchedAt(r) \in 1..50 /\ KilledAt(r) \in 1..50
      BY <3>1, PlanRuns
    <3>3. Plan[i] \in {<<"launch", r>>, <<"kill", r>>} => i \in {LaunchedAt(r), KilledAt(r)}
      BY <1>8
    <3>4. QED BY <2>2, <3>1, <3>2, <3>3
  <2>3. QED BY <1>3, <2>1, <2>2, Zenon DEF To
<1>10. Brackets(s)
  <2> SUFFICES ASSUME NEW i \in DOMAIN s, NEW j \in DOMAIN s, NEW r,
                      i < j, s[i].do = "launch", s[i].path # r, Kind(s[j]) = <<"kill", r>>
               PROVE  \E k \in DOMAIN s : i < k /\ Kind(s[k]) = <<"launch", r>>
    BY Zenon DEF Brackets
  <2> DEFINE q == s[i].path
  <2>1. i \in 1..50 /\ j \in 1..50 /\ Plan[i] = <<"launch", q>> /\ Plan[j] = <<"kill", r>>
    BY <1>1 DEF Kind
  <2> HIDE DEF q
  <2>2. r \in Running /\ j = KilledAt(r) /\ q \in Running /\ i = LaunchedAt(q) /\ q # r
    BY <1>8, <2>1 DEF q
  <2>3. LaunchedAt(q) < LaunchedAt(r) /\ LaunchedAt(r) \in 1..50 /\ Plan[LaunchedAt(r)] = <<"launch", r>>
    BY <2>2, PlanRuns
  <2>4. QED BY <1>1, <2>2, <2>3
<1>11. TopologyOrderly(s)  BY <1>9, <1>10 DEF TopologyOrderly
<1>12. QED BY <1>1, <1>4, <1>5, <1>6, <1>7, <1>11 DEF s

LEMMA BracketsTail ==
  ASSUME NEW s, IsJob(s), s # <<>>, Brackets(s)
  PROVE  /\ Brackets(Tail(s))
         /\ \A q : \A r \in Topology!Roles :
              Kind(Head(s)) = <<"launch", q>> /\ q # r /\ <<"kill", r>> \in Kinds(Tail(s)) => <<"launch", r>> \in Kinds(Tail(s))
<1> DEFINE t == Tail(s)
<1>1. /\ IsJob(t) /\ DOMAIN t = 1..Len(t) /\ Len(t) \in Nat /\ Head(s) = s[1] /\ 1 \in DOMAIN s
      /\ \A i \in DOMAIN t : i + 1 \in DOMAIN s /\ t[i] = s[i + 1]
      /\ \A i \in DOMAIN s : i = 1 \/ (i - 1 \in DOMAIN t /\ s[i] = t[i - 1])
      /\ DOMAIN s = 1..Len(s)
  BY Onward, JobIsSeq
<1> HIDE DEF t
<1>2. ASSUME NEW i \in DOMAIN t, NEW j \in DOMAIN t, NEW r \in Topology!Roles,
             i < j, t[i].do = "launch", t[i].path # r, Kind(t[j]) = <<"kill", r>>
      PROVE  \E k \in DOMAIN t : i < k /\ Kind(t[k]) = <<"launch", r>>
  <2>1. i + 1 \in DOMAIN s /\ t[i] = s[i + 1] /\ j + 1 \in DOMAIN s /\ t[j] = s[j + 1] /\ i + 1 < j + 1
    BY <1>1, <1>2
  <2>2. PICK k \in DOMAIN s : i + 1 < k /\ Kind(s[k]) = <<"launch", r>>
    BY <1>2, <2>1 DEF Brackets
  <2>3. k # 1 /\ i < k - 1  BY <1>1, <2>2
  <2>4. k - 1 \in DOMAIN t /\ s[k] = t[k - 1]  BY <1>1, <2>3
  <2>5. QED BY <2>2, <2>3, <2>4
<1>3. ASSUME NEW q, NEW r \in Topology!Roles, Kind(Head(s)) = <<"launch", q>>, q # r, <<"kill", r>> \in Kinds(t)
      PROVE  <<"launch", r>> \in Kinds(t)
  <2>1. PICK j \in DOMAIN t : Kind(t[j]) = <<"kill", r>>  BY <1>3 DEF Kinds
  <2>2. j + 1 \in DOMAIN s /\ t[j] = s[j + 1] /\ 1 < j + 1  BY <1>1
  <2>3. s[1].do = "launch" /\ s[1].path # r  BY <1>1, <1>3 DEF Kind
  <2>4. PICK k \in DOMAIN s : 1 < k /\ Kind(s[k]) = <<"launch", r>>
    BY <1>1, <2>1, <2>2, <2>3 DEF Brackets
  <2>5. k # 1  BY <2>4
  <2>6. k - 1 \in DOMAIN t /\ s[k] = t[k - 1]  BY <1>1, <2>5
  <2>7. QED BY <2>4, <2>6 DEF Kinds
<1>4. Brackets(t)  BY <1>2 DEF Brackets
<1>5. QED BY <1>3, <1>4 DEF t

\* What is left after the next step, and what that step is about.
LEMMA TopologyRest ==
  ASSUME TopologyInv, job # <<>>
  PROVE  /\ IsJob(Tail(job)) /\ ShapedJob(Tail(job))
         /\ \A e \in Items(Tail(job)) \cup {Now} : e.path \in Topology!Places /\ (e.do = "kill" => e.path \in Topology!Roles)
         /\ Kinds(job) = {Kind(Now)} \cup Kinds(Tail(job)) /\ Shaped(Now)
         /\ Brackets(Tail(job))
         /\ \A q : \A r \in Topology!Roles :
              Kind(Now) = <<"launch", q>> /\ q # r /\ <<"kill", r>> \in Kinds(Tail(job)) => <<"launch", r>> \in Kinds(Tail(job))
<1>1. /\ IsJob(job) /\ ShapedJob(job) /\ Brackets(job)
      /\ \A e \in Items(job) : e.path \in Topology!Places /\ (e.do = "kill" => e.path \in Topology!Roles)
  BY DEF TopologyInv, TopologyCleanInv, TopologyOrderly
<1>2. /\ IsJob(Tail(job)) /\ Items(job) = {Now} \cup Items(Tail(job)) /\ Kinds(job) = {Kind(Now)} \cup Kinds(Tail(job))
  BY <1>1, Onward, TailItems, TailKinds DEF Now
<1>3. \A e \in Items(job) : Shaped(e)  BY <1>1, ShapedItems
<1>4. ShapedJob(Tail(job)) /\ Shaped(Now)  BY <1>2, <1>3, ShapedItems
<1>5. /\ Brackets(Tail(job))
      /\ \A q : \A r \in Topology!Roles :
           Kind(Now) = <<"launch", q>> /\ q # r /\ <<"kill", r>> \in Kinds(Tail(job)) => <<"launch", r>> \in Kinds(Tail(job))
  BY <1>1, BracketsTail DEF Now
<1>6. QED BY <1>1, <1>2, <1>4, <1>5

LEMMA TopologyRestPairs ==
  ASSUME TopologyInv, job # <<>>
  PROVE  /\ NoPair(Tail(job), Ending, Staging)
         /\ NoPair(Tail(job), On("return"), To("kill", "source")) /\ NoPair(Tail(job), On("return"), To("drop", "source"))
         /\ NoPair(Tail(job), To("kill", "source"), To("launch", "source"))
         /\ NoPair(Tail(job), To("drop", "source"), Making("source"))
         /\ \A r \in Topology!Roles : /\ NoPair(Tail(job), To("kill", r), To("launch", r))
                                      /\ NoPair(Tail(job), To("launch", r), To("launch", r))
                                      /\ Kind(Now) = <<"kill", r>> => <<"launch", r>> \notin Kinds(Tail(job))
                                      /\ Kind(Now) = <<"launch", r>> => <<"launch", r>> \notin Kinds(Tail(job))
         /\ Kind(Now) \in Ending => Kinds(Tail(job)) \cap Staging = {}
         /\ Kind(Now) \in On("return") => <<"kill", "source">> \notin Kinds(Tail(job)) /\ <<"drop", "source">> \notin Kinds(Tail(job))
         /\ Kind(Now) = <<"drop", "source">> => Kinds(Tail(job)) \cap Making("source") = {}
<1>1. /\ IsJob(job) /\ NoPair(job, Ending, Staging)
      /\ NoPair(job, On("return"), To("kill", "source")) /\ NoPair(job, On("return"), To("drop", "source"))
      /\ NoPair(job, To("kill", "source"), To("launch", "source"))
      /\ NoPair(job, To("drop", "source"), Making("source"))
      /\ \A r \in Topology!Roles : NoPair(job, To("kill", r), To("launch", r)) /\ NoPair(job, To("launch", r), To("launch", r))
  BY DEF TopologyInv, TopologySuccessionInv, TopologyCleanInv, TopologyOrderly
<1>2. NoPair(Tail(job), Ending, Staging) /\ (Kind(Now) \in Ending => Kinds(Tail(job)) \cap Staging = {})
  BY <1>1, TailNoPair DEF Now
<1>3. /\ NoPair(Tail(job), On("return"), To("kill", "source"))
      /\ Kind(Now) \in On("return") => Kinds(Tail(job)) \cap To("kill", "source") = {}
  BY <1>1, TailNoPair DEF Now
<1>4. /\ NoPair(Tail(job), On("return"), To("drop", "source"))
      /\ Kind(Now) \in On("return") => Kinds(Tail(job)) \cap To("drop", "source") = {}
  BY <1>1, TailNoPair DEF Now
<1>5. NoPair(Tail(job), To("kill", "source"), To("launch", "source"))
  BY <1>1, TailNoPair DEF Now
<1>6. /\ NoPair(Tail(job), To("drop", "source"), Making("source"))
      /\ Kind(Now) \in To("drop", "source") => Kinds(Tail(job)) \cap Making("source") = {}
  BY <1>1, TailNoPair DEF Now
<1>7. ASSUME NEW r \in Topology!Roles
      PROVE  /\ NoPair(Tail(job), To("kill", r), To("launch", r)) /\ NoPair(Tail(job), To("launch", r), To("launch", r))
             /\ Kind(Now) \in To("kill", r) => Kinds(Tail(job)) \cap To("launch", r) = {}
             /\ Kind(Now) \in To("launch", r) => Kinds(Tail(job)) \cap To("launch", r) = {}
  BY <1>1, TailNoPair DEF Now
<1>8. ASSUME NEW r \in Topology!Roles
      PROVE  /\ Kind(Now) = <<"kill", r>> => <<"launch", r>> \notin Kinds(Tail(job))
             /\ Kind(Now) = <<"launch", r>> => <<"launch", r>> \notin Kinds(Tail(job))
  BY <1>7 DEF To
<1>9. Kind(Now) \in On("return") => <<"kill", "source">> \notin Kinds(Tail(job)) /\ <<"drop", "source">> \notin Kinds(Tail(job))
  BY <1>3, <1>4 DEF To
<1>10. Kind(Now) = <<"drop", "source">> => Kinds(Tail(job)) \cap Making("source") = {}
  BY <1>6 DEF To
<1>11. QED BY <1>2, <1>3, <1>4, <1>5, <1>6, <1>7, <1>8, <1>9, <1>10

\* A step of the command after which the rest of its job follows.
TopologyGoes ==
  /\ job # <<>> /\ job' = Tail(job) /\ crashes' = crashes
  /\ disk' = [p \in Topology!Places |-> disk'[p]]
  /\ disk'["staging"] # Absent => Kind(Now) \in Staging \/ (disk["staging"] # Absent /\ Kind(Now) \notin Ending)
  /\ \A p \in {"source", "return"} : disk'[p] = disk[p] \/ Kind(Now) \in On(p)
  /\ Kind(Now) = <<"drop", "source">> => disk'["source"] = Absent
  /\ disk["release"] = Absent \/ disk'["release"] = disk["release"] \/ Kind(Now) \in On("release")
  /\ TopologyWorld'
  /\ \A r \in Topology!Roles :
       Proc(r)'.life = IF Kind(Now) = <<"launch", r>> THEN "up" ELSE IF Kind(Now) = <<"kill", r>> THEN "dead" ELSE Proc(r).life

LEMMA TopologyGoesSuccession ==
  ASSUME TopologyInv, TopologyGoes
  PROVE  TopologySuccessionInv'
<1> DEFINE k == Kind(Now)
           t == Tail(job)
<1>1. job # <<>> /\ job' = t /\ Kinds(job) = {k} \cup Kinds(t)
  BY TopologyRest DEF TopologyGoes
<1>2. /\ NoPair(t, On("return"), To("kill", "source")) /\ NoPair(t, On("return"), To("drop", "source"))
      /\ NoPair(t, To("kill", "source"), To("launch", "source"))
      /\ NoPair(t, To("drop", "source"), Making("source"))
      /\ k = <<"kill", "source">> => <<"launch", "source">> \notin Kinds(t)
      /\ k = <<"drop", "source">> => Kinds(t) \cap Making("source") = {}
  BY <1>1, TopologyRestPairs, TopologyNames
<1>3. /\ Kinds(job) \cap On("return") # {} =>
           /\ Proc("source").life = "dead" \/ <<"kill", "source">> \in Kinds(job)
           /\ disk["source"] = Absent \/ <<"drop", "source">> \in Kinds(job)
      /\ Kinds(job) \cap On("return") # {} /\ <<"launch", "source">> \in Kinds(job) => <<"kill", "source">> \in Kinds(job)
      /\ Kinds(job) \cap On("return") # {} /\ Kinds(job) \cap Making("source") # {} => <<"drop", "source">> \in Kinds(job)
      /\ Kinds(job) \cap On("release") = {}
  BY DEF TopologyInv, TopologySuccessionInv
<1>4. /\ disk'["source"] = disk["source"] \/ k \in On("source")
      /\ k = <<"drop", "source">> => disk'["source"] = Absent
      /\ Proc("source")'.life = IF k = <<"launch", "source">> THEN "up"
                                ELSE IF k = <<"kill", "source">> THEN "dead" ELSE Proc("source").life
  BY TopologyNames DEF TopologyGoes
<1> HIDE DEF k, t
<1>5. Kinds(t) \cap On("release") = {}  BY <1>1, <1>3
<1>6. ASSUME Kinds(t) \cap On("return") # {}
      PROVE  /\ Proc("source")'.life = "dead" \/ <<"kill", "source">> \in Kinds(t)
             /\ disk'["source"] = Absent \/ <<"drop", "source">> \in Kinds(t)
             /\ <<"launch", "source">> \in Kinds(t) => <<"kill", "source">> \in Kinds(t)
             /\ Kinds(t) \cap Making("source") # {} => <<"drop", "source">> \in Kinds(t)
  <2>1. Kinds(job) \cap On("return") # {}  BY <1>1, <1>6
  <2>2. Proc("source")'.life = "dead" \/ <<"kill", "source">> \in Kinds(t)
    <3>1. CASE k = <<"launch", "source">>
      <4>1. <<"kill", "source">> \in Kinds(job)  BY <1>1, <1>3, <2>1, <3>1
      <4>2. <<"kill", "source">> # k  BY <3>1
      <4>3. QED BY <1>1, <4>1, <4>2
    <3>2. CASE k = <<"kill", "source">>
      <4>1. k # <<"launch", "source">>  BY <3>2
      <4>2. QED BY <1>4, <3>2, <4>1
    <3>3. CASE k # <<"launch", "source">> /\ k # <<"kill", "source">>
      BY <1>1, <1>3, <1>4, <2>1, <3>3
    <3>4. QED BY <3>1, <3>2, <3>3
  <2>3. disk'["source"] = Absent \/ <<"drop", "source">> \in Kinds(t)
    <3>1. CASE k \in Making("source")
      <4>1. <<"drop", "source">> \in Kinds(job)  BY <1>1, <1>3, <2>1, <3>1
      <4>2. <<"drop", "source">> # k  BY <3>1 DEF Making
      <4>3. QED BY <1>1, <4>1, <4>2
    <3>2. CASE k = <<"drop", "source">>  BY <1>4, <3>2
    <3>3. CASE k \notin Making("source") /\ k # <<"drop", "source">>
      <4>1. k \notin On("source")  BY <3>3 DEF On, Making
      <4>2. QED BY <1>1, <1>3, <1>4, <2>1, <3>3, <4>1
    <3>4. QED BY <3>1, <3>2, <3>3
  <2>4. <<"launch", "source">> \in Kinds(t) => <<"kill", "source">> \in Kinds(t)
    BY <1>1, <1>2, <1>3, <2>1
  <2>5. Kinds(t) \cap Making("source") # {} => <<"drop", "source">> \in Kinds(t)
    BY <1>1, <1>2, <1>3, <2>1
  <2>6. QED BY <2>2, <2>3, <2>4, <2>5
<1>7. QED BY <1>1, <1>2, <1>5, <1>6 DEF TopologySuccessionInv

LEMMA TopologyGoesClean ==
  ASSUME TopologyInv, TopologyGoes
  PROVE  TopologyCleanInv'
<1> DEFINE k == Kind(Now)
           t == Tail(job)
           Roles == Topology!Roles
<1>1. /\ job # <<>> /\ job' = t /\ Kinds(job) = {k} \cup Kinds(t) /\ Brackets(t)
      /\ \A q : \A r \in Roles :
           k = <<"launch", q>> /\ q # r /\ <<"kill", r>> \in Kinds(t) => <<"launch", r>> \in Kinds(t)
  BY TopologyRest DEF TopologyGoes
<1>2. /\ NoPair(t, Ending, Staging)
      /\ \A r \in Roles : /\ NoPair(t, To("kill", r), To("launch", r)) /\ NoPair(t, To("launch", r), To("launch", r))
                          /\ k = <<"kill", r>> => <<"launch", r>> \notin Kinds(t)
                          /\ k = <<"launch", r>> => <<"launch", r>> \notin Kinds(t)
      /\ k \in Ending => Kinds(t) \cap Staging = {}
  BY <1>1, TopologyRestPairs
<1>3. /\ Kinds(job) \cap Staging # {} => Kinds(job) \cap Ending # {}
      /\ \A r \in Roles : <<"launch", r>> \in Kinds(job) => <<"kill", r>> \in Kinds(job)
      /\ crashes = 0 =>
           /\ disk["staging"] # Absent => Kinds(job) \cap Ending # {}
           /\ \A r \in Roles : Started(r) => <<"kill", r>> \in Kinds(job) /\ <<"launch", r>> \notin Kinds(job)
           /\ \A r, q \in Roles : Started(r) /\ Started(q) => r = q
  BY DEF TopologyInv, TopologyCleanInv, TopologyOrderly
<1>4. /\ crashes' = crashes
      /\ disk'["staging"] # Absent => k \in Staging \/ (disk["staging"] # Absent /\ k \notin Ending)
      /\ \A r \in Roles : Proc(r)'.life = IF k = <<"launch", r>> THEN "up" ELSE IF k = <<"kill", r>> THEN "dead" ELSE Proc(r).life
  BY DEF TopologyGoes
<1> HIDE DEF k, t, Roles
<1>5. \A r \in Roles : k = <<"launch", r>> => k # <<"kill", r>>  OBVIOUS
<1>6. TopologyOrderly(t)
  <2>1. ASSUME NEW r \in Roles, <<"launch", r>> \in Kinds(t) PROVE <<"kill", r>> \in Kinds(t)
    BY <1>1, <1>2, <1>3, <2>1
  <2>2. QED BY <1>1, <1>2, <2>1 DEF TopologyOrderly, Roles
<1>7. Kinds(t) \cap Staging # {} => Kinds(t) \cap Ending # {}
  BY <1>1, <1>2, <1>3
<1>8. Staging \cap Ending = {}  BY DEF Staging, Ending, Making, FileSteps
<1>9. ASSUME crashes = 0, disk'["staging"] # Absent PROVE Kinds(t) \cap Ending # {}
  <2>1. CASE k \in Staging  BY <1>1, <1>3, <1>8, <2>1
  <2>2. CASE disk["staging"] # Absent /\ k \notin Ending
    BY <1>1, <1>3, <1>9, <2>2
  <2>3. QED BY <1>4, <1>9, <2>1, <2>2
<1>10. ASSUME NEW r \in Roles
       PROVE  Started(r)' => k = <<"launch", r>> \/ (Started(r) /\ k # <<"kill", r>>)
  <2>1. Started(r)' <=> Proc(r)'.life \in {"up", "exited"}  BY DEF Started
  <2>2. Started(r) <=> Proc(r).life \in {"up", "exited"}  BY DEF Started
  <2>3. QED BY <1>4, <2>1, <2>2
<1>11. ASSUME crashes = 0, NEW r \in Roles, Started(r)' PROVE <<"kill", r>> \in Kinds(t) /\ <<"launch", r>> \notin Kinds(t)
  <2>1. CASE k = <<"launch", r>>  BY <1>1, <1>2, <1>3, <1>5, <2>1
  <2>2. CASE Started(r) /\ k # <<"kill", r>>  BY <1>1, <1>3, <1>11, <2>2
  <2>3. QED BY <1>10, <1>11, <2>1, <2>2
<1>12. ASSUME crashes = 0, NEW r \in Roles, NEW q \in Roles, Started(q)', k = <<"launch", r>>, r # q PROVE FALSE
  <2>1. <<"kill", q>> \in Kinds(t) /\ <<"launch", q>> \notin Kinds(t)
    BY <1>11, <1>12
  <2>2. QED BY <1>1, <1>12, <2>1
<1>13. ASSUME crashes = 0, NEW r \in Roles, NEW q \in Roles, Started(r)', Started(q)' PROVE r = q
  <2>1. CASE k = <<"launch", r>> \/ k = <<"launch", q>>  BY <1>12, <1>13, <2>1
  <2>2. CASE k # <<"launch", r>> /\ k # <<"launch", q>>
    BY <1>3, <1>10, <1>13, <2>2
  <2>3. QED BY <2>1, <2>2
<1>14. crashes' = 0 =>
         /\ disk'["staging"] # Absent => Kinds(job') \cap Ending # {}
         /\ \A r \in Roles : Started(r)' => <<"kill", r>> \in Kinds(job') /\ <<"launch", r>> \notin Kinds(job')
         /\ \A r, q \in Roles : Started(r)' /\ Started(q)' => r = q
  BY <1>1, <1>4, <1>9, <1>11, <1>13
<1>15. QED BY <1>1, <1>2, <1>6, <1>7, <1>14 DEF TopologyCleanInv, Roles

LEMMA TopologyGoesOn ==
  ASSUME TopologyInv, TopologyGoes
  PROVE  /\ TopologyInv' /\ Topology!TopologySuccession
         /\ disk["release"] # Absent => disk'["release"] = disk["release"]
<1> DEFINE k == Kind(Now)
<1>1. job # <<>> /\ job' = Tail(job) /\ Kinds(job) = {k} \cup Kinds(Tail(job))
  BY TopologyRest DEF TopologyGoes
<1>2. TopologyInv'
  BY <1>1, TopologyRest, TopologyGoesSuccession, TopologyGoesClean DEF TopologyInv, TopologyGoes
<1>3. disk["release"] # Absent => disk'["release"] = disk["release"]
  <2>1. Kinds(job) \cap On("release") = {}
    BY DEF TopologyInv, TopologySuccessionInv
  <2>2. k \notin On("release")  BY <1>1, <2>1
  <2>3. QED BY <2>2 DEF TopologyGoes
<1>4. ASSUME disk["return"] = Absent, disk'["return"] # Absent PROVE Proc("source").life = "dead" /\ disk["source"] = Absent
  <2>1. k \in On("return")  BY <1>4 DEF TopologyGoes
  <2>2. k # <<"kill", "source">> /\ k # <<"drop", "source">>  BY <2>1 DEF On
  <2>3. <<"kill", "source">> \notin Kinds(Tail(job)) /\ <<"drop", "source">> \notin Kinds(Tail(job))
    BY <1>1, <2>1, TopologyRestPairs
  <2> HIDE DEF k
  <2>4. <<"kill", "source">> \notin Kinds(job) /\ <<"drop", "source">> \notin Kinds(job) /\ Kinds(job) \cap On("return") # {}
    BY <1>1, <2>1, <2>2, <2>3
  <2>5. QED BY <2>4 DEF TopologyInv, TopologySuccessionInv
<1>5. Topology!TopologySuccession
  BY <1>4, Zenon DEF Topology!TopologySuccession, Topology!Absent, Absent, Topology!Process, Proc
<1>6. QED BY <1>2, <1>3, <1>5

\* What is left to do when a command fails: to kill what runs, and to remove the staging.
Closer(e) ==
  /\ e.path \in Topology!Places /\ Shaped(e) /\ DOMAIN e = Words
  /\ e.do \in {"empty", "drop", "kill"} /\ (e.do = "kill" => e.path \in Topology!Roles)
Closing(s) ==
  /\ IsJob(s) /\ \A e \in Items(s) : Closer(e)
  /\ \A k \in Kinds(s) : k \in {<<"empty", "staging">>, <<"drop", "staging">>} \/ k[1] = "kill"
  /\ NoPair(s, Ending, Staging)
  /\ <<"empty", "staging">> \in Kinds(s) => <<"drop", "staging">> \in Kinds(s)

LEMMA ClosingParts ==
  /\ Closing(<<>>) /\ Kinds(<<>>) = {}
  /\ Closing(Topology!Remove("staging")) /\ <<"drop", "staging">> \in Kinds(Topology!Remove("staging"))
  /\ \A r \in Topology!Roles : Closing(Topology!Does1("kill", r)) /\ Kinds(Topology!Does1("kill", r)) = {<<"kill", r>>}
<1>1. Closing(<<>>) /\ Kinds(<<>>) = {}  BY EmptyJob DEF Closing, Items
<1>2. Closing(Remove("staging")) /\ <<"drop", "staging">> \in Kinds(Remove("staging"))
  <2> DEFINE s == Remove("staging")
  <2>1. /\ IsJob(s) /\ Items(s) = {Step("empty", "staging", Torn), Step("drop", "staging", Absent)}
        /\ Kinds(s) = {<<"empty", "staging">>, <<"drop", "staging">>}
    BY RemoveParts
  <2>2. NoPair(s, Ending, Staging)
    <3>1. <<"drop", "staging">> \notin Staging  BY DEF Staging, Making
    <3>2. QED BY <3>1, RemoveParts
  <2> HIDE DEF s
  <2>3. Closer(Step("empty", "staging", Torn)) /\ Closer(Step("drop", "staging", Absent))
    BY StepIsWorded, TopologyNames DEF Closer, Step, Shaped
  <2>4. QED BY <2>1, <2>2, <2>3 DEF Closing, s
<1>3. ASSUME NEW r \in Topology!Roles PROVE Closing(Topology!Does1("kill", r)) /\ Kinds(Topology!Does1("kill", r)) = {<<"kill", r>>}
  <2> DEFINE e == Step("kill", r, Absent)
  <2>1. Closer(e) /\ Kind(e) = <<"kill", r>>
    BY StepIsWorded, TopologyNames DEF Closer, Step, Shaped, Kind
  <2> HIDE DEF e
  <2>2. IsJob(<<e>>) /\ Items(<<e>>) = {e} /\ Kinds(<<e>>) = {Kind(e)} /\ \A A, B : NoPair(<<e>>, A, B)
    BY OneStep DEF Items
  <2>3. \A k \in Kinds(<<e>>) : k[1] = "kill" /\ k # <<"empty", "staging">>
    BY <2>1, <2>2
  <2>4. \A i \in Items(<<e>>) : Closer(i)  BY <2>1, <2>2
  <2>5. Closing(<<e>>)  BY <2>2, <2>3, <2>4 DEF Closing
  <2>6. Topology!Does1("kill", r) = <<e>>  BY TopologySame DEF e
  <2>7. QED BY <2>1, <2>2, <2>5, <2>6
<1>4. QED BY <1>1, <1>2, <1>3, TopologySame

LEMMA ClosingJoined ==
  ASSUME NEW s, NEW t, Closing(s), Closing(t), Kinds(s) \cap Ending = {}
  PROVE  Closing(s \o t) /\ Kinds(s \o t) = Kinds(s) \cup Kinds(t)
<1>1. IsJob(s) /\ IsJob(t) /\ NoPair(s, Ending, Staging) /\ NoPair(t, Ending, Staging)
  BY DEF Closing
<1>2. IsJob(s \o t) /\ Items(s \o t) = Items(s) \cup Items(t) /\ Kinds(s \o t) = Kinds(s) \cup Kinds(t)
  BY <1>1, Joined, JoinedItems, JoinedKinds
<1>3. NoPair(s \o t, Ending, Staging)  BY <1>1, JoinedNoPair
<1>4. QED BY <1>2, <1>3 DEF Closing

LEMMA ClosingKeeps ==
  ASSUME Closing(job'), disk' = [p \in Topology!Places |-> disk'[p]], TopologyWorld',
         crashes' = 0 =>
           /\ disk'["staging"] # Absent => <<"drop", "staging">> \in Kinds(job')
           /\ \A r \in Topology!Roles : Started(r)' => <<"kill", r>> \in Kinds(job')
           /\ \A r, q \in Topology!Roles : Started(r)' /\ Started(q)' => r = q
  PROVE  TopologyInv'
<1> DEFINE s == job'
<1>1. /\ IsJob(s) /\ \A e \in Items(s) : Closer(e)
      /\ \A k \in Kinds(s) : k \in {<<"empty", "staging">>, <<"drop", "staging">>} \/ k[1] = "kill"
      /\ NoPair(s, Ending, Staging)
      /\ <<"empty", "staging">> \in Kinds(s) => <<"drop", "staging">> \in Kinds(s)
  BY DEF Closing
<1> HIDE DEF s
<1>2. ShapedJob(s)  BY <1>1, ShapedItems DEF Closer
<1>3. \A q : Kinds(s) \cap To("launch", q) = {}  BY <1>1 DEF To
<1>4. Kinds(s) \cap On("return") = {} /\ Kinds(s) \cap On("release") = {} /\ Kinds(s) \cap Making("source") = {}
  BY <1>1 DEF On, Making, FileSteps
<1>5. /\ NoPair(s, On("return"), To("kill", "source")) /\ NoPair(s, On("return"), To("drop", "source"))
      /\ NoPair(s, To("kill", "source"), To("launch", "source")) /\ NoPair(s, To("drop", "source"), Making("source"))
      /\ \A r : NoPair(s, To("kill", r), To("launch", r)) /\ NoPair(s, To("launch", r), To("launch", r))
  BY <1>3, <1>4, NoPairNone
<1>6. \A r : <<"launch", r>> \notin Kinds(s)  BY <1>3 DEF To
<1>7. Brackets(s)
  <2> SUFFICES ASSUME NEW i \in DOMAIN s, s[i].do = "launch" PROVE FALSE
    BY DEF Brackets
  <2>1. Kind(s[i]) \in Kinds(s) /\ Kind(s[i]) = <<"launch", s[i].path>>
    BY DEF Kinds, Kind
  <2>2. QED BY <1>6, <2>1
<1>8. TopologyOrderly(s)  BY <1>5, <1>6, <1>7 DEF TopologyOrderly
<1>9. Kinds(s) \cap Staging # {} => Kinds(s) \cap Ending # {}
  <2>1. \A k \in Kinds(s) : k \in Staging => <<"drop", "staging">> \in Kinds(s)
    BY <1>1 DEF Staging, Making, FileSteps
  <2>2. <<"drop", "staging">> \in Ending  BY DEF Ending
  <2>3. QED BY <2>1, <2>2
<1>10. <<"drop", "staging">> \in Kinds(s) => Kinds(s) \cap Ending # {}
  BY DEF Ending
<1>11. TopologySuccessionInv'  BY <1>4, <1>5 DEF TopologySuccessionInv, s
<1>12. TopologyCleanInv'
  BY <1>1, <1>6, <1>8, <1>9, <1>10 DEF TopologyCleanInv, s
<1>13. QED BY <1>1, <1>2, <1>11, <1>12 DEF TopologyInv, Closer, s

\* The handler of a failed command kills what runs and removes the staging.
LEMMA HandlerCloses ==
  /\ Closing(Topology!Handler)
  /\ disk["staging"] # Absent => <<"drop", "staging">> \in Kinds(Topology!Handler)
  /\ \A r \in Topology!Roles : Started(r) /\ (\A q \in Topology!Roles : Started(q) => q = r)
                            => <<"kill", r>> \in Kinds(Topology!Handler)
<1> DEFINE started == {r \in Topology!Roles : Started(r)}
           c == CHOOSE r \in started : TRUE
           a == IF started = {} THEN <<>> ELSE Topology!Does1("kill", c)
           b == IF disk["staging"] = Absent THEN <<>> ELSE Topology!Remove("staging")
<1>1. Topology!Handler = a \o b
  BY Zenon DEF Topology!Handler, Started, Proc, Topology!Process, Topology!Absent, Absent
<1>2. started # {} => c \in started  BY Zenon
<1> HIDE DEF c
<1>3. Closing(a) /\ Kinds(a) \cap Ending = {} /\ (started # {} => <<"kill", c>> \in Kinds(a))
  <2>1. CASE started = {}  BY <2>1, ClosingParts
  <2>2. CASE started # {}
    <3>1. Closing(Topology!Does1("kill", c)) /\ Kinds(Topology!Does1("kill", c)) = {<<"kill", c>>}
      BY <1>2, <2>2, ClosingParts
    <3>2. a = Topology!Does1("kill", c)  BY <2>2
    <3> HIDE DEF a
    <3>3. QED BY <3>1, <3>2 DEF Ending
  <2>3. QED BY <2>1, <2>2
<1>4. Closing(b) /\ (disk["staging"] # Absent => <<"drop", "staging">> \in Kinds(b))
  BY ClosingParts
<1> HIDE DEF a, b
<1>5. Closing(Topology!Handler) /\ Kinds(Topology!Handler) = Kinds(a) \cup Kinds(b)
  BY <1>1, <1>3, <1>4, ClosingJoined
<1>6. ASSUME NEW r \in Topology!Roles, Started(r), \A q \in Topology!Roles : Started(q) => q = r
      PROVE  <<"kill", r>> \in Kinds(Topology!Handler)
  <2>1. r \in started /\ c = r  BY <1>2, <1>6
  <2>2. QED BY <1>3, <1>5, <2>1
<1>7. QED BY <1>4, <1>5, <1>6

LEMMA TopologyFails ==
  ASSUME TopologyInv, job' = Topology!Handler, UNCHANGED <<disk, world, crashes>>
  PROVE  TopologyInv'
<1>1. \A r : Started(r)' <=> Started(r)  BY DEF Started, Proc
<1>2. crashes' = 0 => \A r, q \in Topology!Roles : Started(r) /\ Started(q) => r = q
  BY DEF TopologyInv, TopologyCleanInv
<1>3. disk' = [p \in Topology!Places |-> disk'[p]] /\ TopologyWorld'
  BY DEF TopologyInv, TopologyWorld, Proc
<1>4. QED BY <1>1, <1>2, <1>3, HandlerCloses, ClosingKeeps

LEMMA TopologySets ==
  ASSUME TopologyWorld, NEW r, NEW p, world' = [world EXCEPT !.process[r] = p],
         r \in Topology!Roles => p = [life |-> p.life, cache |-> p.cache, log |-> p.log]
  PROVE  TopologyWorld' /\ \A q \in Topology!Roles : Proc(q)' = IF q = r THEN p ELSE Proc(q)
<1>1. world' = [process |-> world'.process, head |-> world'.head] /\ world'.process = [world.process EXCEPT ![r] = p]
  BY DEF TopologyWorld
<1>2. /\ world'.process = [q \in Topology!Roles |-> world'.process[q]]
      /\ \A q \in Topology!Roles : world'.process[q] = IF q = r THEN p ELSE world.process[q]
  BY <1>1 DEF TopologyWorld
<1>3. \A q \in Topology!Roles : Proc(q)' = IF q = r THEN p ELSE Proc(q)
  BY <1>2 DEF Proc
<1>4. \A q \in Topology!Roles : Proc(q)' = [life |-> Proc(q)'.life, cache |-> Proc(q)'.cache, log |-> Proc(q)'.log]
  BY <1>3 DEF TopologyWorld
<1>5. QED BY <1>1, <1>2, <1>3, <1>4 DEF TopologyWorld

\* A process goes on, or exits.
LEMMA TopologyLives ==
  ASSUME TopologyInv, Topology!TopologyProcesses
  PROVE  TopologyInv' /\ disk' = disk
<1>1. PICK r \in Topology!Roles : Topology!BeginsLine(r) \/ Topology!EndsLine(r) \/ Topology!Exits(r)
  BY DEF Topology!TopologyProcesses
<1>2. /\ Proc(r).life = "up" /\ UNCHANGED <<disk, job, crashes>>
      /\ \/ \E l : Topology!Sets(r, [Proc(r) EXCEPT !.log = l])
         \/ Topology!Sets(r, [Proc(r) EXCEPT !.life = "exited"])
  <2>1. CASE Topology!BeginsLine(r)
    BY <2>1, Zenon DEF Topology!BeginsLine, Topology!Up, Topology!Process, Proc
  <2>2. CASE Topology!EndsLine(r)
    BY <2>2, Zenon DEF Topology!EndsLine, Topology!Up, Topology!Process, Proc
  <2>3. CASE Topology!Exits(r)
    BY <2>3, Zenon DEF Topology!Exits, Topology!Up, Topology!Process, Proc
  <2>4. QED BY <1>1, <2>1, <2>2, <2>3
<1>3. TopologyWorld /\ Proc(r) = [life |-> Proc(r).life, cache |-> Proc(r).cache, log |-> Proc(r).log]
  BY DEF TopologyInv, TopologyWorld
<1>4. PICK p : /\ world' = [world EXCEPT !.process[r] = p] /\ p.life \in {"up", "exited"}
               /\ p = [life |-> p.life, cache |-> p.cache, log |-> p.log]
  <2>1. ASSUME NEW l, Topology!Sets(r, [Proc(r) EXCEPT !.log = l])
        PROVE  \E p : /\ world' = [world EXCEPT !.process[r] = p] /\ p.life \in {"up", "exited"}
                      /\ p = [life |-> p.life, cache |-> p.cache, log |-> p.log]
    <3> DEFINE p == [Proc(r) EXCEPT !.log = l]
    <3>1. p.life = "up" /\ p = [life |-> p.life, cache |-> p.cache, log |-> p.log]
      BY <1>2, <1>3
    <3>2. world' = [world EXCEPT !.process[r] = p]
      BY <2>1, Zenon DEF Topology!Sets
    <3> HIDE DEF p
    <3>3. QED BY <3>1, <3>2
  <2>2. ASSUME Topology!Sets(r, [Proc(r) EXCEPT !.life = "exited"])
        PROVE  \E p : /\ world' = [world EXCEPT !.process[r] = p] /\ p.life \in {"up", "exited"}
                      /\ p = [life |-> p.life, cache |-> p.cache, log |-> p.log]
    <3> DEFINE p == [Proc(r) EXCEPT !.life = "exited"]
    <3>1. p.life = "exited" /\ p = [life |-> p.life, cache |-> p.cache, log |-> p.log]
      BY <1>3
    <3>2. world' = [world EXCEPT !.process[r] = p]
      BY <2>2, Zenon DEF Topology!Sets
    <3> HIDE DEF p
    <3>3. QED BY <3>1, <3>2
  <2>3. QED BY <1>2, <2>1, <2>2
<1>5. TopologyWorld' /\ \A q \in Topology!Roles : Proc(q)' = IF q = r THEN p ELSE Proc(q)
  BY <1>3, <1>4, TopologySets
<1>6. \A q \in Topology!Roles : /\ Started(q)' <=> Started(q)
                                /\ Proc(q).life = "dead" => Proc(q)'.life = "dead"
  BY <1>2, <1>4, <1>5 DEF Started
<1>7. TopologySuccessionInv'
  <2>1. Proc("source").life = "dead" => Proc("source")'.life = "dead"
    BY <1>6, TopologyNames
  <2>2. TopologySuccessionInv  BY DEF TopologyInv
  <2>3. QED BY <1>2, <2>1, <2>2 DEF TopologySuccessionInv
<1>8. TopologyCleanInv'
  <2>1. TopologyCleanInv  BY DEF TopologyInv
  <2>2. QED BY <1>2, <1>6, <2>1 DEF TopologyCleanInv
<1>9. QED BY <1>2, <1>5, <1>7, <1>8 DEF TopologyInv

LEMMA TopologyFailsKeeps ==
  ASSUME TopologyInv, Topology!Fails
  PROVE  TopologyInv' /\ disk' = disk
<1>1. job' = Topology!Handler /\ UNCHANGED <<disk, world, crashes>>
  BY DEF Topology!Fails
<1>2. QED BY <1>1, TopologyFails

\* What the command looks at before it goes on, or fails.
LEMMA TopologyPasses ==
  ASSUME TopologyInv, job # <<>>, Now.do \notin FileSteps \cup {"launch", "kill", "keep", "publish"},
         job' = Tail(job), UNCHANGED <<disk, crashes>>, world'.process = world.process,
         world' = [process |-> world'.process, head |-> world'.head]
  PROVE  TopologyGoes
<1>1. /\ disk = [p \in Topology!Places |-> disk[p]] /\ TopologyWorld
  BY DEF TopologyInv
<1>2. Kind(Now)[1] = Now.do  BY DEF Kind
<1>3. Kind(Now) \notin Ending /\ Kind(Now) # <<"drop", "source">>
  BY <1>2 DEF Ending, FileSteps
<1>4. \A r : Kind(Now) # <<"launch", r>> /\ Kind(Now) # <<"kill", r>>  BY <1>2
<1>5. TopologyWorld' /\ \A r : Proc(r)' = Proc(r)
  BY <1>1 DEF TopologyWorld, Proc
<1>6. QED BY <1>1, <1>3, <1>4, <1>5 DEF TopologyGoes

LEMMA TopologyLooks ==
  ASSUME TopologyInv,
         \/ Topology!Inventory \/ Topology!ValidateReturnPrelaunch \/ Topology!WaitForReceipt \/ Topology!WaitForFailure
         \/ Topology!MustBeAlive \/ Topology!CompleteCacheAudit \/ Topology!Resolve \/ Topology!Gate \/ Topology!Members
  PROVE  TopologyGoes \/ Topology!Fails
<1> DEFINE W == {"inventory", "prelaunch", "receipt", "refusal", "alive", "audit", "resolve", "gate", "members"}
<1>1. /\ job # <<>> /\ Now.do \in W
      /\ \/ Topology!Fails
         \/ Topology!Passes
         \/ job' = Tail(job) /\ UNCHANGED <<disk, crashes>> /\ world' = [world EXCEPT !.head = "R1"]
  <2>1. CASE Topology!Inventory
    BY <2>1, Zenon DEF Topology!Inventory, Topology!Does, Topology!Now, Now, Topology!Demands
  <2>2. CASE Topology!ValidateReturnPrelaunch
    BY <2>2, Zenon DEF Topology!ValidateReturnPrelaunch, Topology!Does, Topology!Now, Now, Topology!Demands
  <2>3. CASE Topology!WaitForReceipt
    BY <2>3, Zenon DEF Topology!WaitForReceipt, Topology!WaitsFor, Topology!Does, Topology!Now, Now
  <2>4. CASE Topology!WaitForFailure
    BY <2>4, Zenon DEF Topology!WaitForFailure, Topology!WaitsFor, Topology!Does, Topology!Now, Now
  <2>5. CASE Topology!MustBeAlive
    BY <2>5, Zenon DEF Topology!MustBeAlive, Topology!Does, Topology!Now, Now, Topology!Demands
  <2>6. CASE Topology!CompleteCacheAudit
    BY <2>6, Zenon DEF Topology!CompleteCacheAudit, Topology!Does, Topology!Now, Now, Topology!Demands
  <2>7. CASE Topology!Resolve
    BY <2>7, Zenon DEF Topology!Resolve, Topology!Does, Topology!Now, Now, Topology!Proceed
  <2>8. CASE Topology!Gate
    BY <2>8, Zenon DEF Topology!Gate, Topology!Does, Topology!Now, Now, Topology!Demands
  <2>9. CASE Topology!Members
    BY <2>9, Zenon DEF Topology!Members, Topology!Does, Topology!Now, Now, Topology!Demands
  <2>10. QED BY <2>1, <2>2, <2>3, <2>4, <2>5, <2>6, <2>7, <2>8, <2>9
<1>2. Now.do \notin FileSteps \cup {"launch", "kill", "keep", "publish"}
  BY <1>1 DEF FileSteps
<1>3. CASE Topology!Passes
  <2>1. job' = Tail(job) /\ UNCHANGED <<disk, world, crashes>>
    BY <1>3 DEF Topology!Passes, Topology!Proceed
  <2>2. world = [process |-> world.process, head |-> world.head]
    BY DEF TopologyInv, TopologyWorld
  <2>3. QED BY <1>1, <1>2, <2>1, <2>2, TopologyPasses
<1>4. CASE job' = Tail(job) /\ UNCHANGED <<disk, crashes>> /\ world' = [world EXCEPT !.head = "R1"]
  <2>1. world = [process |-> world.process, head |-> world.head]
    BY DEF TopologyInv, TopologyWorld
  <2>2. world'.process = world.process /\ world' = [process |-> world'.process, head |-> world'.head]
    BY <1>4, <2>1
  <2>3. QED BY <1>1, <1>2, <1>4, <2>2, TopologyPasses
<1>5. QED BY <1>1, <1>3, <1>4

\* A process is launched, or terminated, and the command goes on.
LEMMA TopologyProcessGoes ==
  ASSUME TopologyInv, job # <<>>, job' = Tail(job), UNCHANGED <<disk, crashes>>,
         NEW r, NEW p, NEW do, r = Now.path, do = Now.do, world' = [world EXCEPT !.process[r] = p],
         r \in Topology!Roles => p = [life |-> p.life, cache |-> p.cache, log |-> p.log],
         \/ do = "launch" /\ (r \in Topology!Roles => p.life = "up")
         \/ do = "kill" /\ (r \in Topology!Roles => p.life = "dead")
  PROVE  TopologyGoes
<1>1. disk = [q \in Topology!Places |-> disk[q]] /\ TopologyWorld
  BY DEF TopologyInv
<1>2. TopologyWorld' /\ \A q \in Topology!Roles : Proc(q)' = IF q = r THEN p ELSE Proc(q)
  BY <1>1, TopologySets
<1>3. Kind(Now) = <<do, r>>  BY DEF Kind
<1>4. Kind(Now) \notin Ending /\ Kind(Now) # <<"drop", "source">>
  BY <1>3 DEF Ending
<1>5. \A q \in Topology!Roles :
        Proc(q)'.life = IF Kind(Now) = <<"launch", q>> THEN "up" ELSE IF Kind(Now) = <<"kill", q>> THEN "dead" ELSE Proc(q).life
  <2> SUFFICES ASSUME NEW q \in Topology!Roles
               PROVE  Proc(q)'.life = IF Kind(Now) = <<"launch", q>> THEN "up"
                                      ELSE IF Kind(Now) = <<"kill", q>> THEN "dead" ELSE Proc(q).life
    OBVIOUS
  <2>1. Kind(Now) = <<"launch", q>> <=> do = "launch" /\ q = r  BY <1>3
  <2>2. Kind(Now) = <<"kill", q>> <=> do = "kill" /\ q = r  BY <1>3
  <2>3. CASE q = r  BY <1>2, <2>1, <2>2, <2>3
  <2>4. CASE q # r  BY <1>2, <2>1, <2>2, <2>4
  <2>5. QED BY <2>3, <2>4
<1>6. QED BY <1>1, <1>2, <1>4, <1>5 DEF TopologyGoes

LEMMA TopologyStarts ==
  ASSUME TopologyInv, Topology!StartProcess
  PROVE  TopologyGoes
<1> DEFINE r == Now.path
<1>1. PICK c : /\ job # <<>> /\ Now.do = "launch" /\ job' = Tail(job) /\ UNCHANGED <<disk, crashes>>
               /\ world' = [world EXCEPT !.process[r] = [Topology!NotStarted EXCEPT !.life = "up", !.cache = c]]
  BY Zenon DEF Topology!StartProcess, Topology!Does, Topology!Now, Now, Topology!Proceed, Topology!Sets
<1> DEFINE p == [Topology!NotStarted EXCEPT !.life = "up", !.cache = c]
<1>2. p.life = "up" /\ p = [life |-> p.life, cache |-> p.cache, log |-> p.log]
  <2>1. ASSUME NEW n, n = [life |-> n.life, cache |-> n.cache, log |-> n.log]
        PROVE  LET m == [n EXCEPT !.life = "up", !.cache = c]
               IN m.life = "up" /\ m = [life |-> m.life, cache |-> m.cache, log |-> m.log]
    <3> DEFINE m == [n EXCEPT !.life = "up"]
    <3>1. m.life = "up" /\ m = [life |-> m.life, cache |-> m.cache, log |-> m.log]
      BY <2>1
    <3> HIDE DEF m
    <3> DEFINE l == [m EXCEPT !.cache = c]
    <3>2. l.life = "up" /\ l = [life |-> l.life, cache |-> l.cache, log |-> l.log]
      BY <3>1
    <3>3. QED BY <3>2, Zenon DEF m
  <2>2. Topology!NotStarted = [life |-> Topology!NotStarted.life, cache |-> Topology!NotStarted.cache,
                               log |-> Topology!NotStarted.log]
    BY DEF Topology!NotStarted
  <2>3. QED BY <2>1, <2>2, Zenon
<1>3. world' = [world EXCEPT !.process[r] = p]  BY <1>1
<1> HIDE DEF p
<1>4. QED BY <1>1, <1>2, <1>3, TopologyProcessGoes

LEMMA TopologyTerminates ==
  ASSUME TopologyInv, Topology!Terminate
  PROVE  TopologyGoes \/ (TopologyInv' /\ disk' = disk)
<1> DEFINE r == Now.path
           p == [Proc(r) EXCEPT !.life = "dead"]
           rest == IF disk["staging"] = Absent THEN <<>> ELSE Topology!Remove("staging")
<1>1. /\ job # <<>> /\ Now.do = "kill" /\ UNCHANGED <<disk, crashes>>
      /\ world' = [world EXCEPT !.process[r] = p]
      /\ job' = Tail(job) \/ (Proc(r).life = "exited" /\ job' = rest)
  BY Zenon DEF Topology!Terminate, Topology!Does, Topology!Now, Now, Topology!Proceed, Topology!Sets, Topology!Process,
               Proc, Topology!Absent, Absent
<1>2. disk = [q \in Topology!Places |-> disk[q]] /\ TopologyWorld
  BY DEF TopologyInv
<1>3. r \in Topology!Roles => p.life = "dead" /\ p = [life |-> p.life, cache |-> p.cache, log |-> p.log]
  BY <1>2 DEF TopologyWorld
<1> HIDE DEF p
<1>4. CASE job' = Tail(job)
  <2>1. TopologyGoes  BY <1>1, <1>3, <1>4, TopologyProcessGoes
  <2>2. QED BY <2>1
<1>5. CASE Proc(r).life = "exited" /\ job' = rest
  <2>1. Closing(job') /\ (disk["staging"] # Absent => <<"drop", "staging">> \in Kinds(job'))
    BY <1>5, ClosingParts
  <2>2. TopologyWorld' /\ \A q \in Topology!Roles : Proc(q)' = IF q = r THEN p ELSE Proc(q)
    BY <1>1, <1>2, <1>3, TopologySets
  <2>3. ASSUME crashes' = 0, NEW q \in Topology!Roles, Started(q)' PROVE FALSE
    <3>1. q # r /\ Started(q)  BY <1>3, <2>2, <2>3 DEF Started
    <3>2. r \in Topology!Roles /\ Started(r)
      BY <1>1, <1>5, TopologyRest DEF Started
    <3>3. \A m, n \in Topology!Roles : Started(m) /\ Started(n) => m = n
      BY <1>1, <2>3 DEF TopologyInv, TopologyCleanInv
    <3>4. QED BY <3>1, <3>2, <3>3
  <2>4. TopologyInv'  BY <1>1, <1>2, <2>1, <2>2, <2>3, ClosingKeeps
  <2>5. QED BY <1>1, <2>4
<1>6. QED BY <1>1, <1>4, <1>5

\* What the command keeps of a process, and what it publishes.
LEMMA TopologyKeepsEvidence ==
  ASSUME TopologyInv, Topology!Keep
  PROVE  TopologyGoes
<1>1. PICK c : job # <<>> /\ Now.do = "keep" /\ job' = Tail(job) /\ UNCHANGED <<world, crashes>> /\ disk' = [disk EXCEPT !["staging"] = c]
  <2>1. \E c : /\ job # <<>> /\ Now.do = "keep" /\ job' = Tail(job) /\ UNCHANGED <<world, crashes>>
               /\ disk' = [disk EXCEPT !["staging"] = c]
    BY Zenon DEF Topology!Keep, Topology!Does, Topology!Now, Now, Topology!Proceed
  <2>2. QED BY <2>1
<1>2. disk = [p \in Topology!Places |-> disk[p]] /\ TopologyWorld
  BY DEF TopologyInv
<1>3. disk' = [p \in Topology!Places |-> disk'[p]] /\ \A p \in Topology!Places : p # "staging" => disk'[p] = disk[p]
  BY <1>1, <1>2
<1>4. Kind(Now) = <<"keep", Now.path>> /\ Now.path \in Topology!Places
  BY <1>1, TopologyRest DEF Kind
<1>5. Kind(Now) \in Staging /\ Kind(Now) # <<"drop", "source">> /\ \A r : Kind(Now) # <<"launch", r>> /\ Kind(Now) # <<"kill", r>>
  BY <1>4 DEF Staging
<1>6. TopologyWorld' /\ \A r : Proc(r)' = Proc(r)
  BY <1>1, <1>2 DEF TopologyWorld, Proc
<1>7. disk'["source"] = disk["source"] /\ disk'["return"] = disk["return"] /\ disk'["release"] = disk["release"]
  BY <1>3, TopologyNames
<1>8. QED BY <1>1, <1>3, <1>5, <1>6, <1>7 DEF TopologyGoes

LEMMA TopologyPublishes ==
  ASSUME TopologyInv, Topology!Publish
  PROVE  TopologyGoes \/ Topology!Fails
<1>1. /\ job # <<>> /\ Now.do = "publish"
      /\ \/ Topology!Fails
         \/ /\ disk["release"] = Absent /\ job' = Tail(job) /\ UNCHANGED <<world, crashes>>
            /\ disk' = [disk EXCEPT !["release"] = disk["staging"], !["staging"] = Absent]
  BY Zenon DEF Topology!Publish, Topology!Does, Topology!Now, Now, Topology!Proceed, Topology!Absent, Absent
<1>2. disk = [p \in Topology!Places |-> disk[p]] /\ TopologyWorld
  BY DEF TopologyInv
<1>3. CASE /\ disk["release"] = Absent /\ job' = Tail(job) /\ UNCHANGED <<world, crashes>>
           /\ disk' = [disk EXCEPT !["release"] = disk["staging"], !["staging"] = Absent]
  <2>1. /\ disk' = [p \in Topology!Places |-> disk'[p]] /\ disk'["staging"] = Absent
        /\ disk'["source"] = disk["source"] /\ disk'["return"] = disk["return"]
    BY <1>2, <1>3, TopologyNames
  <2>2. Kind(Now) = <<"publish", Now.path>>  BY <1>1 DEF Kind
  <2>3. Kind(Now) # <<"drop", "source">> /\ \A r : Kind(Now) # <<"launch", r>> /\ Kind(Now) # <<"kill", r>>
    BY <2>2
  <2>4. TopologyWorld' /\ \A r : Proc(r)' = Proc(r)
    BY <1>2, <1>3 DEF TopologyWorld, Proc
  <2>5. TopologyGoes  BY <1>1, <1>3, <2>1, <2>3, <2>4 DEF TopologyGoes
  <2>6. QED BY <2>5
<1>4. QED BY <1>1, <1>3

LEMMA TopologyPerforms ==
  ASSUME TopologyInv, Perform(Topology!Handler)
  PROVE  TopologyGoes \/ (TopologyInv' /\ disk' = disk)
<1>1. disk = [p \in Topology!Places |-> disk[p]] /\ TopologyWorld
  BY DEF TopologyInv
<1> DEFINE h == Topology!Handler
<1>2. Perform(h)  OBVIOUS
<1> HIDE DEF h
<1>3. /\ UNCHANGED <<world, crashes>> /\ job # <<>> /\ Now.do \in FileSteps
      /\ disk' = [p \in Topology!Places |-> disk'[p]]
      /\ \/ job' = h /\ disk' = disk
         \/ /\ job' = Tail(job)
            /\ \A p \in Topology!Places : p # Now.path => disk'[p] = disk[p]
            /\ Now.path \in Topology!Places /\ Now.do # "copy" => disk'[Now.path] = Now.content
  BY <1>1, <1>2, Performed
<1>4. CASE job' = h /\ disk' = disk
  <2>1. TopologyInv'  BY <1>3, <1>4, TopologyFails DEF h
  <2>2. QED BY <1>4, <2>1
<1>5. CASE /\ job' = Tail(job)
           /\ \A p \in Topology!Places : p # Now.path => disk'[p] = disk[p]
           /\ Now.path \in Topology!Places /\ Now.do # "copy" => disk'[Now.path] = Now.content
  <2>1. Shaped(Now) /\ Now.path \in Topology!Places  BY <1>3, TopologyRest
  <2>2. Kind(Now) = <<Now.do, Now.path>>  BY DEF Kind
  <2>3. \A r : Kind(Now) # <<"launch", r>> /\ Kind(Now) # <<"kill", r>>
    BY <1>3, <2>2 DEF FileSteps
  <2>4. \A p \in Topology!Places : disk'[p] = disk[p] \/ Kind(Now) \in On(p)
    BY <1>3, <1>5, <2>2 DEF On
  <2>5. Now.do = "drop" => disk'[Now.path] = Absent  BY <1>5, <2>1 DEF Shaped
  <2>6. disk'["staging"] # Absent => Kind(Now) \in Staging \/ (disk["staging"] # Absent /\ Kind(Now) \notin Ending)
    <3>1. CASE Now.path = "staging"
      <4>1. Now.do # "drop" => Kind(Now) \in Staging
        BY <1>3, <2>2, <3>1 DEF Staging, Making
      <4>2. QED BY <2>5, <3>1, <4>1
    <3>2. CASE Now.path # "staging"
      <4>1. Kind(Now) \notin Ending /\ disk'["staging"] = disk["staging"]
        BY <1>5, <2>2, <3>2, TopologyNames DEF Ending
      <4>2. QED BY <4>1
    <3>3. QED BY <3>1, <3>2
  <2>7. Kind(Now) = <<"drop", "source">> => disk'["source"] = Absent
    BY <2>2, <2>5
  <2>8. TopologyWorld' /\ \A r : Proc(r)' = Proc(r)
    BY <1>1, <1>3 DEF TopologyWorld, Proc
  <2>9. TopologyGoes
    BY <1>3, <1>5, <2>3, <2>4, <2>6, <2>7, <2>8, TopologyNames DEF TopologyGoes
  <2>10. QED BY <2>9
<1>6. QED BY <1>3, <1>4, <1>5

LEMMA TopologyAcquires ==
  ASSUME TopologyInv, Topology!Acquire
  PROVE  TopologyInv' /\ disk["release"] = Absent /\ disk'["return"] = Absent
<1>1. /\ job' = Topology!AcquireStaged /\ disk["release"] = Absent /\ disk' = [p \in Topology!Places |-> Absent]
      /\ world' = [process |-> Topology!Unstarted, head |-> "R0"] /\ crashes' = crashes
  BY Zenon DEF Topology!Acquire, Topology!Absent, Absent
<1> DEFINE s == Topology!AcquireStaged
<1>2. /\ IsJob(s) /\ ShapedJob(s)
      /\ \A e \in Items(s) : e.path \in Topology!Places /\ (e.do = "kill" => e.path \in Topology!Roles)
      /\ TopologyOrderly(s)
      /\ <<"publish", "staging">> \in Kinds(s) /\ NoPair(s, Ending, Staging)
      /\ <<"kill", "source">> \in Kinds(s) /\ <<"drop", "source">> \in Kinds(s)
      /\ NoPair(s, On("return"), To("kill", "source")) /\ NoPair(s, On("return"), To("drop", "source"))
      /\ NoPair(s, To("drop", "source"), Making("source"))
  BY AcquireStagedParts
<1> HIDE DEF s
<1>3. job' = s  BY <1>1 DEF s
<1>4. TopologyWorld' /\ \A r \in Topology!Roles : ~(Started(r)')
  BY <1>1 DEF TopologyWorld, Proc, Started, Topology!Unstarted, Topology!NotStarted
<1>5. Kinds(s) \cap On("release") = {}  BY AcquireStagedParts DEF s
<1>6. TopologySuccessionInv'
  BY <1>2, <1>3, <1>5, TopologyNames DEF TopologySuccessionInv, TopologyOrderly
<1>7. TopologyCleanInv'
  <2>1. disk'["staging"] = Absent /\ Kinds(s) \cap Ending # {}
    BY <1>1, <1>2, TopologyNames DEF Ending
  <2>2. QED BY <1>2, <1>3, <1>4, <2>1 DEF TopologyCleanInv
<1>8. TopologyInv'  BY <1>1, <1>2, <1>3, <1>4, <1>6, <1>7 DEF TopologyInv
<1>9. QED BY <1>1, <1>8, TopologyNames

\* No step of the command, of its processes or of its handler breaks the order of the
\* succession or touches what is published.
LEMMA TopologyKeeps ==
  ASSUME TopologyInv, Topology!TopologyNext
  PROVE  /\ TopologyInv' /\ Topology!TopologySuccession
         /\ disk["release"] # Absent => disk'["release"] = disk["release"]
<1>1. ASSUME TopologyInv', disk' = disk
      PROVE  /\ TopologyInv' /\ Topology!TopologySuccession
             /\ disk["release"] # Absent => disk'["release"] = disk["release"]
  BY <1>1 DEF Topology!TopologySuccession
<1>2. ASSUME Topology!Acquire
      PROVE  /\ TopologyInv' /\ Topology!TopologySuccession
             /\ disk["release"] # Absent => disk'["release"] = disk["release"]
  <2>1. TopologyInv' /\ disk["release"] = Absent /\ disk'["return"] = Absent
    BY <1>2, TopologyAcquires
  <2>2. Topology!TopologySuccession
    BY <2>1, Zenon DEF Topology!TopologySuccession, Topology!Absent, Absent
  <2>3. QED BY <2>1, <2>2
<1>3. Topology!Perform(Topology!Handler) => Perform(Topology!Handler)
  BY PerformSame
<1>4. \/ Topology!Acquire
      \/ TopologyInv' /\ disk' = disk
      \/ TopologyGoes
  BY <1>3, TopologyLives, TopologyLooks, TopologyFailsKeeps, TopologyStarts, TopologyTerminates, TopologyKeepsEvidence,
     TopologyPublishes, TopologyPerforms DEF Topology!TopologyNext, Topology!TopologyCommands
<1>5. QED BY <1>1, <1>2, <1>4, TopologyGoesOn

\* A command that is over has left no process and no half evidence, if none was killed.
LEMMA TopologyLeavesNothing == TopologyInv => Topology!TopologyClean
<1> SUFFICES ASSUME TopologyInv, job = <<>>, crashes = 0
             PROVE  disk["staging"] = Absent /\ \A r \in Topology!Roles : Proc(r).life # "up"
  BY Zenon DEF Topology!TopologyClean, Topology!Absent, Absent, Topology!Up, Topology!Process, Proc
<1>1. Kinds(job) = {}  BY EmptyJob
<1>2. QED BY <1>1 DEF TopologyInv, TopologyCleanInv, Started

-----------------------------------------------------------------------------
(* The whole store *)

\* A behaviour is of one scene, only a death is counted, and a verdict is one of three.
OneScene == UNCHANGED <<scene, crashes>> /\ verdict' \in {verdict, "none", "accepted", "rejected"}

LEMMA IntegratedScene == ASSUME Integrated!IntegratedNext PROVE OneScene
<1>1. Integrated!IntegratedProcesses => OneScene
  BY Zenon DEF OneScene, Integrated!IntegratedProcesses, Integrated!Launch, Integrated!BeginPlay, Integrated!Dies,
               Integrated!TryDisableByCrew, Integrated!WriteExactQ, Integrated!LogQ
<1>2. \A steps : Integrated!Starts(steps) => OneScene
  BY Zenon DEF OneScene, Integrated!Starts
<1>3. Integrated!Prepare \/ Integrated!AcceptQ \/ Integrated!ResolveAfterUnload \/ Integrated!ResolveControlAfterUnload
        \/ Integrated!ExportWitness \/ (\E s \in Integrated!Stages : Integrated!CaptureReceipt(s))
        \/ Integrated!RecordTermination
      => OneScene
  BY <1>2, Zenon DEF OneScene, Integrated!Prepare, Integrated!AcceptQ, Integrated!ResolveAfterUnload,
       Integrated!ResolveControlAfterUnload, Integrated!ExportWitness, Integrated!CaptureReceipt,
       Integrated!RecordTermination
<1>4. Integrated!Perform(<<>>) \/ Integrated!Summarize \/ Integrated!VerifyPhysicalWitnesses
      => OneScene
  BY Zenon DEF OneScene, Integrated!Perform, Integrated!Summarize, Integrated!VerifyPhysicalWitnesses
<1>5. QED BY <1>1, <1>3, <1>4 DEF Integrated!IntegratedNext, Integrated!IntegratedCommands

LEMMA OccupancyScene == ASSUME Occupancy!OccupancyNext PROVE OneScene
<1>1. Occupancy!Edit \/ Occupancy!BuildModule \/ (\E g \in Occupancy!GroupNames : Occupancy!Repair(g))
      => OneScene
  BY Zenon DEF OneScene, Occupancy!Edit, Occupancy!BuildModule, Occupancy!Repair
<1>2. Occupancy!OccupancyCommands => OneScene
  BY Zenon DEF OneScene, Occupancy!OccupancyCommands, Occupancy!AcquireAll, Occupancy!CacheGroup, Occupancy!Assemble,
               Occupancy!Rename, Occupancy!WriteRelease, Occupancy!VerifyRelease
<1>3. Occupancy!Perform(<<>>) => OneScene
  BY Zenon DEF OneScene, Occupancy!Perform
<1>4. QED BY <1>1, <1>2, <1>3 DEF Occupancy!OccupancyNext

LEMMA PhysicalScene == ASSUME Physical!PhysicalNext PROVE OneScene
<1>1. Physical!Edit \/ Physical!BuildModule \/ Physical!RemoveRecords \/ Physical!WriteDocument
      => OneScene
  BY Zenon DEF OneScene, Physical!Edit, Physical!BuildModule, Physical!RemoveRecords, Physical!WriteDocument
<1>2. Physical!PhysicalCommands => OneScene
  BY Zenon DEF OneScene, Physical!PhysicalCommands, Physical!AcquireAll, Physical!AcquireOccurrence, Physical!SourceAudit,
               Physical!WriteArtifact, Physical!WriteRelease, Physical!VerifyRelease
<1>3. Physical!Perform(<<>>) => OneScene
  BY Zenon DEF OneScene, Physical!Perform
<1>4. QED BY <1>1, <1>2, <1>3 DEF Physical!PhysicalNext

LEMMA TopologyScene == ASSUME Topology!TopologyNext PROVE OneScene
<1>1. Topology!TopologyProcesses => OneScene
  BY Zenon DEF OneScene, Topology!TopologyProcesses, Topology!BeginsLine, Topology!EndsLine, Topology!Exits
<1>2. Topology!Passes \/ Topology!Fails => OneScene
  BY Zenon DEF OneScene, Topology!Passes, Topology!Fails
<1>3. /\ \A c : Topology!Demands(c) => OneScene
      /\ \A l : Topology!WaitsFor(l) => OneScene
  BY <1>2, Zenon DEF OneScene, Topology!Demands, Topology!WaitsFor
<1>4. Topology!Inventory \/ Topology!ValidateReturnPrelaunch \/ Topology!WaitForReceipt \/ Topology!WaitForFailure
        \/ Topology!MustBeAlive \/ Topology!CompleteCacheAudit \/ Topology!Gate \/ Topology!Members
      => OneScene
  BY <1>3, Zenon DEF OneScene, Topology!Inventory, Topology!ValidateReturnPrelaunch, Topology!WaitForReceipt,
       Topology!WaitForFailure, Topology!MustBeAlive, Topology!CompleteCacheAudit, Topology!Gate, Topology!Members
<1>5. Topology!Acquire \/ Topology!StartProcess \/ Topology!Terminate \/ Topology!Keep \/ Topology!Resolve
        \/ Topology!Publish
      => OneScene
  BY <1>2, Zenon DEF OneScene, Topology!Acquire, Topology!StartProcess, Topology!Terminate, Topology!Keep, Topology!Resolve,
       Topology!Publish
<1>6. Topology!Perform(Topology!Handler) => OneScene
  BY Zenon DEF OneScene, Topology!Perform
<1>7. QED BY <1>1, <1>4, <1>5, <1>6 DEF Topology!TopologyNext, Topology!TopologyCommands

-----------------------------------------------------------------------------

LEMMA NothingYet ==
  /\ IsJob(<<>>) /\ Kinds(<<>>) = {} /\ Items(<<>>) = {} /\ ShapedJob(<<>>)
  /\ \A A, B : NoPair(<<>>, A, B)
  /\ \A P : LastWrites(<<>>, P)
  /\ TopologyOrderly(<<>>)
<1>1. DOMAIN <<>> = {}  OBVIOUS
<1>2. QED BY <1>1, EmptyJob DEF Items, ShapedJob, LastWrites, TopologyOrderly, Brackets

LEMMA IntegratedStarts == Integrated!IntegratedInit => IntegratedInv
<1> SUFFICES ASSUME Integrated!IntegratedInit PROVE IntegratedInv  OBVIOUS
<1>1. /\ job = <<>> /\ disk = [p \in Integrated!Paths |-> Absent]
      /\ world = [s \in Integrated!Stages |-> Integrated!NewProcess]
  BY Zenon DEF Integrated!IntegratedInit, Integrated!Absent, Absent
<1>2. \A s \in Integrated!Stages :
        world[s] = [life |-> world[s].life, read |-> world[s].read, crew |-> world[s].crew]
  BY <1>1 DEF Integrated!NewProcess
<1>3. disk = [p \in Integrated!Paths |-> disk[p]] /\ world = [s \in Integrated!Stages |-> world[s]]
  BY <1>1
<1>4. {"Rinput", "captured_Q", "termination"} \subseteq Integrated!Paths
  BY DEF Integrated!Paths, Integrated!Evidence, Integrated!State
<1>5. disk["Rinput"] = Absent /\ disk["termination"] = Absent  BY <1>1, <1>4
<1>6. IntegratedSuccessionInv
  BY <1>1, <1>5, NothingYet DEF IntegratedSuccessionInv
<1>7. IntegratedEvidenceInv
  BY <1>1, <1>5, NothingYet DEF IntegratedEvidenceInv
<1>8. QED BY <1>1, <1>2, <1>3, <1>6, <1>7, NothingYet DEF IntegratedInv

LEMMA OccupancyStarts == Occupancy!OccupancyInit => OccupancyInv
<1> SUFFICES ASSUME Occupancy!OccupancyInit PROVE OccupancyInv  OBVIOUS
<1>1. job = <<>> /\ disk = [p \in Occupancy!Files |-> Absent]
  BY Zenon DEF Occupancy!OccupancyInit, Occupancy!Absent, Absent
<1>2. disk = [p \in Occupancy!Files |-> disk[p]]  BY <1>1
<1>3. DOMAIN job = {}  BY <1>1
<1>4. QED BY <1>1, <1>2, <1>3, NothingYet DEF OccupancyInv

LEMMA PhysicalStarts == Physical!PhysicalInit => PhysicalInv
<1> SUFFICES ASSUME Physical!PhysicalInit PROVE PhysicalInv  OBVIOUS
<1>1. job = <<>> /\ disk = [p \in Physical!Files |-> Absent]
  BY Zenon DEF Physical!PhysicalInit, Physical!Absent, Absent
<1>2. disk = [p \in Physical!Files |-> disk[p]]  BY <1>1
<1>3. \A n \in Physical!Names : disk[n] = Absent  BY <1>1 DEF Physical!Files
<1>4. QED BY <1>1, <1>2, <1>3, NothingYet DEF PhysicalInv

LEMMA TopologyBegins == Topology!TopologyInit => TopologyInv
<1> SUFFICES ASSUME Topology!TopologyInit PROVE TopologyInv  OBVIOUS
<1>1. job = <<>> /\ disk = [p \in Topology!Places |-> Absent] /\ world = [process |-> Topology!Unstarted, head |-> "R0"]
  BY Zenon DEF Topology!TopologyInit, Topology!Absent, Absent
<1>2. disk = [p \in Topology!Places |-> disk[p]]  BY <1>1
<1>3. \A r \in Topology!Roles : Proc(r) = Topology!NotStarted
  BY <1>1 DEF Proc, Topology!Unstarted
<1>4. world.process = [r \in Topology!Roles |-> world.process[r]]
  BY <1>1 DEF Topology!Unstarted
<1>5. world = [process |-> world.process, head |-> world.head]  BY <1>1
<1>6. TopologyWorld
  BY <1>3, <1>4, <1>5 DEF TopologyWorld, Topology!NotStarted
<1>7. \A r \in Topology!Roles : ~Started(r)
  BY <1>3 DEF Started, Topology!NotStarted
<1>8. disk["staging"] = Absent  BY <1>1 DEF Topology!Places
<1>9. TopologySuccessionInv  BY <1>1, NothingYet DEF TopologySuccessionInv
<1>10. TopologyCleanInv  BY <1>1, <1>7, <1>8, NothingYet DEF TopologyCleanInv
<1>11. QED BY <1>1, <1>2, <1>6, <1>9, <1>10, NothingYet DEF TopologyInv

LEMMA InitIInv == Init => IInv
<1>1. Integrated!IntegratedInit => scene \in Integrated!Roots /\ crashes = 0
  BY Zenon DEF Integrated!IntegratedInit
<1>2. Topology!TopologyInit => scene = "topology" /\ crashes = 0
  BY Zenon DEF Topology!TopologyInit
<1>3. Occupancy!OccupancyInit => scene = "occupancy" /\ crashes = 0
  BY Zenon DEF Occupancy!OccupancyInit
<1>4. Physical!PhysicalInit => scene = "physical" /\ crashes = 0
  BY Zenon DEF Physical!PhysicalInit
<1>5. Integrated!Roots \cap {"topology", "occupancy", "physical"} = {}
  BY DEF Integrated!Roots
<1>6. QED
  BY <1>1, <1>2, <1>3, <1>4, <1>5, IntegratedStarts, TopologyBegins, OccupancyStarts, PhysicalStarts DEF Init, IInv

-----------------------------------------------------------------------------

\* What a command leaves when it dies is no more than it had done.
LEMMA CrashKeeps ==
  ASSUME IInv, Crash
  PROVE  IInv'
<1>1. /\ job # <<>> /\ job' = <<>> /\ crashes' = crashes + 1 /\ scene' = scene /\ disk' = disk /\ world' = world
  BY DEF Crash
<1>2. crashes \in Nat /\ crashes' \in Nat /\ crashes' # 0  BY <1>1 DEF IInv
<1>3. scene \in Integrated!Roots => IntegratedInv'
  <2>1. Benign(job')  BY <1>1, NothingYet DEF Benign
  <2>2. QED BY <1>1, <2>1, BenignKeeps DEF IInv
<1>4. scene = "occupancy" => OccupancyInv'
  <2> SUFFICES ASSUME OccupancyInv PROVE OccupancyInv'  BY DEF IInv
  <2>1. Ungrouped(job')  BY <1>1, UngroupedParts
  <2>2. disk' = [p \in Occupancy!Files |-> disk'[p]]  BY <1>1 DEF OccupancyInv
  <2>3. QED BY <2>1, <2>2, UngroupedKeeps
<1>5. scene = "physical" => PhysicalInv'  BY <1>1, PhysicalPasses DEF IInv
<1>6. scene = "topology" => TopologyInv'
  <2> SUFFICES ASSUME TopologyInv PROVE TopologyInv'  BY DEF IInv
  <2>1. Closing(job')  BY <1>1, ClosingParts
  <2>2. disk' = [p \in Topology!Places |-> disk'[p]]  BY <1>1 DEF TopologyInv
  <2>3. TopologyWorld'  BY <1>1 DEF TopologyInv, TopologyWorld, Proc
  <2>4. QED BY <1>2, <2>1, <2>2, <2>3, ClosingKeeps
<1>7. QED BY <1>1, <1>2, <1>3, <1>4, <1>5, <1>6 DEF IInv

\* What a step changes, in the scene it is of.
LEMMA StepsKeep ==
  ASSUME IInv, Next
  PROVE  IInv'
<1>1. CASE scene \in Integrated!Roots /\ Integrated!IntegratedNext
  <2>1. scene' = scene /\ crashes' = crashes
    BY <1>1, IntegratedScene DEF OneScene
  <2>2. IntegratedInv'  BY <1>1, IntegratedKeeps DEF IInv
  <2>3. scene \notin {"topology", "occupancy", "physical"}
    BY <1>1 DEF Integrated!Roots
  <2>4. QED BY <1>1, <2>1, <2>2, <2>3 DEF IInv
<1>2. CASE scene = "topology" /\ Topology!TopologyNext
  <2>1. scene' = scene /\ crashes' = crashes
    BY <1>2, TopologyScene DEF OneScene
  <2>2. TopologyInv'  BY <1>2, TopologyKeeps DEF IInv
  <2>3. scene \notin Integrated!Roots  BY <1>2 DEF Integrated!Roots
  <2>4. QED BY <1>2, <2>1, <2>2, <2>3 DEF IInv
<1>3. CASE scene = "occupancy" /\ Occupancy!OccupancyNext
  <2>1. scene' = scene /\ crashes' = crashes
    BY <1>3, OccupancyScene DEF OneScene
  <2>2. OccupancyInv'  BY <1>3, OccupancyKeeps DEF IInv
  <2>3. scene \notin Integrated!Roots  BY <1>3 DEF Integrated!Roots
  <2>4. QED BY <1>3, <2>1, <2>2, <2>3 DEF IInv
<1>4. CASE scene = "physical" /\ Physical!PhysicalNext
  <2>1. scene' = scene /\ crashes' = crashes
    BY <1>4, PhysicalScene DEF OneScene
  <2>2. PhysicalInv'  BY <1>4, PhysicalKeeps DEF IInv
  <2>3. scene \notin Integrated!Roots  BY <1>4 DEF Integrated!Roots
  <2>4. QED BY <1>4, <2>1, <2>2, <2>3 DEF IInv
<1>5. CASE Crash  BY <1>5, CrashKeeps
<1>6. QED BY <1>1, <1>2, <1>3, <1>4, <1>5 DEF Next

LEMMA StutterKeeps ==
  ASSUME IInv, UNCHANGED storeVars
  PROVE  IInv'
<1>1. /\ scene' = scene /\ disk' = disk /\ job' = job /\ world' = world /\ crashes' = crashes
  BY DEF storeVars
<1>2. IntegratedInv => IntegratedInv'
  BY <1>1, Zenon DEF IntegratedInv, IntegratedSuccessionInv, IntegratedEvidenceInv, Dead
<1>3. TopologyInv => TopologyInv'
  BY <1>1, Zenon DEF TopologyInv, TopologySuccessionInv, TopologyCleanInv, TopologyWorld, Started, Proc
<1>4. OccupancyInv => OccupancyInv'  BY <1>1, Zenon DEF OccupancyInv
<1>5. PhysicalInv => PhysicalInv'  BY <1>1, Zenon DEF PhysicalInv
<1>6. QED BY <1>1, <1>2, <1>3, <1>4, <1>5 DEF IInv

\* The inductive invariant holds of every behaviour, for every bound.
THEOREM SpecIInv == Spec => []IInv
<1>1. IInv /\ [Next]_storeVars => IInv'  BY StepsKeep, StutterKeeps
<1>2. QED BY <1>1, InitIInv, PTL DEF Spec

\* An acquisition of the topology release that has failed or has ended, and was not killed,
\* has no engine running and no staging directory (_acquire_staged, the finally of acquire).
THEOREM SpecNothingLeftBehind == Spec => []NothingLeftBehind
<1>1. IInv => NothingLeftBehind
  BY TopologyLeavesNothing DEF IInv, NothingLeftBehind
<1>2. QED BY <1>1, SpecIInv, PTL

\* The successor of a record is handed to an engine only when the process that had the
\* record is dead and its files are gone, for any number of deaths of a command and of
\* edits (resolve_after_unload, resolve_control_after_unload, _validate_return_prelaunch).
THEOREM SpecSuccession == Spec => Succession
<1> DEFINE A == /\ scene \in Integrated!Roots => Integrated!IntegratedSuccession
                /\ scene = "topology" => Topology!TopologySuccession
<1>1. ASSUME disk' = disk PROVE A
  BY <1>1 DEF Integrated!IntegratedSuccession, Topology!TopologySuccession
<1>2. ASSUME IInv, Next PROVE A
  <2>1. CASE Crash  BY <2>1, <1>1 DEF Crash
  <2>2. CASE scene \in Integrated!Roots /\ Integrated!IntegratedNext
    <3>1. Integrated!IntegratedSuccession
      BY <1>2, <2>2, IntegratedSucceeds DEF IInv
    <3>2. QED BY <2>2, <3>1 DEF Integrated!Roots
  <2>3. CASE scene = "topology" /\ Topology!TopologyNext
    <3>1. Topology!TopologySuccession  BY <1>2, <2>3, TopologyKeeps DEF IInv
    <3>2. QED BY <2>3, <3>1 DEF Integrated!Roots
  <2>4. CASE scene \in {"occupancy", "physical"}  BY <2>4 DEF Integrated!Roots
  <2>5. QED BY <1>2, <2>1, <2>2, <2>3, <2>4 DEF Next
<1>3. IInv /\ [Next]_storeVars => [A]_storeVars  BY <1>2
<1>4. QED BY <1>3, SpecIInv, PTL DEF Spec, Succession

\* Evidence is never lost to a later step, for any number of deaths of a command and of
\* edits (accept_q_and_prepare_return, acquire, _cache_group).
THEOREM SpecNothingLost == Spec => NothingLost
<1> DEFINE A == /\ scene \in Integrated!Roots => Integrated!IntegratedNothingLost
                /\ scene = "topology" /\ disk["release"] # Absent => disk'["release"] = disk["release"]
                /\ scene = "occupancy" => Occupancy!OccupancyKept
                /\ scene = "physical" => Physical!PhysicalKept
<1>0. Torn \notin {Integrated!PartOfQ, Integrated!Q}
  BY DEF Torn, Integrated!PartOfQ, Integrated!Q, Integrated!File
<1>1. ASSUME disk' = disk PROVE A
  BY <1>0, <1>1 DEF Integrated!IntegratedNothingLost, Occupancy!OccupancyKept, Physical!PhysicalKept, Integrated!Torn, Torn
<1>2. ASSUME IInv, Next PROVE A
  <2>1. CASE Crash  BY <2>1, <1>1 DEF Crash
  <2>2. CASE scene \in Integrated!Roots /\ Integrated!IntegratedNext
    <3>1. Integrated!IntegratedNothingLost
      BY <1>2, <2>2, IntegratedLosesNothing DEF IInv
    <3>2. QED BY <2>2, <3>1 DEF Integrated!Roots
  <2>3. CASE scene = "topology" /\ Topology!TopologyNext
    <3>1. disk["release"] # Absent => disk'["release"] = disk["release"]
      BY <1>2, <2>3, TopologyKeeps DEF IInv
    <3>2. QED BY <2>3, <3>1 DEF Integrated!Roots
  <2>4. CASE scene = "occupancy" /\ Occupancy!OccupancyNext
    <3>1. Occupancy!OccupancyKept  BY <1>2, <2>4, OccupancyKeeps DEF IInv
    <3>2. QED BY <2>4, <3>1 DEF Integrated!Roots
  <2>5. CASE scene = "physical" /\ Physical!PhysicalNext
    <3>1. Physical!PhysicalKept  BY <1>2, <2>5, PhysicalKeeps DEF IInv
    <3>2. QED BY <2>5, <3>1 DEF Integrated!Roots
  <2>6. QED BY <1>2, <2>1, <2>2, <2>3, <2>4, <2>5 DEF Next
<1>3. IInv /\ [Next]_storeVars => [A]_storeVars  BY <1>2
<1>4. QED BY <1>3, SpecIInv, PTL DEF Spec, NothingLost

-----------------------------------------------------------------------------
(* What a release tells: a second invariant *)

Worded(s) == \A e \in Items(s) : DOMAIN e = Words

DidNothing == Dead("source") /\ world["source"].crew = "idle"

\* A log tells no more than its process has done.
LogTold(s, c) ==
  \/ c \in {Integrated!LogOf("none", FALSE), Integrated!LogOf(world[s].read, FALSE)}
  \/ /\ s = "source" /\ world["source"].crew = "logged" /\ world["source"].read = "R0"
     /\ c = Integrated!LogOf("R0", TRUE)

\* What a file, or a copy of it, says of the processes is so.
Vouched(p, c) ==
  /\ c # Absent
  /\ p = "source_log" => LogTold("source", c)
  /\ p = "return_log" => LogTold("return", c)
  /\ p = "output_audit" => DidNothing

Held(f) == \A p \in DOMAIN f : Vouched(p, f[p])

Exporting == {<<"put", "export">>, <<"copy", "export">>, <<"summarize", "export">>}
Exports(p) == Step("copy", "export", p)
Members == {Integrated!Exported[i] : i \in DOMAIN Integrated!Exported}
Clearing == {<<"empty", "source_output">>, <<"drop", "source_output">>}

\* An export is of copies that are so, and a summary of all.
ExportTruth ==
  /\ \A e \in Items(job) :
       /\ e.path = "export" => e.do \in {"put", "copy", "summarize"}
       /\ e.path = "export" /\ e.do = "put" => e.content = Copies(<<>>)
       /\ e.do = "copy" => e.path = "export" /\ e.content \in Integrated!Paths
       /\ e.do = "summarize" => e.path = "export"
  /\ NoPair(job, To("copy", "export"), To("put", "export"))
  /\ NoPair(job, To("summarize", "export"), Exporting)
  /\ disk["export"] # Absent =>
       \E f : Held(f) /\ disk["export"] \in {Copies(f), File("summary", f)}
  /\ Kinds(job) \cap Exporting # {} => <<"put", "export">> \in Kinds(job) \/ disk["export"][1] = "copies"
  /\ disk["export"][1] = "summary" =>
       Kinds(job) \cap Exporting = {} /\ Members \subseteq DOMAIN disk["export"][2]
  /\ <<"summarize", "export">> \in Kinds(job) =>
       \A p \in Members :
         \/ Exports(p) \in Items(job)
         \/ <<"put", "export">> \notin Kinds(job) /\ disk["export"][1] = "copies" /\ p \in DOMAIN disk["export"][2]

\* What the crew has made is not taken for a directory in which nothing was made.
CrewTruth ==
  /\ world["source"].crew # "idle" =>
       /\ world["source"].read = "R0" /\ disk["source_output"] # Integrated!Empty
       /\ disk["source_output"] = Absent => disk["termination"] # Absent
       /\ <<"make", "source_output">> \in Kinds(job) => disk["source_output"] # Absent
  /\ <<"make", "source_output">> \in Kinds(job) => Kinds(job) \cap Clearing = {}
  /\ Kinds(job) \cap Clearing # {} => disk["termination"] # Absent

IntegratedTruth ==
  /\ Worded(job)
  /\ \A p \in Integrated!Paths : disk[p] # Absent => Vouched(p, disk[p])
  /\ Kinds(job) \cap OnAny(Logs) = {}
  /\ Kinds(job) \cap On("output_audit") # {} => DidNothing
  /\ ExportTruth /\ CrewTruth
  /\ verdict = "accepted" =>
       /\ disk["export"][1] = "summary" /\ Integrated!IntegratedTrue
       /\ scene = "control" => DidNothing

-----------------------------------------------------------------------------

Verdict(r) == IF r \in Topology!Cases THEN Topology!Expected(r) ELSE Topology!Accepted(Topology!Branch(r))
Told(r) == Proc(r).log = <<"disposition", Verdict(r)>>

Kept(k) == {r \in Topology!Roles : KeptAt(r) < k}

\* What is so when the k-th step is next: a process that was waited for told what it had
\* to, one that was killed is dead, one that was audited had a cache of its own, and what
\* was kept is what they told.
SoFar(k) ==
  /\ \A r \in Running : /\ ToldAt(r) < k => Told(r)
                        /\ KilledAt(r) < k => Proc(r).life = "dead"
                        /\ KilledAt(r) + 1 < k => Proc(r).cache = "private"
  /\ Proc("additional_directory") = Topology!NotStarted
  /\ k > 2 => disk["staging"] = Copies([r \in Kept(k) |-> Verdict(r)])

\* A release is true, or there is none, and the command that runs is to publish none or
\* is at some step of its plan.
TopologyTruth ==
  \/ job = <<>> /\ disk["release"] # Absent /\ Topology!TopologyTrue
  \/ disk["release"] = Absent /\ Worded(job) /\ \A e \in Items(job) : e.do # "publish"
  \/ disk["release"] = Absent /\ \E k \in 1..50 : Follows(job, k, 51 - k) /\ SoFar(k)

-----------------------------------------------------------------------------

\* What a cache file, or the command that holds it, can have of a group.
Grouped(g, c) ==
  IF g = "source_audit" THEN \E n : c = Occupancy!File("audit", Occupancy!Build(n))
  ELSE \E n : c = Occupancy!File("found", [o \in Occupancy!Contents(g) |-> Occupancy!Leaves(o, n)])

\* A release made of what the groups have found, each by some build.
Assembled(c) ==
  \E found, n : /\ c = Occupancy!File("release", Occupancy!Artifacts(found, Occupancy!Build(n)))
                /\ \A o \in Occupancy!Occurrences : \E m : found[o] = Occupancy!Leaves(o, m)

Carried(e) ==
  e.do \in FileSteps =>
    /\ e.do \in {"put", "make"} /\ e.path # "artifacts"
    /\ e.path \in Occupancy!GroupNames => e.content = Torn \/ Grouped(e.path, e.content)
    /\ e.path \in Occupancy!Pids => e.content = Torn \/ Assembled(e.content)
Carries(s) == Worded(s) /\ \A e \in Items(s) : Carried(e)

Cached ==
  /\ \A g \in Occupancy!GroupNames : Whole(disk[g]) => Grouped(g, disk[g])
  /\ \A p \in Occupancy!Pids \cup {"artifacts"} : Whole(disk[p]) => Assembled(disk[p])

\* The release is made of the groups once all are there, and only where there is none.
Publishing == {<<d, p>> : d \in {"assemble", "rename"}, p \in Occupancy!Pids}
Gathered ==
  /\ Kinds(job) \cap Publishing # {} =>
       /\ disk["artifacts"] = Absent
       /\ \A g \in Occupancy!GroupNames : <<"group", g>> \in Kinds(job) \/ Grouped(g, world.held[g])
  /\ NoPair(job, Publishing, Publishing \cup Grouping)

OccupancyWorld ==
  /\ world = [source |-> world.source, module |-> world.module, code |-> world.code, held |-> world.held]
  /\ world.held = [g \in Occupancy!GroupNames |-> world.held[g]]

OccupancyTruth ==
  /\ OccupancyWorld /\ Carries(job) /\ Cached /\ Gathered
  /\ verdict = "accepted" =>
       /\ Whole(disk["artifacts"]) /\ Occupancy!ValidateArtifactValues(disk["artifacts"][2], world.source)

-----------------------------------------------------------------------------

Derived == PNames \ {"deterministic"}
Finding == {<<"launch", o>> : o \in Physical!Occurrences} \cup {<<"audit", "audit">>}
Telling(n) == On(n) \cup To("write", n)

\* What an artifact is, of what was found.
Composed(n) ==
  Physical!File("artifact", IF n = "deterministic" THEN Physical!Fixed("deterministic")
                            ELSE Physical!Artifacts(world.found, world.found["audit"])[n])

\* The processes of an occurrence ran one build of the module.
Ran(o) == \E n \in 0..world.source : world.found[o] = Physical!Acquired(o, [p \in Physical!Roles |-> n])

PhysicalWorld ==
  /\ world = [source |-> world.source, module |-> world.module, code |-> world.code, found |-> world.found]
  /\ world.found = [o \in Physical!Occurrences \cup {"audit"} |-> world.found[o]]
  /\ world.source \in Nat /\ world.module \in 0..world.source

\* What tells of what was found comes after all that finds.
ComposingTruth ==
  /\ Worded(job)
  /\ \A e \in Items(job) :
       /\ e.do = "launch" => e.path \in Physical!Occurrences
       /\ e.do = "audit" => e.path = "audit"
       /\ e.do \in FileSteps /\ e.path \in PNames => e.do = "put" /\ (e.content = Torn \/ e.content = Composed(e.path))
  /\ \A n \in Derived :
       /\ NoPair(job, Telling(n), Finding)
       /\ disk[n] # Absent \/ Kinds(job) \cap On(n) # {} => Kinds(job) \cap Finding = {}
       /\ disk[n] # Absent \/ Kinds(job) \cap Telling(n) # {} =>
            \A o \in Physical!Launched : Ran(o) \/ <<"launch", o>> \in Kinds(job)
  /\ \A n \in PNames : Whole(disk[n]) => disk[n] = Composed(n)

PhysicalTruth ==
  /\ PhysicalWorld /\ ComposingTruth
  /\ verdict = "accepted" => job = <<>> /\ (\A n \in PNames : Whole(disk[n])) /\ Physical!PhysicalTrue

\* Nothing is so of a release that no command has published, or no verifier accepts.
TruthInv ==
  /\ verdict \in {"none", "accepted", "rejected"} /\ crashes \in 0..CrashBound
  /\ scene \in Integrated!Roots => IntegratedTruth
  /\ scene = "topology" => TopologyTruth
  /\ scene = "occupancy" => OccupancyTruth
  /\ scene = "physical" => PhysicalTruth

-----------------------------------------------------------------------------

LEMMA WordedJoined ==
  ASSUME NEW s, NEW t, IsJob(s), IsJob(t), Worded(s), Worded(t)
  PROVE  Worded(s \o t)
  BY JoinedItems DEF Worded

LEMMA WordedGoesOn ==
  ASSUME Worded(job), IsJob(job), job # <<>> PROVE Worded(Tail(job))
  BY TailItems DEF Worded

LEMMA WordedParts ==
  /\ Worded(<<>>)
  /\ \A p, c : Worded(Put(p, c)) /\ Worded(Write(p, c)) /\ Worded(Make(p, c)) /\ Worded(Remove(p))
<1>1. Items(<<>>) = {}  BY DEF Items
<1>2. ASSUME NEW p, NEW c PROVE Worded(Put(p, c)) /\ Worded(Write(p, c)) /\ Worded(Make(p, c)) /\ Worded(Remove(p))
  <2>1. /\ DOMAIN Step("put", p, c) = Words /\ DOMAIN Step("put", p, Torn) = Words
        /\ DOMAIN Step("make", p, Torn) = Words /\ DOMAIN Step("empty", p, Torn) = Words
        /\ DOMAIN Step("drop", p, Absent) = Words
    BY StepIsWorded
  <2>2. /\ Items(Put(p, c)) = {Step("put", p, c)}
        /\ Items(Write(p, c)) = {Step("put", p, Torn), Step("put", p, c)}
        /\ Items(Make(p, c)) = {Step("make", p, Torn), Step("put", p, c)}
        /\ Items(Remove(p)) = {Step("empty", p, Torn), Step("drop", p, Absent)}
    BY PutParts, WriteParts, MakeParts, RemoveParts
  <2>3. QED BY <2>1, <2>2, Zenon DEF Worded
<1>3. QED BY <1>1, <1>2 DEF Worded

LEMMA ManifestJobs ==
  ASSUME job' = <<>> \/ \E c : job' = Write("manifest", c)
  PROVE  IsJob(job') /\ Worded(job') /\ \A e \in Items(job') : e.do = "put" /\ e.path = "manifest"
<1>1. CASE job' = <<>>  BY <1>1, EmptyJob, WordedParts DEF Items
<1>2. ASSUME NEW c, job' = Write("manifest", c)
      PROVE  IsJob(job') /\ Worded(job') /\ \A e \in Items(job') : e.do = "put" /\ e.path = "manifest"
  <2>1. IsJob(job') /\ Items(job') = {Step("put", "manifest", Torn), Step("put", "manifest", c)}
    BY <1>2, WriteParts
  <2>2. Worded(job')  BY <1>2, WordedParts
  <2>3. QED BY <2>1, <2>2 DEF Step
<1>3. QED BY <1>1, <1>2

LEMMA PNamesAre ==
  PNames = {"deterministic", "witnesses", "detached", "authority", "refresh_faults", "observation_faults",
            "input_audit", "oracles", "source_audit"}
<1> DEFINE a == Physical!ArtifactNames
<1>1. /\ DOMAIN a = 1..9
      /\ a[1] = "deterministic" /\ a[2] = "witnesses" /\ a[3] = "detached" /\ a[4] = "authority" /\ a[5] = "refresh_faults"
      /\ a[6] = "observation_faults" /\ a[7] = "input_audit" /\ a[8] = "oracles" /\ a[9] = "source_audit"
  BY DEF Physical!ArtifactNames
<1>2. PNames = {a[i] : i \in DOMAIN a}  BY DEF PNames, Physical!Names
<1> HIDE DEF a
<1>3. \A i \in 1..9 : i \in {1, 2, 3, 4, 5, 6, 7, 8, 9}  OBVIOUS
<1>4. QED BY <1>1, <1>2, <1>3

-----------------------------------------------------------------------------
(* The release of the physical domains tells what was found *)

LEMMA PhysicalFacts ==
  ASSUME PhysicalInv, PhysicalTruth
  PROVE  /\ PNames \subseteq Physical!Files /\ Derived \subseteq PNames
         /\ PhysicalWorld /\ ComposingTruth /\ Worded(job) /\ IsJob(job)
         /\ disk = [p \in Physical!Files |-> disk[p]]
         /\ (disk["records"] = Absent => \A n \in PNames : disk[n] = Absent)
         /\ \A n \in PNames : Kinds(job) \cap On(n) # {} => ~Whole(disk[n])
<1>1. PNames \subseteq Physical!Files /\ Derived \subseteq PNames
  BY PhysicalNames DEF Derived
<1>2. PhysicalWorld /\ ComposingTruth /\ Worded(job)
  BY DEF PhysicalTruth, ComposingTruth
<1>3. /\ IsJob(job)
      /\ disk = [p \in Physical!Files |-> disk[p]]
      /\ disk["records"] = Absent => \A n \in PNames : disk[n] = Absent
      /\ \A n \in PNames : Kinds(job) \cap On(n) # {} => ~Whole(disk[n])
  BY DEF PhysicalInv, PNames
<1>4. QED BY <1>1, <1>2, <1>3

\* A command that has nothing to do with the artifacts, while none is partly told.
LEMMA ComposingElsewhere ==
  ASSUME IsJob(job'), Worded(job'), \A e \in Items(job') : e.do = "put" /\ e.path = "manifest",
         \/ \A n \in PNames : disk'[n] = Absent
         \/ /\ PhysicalTruth /\ job = <<>> /\ \A n \in PNames : disk'[n] = disk[n] /\ Composed(n)' = Composed(n)
            /\ \A o \in Physical!Launched : Ran(o) => Ran(o)'
  PROVE  ComposingTruth'
<1>1. \A e \in Items(job') : e.do \notin {"launch", "audit"} /\ e.path \notin PNames
  BY PhysicalNames
<1>2. Kinds(job') \subseteq {<<"put", "manifest">>}  BY KindsOfItems DEF Kind
<1>3. ASSUME NEW n \in Derived
      PROVE  Kinds(job') \cap Telling(n) = {} /\ Kinds(job') \cap On(n) = {} /\ Kinds(job') \cap Finding = {}
  <2>1. n # "manifest"  BY PhysicalNames DEF Derived
  <2>2. QED BY <1>2, <2>1 DEF Telling, On, To, Finding
<1>4. \A n \in Derived : NoPair(job', Telling(n), Finding)
  BY <1>3, NoPairNone
<1>5. \A n \in PNames : Whole(disk'[n]) => disk'[n] = Composed(n)'
  BY DEF Whole, PhysicalTruth, ComposingTruth
<1>6. ASSUME NEW n \in Derived, disk'[n] # Absent, NEW o \in Physical!Launched PROVE Ran(o)'
  <2>1. n \in PNames /\ Kinds(job) = {} /\ disk[n] # Absent /\ PhysicalTruth
    BY <1>6, EmptyJob DEF Derived
  <2>2. Ran(o)  BY <2>1 DEF PhysicalTruth, ComposingTruth
  <2>3. QED BY <1>6, <2>1, <2>2 DEF Derived
<1>7. QED BY <1>1, <1>3, <1>4, <1>5, <1>6, Zenon DEF ComposingTruth

\* A step is done that tells only what it may.
TellsOn ==
  /\ Kinds(job') \subseteq Kinds(job) \cup OnAny(PNames)
  /\ \A n \in Derived :
       /\ NoPair(job', Telling(n), Finding)
       /\ Kinds(job') \cap On(n) # {} => Kinds(job) \cap On(n) # {} \/ Kinds(job') \cap Finding = {}
       /\ Kinds(job') \cap Telling(n) # {} => Kinds(job) \cap Telling(n) # {}
       /\ disk'[n] # Absent => disk[n] # Absent \/ Kind(Now) \in On(n)
  /\ \A e \in Items(job') :
       e \in Items(job) \/ (e.do = "put" /\ e.path \in PNames /\ (e.content = Torn \/ e.content = Composed(e.path)))
  /\ \A n \in PNames : Kinds(job') \cap On(n) # {} \/ disk'[n] # Absent => Composed(n)' = Composed(n)
  /\ \A n \in PNames : Whole(disk'[n]) => disk'[n] = Composed(n)
  /\ \A o \in Physical!Launched :
       /\ Ran(o) \/ Kind(Now) = <<"launch", o>> => Ran(o)'
       /\ <<"launch", o>> \in Kinds(job) => Kind(Now) = <<"launch", o>> \/ <<"launch", o>> \in Kinds(job')

LEMMA ComposingGoesOn ==
  ASSUME PhysicalInv, PhysicalTruth, job # <<>>, IsJob(job'), Worded(job'), TellsOn
  PROVE  ComposingTruth'
<1>1. ComposingTruth /\ Kind(Now) \in Kinds(job)
  BY TailKinds DEF PhysicalTruth, PhysicalInv, Now
<1>2. ASSUME NEW e \in Items(job')
      PROVE  /\ e.do = "launch" => e.path \in Physical!Occurrences
             /\ e.do = "audit" => e.path = "audit"
             /\ e.do \in FileSteps /\ e.path \in PNames => e.do = "put" /\ (e.content = Torn \/ e.content = Composed(e.path)')
  <2>1. /\ e.do = "launch" => e.path \in Physical!Occurrences
        /\ e.do = "audit" => e.path = "audit"
        /\ e.do \in FileSteps /\ e.path \in PNames => e.do = "put" /\ (e.content = Torn \/ e.content = Composed(e.path))
    BY <1>1 DEF ComposingTruth, TellsOn
  <2>2. ASSUME e.do \in FileSteps, e.path \in PNames PROVE Composed(e.path)' = Composed(e.path)
    <3>1. Kind(e) \in Kinds(job') /\ Kind(e) \in On(e.path)
      BY <2>2, KindsOfItems DEF Kind, On
    <3>2. QED BY <2>2, <3>1 DEF TellsOn
  <2>3. QED BY <2>1, <2>2
<1>3. ASSUME NEW n \in Derived, disk'[n] # Absent \/ Kinds(job') \cap On(n) # {}
      PROVE  Kinds(job') \cap Finding = {}
  <2>1. CASE Kinds(job') \cap On(n) # {} /\ Kinds(job) \cap On(n) = {}
    BY <2>1 DEF TellsOn
  <2>2. CASE disk'[n] # Absent \/ Kinds(job) \cap On(n) # {}
    <3>1. disk[n] # Absent \/ Kinds(job) \cap On(n) # {}
      BY <1>1, <2>2 DEF TellsOn
    <3>2. Kinds(job) \cap Finding = {}  BY <1>1, <3>1 DEF ComposingTruth
    <3>3. OnAny(PNames) \cap Finding = {}  BY DEF OnAny, Finding, FileSteps
    <3>4. QED BY <3>2, <3>3 DEF TellsOn
  <2>3. QED BY <1>3, <2>1, <2>2
<1>4. ASSUME NEW n \in Derived, disk'[n] # Absent \/ Kinds(job') \cap Telling(n) # {}, NEW o \in Physical!Launched
      PROVE  Ran(o)' \/ <<"launch", o>> \in Kinds(job')
  <2>1. On(n) \subseteq Telling(n)  BY DEF Telling
  <2>2. disk[n] # Absent \/ Kinds(job) \cap Telling(n) # {}
    BY <1>1, <1>4, <2>1 DEF TellsOn
  <2>3. Ran(o) \/ <<"launch", o>> \in Kinds(job)
    BY <1>1, <2>2 DEF ComposingTruth
  <2>4. QED BY <2>3 DEF TellsOn
<1>5. \A n \in PNames : Whole(disk'[n]) => disk'[n] = Composed(n)'
  BY DEF Whole, TellsOn
<1>6. QED BY <1>2, <1>3, <1>4, <1>5, Zenon DEF ComposingTruth, TellsOn

\* What is told is what is there, of what is there.
LEMMA WholeIsTrue ==
  ASSUME PhysicalWorld, ComposingTruth, job = <<>>, Physical!VerifyArtifacts
  PROVE  (\A n \in PNames : Whole(disk[n])) /\ Physical!PhysicalTrue
<1> DEFINE made == Physical!Artifacts(world.found, world.found["audit"])
           released == Physical!Released
<1>1. (\A n \in PNames : Whole(disk[n])) /\ Physical!Verify(released, world.source)
  BY Zenon DEF Physical!VerifyArtifacts, PNames, Physical!Whole, Whole, Physical!Absent, Absent, Physical!Torn, Torn
<1>2. released["source_audit"] = Physical!Build(world.source)
  <2>1. Physical!VerifyOracles(released, world.source)
    BY <1>1 DEF Physical!Verify
  <2>2. released.source_audit = Physical!Build(world.source)
    BY <2>1, Zenon DEF Physical!VerifyOracles
  <2>3. QED BY <2>2
<1>3. released = [n \in PNames |-> disk[n][2]]
  BY DEF Physical!Released, PNames
<1>4. ASSUME NEW n \in PNames PROVE disk[n][2] = made[n]
  <2>1. disk[n] = Composed(n)  BY <1>1 DEF ComposingTruth
  <2>2. made["deterministic"] = Physical!Fixed("deterministic")
    BY DEF Physical!Artifacts
  <2> HIDE DEF made
  <2>3. Composed(n) = <<"artifact", IF n = "deterministic" THEN Physical!Fixed("deterministic") ELSE made[n]>>
    BY DEF Composed, Physical!File, made
  <2>4. QED BY <2>1, <2>2, <2>3
<1>5. released = made
  <2>1. PNames = {"deterministic", "witnesses", "detached", "authority", "refresh_faults", "observation_faults",
                  "input_audit", "oracles", "source_audit"}
    BY PNamesAre
  <2>2. made = [n \in PNames |-> made[n]]  BY <2>1 DEF Physical!Artifacts
  <2> HIDE DEF made
  <2>3. QED BY <1>3, <1>4, <2>2
<1>6. made["source_audit"] = world.found["audit"]  BY DEF Physical!Artifacts
<1> HIDE DEF made
<1>7. released = Physical!Artifacts(world.found, Physical!Build(world.source))
  BY <1>2, <1>5, <1>6 DEF made
<1>8. ASSUME NEW o \in Physical!Launched
      PROVE  \E n \in 0..world.source : world.found[o] = Physical!Acquired(o, [p \in Physical!Roles |-> n])
  <2>1. "witnesses" \in Derived  BY PNamesAre DEF Derived
  <2>2. disk["witnesses"] # Absent /\ Kinds(job) = {}
    BY <1>1, <2>1, EmptyJob DEF Whole, Derived
  <2>3. Ran(o)  BY <2>1, <2>2 DEF ComposingTruth
  <2>4. QED BY <2>3 DEF Ran
<1>9. QED BY <1>1, <1>2, <1>7, <1>8 DEF Physical!PhysicalTrue

\* The first part of acquire_all, which finds what the artifacts are made of.
Surveyed(e) ==
  \/ e.do = "launch" /\ e.path \in Physical!Occurrences
  \/ e.do = "audit" /\ e.path = "audit"
  \/ Kind(e) \in {<<"write", "deterministic">>, <<"put", "records">>}
Surveys(s) == IsJob(s) /\ Worded(s) /\ \A e \in Items(s) : Surveyed(e)

LEMMA SurveysJoined ==
  ASSUME NEW s, NEW t, Surveys(s), Surveys(t)
  PROVE  Surveys(s \o t) /\ Kinds(s \o t) = Kinds(s) \cup Kinds(t)
<1>1. IsJob(s \o t) /\ Items(s \o t) = Items(s) \cup Items(t) /\ Kinds(s \o t) = Kinds(s) \cup Kinds(t)
  BY Joined, JoinedItems, JoinedKinds DEF Surveys
<1>2. QED BY <1>1, WordedJoined DEF Surveys

LEMMA SurveysStep ==
  ASSUME NEW d, NEW p, NEW c, Surveyed(Step(d, p, c))
  PROVE  Surveys(<<Step(d, p, c)>>)
<1> DEFINE e == Step(d, p, c)
<1>1. DOMAIN e = Words  BY StepIsWorded
<1> HIDE DEF e
<1>2. IsJob(<<e>>) /\ Items(<<e>>) = {e}  BY OneStep DEF Items
<1>3. Surveyed(e)  BY DEF e
<1>4. QED BY <1>1, <1>2, <1>3 DEF Surveys, Worded, e

LEMMA LaunchesSurvey ==
  ASSUME NEW order \in Seq(Physical!Occurrences)
  PROVE  /\ Surveys(Physical!Launches(order))
         /\ \A i \in DOMAIN order : <<"launch", order[i]>> \in Kinds(Physical!Launches(order))
<1> DEFINE s == Physical!Launches(order)
<1>1. s = [i \in 1..Len(order) |-> s[i]] /\ Len(order) \in Nat /\ DOMAIN s = 1..Len(order) /\ DOMAIN order = DOMAIN s
  BY DEF Physical!Launches
<1>2. \A i \in DOMAIN s : s[i] = Step("launch", order[i], Absent)
  BY <1>1, Zenon DEF Physical!Launches, Physical!Step, Step, Physical!Absent, Absent
<1>3. s \in Seq({s[i] : i \in DOMAIN s})  BY <1>1
<1> HIDE DEF s
<1>4. \A i \in DOMAIN s : s[i].do = "launch" /\ s[i].path = order[i] /\ DOMAIN s[i] = Words
  <2>1. \A i \in DOMAIN s : DOMAIN s[i] = Words  BY <1>2, StepIsWorded
  <2>2. QED BY <1>2, <2>1 DEF Step
<1>5. \A i \in DOMAIN s : order[i] \in Physical!Occurrences  BY <1>1
<1>6. Surveys(s)
  BY <1>3, <1>4, <1>5 DEF Surveys, Surveyed, Worded, Items, IsJob
<1>7. \A i \in DOMAIN s : <<"launch", order[i]>> \in Kinds(s)
  BY <1>4 DEF Kinds, Kind
<1>8. QED BY <1>1, <1>6, <1>7 DEF s

LEMMA OccurrencesAre ==
  Physical!Occurrences =
    {"W1", "W2", "W3", "W4", "W5/baseline", "W5/perturbed", "W6/A", "W7/A", "W8", "refresh/read",
     "refresh/publication", "observation/H0", "observation/H1", "attack/unobserved", "attack/second",
     "binding/field", "binding/coordinated"}
  BY DEF Physical!Occurrences, Physical!Launched, Physical!Primaries, Physical!PrimaryOrders, Physical!Retentions,
         Physical!Faults, Physical!RefreshFaults, Physical!ObservationFaults, Physical!Attacks, Physical!Relabelled

LEMMA OrdersAreWhole ==
  /\ Physical!WitnessOrder \in Seq(Physical!Occurrences) /\ Physical!CaseOrder \in Seq(Physical!Occurrences)
  /\ \A o \in Physical!Launched : \/ \E i \in DOMAIN Physical!WitnessOrder : o = Physical!WitnessOrder[i]
                                  \/ \E i \in DOMAIN Physical!CaseOrder : o = Physical!CaseOrder[i]
<1> DEFINE w == Physical!WitnessOrder
           c == Physical!CaseOrder
<1>1. /\ DOMAIN w = 1..9 /\ w[1] = "W1" /\ w[2] = "W2" /\ w[3] = "W3" /\ w[4] = "W4" /\ w[5] = "W5/baseline"
      /\ w[6] = "W5/perturbed" /\ w[7] = "W6/A" /\ w[8] = "W7/A" /\ w[9] = "W8"
  BY DEF Physical!WitnessOrder
<1>2. /\ DOMAIN c = 1..8 /\ c[1] = "refresh/read" /\ c[2] = "refresh/publication" /\ c[3] = "observation/H0"
      /\ c[4] = "observation/H1" /\ c[5] = "attack/unobserved" /\ c[6] = "attack/second"
      /\ c[7] = "binding/field" /\ c[8] = "binding/coordinated"
  BY DEF Physical!CaseOrder
<1>3. /\ w \in Seq({w[i] : i \in DOMAIN w}) /\ c \in Seq({c[i] : i \in DOMAIN c})
  BY DEF Physical!WitnessOrder, Physical!CaseOrder
<1> HIDE DEF w, c
<1>5. Physical!Launched =
        {"W1", "W2", "W3", "W4", "W5/baseline", "W5/perturbed", "W6/A", "W7/A", "W8", "refresh/read",
         "refresh/publication", "observation/H0", "observation/H1", "attack/unobserved", "attack/second"}
  BY DEF Physical!Launched, Physical!Primaries, Physical!PrimaryOrders, Physical!Retentions,
         Physical!Faults, Physical!RefreshFaults, Physical!ObservationFaults, Physical!Attacks
<1>6. \A i \in 1..9 : i \in {1, 2, 3, 4, 5, 6, 7, 8, 9}  OBVIOUS
<1>7. \A i \in 1..8 : i \in {1, 2, 3, 4, 5, 6, 7, 8}  OBVIOUS
<1>8. \A i \in DOMAIN w : w[i] \in Physical!Occurrences
  BY <1>1, <1>6, OccurrencesAre
<1>9. \A i \in DOMAIN c : c[i] \in Physical!Occurrences
  BY <1>2, <1>7, OccurrencesAre
<1>10. w \in Seq(Physical!Occurrences) /\ c \in Seq(Physical!Occurrences)
  <2>1. {w[i] : i \in DOMAIN w} \subseteq Physical!Occurrences /\ {c[i] : i \in DOMAIN c} \subseteq Physical!Occurrences
    BY <1>8, <1>9
  <2>2. QED BY <1>3, <2>1
<1>11. \A o \in Physical!Launched : (\E i \in DOMAIN w : o = w[i]) \/ (\E i \in DOMAIN c : o = c[i])
  BY <1>1, <1>2, <1>5
<1>12. QED BY <1>10, <1>11 DEF w, c

\* acquire_all finds first, and tells then.
LEMMA AcquisitionFinds ==
  ASSUME Physical!AcquireAll
  PROVE  \E s, t : /\ job' = s \o t /\ Surveys(s) /\ IsJob(t) /\ Worded(t)
                   /\ \A o \in Physical!Launched : <<"launch", o>> \in Kinds(s)
                   /\ \A e \in Items(t) : e.do = "write"
<1> DEFINE put == Put("records", Physical!Directory)
           one == Physical!Launches(Physical!WitnessOrder)
           fixed == Physical!Writes(<<"deterministic">>)
           two == Physical!Launches(Physical!CaseOrder)
           audit == <<Step("audit", "audit", Absent)>>
           rest == Physical!Writes(Tail(Physical!ArtifactNames))
<1>1. job' = put \o one \o fixed \o two \o audit \o rest
  BY Zenon DEF Physical!AcquireAll, Physical!Put, Put, Physical!Step, Step, Physical!Absent, Absent
<1>2. Surveys(put) /\ Surveys(audit)
  <2>1. /\ Surveyed(Step("put", "records", Physical!Directory)) /\ Surveyed(Step("audit", "audit", Absent))
    BY DEF Surveyed, Kind, Step
  <2>2. QED BY <2>1, SurveysStep DEF Put
<1>3. Surveys(fixed)
  <2> DEFINE e == Step("write", "deterministic", Absent)
  <2>1. Surveyed(e)  BY DEF Surveyed, Kind, Step
  <2>2. Surveys(<<e>>)  BY <2>1, SurveysStep
  <2>3. fixed = <<e>>
    <3> DEFINE d == <<"deterministic">>
    <3>1. DOMAIN d = {1} /\ d[1] = "deterministic"  OBVIOUS
    <3>2. fixed = [i \in DOMAIN d |-> Physical!Step("write", d[i], Physical!Absent)]
      BY Zenon DEF Physical!Writes
    <3>3. \A i \in {1} : Physical!Step("write", d[i], Physical!Absent) = e
      BY <3>1, Zenon DEF Physical!Step, Step, Physical!Absent, Absent
    <3> HIDE DEF d, e, fixed
    <3>4. fixed = [i \in {1} |-> e]  BY <3>1, <3>2, <3>3
    <3>5. <<e>> = [i \in {1} |-> e]  OBVIOUS
    <3>6. QED BY <3>4, <3>5
  <2>4. QED BY <2>2, <2>3
<1>4. Surveys(one) /\ Surveys(two)  BY OrdersAreWhole, LaunchesSurvey
<1>5. \A o \in Physical!Launched : <<"launch", o>> \in Kinds(one) \cup Kinds(two)
  BY OrdersAreWhole, LaunchesSurvey
<1>6. IsJob(rest) /\ Worded(rest) /\ \A e \in Items(rest) : e.do = "write"
  <2> DEFINE a == Tail(Physical!ArtifactNames)
  <2>1. a \in Seq(PNames)
    <3>1. Physical!ArtifactNames \in Seq(PNames) /\ Len(Physical!ArtifactNames) = 9
      BY PhysicalNames
    <3>2. Physical!ArtifactNames # <<>>  BY <3>1
    <3>3. QED BY <3>1, <3>2
  <2> HIDE DEF a
  <2>2. rest = [i \in DOMAIN a |-> Step("write", a[i], Absent)]
    BY Zenon DEF Physical!Writes, a, Physical!Step, Step, Physical!Absent, Absent
  <2>3. DOMAIN a = 1..Len(a) /\ Len(a) \in Nat  BY <2>1
  <2> HIDE DEF rest
  <2>4. DOMAIN rest = DOMAIN a /\ \A i \in DOMAIN rest : rest[i] = Step("write", a[i], Absent)
    BY <2>2, Zenon
  <2>5. rest \in Seq({rest[i] : i \in DOMAIN rest})
    <3>1. rest = [i \in 1..Len(a) |-> rest[i]]  BY <2>2, <2>3, <2>4
    <3>2. QED BY <2>3, <3>1
  <2>6. \A i \in DOMAIN rest : rest[i].do = "write" /\ DOMAIN rest[i] = Words
    BY <2>4, StepIsWorded DEF Step
  <2>7. QED BY <2>5, <2>6 DEF IsJob, Worded, Items
<1> HIDE DEF put, one, fixed, two, audit, rest
<1> DEFINE s1 == put \o one
           s2 == s1 \o fixed
           s3 == s2 \o two
           s4 == s3 \o audit
<1>7. Surveys(s1) /\ Kinds(s1) = Kinds(put) \cup Kinds(one)
  BY <1>2, <1>4, SurveysJoined
<1> HIDE DEF s1
<1>8. Surveys(s2) /\ Kinds(s2) = Kinds(s1) \cup Kinds(fixed)
  BY <1>3, <1>7, SurveysJoined
<1> HIDE DEF s2
<1>9. Surveys(s3) /\ Kinds(s3) = Kinds(s2) \cup Kinds(two)
  BY <1>4, <1>8, SurveysJoined
<1> HIDE DEF s3
<1>10. Surveys(s4) /\ Kinds(s4) = Kinds(s3) \cup Kinds(audit)
  BY <1>2, <1>9, SurveysJoined
<1>11. job' = s4 \o rest  BY <1>1 DEF s1, s2, s3, s4
<1> HIDE DEF s4
<1>12. \A o \in Physical!Launched : <<"launch", o>> \in Kinds(s4)
  BY <1>5, <1>7, <1>8, <1>9, <1>10
<1>13. QED BY <1>6, <1>10, <1>11, <1>12

LEMMA PhysicalSurveys ==
  ASSUME PhysicalInv, PhysicalTruth, Physical!AcquireAll
  PROVE  PhysicalTruth'
<1>1. job = <<>> /\ disk' = disk /\ disk["records"] = Absent /\ verdict' = verdict
      /\ world' = [world EXCEPT !.code = world.source, !.found = Physical!Nothing]
  BY Zenon DEF Physical!AcquireAll, Physical!Absent, Absent
<1>2. PICK s, t : /\ job' = s \o t /\ Surveys(s) /\ IsJob(t) /\ Worded(t)
                  /\ \A o \in Physical!Launched : <<"launch", o>> \in Kinds(s)
                  /\ \A e \in Items(t) : e.do = "write"
  BY AcquisitionFinds
<1>3. /\ IsJob(job') /\ Worded(job') /\ Items(job') = Items(s) \cup Items(t) /\ Kinds(job') = Kinds(s) \cup Kinds(t)
      /\ IsJob(s)
  BY <1>2, Joined, JoinedItems, JoinedKinds, WordedJoined DEF Surveys
<1>4. \A n \in PNames : disk'[n] = Absent  BY <1>1 DEF PhysicalInv, PNames
<1>5. \A k \in Kinds(t) : k[1] = "write"  BY <1>2, KindsOfItems DEF Kind
<1>6. \A e \in Items(s) : Surveyed(e)  BY <1>2 DEF Surveys
<1>7. \A k \in Kinds(s) : k \in Finding \/ k \in {<<"write", "deterministic">>, <<"put", "records">>}
  <2> SUFFICES ASSUME NEW e \in Items(s) PROVE Kind(e) \in Finding \/ Kind(e) \in {<<"write", "deterministic">>, <<"put", "records">>}
    BY KindsOfItems
  <2>1. Surveyed(e)  BY <1>6
  <2>2. QED BY <2>1 DEF Surveyed, Finding, Kind
<1>8. ASSUME NEW n \in Derived PROVE NoPair(job', Telling(n), Finding) /\ Kinds(job') \cap On(n) = {}
  <2>1. n \in PNames /\ n # "deterministic" /\ n # "records"
    BY PhysicalNames DEF Derived
  <2>2. Kinds(s) \cap Telling(n) = {}
    BY <1>7, <2>1 DEF Telling, On, To, Finding, FileSteps
  <2>3. Kinds(t) \cap Finding = {} /\ Kinds(t) \cap On(n) = {}
    BY <1>5 DEF Finding, On, FileSteps
  <2>4. NoPair(s, Telling(n), Finding) /\ NoPair(t, Telling(n), Finding)
    BY <2>2, <2>3, NoPairNone
  <2>5. NoPair(job', Telling(n), Finding)
    BY <1>2, <1>3, <2>2, <2>4, JoinedNoPair
  <2>6. Kinds(s) \cap On(n) = {}  BY <2>2 DEF Telling
  <2>7. QED BY <1>3, <2>3, <2>5, <2>6
<1>9. ASSUME NEW e \in Items(job')
      PROVE  /\ e.do = "launch" => e.path \in Physical!Occurrences
             /\ e.do = "audit" => e.path = "audit"
             /\ ~(e.do \in FileSteps /\ e.path \in PNames)
  <2>1. CASE e \in Items(t)  BY <1>2, <2>1 DEF FileSteps
  <2>2. CASE e \in Items(s)
    BY <1>6, <2>2, PhysicalNames DEF Surveyed, Kind, FileSteps
  <2>3. QED BY <1>3, <2>1, <2>2
<1>10. \A n \in Derived : disk'[n] = Absent  BY <1>4 DEF Derived
<1>11. ComposingTruth'
  <2>1. \A n \in PNames : ~Whole(disk'[n])  BY <1>4 DEF Whole
  <2>2. QED BY <1>2, <1>3, <1>8, <1>9, <1>10, <2>1, Zenon DEF ComposingTruth
<1>12. PhysicalWorld'
  <2>1. Physical!Nothing = [o \in Physical!Occurrences \cup {"audit"} |-> Physical!Absent]
    BY DEF Physical!Nothing
  <2>2. PhysicalWorld  BY DEF PhysicalTruth
  <2>3. world' = [source |-> world.source, module |-> world.module, code |-> world.source, found |-> Physical!Nothing]
    BY <1>1, <2>2 DEF PhysicalWorld
  <2>4. QED BY <2>1, <2>2, <2>3 DEF PhysicalWorld
<1>13. verdict' # "accepted"
  <2>1. "deterministic" \in PNames  BY PhysicalNames
  <2>2. ~Whole(disk["deterministic"])  BY <1>1, <1>4, <2>1 DEF Whole
  <2>3. QED BY <1>1, <2>1, <2>2 DEF PhysicalTruth
<1>14. QED BY <1>11, <1>12, <1>13, Zenon DEF PhysicalTruth

LEMMA RanStays ==
  ASSUME PhysicalWorld, PhysicalWorld', world'.found = world.found, world'.source >= world.source, NEW o, Ran(o)
  PROVE  Ran(o)'
<1>1. PICK n \in 0..world.source : world.found[o] = Physical!Acquired(o, [p \in Physical!Roles |-> n])
  BY DEF Ran
<1>2. n \in 0..world'.source  BY <1>1 DEF PhysicalWorld
<1>3. world'.found[o] = Physical!Acquired(o, [p \in Physical!Roles |-> n])
  BY <1>1
<1>4. \E m \in 0..world'.source : world'.found[o] = Physical!Acquired(o, [p \in Physical!Roles |-> m])
  BY <1>2, <1>3, Zenon
<1>5. QED BY <1>4 DEF Ran

LEMMA ComposedStays == ASSUME world'.found = world.found, NEW n PROVE Composed(n)' = Composed(n)
  BY DEF Composed

\* The sources are edited, the module is built.
LEMMA PhysicalAges ==
  ASSUME PhysicalInv, PhysicalTruth, Physical!Edit \/ Physical!BuildModule
  PROVE  PhysicalTruth'
<1>1. disk' = disk /\ job' = job /\ PhysicalWorld /\ ComposingTruth
  BY DEF Physical!Edit, Physical!BuildModule, PhysicalTruth
<1>2. PhysicalWorld' /\ world'.found = world.found /\ world'.source >= world.source
  <2>1. CASE Physical!Edit
    <3>1. world' = [source |-> world.source + 1, module |-> world.module, code |-> world.code, found |-> world.found]
      BY <1>1, <2>1 DEF Physical!Edit, PhysicalWorld
    <3>2. QED BY <1>1, <3>1 DEF PhysicalWorld
  <2>2. CASE Physical!BuildModule
    <3>1. world' = [source |-> world.source, module |-> world.source, code |-> world.code, found |-> world.found]
      BY <1>1, <2>2 DEF Physical!BuildModule, PhysicalWorld
    <3>2. QED BY <1>1, <3>1 DEF PhysicalWorld
  <2>3. QED BY <2>1, <2>2
<1>3. (\A n : Composed(n)' = Composed(n)) /\ \A o : Ran(o) => Ran(o)'
  BY <1>1, <1>2, ComposedStays, RanStays
<1>4. ComposingTruth'  BY <1>1, <1>3, Zenon DEF ComposingTruth
<1>5. verdict' = "accepted" => job' = <<>> /\ (\A n \in PNames : Whole(disk'[n])) /\ Physical!PhysicalTrue'
  <2>1. CASE Physical!Edit  BY <2>1 DEF Physical!Edit
  <2>2. CASE Physical!BuildModule
    <3>1. world' = [source |-> world.source, module |-> world.source, code |-> world.code, found |-> world.found]
      BY <1>1, <2>2 DEF Physical!BuildModule, PhysicalWorld
    <3>2. world'.source = world.source /\ verdict' = verdict
      BY <2>2, <3>1 DEF Physical!BuildModule
    <3>3. Physical!PhysicalTrue => Physical!PhysicalTrue'
      BY <1>1, <1>2, <3>2 DEF Physical!PhysicalTrue, Physical!Released
    <3>4. QED BY <1>1, <3>2, <3>3 DEF PhysicalTruth
  <2>3. QED BY <2>1, <2>2
<1>6. QED BY <1>2, <1>4, <1>5, Zenon DEF PhysicalTruth

LEMMA PhysicalRemoves ==
  ASSUME PhysicalInv, PhysicalTruth, Physical!RemoveRecords
  PROVE  PhysicalTruth'
<1>1. /\ job' = <<>> /\ disk' = [p \in Physical!Files |-> IF p \in PNames \cup {"records"} THEN Absent ELSE disk[p]]
      /\ world' = [world EXCEPT !.found = Physical!Nothing] /\ verdict' = "none"
  BY Zenon DEF Physical!RemoveRecords, PNames, Physical!Absent, Absent
<1>2. \A n \in PNames : disk'[n] = Absent  BY <1>1, PhysicalNames
<1>3. ComposingTruth'  BY <1>1, <1>2, ManifestJobs, ComposingElsewhere
<1>4. PhysicalWorld'
  <2>1. Physical!Nothing = [o \in Physical!Occurrences \cup {"audit"} |-> Physical!Absent]
    BY DEF Physical!Nothing
  <2>2. PhysicalWorld  BY DEF PhysicalTruth
  <2>3. world' = [source |-> world.source, module |-> world.module, code |-> world.code, found |-> Physical!Nothing]
    BY <1>1, <2>2 DEF PhysicalWorld
  <2>4. QED BY <2>1, <2>2, <2>3 DEF PhysicalWorld
<1>5. QED BY <1>1, <1>3, <1>4 DEF PhysicalTruth

LEMMA PhysicalDocuments ==
  ASSUME PhysicalInv, PhysicalTruth,
         Physical!WriteDocument \/ Physical!WriteRelease \/ Physical!VerifyRelease
  PROVE  PhysicalTruth'
<1>1. job = <<>> /\ world' = world /\ (job' = <<>> \/ \E c : job' = Write("manifest", c))
  BY Zenon DEF Physical!WriteDocument, Physical!WriteRelease, Physical!VerifyRelease,
               Physical!Write, Write, Physical!Put, Put, Physical!Step, Step, Physical!Torn, Torn
<1>2. PhysicalWorld /\ ComposingTruth /\ disk = [p \in Physical!Files |-> disk[p]] /\ PNames \subseteq Physical!Files
  BY PhysicalFacts
<1>3. \A n \in PNames : disk'[n] = disk[n]
  <2>1. CASE Physical!WriteDocument
    <3> DEFINE c == Physical!File("document", "")
    <3>1. disk' = [disk EXCEPT !["document"] = c]
      BY <2>1, Zenon DEF Physical!WriteDocument
    <3> HIDE DEF c
    <3>2. QED BY <1>2, <3>1, PhysicalNames
  <2>2. CASE Physical!WriteRelease \/ Physical!VerifyRelease
    BY <2>2 DEF Physical!WriteRelease, Physical!VerifyRelease
  <2>3. QED BY <2>1, <2>2
<1>4. PhysicalWorld' /\ (\A n : Composed(n)' = Composed(n)) /\ \A o : Ran(o) => Ran(o)'
  BY <1>1, <1>2 DEF PhysicalWorld, Composed, Ran
<1>5. ComposingTruth'  BY <1>1, <1>3, <1>4, ManifestJobs, ComposingElsewhere
<1>6. verdict' = "accepted" => job' = <<>> /\ (\A n \in PNames : Whole(disk'[n])) /\ Physical!PhysicalTrue'
  <2>1. Physical!PhysicalTrue => Physical!PhysicalTrue'
    <3>1. Physical!Released' = Physical!Released
      BY <1>3 DEF Physical!Released, PNames
    <3>2. QED BY <1>1, <3>1 DEF Physical!PhysicalTrue
  <2>2. CASE Physical!WriteDocument
    BY <1>3, <2>1, <2>2 DEF Physical!WriteDocument, PhysicalTruth
  <2>3. CASE Physical!WriteRelease  BY <2>3 DEF Physical!WriteRelease
  <2>4. CASE Physical!VerifyRelease
    <3>1. disk' = disk /\ job' = job /\ (verdict' = "accepted" => Physical!VerifyArtifacts)
      BY <2>4 DEF Physical!VerifyRelease
    <3>2. QED BY <1>1, <1>2, <2>1, <3>1, WholeIsTrue
  <2>5. QED BY <2>2, <2>3, <2>4
<1>7. QED BY <1>4, <1>5, <1>6, Zenon DEF PhysicalTruth

\* A command ends before its time; all that an artifact tells of was found.
LEMMA PhysicalEnds ==
  ASSUME PhysicalInv, PhysicalTruth, job # <<>>, job' = <<>>, UNCHANGED <<disk, world, verdict>>
  PROVE  PhysicalTruth'
<1>1. PhysicalWorld /\ ComposingTruth /\ Derived \subseteq PNames
  BY PhysicalFacts
<1>2. Kinds(job') = {} /\ IsJob(job') /\ Worded(job') /\ (\A A, B : NoPair(job', A, B)) /\ Items(job') = {}
  BY EmptyJob, WordedParts DEF Items
<1>3. (\A n : Composed(n)' = Composed(n)) /\ (\A o : Ran(o)' <=> Ran(o)) /\ PhysicalWorld' /\ verdict' # "accepted"
  BY <1>1 DEF Composed, Ran, PhysicalWorld, PhysicalTruth
<1>4. ASSUME NEW n \in Derived, disk[n] # Absent, NEW o \in Physical!Launched PROVE Ran(o)
  <2>1. Kinds(job) \cap Finding = {} /\ (Ran(o) \/ <<"launch", o>> \in Kinds(job))
    BY <1>1, <1>4 DEF ComposingTruth
  <2>2. <<"launch", o>> \in Finding  BY DEF Finding, Physical!Occurrences
  <2>3. QED BY <2>1, <2>2
<1>5. \A n \in PNames : Whole(disk'[n]) => disk'[n] = Composed(n)'
  BY <1>1, <1>3 DEF ComposingTruth
<1>6. ComposingTruth'  BY <1>2, <1>3, <1>4, <1>5 DEF ComposingTruth
<1>7. QED BY <1>3, <1>6 DEF PhysicalTruth

\* What is found while no artifact tells of it.
LEMMA PhysicalFinds ==
  ASSUME PhysicalInv, PhysicalTruth, Physical!AcquireOccurrence \/ Physical!SourceAudit
  PROVE  PhysicalTruth'
<1> DEFINE x == Now.path
<1>1. PhysicalWorld /\ ComposingTruth /\ IsJob(job) /\ Worded(job) /\ Derived \subseteq PNames
  BY PhysicalFacts
<1>2. job # <<>> /\ disk' = disk /\ verdict' = verdict /\ Now.do \in {"launch", "audit"} /\ Now \in Items(job)
      /\ (Physical!AcquireOccurrence => Now.do = "launch") /\ (Physical!SourceAudit => Now.do = "audit")
  BY <1>1, Onward, Zenon DEF Physical!AcquireOccurrence, Physical!SourceAudit, Physical!Does, Physical!Now, Now, Items
<1>3. x \in Physical!Occurrences \cup {"audit"} /\ Kind(Now) \in Finding /\ (Now.do = "launch" => x \in Physical!Occurrences)
  <2>1. Now.do = "launch" => Now.path \in Physical!Occurrences
    BY <1>1, <1>2 DEF ComposingTruth
  <2>2. Now.do = "audit" => Now.path = "audit"
    BY <1>1, <1>2 DEF ComposingTruth
  <2>3. QED BY <1>2, <2>1, <2>2 DEF Finding, Kind
<1>4. ASSUME NEW n \in Derived PROVE disk[n] = Absent /\ Kinds(job) \cap On(n) = {}
  <2>1. Kinds(job) \cap Finding # {}  BY <1>1, <1>2, <1>3, KindsOfItems
  <2>2. QED BY <1>1, <2>1 DEF ComposingTruth
<1>5. verdict' # "accepted"  BY <1>2 DEF PhysicalTruth
<1>6. CASE job' = <<>> /\ world' = world  BY <1>2, <1>6, PhysicalEnds
<1>7. ASSUME NEW c, job' = Tail(job), world' = [world EXCEPT !.found[x] = c],
             Now.do = "launch" => c = Physical!Acquired(x, [p \in Physical!Roles |-> world.module])
      PROVE  PhysicalTruth'
  <2>1. /\ world' = [source |-> world.source, module |-> world.module, code |-> world.code, found |-> [world.found EXCEPT ![x] = c]]
    BY <1>1, <1>7 DEF PhysicalWorld
  <2>2. PhysicalWorld' /\ world'.source = world.source /\ world'.found[x] = c /\ \A o \in Physical!Occurrences : o # x => world'.found[o] = world.found[o]
    BY <1>1, <1>3, <2>1 DEF PhysicalWorld
  <2>3. ASSUME NEW o \in Physical!Launched, Ran(o) \/ Kind(Now) = <<"launch", o>> PROVE Ran(o)'
    <3>0. o \in Physical!Occurrences  BY DEF Physical!Occurrences
    <3>1. CASE o = x /\ Now.do = "launch"
      <4>1. world.module \in 0..world'.source /\ world'.found[o] = Physical!Acquired(o, [p \in Physical!Roles |-> world.module])
        BY <1>1, <1>7, <2>2, <3>1 DEF PhysicalWorld
      <4>2. \E n \in 0..world'.source : world'.found[o] = Physical!Acquired(o, [p \in Physical!Roles |-> n])
        BY <4>1, Zenon
      <4>3. QED BY <4>2 DEF Ran
    <3>2. CASE o = x /\ Now.do # "launch"
      <4>1. Now.do = "audit" /\ o = "audit"
        BY <1>1, <1>2, <3>2 DEF ComposingTruth
      <4>2. QED BY <4>1, OccurrencesAre, <3>0
    <3>3. CASE o # x
      <4>1. Kind(Now) # <<"launch", o>>  BY <3>3 DEF Kind
      <4>2. Ran(o) /\ world'.found[o] = world.found[o]
        BY <2>2, <2>3, <3>0, <3>3, <4>1
      <4>3. QED BY <2>2, <4>2 DEF Ran
    <3>4. QED BY <3>1, <3>2, <3>3
  <2>4. /\ IsJob(job') /\ Worded(job') /\ Kinds(job) = {Kind(Now)} \cup Kinds(job') /\ Items(job) = {Now} \cup Items(job')
        /\ \A A, B : NoPair(job, A, B) => NoPair(job', A, B)
    BY <1>1, <1>2, <1>7, JobGoesOn, WordedGoesOn
  <2>5. ASSUME NEW n \in PNames, Kinds(job') \cap On(n) # {} \/ disk'[n] # Absent PROVE Composed(n)' = Composed(n)
    <3>1. n \notin Derived  BY <1>2, <1>4, <2>4, <2>5
    <3>2. n = "deterministic"  BY <3>1 DEF Derived
    <3>3. QED BY <3>2 DEF Composed
  <2>6. ComposingTruth'
    <3>1. \A n \in Derived : NoPair(job', Telling(n), Finding)
      BY <1>1, <2>4 DEF ComposingTruth
    <3>2. \A n \in PNames : Whole(disk'[n]) => disk'[n] = Composed(n)
      BY <1>1, <1>2 DEF ComposingTruth
    <3>3. \A n : Kinds(job') \cap Telling(n) # {} => Kinds(job) \cap Telling(n) # {}
      BY <2>4
    <3>4. \A n : Kinds(job') \cap On(n) # {} => Kinds(job) \cap On(n) # {}
      BY <2>4
    <3>5. QED BY <1>2, <2>3, <2>4, <2>5, <3>1, <3>2, <3>3, <3>4, ComposingGoesOn DEF TellsOn
  <2>7. QED BY <1>5, <2>2, <2>6, Zenon DEF PhysicalTruth
<1>8. CASE Physical!AcquireOccurrence
  <2>1. Now.do = "launch"  BY <1>2, <1>8
  <2>2. \/ job' = <<>> /\ world' = world
        \/ job' = Tail(job) /\ world' = [world EXCEPT !.found[x] = Physical!Acquired(x, [p \in Physical!Roles |-> world.module])]
    BY <1>8, Zenon DEF Physical!AcquireOccurrence, Physical!Proceed, Physical!Now, Now
  <2> HIDE DEF x
  <2>3. QED BY <1>6, <1>7, <2>2
<1>9. CASE Physical!SourceAudit
  <2>1. Now.do = "audit"  BY <1>2, <1>9
  <2>2. x = "audit"  BY <1>1, <1>2, <2>1 DEF ComposingTruth
  <2>3. \/ job' = <<>> /\ world' = world
        \/ job' = Tail(job) /\ world' = [world EXCEPT !.found["audit"] = Physical!Build(world.source)]
    BY <1>9 DEF Physical!SourceAudit, Physical!Proceed
  <2>4. Now.do # "launch"  BY <2>1
  <2> HIDE DEF x
  <2>5. QED BY <1>6, <1>7, <2>2, <2>3, <2>4
<1>10. QED BY <1>8, <1>9

\* An artifact is made of what was found, and of nothing that is still to be found.
LEMMA PhysicalTells ==
  ASSUME PhysicalInv, PhysicalTruth, Physical!WriteArtifact
  PROVE  PhysicalTruth'
<1> DEFINE n == Now.path
           t == Tail(job)
           c == Composed(n)
<1>1. PhysicalWorld /\ ComposingTruth /\ IsJob(job) /\ Worded(job) /\ Derived \subseteq PNames
  BY PhysicalFacts
<1>2. /\ job # <<>> /\ Now.do = "write" /\ disk' = disk /\ world' = world /\ verdict' = verdict
      /\ job' = Write(n, c) \o t
  <2>1. Physical!Fixed("deterministic") = IF n = "deterministic" THEN Physical!Fixed("deterministic") ELSE Physical!Fixed("deterministic")
    OBVIOUS
  <2>2. /\ job # <<>> /\ Now.do = "write" /\ disk' = disk /\ world' = world /\ verdict' = verdict
        /\ job' = Write(n, Physical!File("artifact", CASE n = "deterministic" -> Physical!Fixed("deterministic")
                                                       [] OTHER -> Physical!Artifacts(world.found, world.found["audit"])[n])) \o t
    BY Zenon DEF Physical!WriteArtifact, Physical!Does, Physical!Now, Now, Physical!Write, Write, Physical!Put, Put,
                 Physical!Step, Step, Physical!Torn, Torn
  <2>3. (CASE n = "deterministic" -> Physical!Fixed("deterministic")
           [] OTHER -> Physical!Artifacts(world.found, world.found["audit"])[n])
        = IF n = "deterministic" THEN Physical!Fixed("deterministic")
          ELSE Physical!Artifacts(world.found, world.found["audit"])[n]
    OBVIOUS
  <2>4. QED BY <2>2, <2>3, Zenon DEF Composed
<1>3. n \in PNames /\ <<"write", n>> \in Kinds(job) /\ Kind(Now) = <<"write", n>> /\ Now \in Items(job)
  <2>1. Now \in Items(job) /\ Kind(Now) = <<"write", n>>
    BY <1>1, <1>2, Onward DEF Items, Now, Kind
  <2>2. n \in PNames  BY <1>2, <2>1 DEF PhysicalInv, PNames
  <2>3. QED BY <2>1, <2>2, KindsOfItems
<1> HIDE DEF c
<1>4. /\ IsJob(t) /\ Worded(t) /\ Kinds(job) = {Kind(Now)} \cup Kinds(t) /\ Items(job) = {Now} \cup Items(t)
      /\ \A A, B : NoPair(job, A, B) => NoPair(t, A, B) /\ (Kind(Now) \in A => Kinds(t) \cap B = {})
  BY <1>1, <1>2, Onward, TailKinds, TailItems, TailNoPair, WordedGoesOn DEF Now
<1>5. /\ IsJob(Write(n, c)) /\ Items(Write(n, c)) = {Step("put", n, Torn), Step("put", n, c)}
      /\ Kinds(Write(n, c)) = {<<"put", n>>} /\ Worded(Write(n, c))
  BY WriteParts, WordedParts
<1> HIDE DEF t
<1>6. /\ IsJob(job') /\ Worded(job') /\ Items(job') = Items(Write(n, c)) \cup Items(t)
      /\ Kinds(job') = Kinds(Write(n, c)) \cup Kinds(t)
  BY <1>2, <1>4, <1>5, Joined, JoinedItems, JoinedKinds, WordedJoined
<1>7. ASSUME NEW e \in Items(job')
      PROVE  e \in Items(job) \/ (e.do = "put" /\ e.path \in PNames /\ (e.content = Torn \/ e.content = Composed(e.path)))
  <2>1. CASE e \in Items(t)  BY <1>4, <2>1
  <2>2. CASE e = Step("put", n, Torn) \/ e = Step("put", n, c)
    BY <1>3, <2>2 DEF Step, c
  <2>3. QED BY <1>5, <1>6, <2>1, <2>2
<1>8. <<"put", n>> \in On(n) /\ <<"put", n>> \in OnAny(PNames) /\ (\A m : n # m => <<"put", n>> \notin Telling(m) /\ <<"put", n>> \notin On(m))
      /\ <<"put", n>> \notin Finding /\ (\A o : Kind(Now) # <<"launch", o>>)
  BY <1>3 DEF On, OnAny, Telling, To, Finding, FileSteps
<1>9. ASSUME NEW m \in Derived
      PROVE  /\ NoPair(job', Telling(m), Finding)
             /\ Kinds(job') \cap On(m) # {} => Kinds(job) \cap On(m) # {} \/ Kinds(job') \cap Finding = {}
             /\ Kinds(job') \cap Telling(m) # {} => Kinds(job) \cap Telling(m) # {}
             /\ disk'[m] # Absent => disk[m] # Absent \/ Kind(Now) \in On(m)
  <2>1. NoPair(job, Telling(m), Finding)  BY <1>1 DEF ComposingTruth
  <2>2. NoPair(t, Telling(m), Finding)  BY <1>4, <2>1
  <2>3. NoPair(Write(n, c), Telling(m), Finding)  BY <1>5, <1>8, NoPairNone
  <2>4. CASE n = m
    <3>1. Kind(Now) \in Telling(m)  BY <1>3, <2>4 DEF Telling, To
    <3>2. Kinds(t) \cap Finding = {}  BY <1>4, <2>1, <3>1
    <3>3. Kinds(job') \cap Finding = {}  BY <1>5, <1>6, <1>8, <3>2
    <3>4. NoPair(job', Telling(m), Finding)  BY <3>3, NoPairNone
    <3>5. Kinds(job) \cap Telling(m) # {}  BY <1>4, <3>1
    <3>6. QED BY <1>2, <3>3, <3>4, <3>5
  <2>5. CASE n # m
    <3>1. Kinds(Write(n, c)) \cap Telling(m) = {} /\ Kinds(Write(n, c)) \cap On(m) = {}
      BY <1>5, <1>8, <2>5
    <3>2. NoPair(job', Telling(m), Finding)
      BY <1>2, <1>4, <1>5, <2>2, <2>3, <3>1, JoinedNoPair
    <3>3. QED BY <1>2, <1>4, <1>6, <3>1, <3>2
  <2>6. QED BY <2>4, <2>5
<1>10. ComposingTruth'
  <2>1. Kinds(job') \subseteq Kinds(job) \cup OnAny(PNames)
    BY <1>4, <1>5, <1>6, <1>8
  <2>2. \A m \in PNames : Composed(m)' = Composed(m)  BY <1>2 DEF Composed
  <2>3. \A m \in PNames : Whole(disk'[m]) => disk'[m] = Composed(m)
    BY <1>1, <1>2 DEF ComposingTruth
  <2>4. ASSUME NEW o \in Physical!Launched
        PROVE  /\ Ran(o) \/ Kind(Now) = <<"launch", o>> => Ran(o)'
               /\ <<"launch", o>> \in Kinds(job) => Kind(Now) = <<"launch", o>> \/ <<"launch", o>> \in Kinds(job')
    <3>1. Ran(o) => Ran(o)'  BY <1>2 DEF Ran
    <3>2. QED BY <1>4, <1>6, <1>8, <3>1
  <2>5. QED BY <1>2, <1>6, <1>7, <1>9, <2>1, <2>2, <2>3, <2>4, ComposingGoesOn DEF TellsOn
<1>11. PhysicalWorld' /\ verdict' # "accepted"
  BY <1>1, <1>2 DEF PhysicalWorld, PhysicalTruth
<1>12. QED BY <1>10, <1>11, Zenon DEF PhysicalTruth

LEMMA PhysicalPuts ==
  ASSUME PhysicalInv, PhysicalTruth, Perform(<<>>)
  PROVE  PhysicalTruth'
<1>1. PhysicalWorld /\ ComposingTruth /\ IsJob(job) /\ Worded(job) /\ Derived \subseteq PNames /\ PNames \subseteq Physical!Files
      /\ disk = [p \in Physical!Files |-> disk[p]]
  BY PhysicalFacts
<1>2. /\ UNCHANGED <<scene, world, verdict, crashes>> /\ job # <<>> /\ Now.do \in FileSteps
      /\ \/ job' = <<>> /\ disk' = disk /\ ~Possible(Now)
         \/ /\ job' = Tail(job) /\ Possible(Now)
            /\ \A p \in Physical!Files : p # Now.path => disk'[p] = disk[p]
            /\ Now.path \in Physical!Files /\ Now.do # "copy" => disk'[Now.path] = Now.content
  BY <1>1, Performed
<1>3. PhysicalWorld' /\ verdict' # "accepted" /\ (\A m : Composed(m)' = Composed(m)) /\ \A o : Ran(o)' <=> Ran(o)
  BY <1>1, <1>2 DEF PhysicalWorld, PhysicalTruth, Composed, Ran
<1>4. Now \in Items(job) /\ (\A o : Kind(Now) # <<"launch", o>>)
  BY <1>1, <1>2, Onward DEF Items, Now, Kind, FileSteps
<1>5. CASE Possible(Now)
  <2>1. /\ IsJob(job') /\ Worded(job') /\ Kinds(job) = {Kind(Now)} \cup Kinds(job') /\ Items(job) = {Now} \cup Items(job')
        /\ \A A, B : NoPair(job, A, B) => NoPair(job', A, B)
    BY <1>1, <1>2, <1>5, JobGoesOn, WordedGoesOn
  <2>2. ASSUME NEW m \in PNames
        PROVE  /\ Whole(disk'[m]) => disk'[m] = Composed(m)
               /\ disk'[m] # Absent => disk[m] # Absent \/ Kind(Now) \in On(m)
    <3>1. m \in Physical!Files  BY <1>1
    <3>2. CASE m # Now.path
      BY <1>1, <1>2, <1>5, <3>1, <3>2 DEF ComposingTruth
    <3>3. CASE m = Now.path
      <4>1. Now.do = "put" /\ (Now.content = Torn \/ Now.content = Composed(m))
        BY <1>1, <1>2, <1>4, <3>3 DEF ComposingTruth
      <4>2. disk'[m] = Now.content  BY <1>2, <1>5, <3>1, <3>3, <4>1
      <4>3. Kind(Now) \in On(m)  BY <3>3, <4>1 DEF On, Kind, FileSteps
      <4>4. QED BY <4>1, <4>2, <4>3 DEF Whole
    <3>4. QED BY <3>2, <3>3
  <2>3. ComposingTruth'
    <3>1. \A n \in Derived : NoPair(job', Telling(n), Finding)
      BY <1>1, <2>1 DEF ComposingTruth
    <3>2. \A n : /\ Kinds(job') \cap On(n) # {} => Kinds(job) \cap On(n) # {}
                 /\ Kinds(job') \cap Telling(n) # {} => Kinds(job) \cap Telling(n) # {}
      BY <2>1
    <3>3. \A n \in Derived : disk'[n] # Absent => disk[n] # Absent \/ Kind(Now) \in On(n)
      BY <1>1, <2>2
    <3>4. \A o \in Physical!Launched :
                                      /\ Ran(o) \/ Kind(Now) = <<"launch", o>> => Ran(o)'
                                      /\ <<"launch", o>> \in Kinds(job) => Kind(Now) = <<"launch", o>> \/ <<"launch", o>> \in Kinds(job')
      BY <1>3, <1>4, <2>1
    <3>5. \A n \in Derived : /\ NoPair(job', Telling(n), Finding)
                             /\ Kinds(job') \cap On(n) # {} => Kinds(job) \cap On(n) # {} \/ Kinds(job') \cap Finding = {}
                             /\ Kinds(job') \cap Telling(n) # {} => Kinds(job) \cap Telling(n) # {}
                             /\ disk'[n] # Absent => disk[n] # Absent \/ Kind(Now) \in On(n)
      BY <3>1, <3>2, <3>3
    <3>6. \A n \in PNames : Composed(n)' = Composed(n) /\ (Whole(disk'[n]) => disk'[n] = Composed(n))
      BY <1>3, <2>2
    <3>7. TellsOn  BY <2>1, <3>4, <3>5, <3>6 DEF TellsOn
    <3>8. QED BY <1>2, <2>1, <3>7, ComposingGoesOn
  <2>4. QED BY <1>3, <2>3 DEF PhysicalTruth
<1>6. CASE ~Possible(Now)  BY <1>2, <1>6, PhysicalEnds
<1>7. QED BY <1>5, <1>6

LEMMA PhysicalStaysTrue ==
  ASSUME PhysicalInv, PhysicalTruth, Physical!PhysicalNext
  PROVE  PhysicalTruth'
<1>1. Physical!Perform(<<>>) => Perform(<<>>)  BY PerformSame
<1>2. QED
  BY <1>1, PhysicalAges, PhysicalRemoves, PhysicalDocuments, PhysicalSurveys, PhysicalFinds, PhysicalTells, PhysicalPuts
     DEF Physical!PhysicalNext, Physical!PhysicalCommands

LEMMA PhysicalStartsTrue == ASSUME Physical!PhysicalInit PROVE PhysicalTruth
<1>1. /\ disk = [p \in Physical!Files |-> Absent] /\ job = <<>> /\ verdict = "none"
      /\ world = [source |-> 0, module |-> 0, code |-> 0, found |-> Physical!Nothing]
  BY Zenon DEF Physical!PhysicalInit, Physical!Absent, Absent
<1>2. Kinds(job) = {} /\ IsJob(job) /\ Worded(job) /\ (\A A, B : NoPair(job, A, B)) /\ Items(job) = {}
  BY <1>1, EmptyJob, WordedParts DEF Items
<1>3. \A n \in PNames : disk[n] = Absent  BY <1>1, PhysicalNames
<1>4. PhysicalWorld
  <2>1. Physical!Nothing = [o \in Physical!Occurrences \cup {"audit"} |-> Physical!Absent]
    BY DEF Physical!Nothing
  <2>2. QED BY <1>1, <2>1 DEF PhysicalWorld
<1>5. ComposingTruth  BY <1>2, <1>3 DEF ComposingTruth, Derived, Whole
<1>6. QED BY <1>1, <1>4, <1>5 DEF PhysicalTruth

-----------------------------------------------------------------------------
(* The release of the cross-domain occupancy tells what the groups found *)

LEMMA OccupancyFacts ==
  ASSUME OccupancyInv, OccupancyTruth
  PROVE  /\ IsJob(job) /\ Worded(job) /\ OccupancyWorld /\ Carries(job) /\ Cached /\ Gathered
         /\ disk = [p \in Occupancy!Files |-> disk[p]]
         /\ Kinds(job) \cap Publishing # {} => verdict # "accepted"
  BY DEF OccupancyInv, OccupancyTruth, Carries, Gathered, Whole

\* No release is being made.
LEMMA NothingGathers ==
  ASSUME Kinds(job') \cap Publishing = {}
  PROVE  Gathered'
  BY NoPairNone DEF Gathered

LEMMA OccupancyStays ==
  ASSUME OccupancyTruth, OccupancyWorld', Carries(job'), Cached', Gathered',
         verdict' = "accepted" =>
           \/ verdict = "accepted" /\ disk'["artifacts"] = disk["artifacts"] /\ world'.source = world.source
           \/ Whole(disk'["artifacts"]) /\ Occupancy!ValidateArtifactValues(disk'["artifacts"][2], world'.source)
  PROVE  OccupancyTruth'
<1>1. ASSUME verdict' = "accepted"
      PROVE  Whole(disk'["artifacts"]) /\ Occupancy!ValidateArtifactValues(disk'["artifacts"][2], world'.source)
  <2>1. CASE verdict = "accepted" /\ disk'["artifacts"] = disk["artifacts"] /\ world'.source = world.source
    <3>1. Whole(disk["artifacts"]) /\ Occupancy!ValidateArtifactValues(disk["artifacts"][2], world.source)
      BY <2>1 DEF OccupancyTruth
    <3>2. QED BY <2>1, <3>1
  <2>2. QED BY <1>1, <2>1
<1>2. QED BY <1>1 DEF OccupancyTruth

LEMMA CarriesNothing == Carries(<<>>) /\ Kinds(<<>>) \cap Publishing = {}
  BY WordedParts, EmptyJob DEF Carries, Items

LEMMA CarriesJoined ==
  ASSUME NEW s, NEW t, IsJob(s), IsJob(t), Carries(s), Carries(t)
  PROVE  Carries(s \o t)
  BY WordedJoined, JoinedItems DEF Carries

\* A command ends before its time.
LEMMA OccupancyEnds ==
  ASSUME OccupancyInv, OccupancyTruth, job' = <<>>, UNCHANGED <<disk, world, verdict>>
  PROVE  OccupancyTruth'
<1>1. OccupancyWorld' /\ Cached'
  BY DEF OccupancyTruth, OccupancyWorld, Cached
<1>2. Carries(job') /\ Gathered'  BY CarriesNothing, NothingGathers
<1>3. verdict' = "accepted" => verdict = "accepted" /\ disk'["artifacts"] = disk["artifacts"] /\ world'.source = world.source
  OBVIOUS
<1>4. QED BY <1>1, <1>2, <1>3, OccupancyStays

LEMMA OccupancyAges ==
  ASSUME OccupancyInv, OccupancyTruth, Occupancy!Edit \/ Occupancy!BuildModule \/ Occupancy!VerifyRelease
  PROVE  OccupancyTruth'
<1>1. job' = <<>> /\ disk' = disk /\ OccupancyWorld /\ Cached
  BY DEF Occupancy!Edit, Occupancy!BuildModule, Occupancy!VerifyRelease, OccupancyTruth
<1>2. Cached' /\ Carries(job') /\ Gathered'
  BY <1>1, CarriesNothing, NothingGathers DEF Cached
<1>3. CASE Occupancy!Edit
  <2>1. world' = [source |-> world.source + 1, module |-> world.module, code |-> world.code, held |-> world.held]
    BY <1>1, <1>3 DEF Occupancy!Edit, OccupancyWorld
  <2>2. OccupancyWorld' /\ verdict' # "accepted"
    BY <1>1, <1>3, <2>1 DEF OccupancyWorld, Occupancy!Edit
  <2>3. QED BY <1>2, <2>2, OccupancyStays
<1>4. CASE Occupancy!BuildModule
  <2>1. world' = [source |-> world.source, module |-> world.source, code |-> world.code, held |-> world.held]
    BY <1>1, <1>4 DEF Occupancy!BuildModule, OccupancyWorld
  <2>2. OccupancyWorld' /\ verdict' = verdict /\ world'.source = world.source
    BY <1>1, <1>4, <2>1 DEF OccupancyWorld, Occupancy!BuildModule
  <2>3. verdict' = "accepted" => verdict = "accepted" /\ disk'["artifacts"] = disk["artifacts"] /\ world'.source = world.source
    BY <1>1, <2>2
  <2>4. QED BY <1>2, <2>2, <2>3, OccupancyStays
<1>5. CASE Occupancy!VerifyRelease
  <2>1. /\ world' = world
        /\ verdict' = "accepted" =>
             Whole(disk["artifacts"]) /\ Occupancy!ValidateArtifactValues(disk["artifacts"][2], world.source)
    BY <1>5, Zenon DEF Occupancy!VerifyRelease, Occupancy!VerifyArtifacts, Occupancy!Whole, Whole, Occupancy!Absent,
                       Absent, Occupancy!Torn, Torn
  <2>2. OccupancyWorld'  BY <1>1, <2>1 DEF OccupancyWorld
  <2>3. QED BY <1>1, <1>2, <2>1, <2>2, OccupancyStays
<1>6. QED BY <1>3, <1>4, <1>5

LEMMA OccupancyRepairs ==
  ASSUME OccupancyInv, OccupancyTruth, NEW g \in Occupancy!GroupNames, Occupancy!Repair(g)
  PROVE  OccupancyTruth'
<1>1. job' = <<>> /\ UNCHANGED <<world, verdict>> /\ disk' = [disk EXCEPT ![g] = Absent]
  BY Zenon DEF Occupancy!Repair, Occupancy!Absent, Absent
<1>2. OccupancyWorld /\ Cached /\ disk = [p \in Occupancy!Files |-> disk[p]]
  BY OccupancyFacts
<1>3. \A p \in Occupancy!Files : disk'[p] = IF p = g THEN Absent ELSE disk[p]
  BY <1>1, <1>2
<1>4. disk'["artifacts"] = disk["artifacts"]  BY <1>3, OccupancyNames
<1>5. Cached'
  <2>1. ASSUME NEW h \in Occupancy!GroupNames, Whole(disk'[h]) PROVE Grouped(h, disk'[h])
    <3>1. disk'[h] = disk[h]  BY <1>3, <2>1, OccupancyNames DEF Whole
    <3>2. QED BY <1>2, <2>1, <3>1 DEF Cached
  <2>2. ASSUME NEW p \in Occupancy!Pids \cup {"artifacts"}, Whole(disk'[p]) PROVE Assembled(disk'[p])
    <3>1. disk'[p] = disk[p]  BY <1>3, <2>2, OccupancyNames
    <3>2. QED BY <1>2, <2>2, <3>1 DEF Cached
  <2>3. QED BY <2>1, <2>2 DEF Cached
<1>6. OccupancyWorld' /\ Carries(job') /\ Gathered'
  BY <1>1, <1>2, CarriesNothing, NothingGathers DEF OccupancyWorld
<1>7. verdict' = "accepted" => verdict = "accepted" /\ disk'["artifacts"] = disk["artifacts"] /\ world'.source = world.source
  BY <1>1, <1>4
<1>8. QED BY <1>5, <1>6, <1>7, OccupancyStays

\* Every group comes first, and the release is made then.
LEMMA OccupancyGathers ==
  ASSUME OccupancyInv, OccupancyTruth, NEW pid \in Occupancy!Pids, Occupancy!AcquireAll(pid)
  PROVE  OccupancyTruth'
<1> DEFINE G == Occupancy!Groups
           a == [i \in DOMAIN G |-> Step("group", G[i], Absent)]
           e == Step("assemble", pid, Absent)
           none == [g \in Occupancy!GroupNames |-> Absent]
<1>1. /\ disk["artifacts"] = Absent /\ UNCHANGED <<disk, verdict>> /\ job' = a \o <<e>>
      /\ world' = [world EXCEPT !.code = world.source, !.held = none]
  BY Zenon DEF Occupancy!AcquireAll, Occupancy!Step, Step, Occupancy!Absent, Absent
<1>2. /\ IsJob(a) /\ \A i \in DOMAIN G : a[i].do = "group" /\ a[i].path = G[i] /\ DOMAIN a[i] = Words
      /\ DOMAIN a = DOMAIN G
  <2>1. DOMAIN G = 1..11  BY DEF Occupancy!Groups
  <2>2. a \in Seq({a[i] : i \in DOMAIN a}) /\ DOMAIN a = DOMAIN G  BY <2>1
  <2>3. \A i \in DOMAIN G : DOMAIN Step("group", G[i], Absent) = Words
    BY StepIsWorded
  <2>4. \A i \in DOMAIN G : a[i] = Step("group", G[i], Absent)  OBVIOUS
  <2>4a. \A i \in DOMAIN G : Step("group", G[i], Absent).do = "group" /\ Step("group", G[i], Absent).path = G[i]
    BY DEF Step
  <2> HIDE DEF a, G
  <2>5. \A i \in DOMAIN G : a[i].do = "group" /\ a[i].path = G[i]
    BY <2>4, <2>4a
  <2>6. \A i \in DOMAIN G : DOMAIN a[i] = Words  BY <2>3, <2>4
  <2>7. QED BY <2>2, <2>5, <2>6 DEF IsJob
<1> HIDE DEF a
<1>3. Carries(a) /\ Kinds(a) \cap Publishing = {} /\ \A g \in Occupancy!GroupNames : <<"group", g>> \in Kinds(a)
  <2>1. \A i \in DOMAIN a : Carried(a[i]) /\ Kind(a[i]) = <<"group", G[i]>> /\ DOMAIN a[i] = Words
    BY <1>2 DEF Carried, Kind, FileSteps
  <2>2. Carries(a)  BY <2>1 DEF Carries, Worded, Items
  <2>3. Kinds(a) \cap Publishing = {}  BY <2>1 DEF Kinds, Publishing
  <2>4. \A g \in Occupancy!GroupNames : <<"group", g>> \in Kinds(a)
    BY <1>2, <2>1 DEF Kinds, Occupancy!GroupNames
  <2>5. QED BY <2>2, <2>3, <2>4
<1>4. /\ IsJob(<<e>>) /\ Kinds(<<e>>) = {<<"assemble", pid>>} /\ Carries(<<e>>) /\ \A A, B : NoPair(<<e>>, A, B)
  <2>1. DOMAIN e = Words  BY StepIsWorded
  <2>2. e.do = "assemble" /\ Kind(e) = <<"assemble", pid>>  BY DEF Step, Kind
  <2> HIDE DEF e
  <2>3. IsJob(<<e>>) /\ Kinds(<<e>>) = {Kind(e)} /\ Items(<<e>>) = {e} /\ \A A, B : NoPair(<<e>>, A, B)
    BY OneStep DEF Items
  <2>4. QED BY <2>1, <2>2, <2>3 DEF Carries, Worded, Carried, FileSteps
<1> HIDE DEF e
<1>5. Carries(job') /\ Kinds(job') = Kinds(a) \cup Kinds(<<e>>)
  BY <1>1, <1>2, <1>3, <1>4, CarriesJoined, JoinedKinds
<1>6. NoPair(job', Publishing, Publishing \cup Grouping)
  <2>1. NoPair(a, Publishing, Publishing \cup Grouping)  BY <1>3, NoPairNone
  <2>2. QED BY <1>1, <1>2, <1>3, <1>4, <2>1, JoinedNoPair
<1>7. Gathered'
  <2>1. \A g \in Occupancy!GroupNames : <<"group", g>> \in Kinds(job')
    BY <1>3, <1>5
  <2>2. QED BY <1>1, <1>6, <2>1 DEF Gathered
<1>8. OccupancyWorld'
  <2>1. OccupancyWorld  BY OccupancyFacts
  <2>2. none = [g \in Occupancy!GroupNames |-> none[g]]  OBVIOUS
  <2> HIDE DEF none
  <2>3. world' = [source |-> world.source, module |-> world.module, code |-> world.source, held |-> none]
    BY <1>1, <2>1 DEF OccupancyWorld
  <2>4. QED BY <2>2, <2>3 DEF OccupancyWorld
<1>9. Cached' /\ verdict' # "accepted"
  BY <1>1 DEF OccupancyTruth, Cached, Whole
<1>10. QED BY <1>5, <1>7, <1>8, <1>9, OccupancyStays

\* Every occurrence is in a group.
LEMMA GroupsAreWhole ==
  \A o \in Occupancy!Occurrences : \E g \in Occupancy!GroupNames : o \in Occupancy!Contents(g)
<1> DEFINE G == Occupancy!Groups
<1>1. /\ DOMAIN G = 1..11 /\ G[2] = "primary" /\ G[3] = "controls" /\ G[4] = "asymmetric" /\ G[5] = "binding"
      /\ G[6] = "head_faults" /\ G[7] = "materialization_faults" /\ G[8] = "observation_faults"
      /\ G[9] = "liveness" /\ G[10] = "authority" /\ G[11] = "replay"
  BY DEF Occupancy!Groups
<1>2. {"primary", "controls", "asymmetric", "binding", "head_faults", "materialization_faults",
       "observation_faults", "liveness", "authority", "replay"} \subseteq Occupancy!GroupNames
  BY <1>1 DEF Occupancy!GroupNames
<1>3. /\ Occupancy!Contents("primary") = Occupancy!Witnesses /\ Occupancy!Contents("controls") = Occupancy!Controls
      /\ Occupancy!Contents("asymmetric") = Occupancy!Asymmetric /\ Occupancy!Contents("binding") = Occupancy!BindingCases
      /\ Occupancy!Contents("head_faults") = Occupancy!HeadFaults
      /\ Occupancy!Contents("materialization_faults") = Occupancy!MaterializationFaults
      /\ Occupancy!Contents("observation_faults") = Occupancy!ObservationFaults
      /\ Occupancy!Contents("liveness") = Occupancy!LivenessCases
      /\ Occupancy!Contents("authority") = Occupancy!AuthorityCases
      /\ Occupancy!Contents("replay") = Occupancy!Replays
  BY DEF Occupancy!Contents
<1>4. QED BY <1>2, <1>3 DEF Occupancy!Occurrences, Occupancy!Positive

\* What a group finds is what it can have.
LEMMA GroupsFind ==
  ASSUME NEW g \in Occupancy!GroupNames
  PROVE  Grouped(g, Occupancy!Finds(g))
<1>1. CASE g = "source_audit"
  <2>1. Occupancy!Finds(g) = Occupancy!File("audit", Occupancy!Build(world.source))
    BY <1>1 DEF Occupancy!Finds
  <2>2. \E n : Occupancy!Finds(g) = Occupancy!File("audit", Occupancy!Build(n))
    BY <2>1, Zenon
  <2>3. QED BY <1>1, <2>2 DEF Grouped
<1>2. CASE g # "source_audit"
  <2>1. Occupancy!Finds(g) = Occupancy!File("found", [o \in Occupancy!Contents(g) |-> Occupancy!Leaves(o, world.module)])
    BY <1>2, Zenon DEF Occupancy!Finds
  <2>2. \E n : Occupancy!Finds(g) = Occupancy!File("found", [o \in Occupancy!Contents(g) |-> Occupancy!Leaves(o, n)])
    BY <2>1, Zenon
  <2>3. QED BY <1>2, <2>2, Zenon DEF Grouped
<1>3. QED BY <1>1, <1>2

\* A group is held, from its file or anew.
LEMMA OccupancyHolds ==
  ASSUME OccupancyInv, OccupancyTruth, Occupancy!CacheGroup
  PROVE  OccupancyTruth'
<1> DEFINE g == Now.path
           t == Tail(job)
           w == Write(g, Occupancy!Finds(g))
<1>1. /\ IsJob(job) /\ Worded(job) /\ OccupancyWorld /\ Carries(job) /\ Cached /\ Gathered
  BY OccupancyFacts
<1>2. /\ job # <<>> /\ Now.do = "group" /\ disk' = disk /\ verdict' = verdict
      /\ \/ job' = <<>> /\ world' = world
         \/ \E c : /\ \/ c = disk[g] /\ Whole(disk[g]) /\ job' = t
                      \/ c = Occupancy!Finds(g) /\ job' = w \o t
                   /\ world' = [world EXCEPT !.held[g] = c]
  <2>1. /\ job # <<>> /\ Now.do = "group" /\ disk' = disk /\ verdict' = verdict
        /\ \/ job' = <<>> /\ world' = world
           \/ Whole(disk[g]) /\ job' = t /\ world' = [world EXCEPT !.held[g] = disk[g]]
           \/ job' = w \o t /\ world' = [world EXCEPT !.held[g] = Occupancy!Finds(g)]
    BY Zenon DEF Occupancy!CacheGroup, Occupancy!Does, Occupancy!Now, Now, Occupancy!Proceed, Occupancy!Whole, Whole,
                 Occupancy!Write, Write, Occupancy!Put, Put, Occupancy!Step, Step, Occupancy!Absent, Absent,
                 Occupancy!Torn, Torn
  <2> HIDE DEF g, t, w
  <2>2. CASE Whole(disk[g]) /\ job' = t /\ world' = [world EXCEPT !.held[g] = disk[g]]
    <3> DEFINE c == disk[g]
    <3>1. c = disk[g] /\ Whole(disk[g]) /\ job' = t /\ world' = [world EXCEPT !.held[g] = c]
      BY <2>2, Zenon
    <3> HIDE DEF c
    <3>2. QED BY <2>1, <3>1, Zenon
  <2>3. CASE job' = w \o t /\ world' = [world EXCEPT !.held[g] = Occupancy!Finds(g)]
    BY <2>1, <2>3
  <2>4. QED BY <2>1, <2>2, <2>3
<1>3. /\ g \in Occupancy!GroupNames /\ IsJob(t) /\ Kinds(job) = {Kind(Now)} \cup Kinds(t) /\ Kind(Now) = <<"group", g>>
      /\ Items(job) = {Now} \cup Items(t)
  BY <1>1, <1>2, OccupancyRest, TailItems DEF Kind, Now
<1>4. /\ IsJob(w) /\ Kinds(w) = {<<"put", g>>} /\ Worded(w)
      /\ Items(w) = {Step("put", g, Torn), Step("put", g, Occupancy!Finds(g))}
  BY WriteParts, WordedParts
<1>5. Grouped(g, Occupancy!Finds(g))  BY <1>3, GroupsFind
<1>6. CASE job' = <<>> /\ world' = world  BY <1>2, <1>6, OccupancyEnds
<1>7. Carries(t) /\ Worded(t) /\ NoPair(t, Publishing, Publishing \cup Grouping)
  BY <1>1, <1>2, <1>3, WordedGoesOn, TailNoPair DEF Carries, Gathered
<1>8. Carries(w)
  <2> DEFINE f == Occupancy!Finds(g)
  <2> HIDE DEF f
  <2>1. g \notin Occupancy!Pids /\ g # "artifacts"  BY <1>3, OccupancyNames
  <2>2. \A e \in Items(w) : e.do = "put" /\ e.path = g /\ (e.content = Torn \/ Grouped(g, e.content))
    BY <1>4, <1>5 DEF Step, f
  <2>3. \A e \in Items(w) : Carried(e)  BY <2>1, <2>2 DEF Carried
  <2>4. QED BY <1>4, <2>3 DEF Carries
<1> HIDE DEF w, t, g
<1>9. ASSUME NEW c, world' = [world EXCEPT !.held[g] = c], Grouped(g, c), job' = t \/ job' = w \o t
      PROVE  OccupancyTruth'
  <2>1. /\ Kinds(t) \subseteq Kinds(job') /\ Kinds(job') \cap Publishing = Kinds(t) \cap Publishing /\ Carries(job')
        /\ NoPair(job', Publishing, Publishing \cup Grouping)
    <3>1. CASE job' = t  BY <1>7, <3>1
    <3>2. CASE job' = w \o t
      <4>1. Carries(job') /\ Kinds(job') = Kinds(w) \cup Kinds(t)
        BY <1>3, <1>4, <1>7, <1>8, <3>2, CarriesJoined, JoinedKinds
      <4>2. Kinds(w) \cap Publishing = {}  BY <1>4 DEF Publishing
      <4>3. NoPair(w, Publishing, Publishing \cup Grouping)
        BY <4>2, NoPairNone
      <4>4. NoPair(job', Publishing, Publishing \cup Grouping)
        BY <1>3, <1>4, <1>7, <3>2, <4>2, <4>3, JoinedNoPair
      <4>5. QED BY <4>1, <4>2, <4>4
    <3>3. QED BY <1>9, <3>1, <3>2
  <2>2. world' = [source |-> world.source, module |-> world.module, code |-> world.code,
                  held |-> [world.held EXCEPT ![g] = c]]
    BY <1>1, <1>9 DEF OccupancyWorld
  <2>3. /\ OccupancyWorld' /\ world'.source = world.source
        /\ \A h \in Occupancy!GroupNames : world'.held[h] = IF h = g THEN c ELSE world.held[h]
    BY <1>1, <2>2 DEF OccupancyWorld
  <2>4. ASSUME Kinds(job') \cap Publishing # {}
        PROVE  /\ disk'["artifacts"] = Absent
               /\ \A h \in Occupancy!GroupNames : <<"group", h>> \in Kinds(job') \/ Grouped(h, world'.held[h])
    <3>1. Kinds(job) \cap Publishing # {}  BY <1>3, <2>1, <2>4
    <3>2. /\ disk["artifacts"] = Absent
          /\ \A h \in Occupancy!GroupNames : <<"group", h>> \in Kinds(job) \/ Grouped(h, world.held[h])
      BY <1>1, <3>1 DEF Gathered
    <3>3. ASSUME NEW h \in Occupancy!GroupNames PROVE <<"group", h>> \in Kinds(job') \/ Grouped(h, world'.held[h])
      <4>1. CASE h = g  BY <1>9, <2>3, <4>1
      <4>2. CASE h # g  BY <1>3, <2>1, <2>3, <3>2, <4>2
      <4>3. QED BY <4>1, <4>2
    <3>4. QED BY <1>2, <3>2, <3>3
  <2>5. Gathered'  BY <2>1, <2>4 DEF Gathered
  <2>6. Cached'  BY <1>1, <1>2 DEF Cached
  <2>7. verdict' = "accepted" => verdict = "accepted" /\ disk'["artifacts"] = disk["artifacts"] /\ world'.source = world.source
    BY <1>2, <2>3
  <2>8. QED BY <2>1, <2>3, <2>5, <2>6, <2>7, OccupancyStays
<1>10. Whole(disk[g]) => Grouped(g, disk[g])  BY <1>1, <1>3 DEF Cached
<1>11. QED BY <1>2, <1>5, <1>6, <1>9, <1>10

\* What is assembled of the groups that are held.
LEMMA GroupsAssemble ==
  ASSUME \A g \in Occupancy!GroupNames : Grouped(g, world.held[g])
  PROVE  Assembled(Occupancy!File("release",
           Occupancy!Artifacts(Occupancy!Found(world.held), world.held["source_audit"][2])))
<1> DEFINE found == Occupancy!Found(world.held)
<1>1. "source_audit" \in Occupancy!GroupNames
  <2>1. DOMAIN Occupancy!Groups = 1..11 /\ Occupancy!Groups[1] = "source_audit"
    BY DEF Occupancy!Groups
  <2>2. QED BY <2>1 DEF Occupancy!GroupNames
<1>2. PICK n : world.held["source_audit"] = Occupancy!File("audit", Occupancy!Build(n))
  BY <1>1 DEF Grouped
<1>3. world.held["source_audit"][2] = Occupancy!Build(n)
  BY <1>2 DEF Occupancy!File
<1>4. ASSUME NEW o \in Occupancy!Occurrences PROVE \E m : found[o] = Occupancy!Leaves(o, m)
  <2> DEFINE g == CHOOSE h \in Occupancy!GroupNames : o \in Occupancy!Contents(h)
  <2>1. \E h \in Occupancy!GroupNames : o \in Occupancy!Contents(h)
    BY GroupsAreWhole
  <2>2. g \in Occupancy!GroupNames /\ o \in Occupancy!Contents(g)
    BY <2>1, Zenon
  <2>3. found[o] = world.held[g][2][o]  BY Zenon DEF Occupancy!Found
  <2> HIDE DEF g, found
  <2>4. g # "source_audit"  BY <2>2 DEF Occupancy!Contents
  <2>5. PICK m : world.held[g] = Occupancy!File("found", [p \in Occupancy!Contents(g) |-> Occupancy!Leaves(p, m)])
    BY <2>2, <2>4, Zenon DEF Grouped
  <2> DEFINE f == [p \in Occupancy!Contents(g) |-> Occupancy!Leaves(p, m)]
  <2>5a. f[o] = Occupancy!Leaves(o, m)
    BY <2>2, Zenon
  <2> HIDE DEF f
  <2>6. world.held[g] = <<"found", f>>  BY <2>5, Zenon DEF Occupancy!File, f
  <2>7. world.held[g][2][o] = Occupancy!Leaves(o, m)  BY <2>5a, <2>6
  <2>8. QED BY <2>3, <2>7, Zenon
<1> HIDE DEF found
<1>5. QED BY <1>3, <1>4, Zenon DEF Assembled, found

\* The release is made once every group is held.
LEMMA OccupancyAssembles ==
  ASSUME OccupancyInv, OccupancyTruth, Occupancy!Assemble
  PROVE  OccupancyTruth'
<1> DEFINE pid == Now.path
           c == Occupancy!File("release",
                  Occupancy!Artifacts(Occupancy!Found(world.held), world.held["source_audit"][2]))
           w == Make(pid, c)
           e == Step("rename", pid, Absent)
<1>1. IsJob(job) /\ Worded(job) /\ OccupancyWorld /\ Cached /\ Gathered /\ (IsJob(Tail(job)) \/ job = <<>>)
  BY OccupancyFacts, Onward
<1>2. /\ job # <<>> /\ Now.do = "assemble" /\ UNCHANGED <<disk, world, verdict>>
      /\ job' = <<>> \/ job' = w \o <<e>>
  BY Zenon DEF Occupancy!Assemble, Occupancy!Does, Occupancy!Now, Now, Occupancy!Make, Make, Occupancy!Put, Put,
               Occupancy!Step, Step, Occupancy!Torn, Torn, Occupancy!Absent, Absent
<1>3. /\ pid \in Occupancy!Pids /\ Kinds(job) = {Kind(Now)} \cup Kinds(Tail(job)) /\ Kind(Now) = <<"assemble", pid>>
      /\ Kind(Now) \in Publishing
  BY <1>2, OccupancyRest DEF Kind, Publishing
<1>4. Gathered /\ IsJob(job) /\ Cached /\ OccupancyWorld  BY OccupancyFacts
<1>5. Kinds(job) \cap Grouping = {} /\ Kinds(job) \cap Publishing # {}
  <2>1. Kinds(Tail(job)) \cap (Publishing \cup Grouping) = {}
    BY <1>2, <1>3, <1>4, TailNoPair DEF Gathered, Now
  <2>2. Kind(Now) \notin Grouping  BY <1>3 DEF Grouping
  <2>3. QED BY <1>3, <2>1, <2>2
<1>6. disk["artifacts"] = Absent /\ \A g \in Occupancy!GroupNames : Grouped(g, world.held[g])
  BY <1>4, <1>5 DEF Gathered, Grouping
<1>7. Assembled(c)  BY <1>6, GroupsAssemble
<1> HIDE DEF c
<1>8. /\ IsJob(w) /\ Items(w) = {Step("make", pid, Torn), Step("put", pid, c)} /\ Kinds(w) = {<<"make", pid>>, <<"put", pid>>}
      /\ Worded(w)
  BY MakeParts, WordedParts
<1>9. Carries(w) /\ Kinds(w) \cap Publishing = {}
  <2>1. pid \notin Occupancy!GroupNames /\ pid # "artifacts"
    BY <1>3, OccupancyNames DEF Occupancy!Pids
  <2>2. \A x \in Items(w) : x.do \in {"put", "make"} /\ x.path = pid /\ (x.content = Torn \/ Assembled(x.content))
    BY <1>7, <1>8 DEF Step
  <2>3. \A x \in Items(w) : Carried(x)  BY <2>1, <2>2 DEF Carried
  <2>4. QED BY <1>8, <2>3 DEF Carries, Publishing
<1>10. /\ IsJob(<<e>>) /\ Carries(<<e>>) /\ \A A, B : NoPair(<<e>>, A, B)
  <2>1. DOMAIN e = Words /\ e.do = "rename"  BY StepIsWorded DEF Step
  <2> HIDE DEF e
  <2>2. IsJob(<<e>>) /\ Items(<<e>>) = {e} /\ \A A, B : NoPair(<<e>>, A, B)
    BY OneStep DEF Items
  <2>3. QED BY <2>1, <2>2 DEF Carries, Worded, Carried, FileSteps
<1> HIDE DEF w, e
<1>11. CASE job' = w \o <<e>>
  <2>1. Carries(job')  BY <1>8, <1>9, <1>10, <1>11, CarriesJoined
  <2>2. NoPair(job', Publishing, Publishing \cup Grouping)
    <3>1. NoPair(w, Publishing, Publishing \cup Grouping)  BY <1>9, NoPairNone
    <3>2. QED BY <1>8, <1>9, <1>10, <1>11, <3>1, JoinedNoPair
  <2>3. disk' = disk /\ world' = world /\ verdict' = verdict  BY <1>2
  <2>4. Gathered'  BY <1>6, <2>2, <2>3 DEF Gathered
  <2>5. OccupancyWorld' /\ Cached'  BY <1>4, <2>3 DEF OccupancyWorld, Cached
  <2>6. verdict' # "accepted"  BY <1>5, <2>3, OccupancyFacts
  <2>7. QED BY <2>1, <2>4, <2>5, <2>6, OccupancyStays
<1>12. CASE job' = <<>>  BY <1>2, <1>12, OccupancyEnds
<1>13. QED BY <1>2, <1>11, <1>12

LEMMA OccupancyTakes ==
  ASSUME OccupancyInv, OccupancyTruth, Occupancy!Rename
  PROVE  OccupancyTruth'
<1> DEFINE pid == Now.path
           t == Tail(job)
<1>1. /\ job # <<>> /\ Now.do = "rename" /\ job' = t /\ UNCHANGED <<world, verdict>>
      /\ disk' = [disk EXCEPT !["artifacts"] = disk[pid], ![pid] = Absent]
  BY Zenon DEF Occupancy!Rename, Occupancy!Does, Occupancy!Now, Now, Occupancy!Proceed, Occupancy!Absent, Absent
<1>2. /\ IsJob(job) /\ Worded(job) /\ OccupancyWorld /\ Carries(job) /\ Cached /\ Gathered
      /\ disk = [p \in Occupancy!Files |-> disk[p]]
  BY OccupancyFacts
<1>3. /\ pid \in Occupancy!Pids /\ Kinds(job) = {Kind(Now)} \cup Kinds(t) /\ Kind(Now) \in Publishing
      /\ Items(job) = {Now} \cup Items(t)
  BY <1>1, <1>2, OccupancyRest, TailItems DEF Kind, Publishing, Now
<1>4. Kinds(t) \cap Publishing = {} /\ Worded(t)
  BY <1>1, <1>2, <1>3, TailNoPair, WordedGoesOn DEF Gathered, Now
<1> HIDE DEF t
<1>5. pid \in Occupancy!Files /\ "artifacts" \in Occupancy!Files /\ pid # "artifacts"
  BY <1>3, OccupancyNames DEF Occupancy!Pids
<1>6. \A p \in Occupancy!Files : disk'[p] = IF p = pid THEN Absent ELSE IF p = "artifacts" THEN disk[pid] ELSE disk[p]
  BY <1>1, <1>2, <1>5
<1>7. Cached'
  <2>1. ASSUME NEW g \in Occupancy!GroupNames, Whole(disk'[g]) PROVE Grouped(g, disk'[g])
    <3>1. disk'[g] = disk[g]  BY <1>3, <1>6, OccupancyNames
    <3>2. QED BY <1>2, <2>1, <3>1 DEF Cached
  <2>2. ASSUME NEW p \in Occupancy!Pids \cup {"artifacts"}, Whole(disk'[p]) PROVE Assembled(disk'[p])
    <3>1. p \in Occupancy!Files  BY OccupancyNames
    <3>2. \E q \in Occupancy!Pids \cup {"artifacts"} : disk'[p] = disk[q]
      BY <1>3, <1>6, <2>2, <3>1 DEF Whole
    <3>3. QED BY <1>2, <2>2, <3>2 DEF Cached
  <2>3. QED BY <2>1, <2>2 DEF Cached
<1>8. Carries(job') /\ Gathered'
  <2>1. Carries(job')  BY <1>1, <1>2, <1>3, <1>4 DEF Carries
  <2>2. QED BY <1>1, <1>4, <2>1, NothingGathers
<1>9. OccupancyWorld' /\ verdict' # "accepted"
  <2>1. world' = world /\ verdict' = verdict /\ Kinds(job) \cap Publishing # {}
    BY <1>1, <1>3
  <2>2. QED BY <1>2, <2>1, OccupancyFacts DEF OccupancyWorld
<1>10. QED BY <1>7, <1>8, <1>9, OccupancyStays

LEMMA OccupancyReleases ==
  ASSUME OccupancyInv, OccupancyTruth, Occupancy!WriteRelease
  PROVE  OccupancyTruth'
<1>1. /\ UNCHANGED <<disk, world, verdict>> /\ (job' = <<>> \/ \E c : job' = Write("manifest", c))
  BY Zenon DEF Occupancy!WriteRelease, Occupancy!Write, Write, Occupancy!Put, Put, Occupancy!Step, Step,
               Occupancy!Torn, Torn
<1>2. IsJob(job') /\ Worded(job') /\ \A e \in Items(job') : e.do = "put" /\ e.path = "manifest"
  BY <1>1, ManifestJobs
<1>3. "manifest" \notin Occupancy!GroupNames \cup Occupancy!Pids \cup {"artifacts"}
  BY OccupancyNames DEF Occupancy!Pids
<1>4. Carries(job') /\ Kinds(job') \cap Publishing = {}
  <2>1. \A e \in Items(job') : Carried(e) /\ Kind(e) \notin Publishing
    BY <1>2, <1>3 DEF Carried, Kind, Publishing
  <2>2. QED BY <1>2, <2>1, KindsOfItems DEF Carries
<1>5. disk' = disk /\ world' = world /\ verdict' = verdict  BY <1>1
<1>6. OccupancyWorld' /\ Cached' /\ Gathered'
  BY <1>4, <1>5, NothingGathers DEF OccupancyWorld, Cached, OccupancyTruth
<1>7. verdict' = "accepted" => verdict = "accepted" /\ disk'["artifacts"] = disk["artifacts"] /\ world'.source = world.source
  BY <1>5
<1>8. QED BY <1>4, <1>6, <1>7, OccupancyStays

LEMMA OccupancyPuts ==
  ASSUME OccupancyInv, OccupancyTruth, Perform(<<>>)
  PROVE  OccupancyTruth'
<1>1. /\ IsJob(job) /\ Worded(job) /\ OccupancyWorld /\ Carries(job) /\ Cached /\ Gathered
      /\ disk = [p \in Occupancy!Files |-> disk[p]]
  BY OccupancyFacts
<1>2. /\ UNCHANGED <<scene, world, verdict, crashes>> /\ job # <<>> /\ Now.do \in FileSteps
      /\ \/ job' = <<>> /\ disk' = disk
         \/ /\ job' = Tail(job)
            /\ \A p \in Occupancy!Files : p # Now.path => disk'[p] = disk[p]
            /\ Now.path \in Occupancy!Files /\ Now.do # "copy" => disk'[Now.path] = Now.content
  BY <1>1, Performed
<1>3. CASE job' = <<>> /\ disk' = disk  BY <1>2, <1>3, OccupancyEnds
<1>4. CASE /\ job' = Tail(job)
           /\ \A p \in Occupancy!Files : p # Now.path => disk'[p] = disk[p]
           /\ Now.path \in Occupancy!Files /\ Now.do # "copy" => disk'[Now.path] = Now.content
  <2>1. /\ IsJob(job') /\ Worded(job') /\ Kinds(job) = {Kind(Now)} \cup Kinds(job') /\ Items(job) = {Now} \cup Items(job')
        /\ \A A, B : NoPair(job, A, B) => NoPair(job', A, B)
    BY <1>1, <1>2, <1>4, JobGoesOn, WordedGoesOn
  <2>2. Carried(Now) /\ Carries(job')  BY <1>1, <2>1 DEF Carries
  <2>3. Now.do \in {"put", "make"} /\ Now.path # "artifacts"
    BY <1>2, <2>2 DEF Carried
  <2>4. \A p \in Occupancy!Files : disk'[p] = IF p = Now.path THEN Now.content ELSE disk[p]
    BY <1>4, <2>3
  <2>5. disk'["artifacts"] = disk["artifacts"]  BY <2>3, <2>4, OccupancyNames
  <2>6. ASSUME NEW g \in Occupancy!GroupNames, Whole(disk'[g]) PROVE Grouped(g, disk'[g])
    <3>1. g \in Occupancy!Files  BY OccupancyNames
    <3>2. CASE g = Now.path
      BY <1>2, <2>2, <2>4, <2>6, <3>1, <3>2 DEF Carried, Whole
    <3>3. CASE g # Now.path  BY <1>1, <2>4, <2>6, <3>1, <3>3 DEF Cached
    <3>4. QED BY <3>2, <3>3
  <2>7. ASSUME NEW p \in Occupancy!Pids \cup {"artifacts"}, Whole(disk'[p]) PROVE Assembled(disk'[p])
    <3>1. p \in Occupancy!Files  BY OccupancyNames
    <3>2. CASE p = Now.path
      BY <1>2, <2>2, <2>3, <2>4, <2>7, <3>1, <3>2 DEF Carried, Whole
    <3>3. CASE p # Now.path  BY <1>1, <2>4, <2>7, <3>1, <3>3 DEF Cached
    <3>4. QED BY <3>2, <3>3
  <2>8. Cached'  BY <2>6, <2>7 DEF Cached
  <2>9. world' = world /\ verdict' = verdict  BY <1>2
  <2>10. ASSUME Kinds(job') \cap Publishing # {}
         PROVE  /\ disk'["artifacts"] = Absent
                /\ \A g \in Occupancy!GroupNames : <<"group", g>> \in Kinds(job') \/ Grouped(g, world'.held[g])
    <3>1. /\ disk["artifacts"] = Absent
          /\ \A g \in Occupancy!GroupNames : <<"group", g>> \in Kinds(job) \/ Grouped(g, world.held[g])
      BY <1>1, <2>1, <2>10 DEF Gathered
    <3>2. \A g : Kind(Now) # <<"group", g>>  BY <1>2 DEF Kind, FileSteps
    <3>3. QED BY <2>1, <2>5, <2>9, <3>1, <3>2
  <2>11. NoPair(job', Publishing, Publishing \cup Grouping)
    BY <1>1, <2>1 DEF Gathered
  <2>12. Gathered'  BY <2>10, <2>11 DEF Gathered
  <2>13. OccupancyWorld'  BY <1>1, <2>9 DEF OccupancyWorld
  <2>14. verdict' = "accepted" => verdict = "accepted" /\ disk'["artifacts"] = disk["artifacts"] /\ world'.source = world.source
    BY <2>5, <2>9
  <2>15. QED BY <2>2, <2>8, <2>12, <2>13, <2>14, OccupancyStays
<1>5. QED BY <1>2, <1>3, <1>4

LEMMA OccupancyStaysTrue ==
  ASSUME OccupancyInv, OccupancyTruth, Occupancy!OccupancyNext
  PROVE  OccupancyTruth'
<1>1. Occupancy!Perform(<<>>) => Perform(<<>>)  BY PerformSame
<1>2. QED
  BY <1>1, OccupancyAges, OccupancyRepairs, OccupancyGathers, OccupancyHolds, OccupancyAssembles, OccupancyTakes,
     OccupancyReleases, OccupancyPuts
     DEF Occupancy!OccupancyNext, Occupancy!OccupancyCommands

LEMMA OccupancyStartsTrue == ASSUME Occupancy!OccupancyInit PROVE OccupancyTruth
<1> DEFINE none == [g \in Occupancy!GroupNames |-> Absent]
<1>1. /\ disk = [p \in Occupancy!Files |-> Absent] /\ job = <<>> /\ verdict = "none"
      /\ world = [source |-> 0, module |-> 0, code |-> 0, held |-> none]
  BY Zenon DEF Occupancy!OccupancyInit, Occupancy!Absent, Absent
<1>2. Carries(job) /\ Gathered  BY <1>1, CarriesNothing, EmptyJob DEF Gathered
<1>3. Cached  BY <1>1, OccupancyNames DEF Cached, Whole
<1>4. OccupancyWorld
  <2>1. none = [g \in Occupancy!GroupNames |-> none[g]]  OBVIOUS
  <2> HIDE DEF none
  <2>2. QED BY <1>1, <2>1 DEF OccupancyWorld
<1>5. QED BY <1>1, <1>2, <1>3, <1>4 DEF OccupancyTruth

\* What the verifier of the occupancy release asks of a process it knows is that it ran this code.
LEMMA LeavesTell ==
  ASSUME NEW o \in Occupancy!Occurrences \ (Occupancy!BindingCases \cup Occupancy!AuthorityCases), NEW m, NEW n,
         Occupancy!ValidateEmbeddedRuntime(Occupancy!Leaves(o, m), o, n)
  PROVE  Occupancy!Leaves(o, m) = Occupancy!Leaves(o, n)
<1> DEFINE q == Occupancy!Of("domain_A", "loaded_images")
           v == Occupancy!Leaves(o, m)
<1>1. "domain_A" \in Occupancy!Bound(o)
  BY DEF Occupancy!Bound, Occupancy!ProcessesOf, Occupancy!Domains
<1>2. v[q] = Occupancy!Build(n)
  <2>1. Occupancy!ValidateProcessEvidence(v, "domain_A", n)
    BY <1>1, Zenon DEF Occupancy!ValidateEmbeddedRuntime
  <2>2. QED BY <2>1, Zenon DEF Occupancy!ValidateProcessEvidence, Occupancy!DependencyCensus
<1>3. v[q] = Occupancy!Build(m)
  <2>1. q = <<"domain_A", "", "loaded_images">>
    BY Zenon DEF Occupancy!Of, Occupancy!Place
  <2>4. q \in {Occupancy!Of(p, part) : p \in Occupancy!Bound(o), part \in Occupancy!Parts \cup {"loaded_images"}}
    BY <1>1
  <2> HIDE DEF q
  <2>2. q \notin Occupancy!FrozenPlaces(o)
    <3>1. \A what : Occupancy!Case(what) = <<"", "", what>>
      BY Zenon DEF Occupancy!Case, Occupancy!Place
    <3>2. \A what : Occupancy!Case(what) # q  BY <2>1, <3>1
    <3>3. QED BY <3>2 DEF Occupancy!FrozenPlaces
  <2>3. q \notin Occupancy!RowPlaces(o)
    <3>1. \A p, k, row : Occupancy!Place(p, k, row) = <<p, k, row>>
      BY Zenon DEF Occupancy!Place
    <3>2. \A p, k, row : row \in Occupancy!Rows => Occupancy!Place(p, k, row) # q
      BY <2>1, <3>1 DEF Occupancy!Rows
    <3>3. QED BY <3>2 DEF Occupancy!RowPlaces
  <2>5. q[3] = "loaded_images"  BY <2>1
  <2>6. QED BY <2>2, <2>3, <2>4, <2>5 DEF Occupancy!Leaves
<1>4. m = n  BY <1>2, <1>3 DEF Occupancy!Build
<1>5. QED BY <1>4

LEMMA OccupancyTells ==
  ASSUME OccupancyTruth, verdict = "accepted"
  PROVE  Occupancy!OccupancyTrue
<1> DEFINE r == disk["artifacts"][2]
<1>1. /\ Assembled(disk["artifacts"]) /\ Occupancy!ValidateArtifactValues(r, world.source)
  BY DEF OccupancyTruth, Cached
<1>2. PICK found, n : /\ disk["artifacts"] = Occupancy!File("release", Occupancy!Artifacts(found, Occupancy!Build(n)))
                      /\ \A o \in Occupancy!Occurrences : \E m : found[o] = Occupancy!Leaves(o, m)
  BY <1>1, Zenon DEF Assembled
<1>3. r.found = found
  <2> DEFINE a == Occupancy!Artifacts(found, Occupancy!Build(n))
  <2>1. a.found = found  BY DEF Occupancy!Artifacts
  <2> HIDE DEF a
  <2>2. disk["artifacts"] = <<"release", a>>
    BY <1>2, Zenon DEF Occupancy!File, a
  <2>3. QED BY <2>1, <2>2
<1> HIDE DEF r
<1>4. r.source = Occupancy!Build(world.source)
  BY <1>1, Zenon DEF Occupancy!ValidateArtifactValues, Occupancy!ValidateSourceAudit
<1>5. ASSUME NEW o \in Occupancy!Occurrences \ (Occupancy!BindingCases \cup Occupancy!AuthorityCases)
      PROVE  Occupancy!ValidateEmbeddedRuntime(r.found[o], o, world.source)
  <2>1. \/ o \in Occupancy!Witnesses \/ o \in Occupancy!Replays \/ o \in Occupancy!Controls \/ o \in Occupancy!Asymmetric
        \/ o \in Occupancy!HeadFaults \/ o \in Occupancy!MaterializationFaults \/ o \in Occupancy!ObservationFaults
        \/ o \in Occupancy!LivenessCases
    BY DEF Occupancy!Occurrences, Occupancy!Positive
  <2>2. o \in Occupancy!Replays => Occupancy!ValidatePrimary(r.found[o], o, world.source)
    BY <1>1, Zenon DEF Occupancy!ValidateArtifactValues, Occupancy!ValidateReplay
  <2>3. o \in Occupancy!Witnesses => Occupancy!ValidatePrimary(r.found[o], o, world.source)
    BY <1>1, Zenon DEF Occupancy!ValidateArtifactValues
  <2>4. o \in Occupancy!Controls => Occupancy!ValidateControls(r.found[o], o, world.source)
    BY <1>1, Zenon DEF Occupancy!ValidateArtifactValues
  <2>5. o \in Occupancy!Asymmetric => Occupancy!ValidateAsymmetric(r.found[o], o, world.source)
    BY <1>1, Zenon DEF Occupancy!ValidateArtifactValues
  <2>6. o \in Occupancy!HeadFaults => Occupancy!ValidateHeadFaults(r.found[o], o, world.source)
    BY <1>1, Zenon DEF Occupancy!ValidateArtifactValues
  <2>7. o \in Occupancy!MaterializationFaults => Occupancy!ValidateMaterializationFaults(r.found[o], o, world.source)
    BY <1>1, Zenon DEF Occupancy!ValidateArtifactValues
  <2>8. o \in Occupancy!ObservationFaults => Occupancy!ValidateObservationFaults(r.found[o], o, world.source)
    BY <1>1, Zenon DEF Occupancy!ValidateArtifactValues
  <2>9. o \in Occupancy!LivenessCases => Occupancy!ValidateLivenessAdversaries(r.found[o], o, world.source)
    BY <1>1, Zenon DEF Occupancy!ValidateArtifactValues
  <2>10. QED
    BY <2>1, <2>2, <2>3, <2>4, <2>5, <2>6, <2>7, <2>8, <2>9, Zenon
       DEF Occupancy!ValidatePrimary, Occupancy!ValidateControls, Occupancy!ValidateAsymmetric,
           Occupancy!ValidateHeadFaults, Occupancy!ValidateMaterializationFaults, Occupancy!ValidateObservationFaults,
           Occupancy!ValidateLivenessAdversaries
<1>6. ASSUME NEW o \in Occupancy!Occurrences \ (Occupancy!BindingCases \cup Occupancy!AuthorityCases)
      PROVE  r.found[o] = Occupancy!Leaves(o, world.source)
  <2>1. PICK m : found[o] = Occupancy!Leaves(o, m)  BY <1>2
  <2>2. r.found[o] = Occupancy!Leaves(o, m)  BY <1>3, <2>1
  <2>3. Occupancy!ValidateEmbeddedRuntime(Occupancy!Leaves(o, m), o, world.source)
    BY <1>5, <2>2
  <2>4. QED BY <2>2, <2>3, LeavesTell
<1>7. QED BY <1>4, <1>6, Zenon DEF Occupancy!OccupancyTrue, r

-----------------------------------------------------------------------------
(* The witness tells what its processes did *)

\* A process materializes at most one record, the crew goes on, and the dead do nothing.
Onwards ==
  /\ \A s \in Integrated!Stages : world[s].read # "none" => world'[s].read = world[s].read
  /\ world["source"].crew = "logged" => world'["source"].crew = "logged"
  /\ DidNothing => DidNothing'

LEMMA VouchedGoesOn ==
  ASSUME Onwards, NEW p, NEW c, Vouched(p, c)
  PROVE  Vouched(p, c)'
<1>1. ASSUME NEW s \in Integrated!Stages, LogTold(s, c) PROVE LogTold(s, c)'
  <2>1. CASE c \in {Integrated!LogOf("none", FALSE), Integrated!LogOf(world[s].read, FALSE)}
    <3>1. c = Integrated!LogOf("none", FALSE) \/ (world[s].read # "none" /\ c = Integrated!LogOf(world[s].read, FALSE))
      BY <2>1
    <3>2. c = Integrated!LogOf("none", FALSE) \/ c = Integrated!LogOf(world'[s].read, FALSE)
      BY <3>1 DEF Onwards
    <3>3. QED BY <3>2 DEF LogTold
  <2>2. CASE /\ s = "source" /\ world["source"].crew = "logged" /\ world["source"].read = "R0"
             /\ c = Integrated!LogOf("R0", TRUE)
    <3>1. world'["source"].crew = "logged" /\ world'["source"].read = "R0"
      BY <2>2, IntegratedNames DEF Onwards
    <3>2. QED BY <2>2, <3>1 DEF LogTold
  <2>3. QED BY <1>1, <2>1, <2>2 DEF LogTold
<1>2. LogTold("source", c) => LogTold("source", c)'  BY <1>1, IntegratedNames
<1>3. LogTold("return", c) => LogTold("return", c)'  BY <1>1, IntegratedNames
<1>4. QED BY <1>2, <1>3 DEF Vouched, Onwards

LEMMA HeldGoesOn == ASSUME Onwards, NEW f, Held(f) PROVE Held(f)'
  BY VouchedGoesOn DEF Held

LEMMA WorldGoesOn == ASSUME world' = world PROVE Onwards
  BY DEF Onwards, DidNothing, Dead

\* What a process does, and what it says of it.
LogTells(s) == disk[Integrated!Log(s)] # Absent /\ LogTold(s, disk[Integrated!Log(s)])

ProcessTells ==
  /\ Onwards
  /\ \A s \in Integrated!Stages :
       disk'[Integrated!Log(s)] = disk[Integrated!Log(s)] \/ LogTells(s)'
  /\ world'["source"].crew # "idle" =>
       /\ world'["source"].read = "R0"
       /\ \/ world["source"].crew # "idle" /\ disk'["source_output"] = disk["source_output"]
          \/ disk'["source_output"] \in {Integrated!PartOfQ, Integrated!Q}

LEMMA ProcessesTell ==
  ASSUME IntegratedInv, IntegratedTruth, Integrated!IntegratedProcesses
  PROVE  ProcessTells
<1>1. /\ world = [t \in Integrated!Stages |-> world[t]] /\ disk = [q \in Integrated!Paths |-> disk[q]]
      /\ \A t \in Integrated!Stages :
           world[t] = [life |-> world[t].life, read |-> world[t].read, crew |-> world[t].crew]
      /\ Integrated!Stages = {"source", "return"}
  BY IntegratedNames DEF IntegratedInv
<1>2. Integrated!Log("source") = "source_log" /\ Integrated!Log("return") = "return_log"
      /\ {"source_log", "return_log", "source_output"} \subseteq Integrated!Paths
  BY IntegratedNames DEF Integrated!Log
<1>3. world["source"].crew # "idle" => world["source"].read = "R0"
  BY DEF IntegratedTruth, CrewTruth
<1>4. \A r, q : Integrated!LogOf(r, q) # Absent
  BY DEF Integrated!LogOf, Integrated!File, Absent
<1>5. ASSUME NEW s \in Integrated!Stages, Integrated!Launch(s) \/ Integrated!Dies(s)
      PROVE  ProcessTells
  <2>1. PICK l : world' = [world EXCEPT ![s] = [world[s] EXCEPT !.life = l]] /\ (world[s].life = "dead" => l = "dead")
    BY <1>5, Zenon DEF Integrated!Launch, Integrated!Dies, Integrated!Becomes
  <2>2. /\ \A t \in Integrated!Stages : world'[t].read = world[t].read /\ world'[t].crew = world[t].crew
        /\ Dead("source") => Dead("source")'
    BY <1>1, <2>1 DEF Dead
  <2>3. Onwards  BY <1>1, <2>2 DEF Onwards, DidNothing
  <2>4. \/ disk' = disk
        \/ disk' = [disk EXCEPT ![Integrated!Log(s)] = Integrated!LogOf("none", FALSE)]
    BY <1>5, Zenon DEF Integrated!Launch, Integrated!Dies
  <2>5. /\ disk'["source_output"] = disk["source_output"]
        /\ \A t \in Integrated!Stages : disk'[Integrated!Log(t)] = disk[Integrated!Log(t)]
                                        \/ disk'[Integrated!Log(t)] = Integrated!LogOf("none", FALSE)
    BY <1>1, <1>2, <2>4
  <2>7. ASSUME NEW t \in Integrated!Stages
        PROVE  disk'[Integrated!Log(t)] = disk[Integrated!Log(t)] \/ LogTells(t)'
    <3>1. CASE disk'[Integrated!Log(t)] = Integrated!LogOf("none", FALSE)
      BY <1>4, <3>1 DEF LogTells, LogTold
    <3>2. QED BY <2>5, <3>1
  <2>8. QED BY <1>1, <1>3, <2>2, <2>3, <2>5, <2>7 DEF ProcessTells
<1>6. ASSUME NEW s \in Integrated!Stages, Integrated!BeginPlay(s) PROVE ProcessTells
  <2>1. PICK r : /\ world' = [world EXCEPT ![s] = [world[s] EXCEPT !.read = r]]
                 /\ world[s].read = "none" /\ world[s].life = "up"
                 /\ \/ disk' = disk
                    \/ disk' = [disk EXCEPT ![Integrated!Log(s)] = Integrated!LogOf(r, FALSE)]
    BY <1>6, Zenon DEF Integrated!BeginPlay, Integrated!Becomes
  <2>2. /\ \A t \in Integrated!Stages : /\ t # s => world'[t].read = world[t].read
                                        /\ world'[t].crew = world[t].crew /\ world'[t].life = world[t].life
        /\ world'[s].read = r
    BY <1>1, <2>1
  <2>3. Onwards  BY <1>1, <2>1, <2>2 DEF Onwards, DidNothing, Dead
  <2>4. /\ disk'["source_output"] = disk["source_output"]
        /\ \A t \in Integrated!Stages : t # s => disk'[Integrated!Log(t)] = disk[Integrated!Log(t)]
        /\ \/ disk'[Integrated!Log(s)] = disk[Integrated!Log(s)]
           \/ disk'[Integrated!Log(s)] = Integrated!LogOf(r, FALSE)
    <3> DEFINE c == Integrated!LogOf(r, FALSE)
    <3> HIDE DEF c
    <3>1. s \in {"source", "return"} /\ (disk' = disk \/ disk' = [disk EXCEPT ![Integrated!Log(s)] = c])
      BY <1>1, <2>1 DEF c
    <3>2. Integrated!Log(s) \in Integrated!Paths \ {"source_output"}
          /\ \A t \in Integrated!Stages : t # s => Integrated!Log(t) # Integrated!Log(s)
      BY <1>1, <1>2, <3>1
    <3>3. \A p \in Integrated!Paths : p # Integrated!Log(s) => disk'[p] = disk[p]
      BY <1>1, <3>1
    <3>4. disk'[Integrated!Log(s)] = disk[Integrated!Log(s)] \/ disk'[Integrated!Log(s)] = c
      BY <1>1, <3>1, <3>2
    <3>5. \A t \in Integrated!Stages : Integrated!Log(t) \in Integrated!Paths
      BY <1>1, <1>2
    <3>6. QED BY <1>2, <3>2, <3>3, <3>4, <3>5 DEF c
  <2>5. ASSUME NEW t \in Integrated!Stages
        PROVE  disk'[Integrated!Log(t)] = disk[Integrated!Log(t)] \/ LogTells(t)'
    <3>1. CASE t = s /\ disk'[Integrated!Log(t)] = Integrated!LogOf(r, FALSE)
      <4>1. disk'[Integrated!Log(t)] = Integrated!LogOf(world'[t].read, FALSE)
        BY <2>2, <3>1
      <4>2. QED BY <1>4, <4>1 DEF LogTells, LogTold
    <3>2. QED BY <2>4, <3>1
  <2>6. world'["source"].crew # "idle" => world["source"].crew # "idle" /\ world'["source"].read = "R0"
    BY <1>1, <1>3, <2>1, <2>2
  <2>7. QED BY <2>3, <2>4, <2>5, <2>6 DEF ProcessTells
<1>7. ASSUME Integrated!TryDisableByCrew \/ Integrated!WriteExactQ \/ Integrated!LogQ PROVE ProcessTells
  <2>1. PICK c : /\ world' = [world EXCEPT !["source"] = [world["source"] EXCEPT !.crew = c]]
                 /\ world["source"].life = "up" /\ world["source"].crew # "logged"
                 /\ (world["source"].crew = "idle" => world["source"].read = "R0")
                 /\ \/ /\ world["source"].crew = "idle" /\ disk' = [disk EXCEPT !["source_output"] = Integrated!PartOfQ]
                    \/ /\ world["source"].crew # "idle"
                       /\ disk' = [disk EXCEPT !["source_output"] = IF @ = Integrated!PartOfQ THEN Integrated!Q ELSE @]
                    \/ /\ world["source"].crew # "idle" /\ c = "logged"
                       /\ disk' = [disk EXCEPT !["source_log"] = Integrated!LogOf("R0", TRUE)]
    <3>1. CASE Integrated!TryDisableByCrew
      <4>1. /\ world' = [world EXCEPT !["source"] = [world["source"] EXCEPT !.crew = "writing"]]
            /\ world["source"].life = "up" /\ world["source"].crew = "idle" /\ world["source"].read = "R0"
            /\ disk' = [disk EXCEPT !["source_output"] = Integrated!PartOfQ]
        BY <3>1, Zenon DEF Integrated!TryDisableByCrew, Integrated!Becomes
      <4>2. QED BY <4>1
    <3>2. CASE Integrated!WriteExactQ
      <4>1. /\ world' = [world EXCEPT !["source"] = [world["source"] EXCEPT !.crew = "written"]]
            /\ world["source"].life = "up" /\ world["source"].crew = "writing"
            /\ disk' = [disk EXCEPT !["source_output"] = IF @ = Integrated!PartOfQ THEN Integrated!Q ELSE @]
        BY <3>2, Zenon DEF Integrated!WriteExactQ, Integrated!Becomes
      <4>2. QED BY <4>1
    <3>3. CASE Integrated!LogQ
      <4>1. /\ world' = [world EXCEPT !["source"] = [world["source"] EXCEPT !.crew = "logged"]]
            /\ world["source"].life = "up" /\ world["source"].crew = "written"
            /\ disk' = [disk EXCEPT !["source_log"] = Integrated!LogOf("R0", TRUE)]
        BY <3>3, Zenon DEF Integrated!LogQ, Integrated!Becomes
      <4>2. QED BY <4>1
    <3>4. QED BY <1>7, <3>1, <3>2, <3>3
  <2>2. /\ world'["return"] = world["return"] /\ world'["source"].read = world["source"].read
        /\ world'["source"].crew = c /\ world["source"].read = "R0" /\ ~Dead("source")
    BY <1>1, <1>3, <2>1 DEF Dead
  <2>3. Onwards  BY <1>1, <2>1, <2>2 DEF Onwards, DidNothing
  <2>4. /\ disk'["return_log"] = disk["return_log"]
        /\ disk'["source_log"] = disk["source_log"] \/ (c = "logged" /\ disk'["source_log"] = Integrated!LogOf("R0", TRUE))
    BY <1>1, <1>2, <2>1
  <2>5. ASSUME NEW t \in Integrated!Stages
        PROVE  disk'[Integrated!Log(t)] = disk[Integrated!Log(t)] \/ LogTells(t)'
    <3>1. CASE t = "source" /\ c = "logged" /\ disk'["source_log"] = Integrated!LogOf("R0", TRUE)
      <4>1. disk'[Integrated!Log(t)] = Integrated!LogOf("R0", TRUE)
        BY <1>2, <3>1
      <4>2. QED BY <1>4, <2>2, <3>1, <4>1 DEF LogTells, LogTold
    <3>2. QED BY <1>1, <1>2, <2>4, <3>1
  <2>6. \/ world["source"].crew # "idle" /\ disk'["source_output"] = disk["source_output"]
        \/ disk'["source_output"] \in {Integrated!PartOfQ, Integrated!Q}
    BY <1>1, <1>2, <2>1
  <2>7. QED BY <2>2, <2>3, <2>5, <2>6 DEF ProcessTells
<1>8. QED BY <1>5, <1>6, <1>7 DEF Integrated!IntegratedProcesses

LEMMA IntegratedTruthFacts ==
  ASSUME IntegratedInv, IntegratedTruth
  PROVE  /\ IsJob(job) /\ Worded(job) /\ ExportTruth /\ CrewTruth
         /\ disk = [p \in Integrated!Paths |-> disk[p]]
         /\ verdict = "accepted" => Kinds(job) \cap Exporting = {}
  BY DEF IntegratedInv, IntegratedTruth, ExportTruth

\* What is accepted goes on being true.
LEMMA AcceptedGoesOn ==
  ASSUME IntegratedTruth, Onwards, scene' = scene, verdict' = verdict, verdict' = "accepted",
         disk'["export"] = disk["export"]
  PROVE  /\ disk'["export"][1] = "summary" /\ Integrated!IntegratedTrue'
         /\ scene' = "control" => DidNothing'
<1>1. /\ disk["export"][1] = "summary" /\ Integrated!IntegratedTrue /\ (scene = "control" => DidNothing)
  BY DEF IntegratedTruth
<1>2. Integrated!Exported' = Integrated!Exported /\ Integrated!Final' = Integrated!Final /\ Integrated!Final # "none"
  BY DEF Integrated!Exported, Integrated!Final
<1>3. /\ \A i \in DOMAIN Integrated!Exported : disk["export"][2][Integrated!Exported[i]] \notin {Integrated!Absent, Integrated!Torn}
      /\ scene = "primary" => world["source"].crew = "logged"
      /\ scene = "control" => world["source"].crew = "idle"
      /\ world["return"].read = Integrated!Final /\ world["source"].read = "R0"
  BY <1>1, Zenon DEF Integrated!IntegratedTrue
<1>4. /\ world'["return"].read = Integrated!Final /\ world'["source"].read = "R0"
      /\ scene = "primary" => world'["source"].crew = "logged"
      /\ scene = "control" => DidNothing' /\ world'["source"].crew = "idle"
  BY <1>1, <1>2, <1>3, IntegratedNames DEF Onwards, DidNothing
<1>5. Integrated!IntegratedTrue'
  BY <1>2, <1>3, <1>4, Zenon DEF Integrated!IntegratedTrue
<1>6. QED BY <1>1, <1>4, <1>5

\* What has been exported is so, and stays so.
LEMMA ExportGoesOn ==
  ASSUME ExportTruth, Onwards, disk'["export"] = disk["export"], disk'["export"] # Absent
  PROVE  \E f : Held(f)' /\ disk'["export"] \in {Copies(f), File("summary", f)}
<1>1. PICK f : Held(f) /\ disk["export"] \in {Copies(f), File("summary", f)}
  BY DEF ExportTruth
<1>2. Held(f)'  BY <1>1, HeldGoesOn
<1>3. QED BY <1>1, <1>2

LEMMA ProcessStaysTrue ==
  ASSUME IntegratedInv, IntegratedTruth, Integrated!IntegratedProcesses
  PROVE  IntegratedTruth'
<1>1. ProcessTells /\ UNCHANGED <<scene, job, verdict>>
      /\ \A p \in Integrated!Paths : p \notin Logs /\ p # "source_output" => disk'[p] = disk[p]
  BY ProcessesTell, ProcessSteps DEF IntegratedProcessStep
<1>2. job' = job /\ scene' = scene /\ verdict' = verdict  BY <1>1
<1>3. disk'["export"] = disk["export"] /\ disk'["termination"] = disk["termination"] /\ Onwards
  BY <1>1, IntegratedNames DEF Logs, ProcessTells
<1>4. ASSUME NEW p \in Integrated!Paths, disk'[p] # Absent PROVE Vouched(p, disk[p])'
  <2>1. CASE p \in Logs
    <3>1. Integrated!Log("source") = "source_log" /\ Integrated!Log("return") = "return_log"
      BY DEF Integrated!Log
    <3>2. disk'[p] = disk[p] \/ (p = "source_log" /\ LogTold("source", disk[p])') \/ (p = "return_log" /\ LogTold("return", disk[p])')
      BY <1>1, <2>1, <3>1, IntegratedNames DEF ProcessTells, LogTells, Logs
    <3>3. CASE disk'[p] = disk[p]
      <4>1. Vouched(p, disk[p])  BY <1>4, <3>3 DEF IntegratedTruth
      <4>2. QED BY <1>3, <3>3, <4>1, VouchedGoesOn
    <3>4. QED BY <1>4, <3>2, <3>3 DEF Vouched
  <2>2. CASE p = "source_output"  BY <1>4, <2>2 DEF Vouched
  <2>3. CASE p \notin Logs /\ p # "source_output"
    <3>1. disk'[p] = disk[p]  BY <1>1, <2>3
    <3>2. Vouched(p, disk[p])  BY <1>4, <3>1 DEF IntegratedTruth
    <3>3. QED BY <1>3, <3>1, <3>2, VouchedGoesOn
  <2>4. QED BY <2>1, <2>2, <2>3
<1>5. ExportTruth'
  <2>1. disk'["export"] # Absent => \E f : Held(f)' /\ disk'["export"] \in {Copies(f), File("summary", f)}
    BY <1>3, ExportGoesOn DEF IntegratedTruth
  <2>2. Members' = Members  BY <1>2 DEF Members, Integrated!Exported
  <2>3. ExportTruth  BY DEF IntegratedTruth
  <2>4. QED BY <1>2, <1>3, <2>1, <2>2, <2>3 DEF ExportTruth
<1>6. CrewTruth'
  <2>1. /\ Integrated!PartOfQ \notin {Integrated!Empty, Absent} /\ Integrated!Q \notin {Integrated!Empty, Absent}
    BY DEF Integrated!PartOfQ, Integrated!Q, Integrated!Empty, Integrated!File, Absent
  <2>2. CrewTruth  BY DEF IntegratedTruth
  <2>3. QED BY <1>1, <1>2, <1>3, <2>1, <2>2 DEF CrewTruth, ProcessTells
<1>7. Kinds(job') \cap On("output_audit") # {} => DidNothing'
  BY <1>2, <1>3 DEF IntegratedTruth, Onwards
<1>8. verdict' = "accepted" =>
        /\ disk'["export"][1] = "summary" /\ Integrated!IntegratedTrue'
        /\ scene' = "control" => DidNothing'
  BY <1>2, <1>3, AcceptedGoesOn
<1>9. Worded(job') /\ Kinds(job') \cap OnAny(Logs) = {}
  BY <1>2 DEF IntegratedTruth
<1>10. QED BY <1>4, <1>5, <1>6, <1>7, <1>8, <1>9 DEF IntegratedTruth

\* A command begins or ends; nothing else changes.
LEMMA CommandsBegin ==
  ASSUME IntegratedInv, IntegratedTruth, UNCHANGED <<scene, disk, world, verdict>>,
         Worded(job'), Kinds(job') \cap OnAny(Logs) = {},
         Kinds(job') \cap On("output_audit") # {} => DidNothing,
         ExportTruth',
         <<"make", "source_output">> \in Kinds(job') =>
           world["source"].crew = "idle" /\ Kinds(job') \cap Clearing = {},
         Kinds(job') \cap Clearing # {} => disk["termination"] # Absent
  PROVE  IntegratedTruth'
<1>1. scene' = scene /\ disk' = disk /\ world' = world /\ verdict' = verdict /\ Onwards
  BY WorldGoesOn
<1>2. \A p \in Integrated!Paths : disk'[p] # Absent => Vouched(p, disk[p])'
  BY <1>1, VouchedGoesOn DEF IntegratedTruth
<1>3. CrewTruth'  BY <1>1 DEF CrewTruth, IntegratedTruth
<1>4. verdict' = "accepted" =>
        /\ disk'["export"][1] = "summary" /\ Integrated!IntegratedTrue'
        /\ scene' = "control" => DidNothing'
  BY <1>1, AcceptedGoesOn
<1>5. DidNothing => DidNothing'  BY <1>1 DEF Onwards
<1>6. QED BY <1>2, <1>3, <1>4, <1>5 DEF IntegratedTruth

\* A job that has nothing to do with what is exported, nor with what the processes say.
Tame(s) ==
  /\ IsJob(s) /\ Worded(s)
  /\ \A e \in Items(s) : e.do \in FileSteps \ {"copy"} /\ e.path \notin Logs \cup {"export"}

LEMMA TameJoined == ASSUME NEW s, NEW t, Tame(s), Tame(t) PROVE Tame(s \o t) /\ Kinds(s \o t) = Kinds(s) \cup Kinds(t)
  BY Joined, JoinedItems, JoinedKinds, WordedJoined DEF Tame

LEMMA TameParts ==
  ASSUME NEW p, p \notin Logs \cup {"export"}, NEW c
  PROVE  /\ Tame(Write(p, c)) /\ Kinds(Write(p, c)) = {<<"put", p>>}
         /\ Tame(Make(p, c)) /\ Kinds(Make(p, c)) = {<<"make", p>>, <<"put", p>>}
         /\ Tame(Remove(p)) /\ Kinds(Remove(p)) = {<<"empty", p>>, <<"drop", p>>}
<1>1. Tame(Write(p, c))
  <2>1. \A e \in Items(Write(p, c)) : e.do = "put" /\ e.path = p
    BY WriteParts DEF Step
  <2>2. QED BY <2>1, WriteParts, WordedParts DEF Tame, FileSteps
<1>2. Tame(Make(p, c))
  <2>1. \A e \in Items(Make(p, c)) : e.do \in {"make", "put"} /\ e.path = p
    BY MakeParts DEF Step
  <2>2. QED BY <2>1, MakeParts, WordedParts DEF Tame, FileSteps
<1>3. Tame(Remove(p))
  <2>1. Items(Remove(p)) = {Step("empty", p, Torn), Step("drop", p, Absent)}
    BY RemoveParts, Zenon
  <2>2. \A e \in Items(Remove(p)) : e.do \in {"empty", "drop"} /\ e.path = p
    BY <2>1 DEF Step
  <2>3. QED BY <2>2, RemoveParts, WordedParts DEF Tame, FileSteps
<1>4. QED BY <1>1, <1>2, <1>3, WriteParts, MakeParts, RemoveParts

LEMMA TameNothing == Tame(<<>>) /\ Kinds(<<>>) = {}
  BY EmptyJob, WordedParts DEF Tame, Items

LEMMA TameBegins ==
  ASSUME IntegratedInv, IntegratedTruth, UNCHANGED <<scene, disk, world, verdict>>, Tame(job'),
         job = <<>> \/ job' = <<>>,
         Kinds(job') \cap On("output_audit") # {} => DidNothing,
         <<"make", "source_output">> \in Kinds(job') =>
           world["source"].crew = "idle" /\ Kinds(job') \cap Clearing = {},
         Kinds(job') \cap Clearing # {} => disk["termination"] # Absent
  PROVE  IntegratedTruth'
<1>1. scene' = scene /\ disk' = disk /\ world' = world  OBVIOUS
<1>2. /\ Worded(job') /\ IsJob(job')
      /\ \A e \in Items(job') : e.do \in FileSteps \ {"copy"} /\ e.path \notin Logs \cup {"export"}
  BY DEF Tame
<1>3. \A k \in Kinds(job') : k[1] \in FileSteps \ {"copy"} /\ k[2] \notin Logs \cup {"export"}
  BY <1>2, KindsOfItems DEF Kind
<1>4. Kinds(job') \cap OnAny(Logs) = {} /\ Kinds(job') \cap Exporting = {} /\ <<"summarize", "export">> \notin Kinds(job')
      /\ Kinds(job') \cap To("copy", "export") = {} /\ Kinds(job') \cap To("summarize", "export") = {}
  BY <1>3 DEF OnAny, Exporting, FileSteps, To
<1>5. ExportTruth  BY DEF IntegratedTruth
<1>6. disk'["export"][1] = "summary" => Members' \subseteq DOMAIN disk'["export"][2]
  <2>1. Members' = Members  BY <1>1 DEF Members, Integrated!Exported
  <2>2. QED BY <1>1, <1>5, <2>1 DEF ExportTruth
<1>7. disk'["export"] # Absent => \E f : Held(f)' /\ disk'["export"] \in {Copies(f), File("summary", f)}
  BY <1>1, <1>5, WorldGoesOn, ExportGoesOn
<1>8. NoPair(job', To("copy", "export"), To("put", "export")) /\ NoPair(job', To("summarize", "export"), Exporting)
  BY <1>4, NoPairNone
<1>9. \A e \in Items(job') : e.do \notin {"copy", "summarize"} /\ e.path # "export"
  BY <1>2 DEF FileSteps
<1>10. ExportTruth'  BY <1>4, <1>6, <1>7, <1>8, <1>9 DEF ExportTruth
<1>11. QED BY <1>2, <1>4, <1>10, CommandsBegin

LEMMA IntegratedEnds ==
  ASSUME IntegratedInv, IntegratedTruth, UNCHANGED <<scene, disk, world, verdict>>, job' = <<>>
  PROVE  IntegratedTruth'
  BY TameNothing, TameBegins

\* The commands that begin, each with what it still has to write.
LEMMA IntegratedPrepares == ASSUME IntegratedInv, IntegratedTruth, Integrated!Prepare PROVE IntegratedTruth'
<1> DEFINE m == Make("source_input", Integrated!Pair("R0"))
           o == <<Step("make", "source_output", Integrated!Empty)>>
           w == Write("prepared", Integrated!File("audit", "R0"))
<1>1. UNCHANGED <<scene, disk, world, verdict>> /\ job' = (m \o o) \o w /\ job = <<>>
      /\ \A p \in Integrated!Paths \ {Integrated!Log(s) : s \in Integrated!Stages} : disk[p] = Absent
  BY Zenon DEF Integrated!Prepare, Integrated!Starts, Integrated!Make, Make, Integrated!Put, Put, Integrated!Step, Step,
     Integrated!Write, Write, Integrated!Torn, Torn, Integrated!Absent, Absent
<1>2. world["source"].crew = "idle"
  <2>1. \A s \in Integrated!Stages : Integrated!Log(s) \in {"source_log", "return_log"}
    BY IntegratedNames DEF Logs
  <2>2. disk["source_output"] = Absent /\ disk["termination"] = Absent
    BY <1>1, <2>1, IntegratedNames
  <2>3. QED BY <2>2 DEF IntegratedTruth, CrewTruth
<1>3. Tame(m) /\ Kinds(m) = {<<"make", "source_input">>, <<"put", "source_input">>}
      /\ Tame(w) /\ Kinds(w) = {<<"put", "prepared">>}
  BY TameParts DEF Logs
<1>4. Tame(o) /\ Kinds(o) = {<<"make", "source_output">>}
  <2> DEFINE e == Step("make", "source_output", Integrated!Empty)
  <2>1. e.do = "make" /\ e.path = "source_output" /\ DOMAIN e = Words
    BY StepIsWorded DEF Step
  <2>2. IsJob(<<e>>) /\ Items(<<e>>) = {e} /\ Kinds(<<e>>) = {<<e.do, e.path>>}
    BY OneStep DEF Items, Kind
  <2> HIDE DEF e
  <2>3. Tame(<<e>>) /\ Kinds(<<e>>) = {<<"make", "source_output">>}
    BY <2>1, <2>2 DEF Tame, Worded, FileSteps, Logs
  <2>4. QED BY <2>3 DEF e
<1> HIDE DEF m, o, w
<1>5. Tame(m \o o) /\ Kinds(m \o o) = Kinds(m) \cup Kinds(o)
  BY <1>3, <1>4, TameJoined
<1>6. Tame(job') /\ Kinds(job') = Kinds(m) \cup Kinds(o) \cup Kinds(w)
  BY <1>1, <1>3, <1>5, TameJoined
<1>7. Kinds(job') \cap On("output_audit") = {} /\ Kinds(job') \cap Clearing = {}
  BY <1>3, <1>4, <1>6 DEF On, Clearing
<1>8. QED BY <1>1, <1>2, <1>6, <1>7, TameBegins

LEMMA IntegratedReceives ==
  ASSUME IntegratedInv, IntegratedTruth, (\E s \in Integrated!Stages : Integrated!CaptureReceipt(s)) \/ Integrated!RecordTermination
  PROVE  IntegratedTruth'
<1>1. PICK p, c : UNCHANGED <<scene, disk, world, verdict>> /\ job' = Write(p, c) /\ job = <<>>
                  /\ p \in {"source_receipt", "return_receipt", "termination"}
  <2>1. ASSUME NEW s \in Integrated!Stages, Integrated!CaptureReceipt(s)
        PROVE  UNCHANGED <<scene, disk, world, verdict>> /\ job = <<>>
               /\ job' = Write(Integrated!Receipt(s), Integrated!File("receipt", Integrated!Record(s)))
    BY <2>1, Zenon DEF Integrated!CaptureReceipt, Integrated!Starts, Integrated!Put, Put, Integrated!Step, Step,
       Integrated!Write, Write, Integrated!Torn, Torn
  <2>2. CASE Integrated!RecordTermination
    <3>1. UNCHANGED <<scene, disk, world, verdict>> /\ job = <<>>
          /\ job' = Write("termination", Integrated!File("exited", "source"))
      BY <2>2, Zenon DEF Integrated!RecordTermination, Integrated!Starts, Integrated!Put, Put, Integrated!Step, Step,
         Integrated!Write, Write, Integrated!Torn, Torn
    <3>2. QED BY <3>1
  <2>3. QED BY <2>1, <2>2, IntegratedNames
<1>2. p \notin Logs \cup {"export"} /\ p \notin {"output_audit", "source_output"}
  BY <1>1 DEF Logs
<1>3. Tame(job') /\ Kinds(job') = {<<"put", p>>}  BY <1>1, <1>2, TameParts
<1>4. /\ Kinds(job') \cap On("output_audit") = {} /\ Kinds(job') \cap Clearing = {}
      /\ <<"make", "source_output">> \notin Kinds(job')
  BY <1>2, <1>3 DEF On, Clearing
<1>5. QED BY <1>1, <1>3, <1>4, TameBegins

LEMMA IntegratedAccepts == ASSUME IntegratedInv, IntegratedTruth, Integrated!AcceptQ PROVE IntegratedTruth'
<1> DEFINE q == Write("captured_Q", Integrated!Q)
           r == Write("Rinput", Integrated!File("record", "Rinput"))
           m == Write("input_committed", Integrated!File("commit", "Rinput"))
<1>1. UNCHANGED <<scene, disk, world, verdict>> /\ job' = (q \o r) \o m /\ job = <<>>
  BY Zenon DEF Integrated!AcceptQ, Integrated!Starts, Integrated!Put, Put, Integrated!Step, Step,
     Integrated!Write, Write, Integrated!Torn, Torn
<1>2. /\ Tame(q) /\ Kinds(q) = {<<"put", "captured_Q">>} /\ Tame(r) /\ Kinds(r) = {<<"put", "Rinput">>}
      /\ Tame(m) /\ Kinds(m) = {<<"put", "input_committed">>}
  BY TameParts DEF Logs
<1> HIDE DEF q, r, m
<1>3. Tame(q \o r) /\ Kinds(q \o r) = Kinds(q) \cup Kinds(r)
  BY <1>2, TameJoined
<1>4. Tame(job') /\ Kinds(job') = Kinds(q) \cup Kinds(r) \cup Kinds(m)
  BY <1>1, <1>2, <1>3, TameJoined
<1>5. /\ Kinds(job') \cap On("output_audit") = {} /\ Kinds(job') \cap Clearing = {}
      /\ <<"make", "source_output">> \notin Kinds(job')
  BY <1>2, <1>4 DEF On, Clearing
<1>6. QED BY <1>1, <1>4, <1>5, TameBegins

LEMMA UnloadIsTame ==
  LET u == Integrated!Unload IN Tame(u) /\ <<"make", "source_output">> \notin Kinds(u) /\ Kinds(u) \cap On("output_audit") = {}
<1> DEFINE a == Remove("source_input")
           b == Remove("source_output")
           m == Make("return_input", Integrated!Pair(Integrated!Final))
           w == Write("return_audit", Integrated!File("audit", Integrated!Final))
           u == Integrated!Unload
<1>1. u = ((a \o b) \o m) \o w
  BY Zenon DEF Integrated!Unload, Integrated!Remove, Remove, Integrated!Make, Make, Integrated!Put, Put, Integrated!Step, Step,
     Integrated!Write, Write, Integrated!Torn, Torn, Integrated!Absent, Absent
<1>2. Tame(a) /\ Tame(b) /\ Tame(m) /\ Tame(w)  BY TameParts DEF Logs
<1> HIDE DEF a, b, m, w
<1>3. Tame(u)  BY <1>1, <1>2, TameJoined
<1>4. <<"make", "source_output">> \notin Kinds(u) /\ Kinds(u) \cap On("output_audit") = {}
  BY UnloadParts DEF On, Destroying
<1>5. QED BY <1>3, <1>4

\* The control is found to have done nothing: what is still empty was never written to.
LEMMA IntegratedResolves ==
  ASSUME IntegratedInv, IntegratedTruth, Integrated!ResolveAfterUnload \/ Integrated!ResolveControlAfterUnload
  PROVE  IntegratedTruth'
<1> DEFINE w == Write("final", Integrated!File("record", Integrated!Final))
           o == Write("output_audit", Integrated!File("audit", "empty"))
           u == Integrated!Unload
<1>1. /\ UNCHANGED <<scene, disk, world, verdict>>
      /\ disk["termination"] # Absent /\ job = <<>>
      /\ \/ job' = w \o u
         \/ disk["source_output"] = Integrated!Empty /\ (job' = (o \o w) \o u \/ job' = (o \o w) \o <<>>)
  <2>1. CASE Integrated!ResolveAfterUnload
    BY <2>1, Zenon DEF Integrated!ResolveAfterUnload, Integrated!Starts, Integrated!Put, Put, Integrated!Step, Step,
       Integrated!Write, Write, Integrated!Torn, Torn, Integrated!Absent, Absent
  <2>2. CASE Integrated!ResolveControlAfterUnload
    BY <2>2, Zenon DEF Integrated!ResolveControlAfterUnload, Integrated!Starts, Integrated!Put, Put, Integrated!Step, Step,
       Integrated!Write, Write, Integrated!Torn, Torn, Integrated!Absent, Absent
  <2>3. QED BY <2>1, <2>2
<1>2. /\ Tame(w) /\ Kinds(w) = {<<"put", "final">>} /\ Tame(o) /\ Kinds(o) = {<<"put", "output_audit">>}
  BY TameParts DEF Logs
<1>3. Tame(u) /\ <<"make", "source_output">> \notin Kinds(u) /\ Kinds(u) \cap On("output_audit") = {}
  BY UnloadIsTame
<1> HIDE DEF w, o, u
<1>4. Tame(o \o w) /\ Kinds(o \o w) = Kinds(o) \cup Kinds(w)
  BY <1>2, TameJoined
<1>5. /\ Tame(w \o u) /\ Kinds(w \o u) = Kinds(w) \cup Kinds(u)
      /\ Tame((o \o w) \o u) /\ Kinds((o \o w) \o u) = Kinds(o) \cup Kinds(w) \cup Kinds(u)
      /\ Tame((o \o w) \o <<>>) /\ Kinds((o \o w) \o <<>>) = Kinds(o) \cup Kinds(w)
  BY <1>2, <1>3, <1>4, TameJoined, TameNothing
<1>6. Tame(job') /\ <<"make", "source_output">> \notin Kinds(job')
  BY <1>1, <1>2, <1>3, <1>5
<1>7. Kinds(job') \cap On("output_audit") # {} => disk["source_output"] = Integrated!Empty
  <2>1. Kinds(w \o u) \cap On("output_audit") = {}  BY <1>2, <1>3, <1>5 DEF On
  <2>2. QED BY <1>1, <2>1
<1>8. Dead("source") /\ (disk["source_output"] = Integrated!Empty => DidNothing)
  BY <1>1 DEF IntegratedInv, IntegratedSuccessionInv, IntegratedTruth, CrewTruth, DidNothing
<1>9. QED BY <1>1, <1>6, <1>7, <1>8, TameBegins

\* What is exported.
LEMMA MembersAre ==
  /\ IsJob(Integrated!Exported) /\ Members \subseteq Integrated!Paths
  /\ {"source_log", "return_log"} \subseteq Members
  /\ scene = "control" => "output_audit" \in Members
<1> DEFINE r == <<"source_receipt", "return_receipt">>
           p == <<"captured_Q", "Rinput", "final", "prepared", "input_committed">>
           c == <<"return_input", "prepared", "output_audit">>
           z == <<"termination", "return_audit", "source_log", "return_log">>
           m == IF scene = "primary" THEN p ELSE c
<1>1. /\ Items(r) = {"source_receipt", "return_receipt"} /\ Items(c) = {"return_input", "prepared", "output_audit"}
      /\ Items(z) = {"termination", "return_audit", "source_log", "return_log"}
      /\ Items(p) = {"captured_Q", "Rinput", "final", "prepared", "input_committed"}
  <2>1. Items(r) = {"source_receipt", "return_receipt"}  BY DEF Items
  <2>2. Items(c) = {"return_input", "prepared", "output_audit"}  BY DEF Items
  <2>3. Items(z) = {"termination", "return_audit", "source_log", "return_log"}
    BY DEF Items
  <2>4. Items(p) = {"captured_Q", "Rinput", "final", "prepared", "input_committed"}
    BY DEF Items
  <2>5. QED BY <2>1, <2>2, <2>3, <2>4
<1>2. IsJob(r) /\ IsJob(p) /\ IsJob(c) /\ IsJob(z)
  <2> DEFINE S == {"source_receipt", "return_receipt", "captured_Q", "Rinput", "final", "prepared", "input_committed",
                   "return_input", "output_audit", "termination", "return_audit", "source_log", "return_log"}
  <2>1. r \in Seq(S) /\ p \in Seq(S) /\ c \in Seq(S) /\ z \in Seq(S)
    BY Tuples
  <2>2. QED BY <2>1, SeqIsJob
<1>3. Integrated!Exported = (r \o m) \o z  BY Zenon DEF Integrated!Exported
<1>4. Members = Items(Integrated!Exported)  BY DEF Members, Items
<1> HIDE DEF r, p, c, z
<1>5. IsJob(m) /\ Items(m) = IF scene = "primary" THEN Items(p) ELSE Items(c)
  BY <1>2
<1> HIDE DEF m
<1>6. IsJob(r \o m) /\ Items(r \o m) = Items(r) \cup Items(m)
  BY <1>2, <1>5, Joined, JoinedItems
<1>7. IsJob(Integrated!Exported) /\ Members = Items(r) \cup Items(m) \cup Items(z)
  BY <1>2, <1>3, <1>4, <1>6, Joined, JoinedItems
<1>8. Items(r) \cup Items(p) \cup Items(c) \cup Items(z) \subseteq Integrated!Paths
  <2>1. {"source_receipt", "return_receipt"} \subseteq Integrated!Paths
    <3>1. Integrated!Receipt("source") = "source_receipt" /\ Integrated!Receipt("return") = "return_receipt"
      BY DEF Integrated!Receipt
    <3>2. "source_receipt" \in {Integrated!Receipt(s) : s \in Integrated!Stages}
          /\ "return_receipt" \in {Integrated!Receipt(s) : s \in Integrated!Stages}
      BY <3>1, IntegratedNames
    <3>3. QED BY <3>2 DEF Integrated!Paths
  <2>2. {"captured_Q", "Rinput", "final", "prepared", "input_committed", "termination", "output_audit", "return_audit"}
          \subseteq Integrated!Paths
    BY DEF Integrated!Paths, Integrated!Evidence, Integrated!State
  <2>3. QED BY <1>1, <2>1, <2>2, IntegratedNames
<1>9. QED BY <1>1, <1>5, <1>7, <1>8

LEMMA IntegratedExports == ASSUME IntegratedInv, IntegratedTruth, Integrated!ExportWitness PROVE IntegratedTruth'
<1> DEFINE M == Integrated!Exported
           e == Step("put", "export", Copies(<<>>))
           z == Step("summarize", "export", Torn)
           c == [i \in DOMAIN M |-> Exports(M[i])]
<1>1. UNCHANGED <<scene, disk, world, verdict>> /\ job' = (<<e>> \o c) \o <<z>> /\ disk["export"][1] # "summary"
  BY Zenon DEF Integrated!ExportWitness, Integrated!Starts, Integrated!Put, Integrated!Step, Step, Integrated!Torn, Torn,
     Integrated!Copies, Copies, Integrated!File, File, Integrated!Copy, Exports
<1>2. IsJob(c) /\ Items(c) = {Exports(p) : p \in Members}
  <2>1. M \in Seq({M[i] : i \in DOMAIN M})  BY MembersAre DEF IsJob
  <2>2. c \in Seq({c[i] : i \in DOMAIN c})  BY <2>1
  <2>3. DOMAIN c = DOMAIN M /\ \A i \in DOMAIN M : c[i] = Exports(M[i])
    OBVIOUS
  <2> HIDE DEF c
  <2>4. IsJob(c)  BY <2>2 DEF IsJob
  <2>5. Items(c) = {Exports(p) : p \in Members}  BY <2>3 DEF Items, Members
  <2>6. QED BY <2>4, <2>5
<1>3. \A p \in Members : /\ Exports(p).do = "copy" /\ Exports(p).path = "export" /\ Exports(p).content = p
                         /\ Kind(Exports(p)) = <<"copy", "export">> /\ DOMAIN Exports(p) = Words
  BY StepIsWorded DEF Exports, Step, Kind
<1>4. /\ e.do = "put" /\ e.path = "export" /\ e.content = Copies(<<>>) /\ Kind(e) = <<"put", "export">> /\ DOMAIN e = Words
      /\ z.do = "summarize" /\ z.path = "export" /\ Kind(z) = <<"summarize", "export">> /\ DOMAIN z = Words
  BY StepIsWorded DEF Step, Kind
<1> HIDE DEF c, e, z
<1>5. /\ IsJob(<<e>>) /\ Items(<<e>>) = {e} /\ Kinds(<<e>>) = {<<"put", "export">>} /\ \A A, B : NoPair(<<e>>, A, B)
      /\ IsJob(<<z>>) /\ Items(<<z>>) = {z} /\ Kinds(<<z>>) = {<<"summarize", "export">>} /\ \A A, B : NoPair(<<z>>, A, B)
  BY <1>4, OneStep DEF Items
<1>6. Kinds(c) \subseteq {<<"copy", "export">>}  BY <1>2, <1>3, KindsOfItems
<1> DEFINE a == <<e>>
           b == <<z>>
<1> HIDE DEF a, b
<1>6a. /\ IsJob(a) /\ Items(a) = {e} /\ Kinds(a) = {<<"put", "export">>}
       /\ IsJob(b) /\ Items(b) = {z} /\ Kinds(b) = {<<"summarize", "export">>} /\ job' = (a \o c) \o b
  BY <1>1, <1>5, Zenon DEF a, b
<1>6b. IsJob(a \o c) /\ Items(a \o c) = {e} \cup Items(c) /\ Kinds(a \o c) = {<<"put", "export">>} \cup Kinds(c)
  BY <1>2, <1>6a, Joined, JoinedItems, JoinedKinds
<1>7. IsJob(<<e>> \o c) /\ Items(<<e>> \o c) = {e} \cup Items(c) /\ Kinds(<<e>> \o c) = {<<"put", "export">>} \cup Kinds(c)
  BY <1>6b, Zenon DEF a
<1>8. /\ IsJob(job') /\ Items(job') = {e, z} \cup Items(c)
      /\ Kinds(job') = {<<"put", "export">>, <<"summarize", "export">>} \cup Kinds(c)
  BY <1>6a, <1>6b, Joined, JoinedItems, JoinedKinds
<1>9. NoPair(job', To("copy", "export"), To("put", "export"))
  <2>1. /\ Kinds(<<e>>) \cap To("copy", "export") = {} /\ Kinds(c) \cap To("put", "export") = {}
        /\ Kinds(<<z>>) \cap To("put", "export") = {}
    BY <1>5, <1>6 DEF To
  <2>2. NoPair(<<e>> \o c, To("copy", "export"), To("put", "export"))
    BY <1>2, <1>5, <2>1, NoPairNone, JoinedNoPair
  <2>3. QED BY <1>1, <1>5, <1>7, <2>1, <2>2, JoinedNoPair
<1>10. NoPair(job', To("summarize", "export"), Exporting)
  <2>1. Kinds(<<e>> \o c) \cap To("summarize", "export") = {}
    BY <1>6, <1>7 DEF To
  <2>2. QED BY <1>1, <1>5, <1>7, <2>1, NoPairNone, JoinedNoPair
<1>11. Worded(job') /\ \A x \in Items(job') :
         /\ x.path = "export" /\ x.do \in {"put", "copy", "summarize"}
         /\ x.do = "put" => x.content = Copies(<<>>)
         /\ x.do = "copy" => x.content \in Integrated!Paths
  BY <1>2, <1>3, <1>4, <1>8, MembersAre DEF Worded
<1>12. scene' = scene /\ disk' = disk /\ world' = world /\ Members' = Members
  BY <1>1 DEF Members, Integrated!Exported
<1>13. disk'["export"] # Absent => \E f : Held(f)' /\ disk'["export"] \in {Copies(f), File("summary", f)}
  BY <1>12, WorldGoesOn, ExportGoesOn DEF IntegratedTruth
<1>14. ExportTruth'
  <2>1. <<"put", "export">> \in Kinds(job') /\ \A p \in Members : Exports(p) \in Items(job')
    BY <1>2, <1>8
  <2>2. disk'["export"][1] # "summary"  BY <1>1, <1>12
  <2>3. QED BY <1>9, <1>10, <1>11, <1>12, <1>13, <2>1, <2>2 DEF ExportTruth
<1>15. /\ Kinds(job') \cap OnAny(Logs) = {} /\ Kinds(job') \cap On("output_audit") = {} /\ Kinds(job') \cap Clearing = {}
       /\ <<"make", "source_output">> \notin Kinds(job')
  BY <1>6, <1>8 DEF OnAny, On, Clearing, Logs
<1>16. QED BY <1>1, <1>11, <1>14, <1>15, CommandsBegin

\* What is copied is so, because what is there is.
LEMMA CopiesHold ==
  ASSUME IntegratedTruth, NEW f, Held(f), NEW q \in Integrated!Paths, disk[q] # Absent
  PROVE  Held([p \in DOMAIN f \cup {q} |-> IF p = q THEN disk[p] ELSE f[p]])
<1> DEFINE g == [p \in DOMAIN f \cup {q} |-> IF p = q THEN disk[p] ELSE f[p]]
<1>1. Vouched(q, disk[q])  BY DEF IntegratedTruth
<1>2. DOMAIN g = DOMAIN f \cup {q} /\ g[q] = disk[q] /\ \A p \in DOMAIN g : p # q => p \in DOMAIN f /\ g[p] = f[p]
  OBVIOUS
<1> HIDE DEF g
<1>3. \A p \in DOMAIN g : Vouched(p, g[p])  BY <1>1, <1>2 DEF Held
<1>4. QED BY <1>3 DEF Held, g

\* A step on the export puts an empty one, or a copy more in it.
ExportStep ==
  /\ disk'["export"][1] = "copies"
  /\ \E f : Held(f) /\ disk'["export"] = Copies(f)
  /\ Kind(Now) = <<"put", "export">> \/
       /\ <<"put", "export">> \notin Kinds(job) /\ disk["export"][1] = "copies"
       /\ DOMAIN disk'["export"][2] = DOMAIN disk["export"][2] \cup {Now.content}

LEMMA ExportSteps ==
  ASSUME IntegratedInv, IntegratedTruth, Perform(<<>>), Possible(Now), Now.path = "export"
  PROVE  ExportStep
<1>1. job # <<>> /\ Now.do \in FileSteps /\ job' = Tail(job)
      /\ disk' = [disk EXCEPT !["export"] = IF Now.do = "copy" THEN Copied(Now) ELSE Now.content]
  BY DEF Perform, Proceed
<1>2. /\ Items(job) = {Now} \cup Items(job') /\ Kinds(job) = {Kind(Now)} \cup Kinds(job')
      /\ \A A, B : NoPair(job, A, B) => (Kind(Now) \in A => Kinds(job') \cap B = {})
  BY <1>1, JobGoesOn DEF IntegratedInv
<1>3. /\ Now.do \in {"put", "copy"} /\ Kind(Now) = <<Now.do, "export">>
      /\ Now.do = "put" => Now.content = Copies(<<>>)
      /\ Now.do = "copy" => Now.content \in Integrated!Paths
  BY <1>1, <1>2 DEF IntegratedTruth, ExportTruth, FileSteps, Kind
<1>4. disk'["export"] = IF Now.do = "copy" THEN Copied(Now) ELSE Now.content
  BY <1>1, IntegratedNames DEF IntegratedInv
<1>5. CASE Now.do = "put"
  <2>1. disk'["export"] = Copies(<<>>) /\ Kind(Now) = <<"put", "export">>
    BY <1>3, <1>4, <1>5
  <2>2. Held(<<>>) /\ Copies(<<>>)[1] = "copies"  BY DEF Held, Copies, File
  <2>3. QED BY <2>1, <2>2 DEF ExportStep
<1>6. CASE Now.do = "copy"
  <2>1. <<"put", "export">> \notin Kinds(job)
    <3>1. NoPair(job, To("copy", "export"), To("put", "export")) /\ Kind(Now) \in To("copy", "export")
      BY <1>3, <1>6 DEF IntegratedTruth, ExportTruth, To
    <3>2. Kinds(job') \cap To("put", "export") = {}  BY <1>2, <3>1
    <3>3. QED BY <1>2, <1>3, <1>6, <3>2 DEF To
  <2>2. disk["export"][1] = "copies"
    <3>1. Kind(Now) \in Kinds(job) \cap Exporting
      BY <1>2, <1>3, <1>6 DEF Exporting
    <3>2. QED BY <2>1, <3>1 DEF IntegratedTruth, ExportTruth
  <2>3. PICK f : Held(f) /\ disk["export"] = Copies(f)
    <3>1. disk["export"] # Absent /\ \A f : File("summary", f)[1] # "copies"
      BY <2>2 DEF Absent, File
    <3>2. QED BY <2>2, <3>1 DEF IntegratedTruth, ExportTruth
  <2>4. disk["export"][2] = f  BY <2>3 DEF Copies, File
  <2> DEFINE g == [p \in DOMAIN f \cup {Now.content} |-> IF p = Now.content THEN disk[p] ELSE f[p]]
  <2>5. disk'["export"] = Copies(g)  BY <1>4, <1>6, <2>4 DEF Copied
  <2>6. disk[Now.content] # Absent  BY <1>6 DEF Possible
  <2>7. Held(g)  BY <1>3, <1>6, <2>3, <2>6, CopiesHold
  <2>8. DOMAIN g = DOMAIN f \cup {Now.content}  OBVIOUS
  <2> HIDE DEF g
  <2>9. disk'["export"][1] = "copies" /\ DOMAIN disk'["export"][2] = DOMAIN disk["export"][2] \cup {Now.content}
    BY <2>4, <2>5, <2>8 DEF Copies, File
  <2>10. QED BY <2>1, <2>2, <2>5, <2>7, <2>9 DEF ExportStep
<1>7. QED BY <1>3, <1>5, <1>6

\* The next step keeps what is said of the exports.
LEMMA ExportGoes ==
  ASSUME IntegratedInv, IntegratedTruth, Perform(<<>>), Possible(Now)
  PROVE  ExportTruth'
<1>1. /\ job # <<>> /\ job' = Tail(job) /\ scene' = scene /\ world' = world
      /\ \A p \in Integrated!Paths : p # Now.path => disk'[p] = disk[p]
  BY DEF Perform, Proceed, IntegratedInv
<1>2. /\ Items(job) = {Now} \cup Items(job') /\ Kinds(job) = {Kind(Now)} \cup Kinds(job')
      /\ \A A, B : NoPair(job, A, B) => NoPair(job', A, B) /\ (Kind(Now) \in A => Kinds(job') \cap B = {})
  BY <1>1, JobGoesOn DEF IntegratedInv
<1>3. Members' = Members /\ ExportTruth /\ Onwards
  BY <1>1, WorldGoesOn DEF Members, Integrated!Exported, IntegratedTruth
<1>4. /\ \A e \in Items(job') :
          /\ e.path = "export" => e.do \in {"put", "copy", "summarize"}
          /\ e.path = "export" /\ e.do = "put" => e.content = Copies(<<>>)
          /\ e.do = "copy" => e.path = "export" /\ e.content \in Integrated!Paths
          /\ e.do = "summarize" => e.path = "export"
      /\ NoPair(job', To("copy", "export"), To("put", "export"))
      /\ NoPair(job', To("summarize", "export"), Exporting)
  BY <1>2, <1>3 DEF ExportTruth
<1>5. CASE Now.path # "export"
  <2>1. disk'["export"] = disk["export"] /\ Kind(Now) \notin Exporting /\ \A p \in Members : Exports(p) # Now
    BY <1>1, <1>5, IntegratedNames DEF Kind, Exporting, Exports, Step
  <2>2. disk'["export"] # Absent => \E f : Held(f)' /\ disk'["export"] \in {Copies(f), File("summary", f)}
    BY <1>3, <2>1, ExportGoesOn
  <2>3. Kinds(job') \cap Exporting = Kinds(job) \cap Exporting /\ <<"put", "export">> \in Exporting
        /\ <<"summarize", "export">> \in Exporting
    BY <1>2, <2>1 DEF Exporting
  <2>4. /\ Kinds(job') \cap Exporting # {} => <<"put", "export">> \in Kinds(job') \/ disk'["export"][1] = "copies"
        /\ disk'["export"][1] = "summary" =>
             Kinds(job') \cap Exporting = {} /\ Members \subseteq DOMAIN disk'["export"][2]
    BY <1>3, <2>1, <2>3 DEF ExportTruth
  <2>5. <<"summarize", "export">> \in Kinds(job') =>
          \A p \in Members :
            \/ Exports(p) \in Items(job')
            \/ <<"put", "export">> \notin Kinds(job') /\ disk'["export"][1] = "copies" /\ p \in DOMAIN disk'["export"][2]
    BY <1>2, <1>3, <2>1, <2>3 DEF ExportTruth
  <2>6. QED BY <1>3, <1>4, <2>2, <2>4, <2>5 DEF ExportTruth
<1>6. CASE Now.path = "export"
  <2>1. ExportStep  BY <1>6, ExportSteps
  <2>2. PICK f : Held(f) /\ disk'["export"] = Copies(f) /\ disk'["export"][1] = "copies"
    BY <2>1 DEF ExportStep
  <2>3. Held(f)'  BY <1>3, <2>2, HeldGoesOn
  <2>4. \A p \in Members : Exports(p).do = "copy" /\ Exports(p).content = p
    BY DEF Exports, Step
  <2>5. <<"summarize", "export">> \in Kinds(job') =>
          \A p \in Members :
            \/ Exports(p) \in Items(job')
            \/ <<"put", "export">> \notin Kinds(job') /\ disk'["export"][1] = "copies" /\ p \in DOMAIN disk'["export"][2]
    <3>1. ASSUME <<"summarize", "export">> \in Kinds(job'), NEW p \in Members, Exports(p) \notin Items(job')
          PROVE  <<"put", "export">> \notin Kinds(job') /\ p \in DOMAIN disk'["export"][2]
      <4>1. \/ Exports(p) \in Items(job)
            \/ <<"put", "export">> \notin Kinds(job) /\ p \in DOMAIN disk["export"][2]
        BY <1>2, <1>3, <3>1 DEF ExportTruth
      <4>2. Kind(Now) = <<"put", "export">> => Exports(p) \in Items(job) /\ Exports(p) # Now
        BY <1>2, <2>4, <4>1 DEF Kind
      <4>3. <<"put", "export">> \notin Kinds(job)
            /\ DOMAIN disk'["export"][2] = DOMAIN disk["export"][2] \cup {Now.content}
        BY <1>2, <2>1, <3>1, <4>2 DEF ExportStep
      <4>4. p = Now.content \/ p \in DOMAIN disk["export"][2]
        BY <1>2, <2>4, <3>1, <4>1
      <4>5. QED BY <1>2, <4>3, <4>4
    <3>2. QED BY <2>2, <3>1
  <2>6. QED BY <1>3, <1>4, <2>2, <2>3, <2>5 DEF ExportTruth
<1>7. QED BY <1>5, <1>6

LEMMA CrewGoes ==
  ASSUME IntegratedInv, IntegratedTruth, Perform(<<>>), Possible(Now)
  PROVE  CrewTruth'
<1> DEFINE so == "source_output"
<1>1. /\ job # <<>> /\ job' = Tail(job) /\ world' = world /\ Now.do \in FileSteps
      /\ \A p \in Integrated!Paths : p # Now.path => disk'[p] = disk[p]
      /\ Now.path \in Integrated!Paths /\ Now.do # "copy" => disk'[Now.path] = Now.content
  BY DEF Perform, Proceed, IntegratedInv
<1>2. Items(job) = {Now} \cup Items(job') /\ Kinds(job) = {Kind(Now)} \cup Kinds(job') /\ Kind(Now) = <<Now.do, Now.path>>
  BY <1>1, JobGoesOn DEF IntegratedInv, Kind
<1>3. Shaped(Now) /\ so \in Integrated!Paths /\ "termination" \in Integrated!Paths
  BY <1>2, ShapedItems, IntegratedNames DEF IntegratedInv
<1>4. CrewTruth  BY DEF IntegratedTruth
<1>5. disk["termination"] # Absent => disk'["termination"] # Absent
  <2>1. CASE Now.path = "termination"
    <3>1. Kinds(job) \cap NotPut(Proofs \cup {"termination"}) = {}
      BY DEF IntegratedInv, IntegratedEvidenceInv
    <3>2. Now.do = "put"  BY <1>1, <1>2, <2>1, <3>1 DEF NotPut
    <3>3. QED BY <1>1, <1>3, <2>1, <3>2 DEF Shaped
  <2>2. CASE Now.path # "termination"  BY <1>1, <1>3, <2>2
  <2>3. QED BY <2>1, <2>2
<1>6. Now.path = so => Now.do \in {"make", "empty", "drop"}
  <2>1. Kinds(job) \cap ({<<"put", so>>} \cup To("copy", so)) = {}
    BY DEF IntegratedInv, IntegratedEvidenceInv
  <2>2. QED BY <1>1, <1>2, <2>1 DEF FileSteps, To
<1>7. Now.path = so /\ Now.do = "make" => disk[so] = Absent /\ <<"make", so>> \in Kinds(job)
  BY <1>2 DEF Possible
<1>8. Now.path = so /\ Now.do \in {"empty", "drop"} => Kinds(job) \cap Clearing # {}
  BY <1>2 DEF Clearing
<1>9. ASSUME world["source"].crew # "idle"
      PROVE  /\ disk'[so] # Integrated!Empty
             /\ disk'[so] = Absent => disk'["termination"] # Absent
             /\ <<"make", so>> \in Kinds(job') => disk'[so] # Absent
  <2>1. /\ disk[so] # Integrated!Empty /\ (disk[so] = Absent => disk["termination"] # Absent)
        /\ <<"make", so>> \in Kinds(job) => disk[so] # Absent
        /\ <<"make", so>> \in Kinds(job) => Kinds(job) \cap Clearing = {}
        /\ Kinds(job) \cap Clearing # {} => disk["termination"] # Absent
    BY <1>4, <1>9 DEF CrewTruth
  <2>2. CASE Now.path # so  BY <1>1, <1>2, <1>3, <1>5, <2>1, <2>2
  <2>3. CASE Now.path = so
    <3>1. Now.do \in {"empty", "drop"} /\ Kinds(job) \cap Clearing # {}
      BY <1>6, <1>7, <1>8, <2>1, <2>3
    <3>2. disk'[so] \in {Torn, Absent}  BY <1>1, <1>3, <2>3, <3>1 DEF Shaped
    <3>3. Integrated!Empty \notin {Torn, Absent}
      BY DEF Integrated!Empty, Integrated!File, Torn, Absent
    <3>4. <<"make", so>> \notin Kinds(job') /\ disk'["termination"] # Absent
      BY <1>2, <1>5, <2>1, <3>1
    <3>5. QED BY <3>2, <3>3, <3>4
  <2>4. QED BY <2>2, <2>3
<1>10. /\ <<"make", so>> \in Kinds(job') => Kinds(job') \cap Clearing = {}
       /\ Kinds(job') \cap Clearing # {} => disk'["termination"] # Absent
  BY <1>2, <1>4, <1>5 DEF CrewTruth
<1>11. QED BY <1>1, <1>4, <1>9, <1>10 DEF CrewTruth

LEMMA IntegratedPerformsTrue == ASSUME IntegratedInv, IntegratedTruth, Integrated!Perform(<<>>) PROVE IntegratedTruth'
<1>1. Perform(<<>>)  BY PerformSame
<1>2. CASE ~Possible(Now)
  <2>1. UNCHANGED <<scene, disk, world, verdict>> /\ job' = <<>>
    BY <1>1, <1>2 DEF Perform
  <2>2. QED BY <2>1, IntegratedEnds
<1>3. CASE Possible(Now)
  <2>1. /\ job # <<>> /\ job' = Tail(job) /\ world' = world /\ Now.do \in FileSteps /\ scene' = scene /\ verdict' = verdict
        /\ \A p \in Integrated!Paths : p # Now.path => disk'[p] = disk[p]
    BY <1>1, <1>3 DEF Perform, Proceed, IntegratedInv
  <2>2. /\ Items(job) = {Now} \cup Items(job') /\ Kinds(job) = {Kind(Now)} \cup Kinds(job') /\ Kind(Now) = <<Now.do, Now.path>>
    BY <2>1, JobGoesOn DEF IntegratedInv, Kind
  <2>3. Worded(job') /\ Kinds(job') \cap OnAny(Logs) = {} /\ (Kinds(job') \cap On("output_audit") # {} => DidNothing)
    BY <2>1, <2>2, WordedGoesOn DEF IntegratedTruth, IntegratedInv
  <2>4. ExportTruth' /\ CrewTruth'  BY <1>1, <1>3, ExportGoes, CrewGoes
  <2>5. Onwards /\ (DidNothing => DidNothing')
    BY <2>1, WorldGoesOn DEF Onwards
  <2>6. ASSUME NEW p \in Integrated!Paths, disk'[p] # Absent PROVE Vouched(p, disk[p])'
    <3>1. CASE p # Now.path
      <4>1. disk'[p] = disk[p] /\ Vouched(p, disk[p])
        BY <2>1, <2>6, <3>1 DEF IntegratedTruth
      <4>2. QED BY <2>5, <4>1, VouchedGoesOn
    <3>2. CASE p = Now.path
      <4>1. p \notin Logs  BY <2>1, <2>2, <3>2 DEF IntegratedTruth, OnAny
      <4>2. p = "output_audit" => DidNothing
        BY <2>1, <2>2, <3>2 DEF IntegratedTruth, On
      <4>3. QED BY <2>5, <2>6, <4>1, <4>2 DEF Vouched, Logs
    <3>3. QED BY <3>1, <3>2
  <2>7. verdict' = "accepted" =>
          /\ disk'["export"][1] = "summary" /\ Integrated!IntegratedTrue'
          /\ scene' = "control" => DidNothing'
    <3>1. ASSUME verdict' = "accepted" PROVE disk'["export"] = disk["export"]
      <4>1. Kinds(job) \cap Exporting = {}
        BY <2>1, <3>1, IntegratedTruthFacts
      <4>2. Now.path # "export"
        <5>1. Now.path = "export" => Now.do \in {"put", "copy"}
          BY <2>1, <2>2 DEF IntegratedTruth, ExportTruth, FileSteps
        <5>2. QED BY <2>2, <4>1, <5>1 DEF Exporting
      <4>3. QED BY <2>1, <4>2, IntegratedNames
    <3>2. QED BY <2>1, <2>5, <3>1, AcceptedGoesOn
  <2>8. QED BY <2>3, <2>4, <2>5, <2>6, <2>7 DEF IntegratedTruth
<1>4. QED BY <1>2, <1>3

LEMMA IntegratedSummarizes == ASSUME IntegratedInv, IntegratedTruth, Integrated!Summarize PROVE IntegratedTruth'
<1>1. /\ job # <<>> /\ Now.do = "summarize" /\ job' = Tail(job) /\ world' = world /\ scene' = scene /\ verdict' = verdict
      /\ disk' = [disk EXCEPT !["export"] = File("summary", disk["export"][2])]
  BY DEF Integrated!Summarize, Integrated!Does, Integrated!Now, Now, Integrated!Proceed, Integrated!File, File
<1>2. /\ Items(job) = {Now} \cup Items(job') /\ Kinds(job) = {Kind(Now)} \cup Kinds(job')
      /\ \A A, B : NoPair(job, A, B) => NoPair(job', A, B) /\ (Kind(Now) \in A => Kinds(job') \cap B = {})
  BY <1>1, JobGoesOn DEF IntegratedInv
<1>3. ExportTruth /\ CrewTruth /\ Onwards /\ Members' = Members
  BY <1>1, WorldGoesOn DEF IntegratedTruth, Members, Integrated!Exported
<1>4. Kind(Now) = <<"summarize", "export">>
  BY <1>1, <1>2, <1>3 DEF ExportTruth, Kind
<1>5. Kinds(job') \cap Exporting = {} /\ Kind(Now) \in Kinds(job) \cap Exporting
  BY <1>2, <1>3, <1>4 DEF ExportTruth, To, Exporting
<1>6. disk["export"][1] = "copies" /\ Members \subseteq DOMAIN disk["export"][2]
  <2>1. ASSUME NEW p \in Members PROVE disk["export"][1] = "copies" /\ p \in DOMAIN disk["export"][2]
    <3>1. Exports(p).do = "copy" /\ Kind(Exports(p)) \in Exporting
      BY DEF Exports, Step, Kind, Exporting
    <3>2. Exports(p) \notin Items(job')  BY <1>5, <3>1, KindsOfItems
    <3>3. Exports(p) \notin Items(job)  BY <1>1, <1>2, <3>1, <3>2
    <3>4. QED BY <1>3, <1>4, <1>5, <3>3 DEF ExportTruth
  <2>2. QED BY <2>1, MembersAre
<1>7. PICK f : Held(f) /\ disk["export"] = Copies(f)
  <2>1. disk["export"] # Absent /\ \A f : File("summary", f)[1] # "copies"
    BY <1>6 DEF Absent, File
  <2>2. QED BY <1>3, <1>6, <2>1 DEF ExportTruth
<1>8. disk'["export"] = File("summary", f) /\ Held(f)' /\ Members \subseteq DOMAIN f
  <2>1. disk["export"][2] = f  BY <1>7 DEF Copies, File
  <2>2. disk'["export"] = File("summary", disk["export"][2])
    BY <1>1, IntegratedNames DEF IntegratedInv
  <2>3. QED BY <1>3, <1>6, <1>7, <2>1, <2>2, HeldGoesOn
<1>9. /\ disk'["export"] = <<"summary", f>> /\ disk'["export"] # Absent
      /\ disk'["export"][1] = "summary" /\ disk'["export"][2] = f
  BY <1>8 DEF File, Absent
<1>10. /\ \A p \in Integrated!Paths : p # "export" => disk'[p] = disk[p]
       /\ disk'["source_output"] = disk["source_output"] /\ disk'["termination"] = disk["termination"]
  BY <1>1, IntegratedNames DEF IntegratedInv
<1>11. ExportTruth'
  <2>1. \E g : Held(g)' /\ disk'["export"] \in {Copies(g), File("summary", g)}
    BY <1>8
  <2>2. <<"summarize", "export">> \notin Kinds(job')  BY <1>5 DEF Exporting
  <2>3. Members' \subseteq DOMAIN disk'["export"][2]  BY <1>3, <1>8, <1>9
  <2>4. QED BY <1>2, <1>3, <1>5, <2>1, <2>2, <2>3 DEF ExportTruth
<1>12. CrewTruth'  BY <1>1, <1>2, <1>3, <1>10 DEF CrewTruth
<1>13. ASSUME NEW p \in Integrated!Paths, disk'[p] # Absent PROVE Vouched(p, disk[p])'
  <2>1. CASE p = "export"  BY <1>13, <2>1 DEF Vouched
  <2>2. CASE p # "export"
    <3>1. disk'[p] = disk[p] /\ Vouched(p, disk[p])
      BY <1>10, <1>13, <2>2 DEF IntegratedTruth
    <3>2. QED BY <1>3, <3>1, VouchedGoesOn
  <2>3. QED BY <2>1, <2>2
<1>14. Worded(job') /\ Kinds(job') \cap OnAny(Logs) = {} /\ (Kinds(job') \cap On("output_audit") # {} => DidNothing')
  BY <1>1, <1>2, <1>3, WordedGoesOn DEF IntegratedTruth, IntegratedInv, Onwards
<1>15. verdict' # "accepted"  BY <1>1, <1>5, IntegratedTruthFacts
<1>16. QED BY <1>11, <1>12, <1>13, <1>14, <1>15 DEF IntegratedTruth

\* What a log tells is what its process read.
LEMMA LogReads ==
  ASSUME NEW s \in Integrated!Stages, NEW c, LogTold(s, c), c[2].receipt # "none"
  PROVE  /\ world[s].read = c[2].receipt
         /\ c[2].q => s = "source" /\ world["source"].crew = "logged"
<1>1. \A r : Integrated!LogOf(r, FALSE)[2].receipt = r /\ ~Integrated!LogOf(r, FALSE)[2].q
  BY DEF Integrated!LogOf, Integrated!File
<1>2. Integrated!LogOf("R0", TRUE)[2].receipt = "R0"
  BY DEF Integrated!LogOf, Integrated!File
<1>3. CASE c \in {Integrated!LogOf("none", FALSE), Integrated!LogOf(world[s].read, FALSE)}
  BY <1>1, <1>3
<1>4. CASE /\ s = "source" /\ world["source"].crew = "logged" /\ world["source"].read = "R0"
           /\ c = Integrated!LogOf("R0", TRUE)
  BY <1>2, <1>4
<1>5. QED BY <1>3, <1>4 DEF LogTold

\* A genuine export is one of what happened.
LEMMA GenuineTells ==
  ASSUME IntegratedTruth, scene \in Integrated!Roots, disk["export"][1] = "summary", Integrated!Genuine(disk["export"][2])
  PROVE  Integrated!IntegratedTrue /\ (scene = "control" => DidNothing)
<1>1. PICK f : Held(f) /\ disk["export"] = File("summary", f)
  <2>1. disk["export"] # Absent /\ \A g : Copies(g)[1] # "summary"
    BY DEF Absent, Copies, File
  <2>2. QED BY <2>1 DEF IntegratedTruth, ExportTruth
<1>2. disk["export"][2] = f /\ Members \subseteq DOMAIN f
  BY <1>1 DEF File, IntegratedTruth, ExportTruth
<1>3. /\ \A p \in DOMAIN f : f[p] # Torn
      /\ \A s \in Integrated!Stages : f[Integrated!Log(s)][2].receipt = Integrated!Record(s)
      /\ f["source_log"][2].q = (scene = "primary")
  BY <1>2, Zenon DEF Integrated!Genuine, Integrated!Torn, Torn
<1>4. {"source_log", "return_log"} \subseteq DOMAIN f /\ (scene = "control" => "output_audit" \in DOMAIN f)
  BY <1>2, MembersAre
<1>5. /\ Integrated!Log("source") = "source_log" /\ Integrated!Log("return") = "return_log"
      /\ Integrated!Record("source") = "R0" /\ Integrated!Record("return") = Integrated!Final
  BY DEF Integrated!Log, Integrated!Record
<1>6. /\ LogTold("source", f["source_log"]) /\ LogTold("return", f["return_log"]) /\ (scene = "control" => DidNothing)
  BY <1>1, <1>4 DEF Held, Vouched
<1>7. f["source_log"][2].receipt = "R0" /\ f["return_log"][2].receipt = Integrated!Final /\ Integrated!Final # "none"
  BY <1>3, <1>5, IntegratedNames DEF Integrated!Final
<1>8. /\ world["source"].read = "R0" /\ world["return"].read = Integrated!Final
      /\ f["source_log"][2].q => world["source"].crew = "logged"
  BY <1>6, <1>7, LogReads, IntegratedNames
<1>9. scene = "primary" => f["source_log"][2].q  BY <1>3, Zenon
<1>10. scene = "control" => world["source"].crew = "idle"
  BY <1>6 DEF DidNothing
<1>11. \A i \in DOMAIN Integrated!Exported : f[Integrated!Exported[i]] \notin {Integrated!Absent, Integrated!Torn}
  <2>1. ASSUME NEW p \in Members PROVE f[p] \notin {Integrated!Absent, Integrated!Torn}
    BY <1>1, <1>2, <1>3 DEF Held, Vouched, Absent, Torn, Integrated!Absent, Integrated!Torn
  <2>2. QED BY <2>1 DEF Members
<1>12. Integrated!IntegratedTrue
  BY <1>2, <1>8, <1>9, <1>10, <1>11, Zenon DEF Integrated!IntegratedTrue
<1>13. QED BY <1>6, <1>12

LEMMA IntegratedVerifies ==
  ASSUME IntegratedInv, IntegratedTruth, scene \in Integrated!Roots, Integrated!VerifyPhysicalWitnesses
  PROVE  IntegratedTruth'
<1>1. /\ scene' = scene /\ disk' = disk /\ job' = job /\ world' = world /\ disk["export"][1] = "summary"
      /\ verdict' = "accepted" => Integrated!Genuine(disk["export"][2])
  BY DEF Integrated!VerifyPhysicalWitnesses
<1>2. Onwards /\ Members' = Members /\ ExportTruth /\ (DidNothing => DidNothing')
  BY <1>1, WorldGoesOn DEF IntegratedTruth, Members, Integrated!Exported, Onwards
<1>3. \A p \in Integrated!Paths : disk'[p] # Absent => Vouched(p, disk[p])'
  BY <1>1, <1>2, VouchedGoesOn DEF IntegratedTruth
<1>4. disk'["export"] # Absent => \E f : Held(f)' /\ disk'["export"] \in {Copies(f), File("summary", f)}
  BY <1>1, <1>2, ExportGoesOn
<1>5. ExportTruth'  BY <1>1, <1>2, <1>4 DEF ExportTruth
<1>6. CrewTruth'  BY <1>1 DEF CrewTruth, IntegratedTruth
<1>7. verdict' = "accepted" =>
        /\ disk'["export"][1] = "summary" /\ Integrated!IntegratedTrue'
        /\ scene' = "control" => DidNothing'
  <2>1. ASSUME verdict' = "accepted" PROVE Integrated!IntegratedTrue' /\ (scene' = "control" => DidNothing')
    <3>1. Integrated!IntegratedTrue /\ (scene = "control" => DidNothing)
      BY <1>1, <2>1, GenuineTells
    <3>2. Integrated!IntegratedTrue' <=> Integrated!IntegratedTrue
      BY <1>1, Zenon DEF Integrated!IntegratedTrue, Integrated!Exported, Integrated!Final
    <3>3. QED BY <1>1, <1>2, <3>1, <3>2
  <2>2. QED BY <1>1, <2>1
<1>8. QED BY <1>1, <1>2, <1>3, <1>5, <1>6, <1>7 DEF IntegratedTruth

LEMMA IntegratedStaysTrue ==
  ASSUME IntegratedInv, IntegratedTruth, scene \in Integrated!Roots, Integrated!IntegratedNext
  PROVE  IntegratedTruth'
  BY ProcessStaysTrue, IntegratedPrepares, IntegratedReceives, IntegratedAccepts, IntegratedResolves, IntegratedExports,
     IntegratedPerformsTrue, IntegratedSummarizes, IntegratedVerifies DEF Integrated!IntegratedNext, Integrated!IntegratedCommands

LEMMA IntegratedStartsTrue == Integrated!IntegratedInit => IntegratedTruth
<1> SUFFICES ASSUME Integrated!IntegratedInit PROVE IntegratedTruth  OBVIOUS
<1>1. /\ job = <<>> /\ verdict = "none" /\ \A p \in Integrated!Paths : disk[p] = Absent
      /\ world["source"].crew = "idle"
  BY IntegratedNames DEF Integrated!IntegratedInit, Integrated!Absent, Absent, Integrated!NewProcess
<1>2. Kinds(job) = {} /\ Items(job) = {} /\ Worded(job) /\ \A A, B : NoPair(job, A, B)
  BY <1>1, EmptyJob, WordedParts DEF Items
<1>3. disk["export"] = Absent /\ disk["export"][1] \notin {"summary", "copies"}
  BY <1>1, IntegratedNames DEF Absent
<1>4. ExportTruth  BY <1>2, <1>3 DEF ExportTruth
<1>5. CrewTruth  BY <1>1, <1>2 DEF CrewTruth
<1>6. QED BY <1>1, <1>2, <1>4, <1>5 DEF IntegratedTruth
LEMMA FollowsNext ==
  ASSUME NEW k \in 1..50, Follows(job, k, 51 - k)
  PROVE  /\ job # <<>> /\ Fits(Now, k) /\ Worded(job)
         /\ Follows(Tail(job), k + 1, 51 - (k + 1)) /\ (k = 50 => Tail(job) = <<>>)
<1>1. IsJob(job) /\ Len(job) = 51 - k /\ DOMAIN job = 1..(51 - k) /\ \A i \in 1..(51 - k) : Fits(job[i], k + i - 1)
  BY JobIsSeq DEF Follows
<1>2. job # <<>>
  <2>1. Len(<<>>) = 0  OBVIOUS
  <2>2. QED BY <1>1, <2>1
<1>3. /\ IsJob(Tail(job)) /\ Len(Tail(job)) = Len(job) - 1 /\ Now = job[1]
      /\ \A i \in DOMAIN Tail(job) : i + 1 \in DOMAIN job /\ Tail(job)[i] = job[i + 1]
  BY <1>1, <1>2, Onward DEF Now
<1>4. DOMAIN Tail(job) = 1..(50 - k) /\ Tail(job) = [i \in 1..(50 - k) |-> Tail(job)[i]]
  <2>1. Len(Tail(job)) = 50 - k  BY <1>1, <1>3
  <2>2. QED BY <1>3, <2>1, JobIsSeq
<1>5. Fits(Now, k)
  <2>1. 1 \in 1..(51 - k) /\ k + 1 - 1 = k  OBVIOUS
  <2>2. QED BY <1>1, <1>3, <2>1
<1>6. ASSUME NEW i \in 1..(50 - k) PROVE Fits(Tail(job)[i], (k + 1) + i - 1)
  <2>1. i + 1 \in 1..(51 - k) /\ k + (i + 1) - 1 = (k + 1) + i - 1  OBVIOUS
  <2>2. QED BY <1>1, <1>3, <1>4, <2>1
<1>7. Follows(Tail(job), k + 1, 51 - (k + 1))
  <2>1. 51 - (k + 1) = 50 - k  OBVIOUS
  <2>2. QED BY <1>1, <1>3, <1>6, <2>1 DEF Follows
<1>8. Worded(job)  BY <1>1 DEF Worded, Items, Fits
<1>9. k = 50 => Tail(job) = <<>>
  <2>1. ASSUME k = 50 PROVE Tail(job) = <<>>
    <3>1. Len(Tail(job)) = 0  BY <1>1, <1>3, <2>1
    <3>2. QED BY <1>4, <2>1
  <2>2. QED BY <2>1
<1>10. QED BY <1>2, <1>5, <1>7, <1>8, <1>9

\* A step of the command that did as its word says, and was not the last.
TopologyObeys ==
  /\ job # <<>> /\ job' = Tail(job) /\ disk'["release"] = disk["release"] /\ Kind(Now) # <<"publish", "staging">>
  /\ \A r \in Topology!Roles :
       /\ Kind(Now) \notin {<<"launch", r>>, <<"kill", r>>} => Proc(r)' = Proc(r)
       /\ Kind(Now) = <<"kill", r>> =>
            Proc(r)'.life = "dead" /\ Proc(r)'.cache = Proc(r).cache /\ Proc(r)'.log = Proc(r).log
       /\ Kind(Now) = <<"receipt", r>> => Proc(r).log = <<"disposition", Topology!Accepted(Topology!Branch(r))>>
       /\ Kind(Now) = <<"refusal", r>> => Proc(r).log = <<"disposition", Topology!Expected(r)>>
       /\ Kind(Now) = <<"audit", r>> => Proc(r).cache = "private"
  /\ Kind(Now) \notin On("staging") /\ Now.do # "keep" => disk'["staging"] = disk["staging"]
  /\ Kind(Now) = <<"put", "staging">> => disk'["staging"] = Now.content
  /\ Now.do = "keep" => \A K : /\ disk["staging"] = Copies([r \in K |-> Verdict(r)])
                               /\ Now.path \in Topology!Roles /\ (Now.path \in Running => Told(Now.path))
                               => disk'["staging"] = Copies([r \in K \cup {Now.path} |-> Verdict(r)])

LEMMA ObeysProcesses ==
  ASSUME NEW k \in 1..50, Kind(Now) = Plan[k], SoFar(k), TopologyObeys
  PROVE  /\ \A r \in Running : /\ ToldAt(r) < k + 1 => Told(r)'
                               /\ KilledAt(r) < k + 1 => Proc(r)'.life = "dead"
                               /\ KilledAt(r) + 1 < k + 1 => Proc(r)'.cache = "private"
         /\ Proc("additional_directory")' = Topology!NotStarted
<1>1. ASSUME NEW r \in Running
      PROVE  /\ ToldAt(r) < k + 1 => Told(r)'
             /\ KilledAt(r) < k + 1 => Proc(r)'.life = "dead"
             /\ KilledAt(r) + 1 < k + 1 => Proc(r)'.cache = "private"
  <2>1. /\ Plan[ToldAt(r)] = IF r \in {"source", "return"} THEN <<"receipt", r>> ELSE <<"refusal", r>>
        /\ Plan[KilledAt(r)] = <<"kill", r>> /\ Plan[KilledAt(r) + 1] = <<"audit", r>>
        /\ KilledAt(r) \in Nat /\ ToldAt(r) \in 7..45 /\ ToldAt(r) < KilledAt(r)
    BY PlanHas
  <2>2. /\ ToldAt(r) < k => Told(r)
        /\ KilledAt(r) < k => Proc(r).life = "dead"
        /\ KilledAt(r) + 1 < k => Proc(r).cache = "private"
    BY DEF SoFar
  <2>3. Plan[k] = <<"launch", r>> => k < ToldAt(r)
    <3>1. Plan[k][1] = "launch" => k < ToldAt(Plan[k][2])  BY PlanSays
    <3>2. QED BY <3>1
  <2>4. r \in Topology!Roles  BY DEF Running
  <2>5. /\ Plan[k] \notin {<<"launch", r>>, <<"kill", r>>} => Proc(r)' = Proc(r)
        /\ Plan[k] = <<"kill", r>> =>
             Proc(r)'.life = "dead" /\ Proc(r)'.cache = Proc(r).cache /\ Proc(r)'.log = Proc(r).log
        /\ Plan[k] = <<"receipt", r>> => Proc(r).log = <<"disposition", Topology!Accepted(Topology!Branch(r))>>
        /\ Plan[k] = <<"refusal", r>> => Proc(r).log = <<"disposition", Topology!Expected(r)>>
        /\ Plan[k] = <<"audit", r>> => Proc(r).cache = "private"
    BY <2>4 DEF TopologyObeys
  <2>6. Verdict(r) = IF r \in {"source", "return"} THEN Topology!Accepted(Topology!Branch(r)) ELSE Topology!Expected(r)
    BY <2>4, TopologyNames DEF Verdict, Running, Topology!Cases, Topology!CompiledCases, Topology!Roles
  <2>7. ASSUME ToldAt(r) < k + 1 PROVE Told(r)'
    <3>1. Proc(r).log = <<"disposition", Verdict(r)>>
      <4>1. CASE ToldAt(r) = k  BY <2>1, <2>5, <2>6, <4>1
      <4>2. CASE ToldAt(r) # k  BY <2>1, <2>2, <2>7, <4>2 DEF Told
      <4>3. QED BY <4>1, <4>2
    <3>2. Plan[k] # <<"launch", r>>  BY <2>1, <2>3, <2>7
    <3>3. Proc(r)'.log = Proc(r).log  BY <2>5, <3>2
    <3>4. QED BY <3>1, <3>3 DEF Told
  <2>8. ASSUME KilledAt(r) < k + 1 PROVE Proc(r)'.life = "dead"
    <3>1. Plan[k] # <<"launch", r>>  BY <2>1, <2>3, <2>8
    <3>2. CASE KilledAt(r) = k  BY <2>1, <2>5, <3>2
    <3>3. CASE KilledAt(r) # k  BY <2>1, <2>2, <2>5, <2>8, <3>1, <3>3
    <3>4. QED BY <3>2, <3>3
  <2>9. ASSUME KilledAt(r) + 1 < k + 1 PROVE Proc(r)'.cache = "private"
    <3>1. Plan[k] # <<"launch", r>>  BY <2>1, <2>3, <2>9
    <3>2. Proc(r)'.cache = Proc(r).cache  BY <2>5, <3>1
    <3>3. CASE KilledAt(r) + 1 = k  BY <2>1, <2>5, <3>2, <3>3
    <3>4. CASE KilledAt(r) + 1 # k  BY <2>1, <2>2, <2>9, <3>2, <3>4
    <3>5. QED BY <3>3, <3>4
  <2>10. QED BY <2>7, <2>8, <2>9
<1>2. Proc("additional_directory")' = Topology!NotStarted
  <2>1. Plan[k] \notin {<<"launch", "additional_directory">>, <<"kill", "additional_directory">>}
    <3>1. Plan[k][1] \in {"launch", "kill"} => Plan[k][2] \in Running
      BY PlanSays
    <3>2. QED BY <3>1 DEF Running
  <2>2. QED BY <2>1, TopologyNames DEF TopologyObeys, SoFar
<1>3. QED BY <1>1, <1>2

LEMMA ObeysStaging ==
  ASSUME NEW k \in 1..50, Fits(Now, k), SoFar(k), TopologyObeys, k + 1 > 2
  PROVE  disk'["staging"] = Copies([r \in Kept(k + 1) |-> Verdict(r)])
<1>1. Kind(Now) = Plan[k] /\ Now.do = Plan[k][1] /\ Now.path = Plan[k][2]
  <2>1. Kind(Now) = Plan[k]  BY DEF Fits
  <2>2. QED BY <2>1 DEF Kind
<1>2. CASE k = 2
  <2>1. disk'["staging"] = Copies(<<>>)
    BY <1>1, <1>2, PlanSays DEF Fits, TopologyObeys
  <2>2. Kept(k + 1) = {}
    <3>1. \A r \in Topology!Roles : ~(KeptAt(r) < k + 1)  BY <1>2, PlanHas
    <3>2. QED BY <3>1 DEF Kept
  <2>3. <<>> = [r \in {} |-> Verdict(r)]  OBVIOUS
  <2>4. QED BY <2>1, <2>2, <2>3, Zenon
<1>3. CASE k > 2 /\ Now.do = "keep"
  <2>1. Now.path \in Topology!Roles /\ KeptAt(Now.path) = k
    <3>1. Plan[k][1] = "keep" => Plan[k][2] \in Topology!Roles /\ KeptAt(Plan[k][2]) = k
      BY PlanSays
    <3>2. QED BY <1>1, <1>3, <3>1
  <2>2. Now.path \in Running => Told(Now.path)
    <3>1. \A r \in Running : /\ ToldAt(r) < k => Told(r)
                             /\ ToldAt(r) \in 7..45 /\ KilledAt(r) \in Nat /\ ToldAt(r) < KilledAt(r) /\ KeptAt(r) = KilledAt(r) + 2
      BY PlanHas DEF SoFar
    <3>2. QED BY <2>1, <3>1
  <2>3. Kept(k + 1) = Kept(k) \cup {Now.path}
    <3>1. ASSUME NEW r \in Topology!Roles, KeptAt(r) = k PROVE r = Now.path
      <4>1. Plan[k] = <<"keep", r>>  BY <3>1, PlanHas
      <4>2. QED BY <1>1, <4>1
    <3>2. \A r \in Topology!Roles : KeptAt(r) < k + 1 <=> KeptAt(r) < k \/ KeptAt(r) = k
      BY PlanHas
    <3>3. QED BY <2>1, <3>1, <3>2 DEF Kept
  <2>4. disk["staging"] = Copies([r \in Kept(k) |-> Verdict(r)])
    BY <1>3 DEF SoFar
  <2>5. disk'["staging"] = Copies([r \in Kept(k) \cup {Now.path} |-> Verdict(r)])
    BY <1>3, <2>1, <2>2, <2>4 DEF TopologyObeys
  <2>6. QED BY <2>3, <2>5
<1>4. CASE k > 2 /\ Now.do # "keep"
  <2>1. Kind(Now) \notin On("staging")
    <3>1. Plan[k] \in On("staging") => k \in {1, 2}  BY PlanSays
    <3>2. QED BY <1>1, <1>4, <3>1
  <2>2. Kept(k + 1) = Kept(k)
    <3>1. ASSUME NEW r \in Topology!Roles, KeptAt(r) = k PROVE FALSE
      <4>1. Plan[k] = <<"keep", r>>  BY <3>1, PlanHas
      <4>2. QED BY <1>1, <1>4, <4>1
    <3>2. \A r \in Topology!Roles : KeptAt(r) < k + 1 <=> KeptAt(r) < k \/ KeptAt(r) = k
      BY PlanHas
    <3>3. QED BY <3>1, <3>2 DEF Kept
  <2>3. QED BY <1>4, <2>1, <2>2 DEF SoFar, TopologyObeys
<1>5. QED BY <1>2, <1>3, <1>4

LEMMA ObeysTrue ==
  ASSUME TopologyInv, TopologyTruth, TopologyObeys
  PROVE  TopologyTruth'
<1>1. job # <<>> /\ job' = Tail(job) /\ disk'["release"] = disk["release"] /\ IsJob(job)
  BY DEF TopologyObeys, TopologyInv
<1>2. CASE disk["release"] = Absent /\ Worded(job) /\ \A e \in Items(job) : e.do # "publish"
  <2>1. Worded(job') /\ Items(job) = {Head(job)} \cup Items(job')
    BY <1>1, <1>2, WordedGoesOn, TailItems
  <2>2. disk'["release"] = Absent /\ Worded(job') /\ \A e \in Items(job') : e.do # "publish"
    BY <1>1, <1>2, <2>1
  <2>3. QED BY <2>2 DEF TopologyTruth
<1>3. ASSUME NEW k \in 1..50, Follows(job, k, 51 - k), SoFar(k), disk["release"] = Absent PROVE TopologyTruth'
  <2>1. Fits(Now, k) /\ Follows(job', k + 1, 51 - (k + 1))
    BY <1>1, <1>3, FollowsNext
  <2>2. k # 50  BY <2>1, PlanSays DEF TopologyObeys, Fits
  <2>3. SoFar(k + 1)'
    <3>1. Kind(Now) = Plan[k]  BY <2>1 DEF Fits
    <3>2. k + 1 > 2 => disk'["staging"] = Copies([r \in Kept(k + 1) |-> Verdict(r)])
      BY <1>3, <2>1, ObeysStaging
    <3>3. QED BY <1>3, <3>1, <3>2, ObeysProcesses DEF SoFar
  <2>4. k + 1 \in 1..50  BY <2>2
  <2>5. disk'["release"] = Absent /\ \E i \in 1..50 : Follows(job', i, 51 - i) /\ SoFar(i)'
    BY <1>1, <1>3, <2>1, <2>3, <2>4
  <2>6. QED BY <2>5 DEF TopologyTruth
<1>4. QED BY <1>1, <1>2, <1>3 DEF TopologyTruth

\* A command that fails publishes nothing.
LEMMA FailsTrue ==
  ASSUME TopologyTruth, job # <<>>, Closing(job'), disk'["release"] = disk["release"]
  PROVE  TopologyTruth'
<1>1. disk["release"] = Absent  BY DEF TopologyTruth
<1>2. disk'["release"] = Absent /\ Worded(job') /\ \A e \in Items(job') : e.do # "publish"
  BY <1>1 DEF Closing, Closer, Worded
<1>3. QED BY <1>2 DEF TopologyTruth

LEMMA FailsAreTrue ==
  ASSUME TopologyTruth, job # <<>>, Topology!Fails
  PROVE  TopologyTruth'
<1>1. job' = Topology!Handler /\ disk' = disk  BY Zenon DEF Topology!Fails
<1>2. QED BY <1>1, HandlerCloses, FailsTrue

LEMMA AcquireTrue ==
  ASSUME Topology!Acquire
  PROVE  TopologyTruth'
<1>1. /\ job' = Topology!AcquireStaged /\ disk' = [p \in Topology!Places |-> Absent]
      /\ world' = [process |-> Topology!Unstarted, head |-> "R0"]
  BY Zenon DEF Topology!Acquire, Topology!Absent, Absent
<1>2. Follows(job', 1, 51 - 1)  BY <1>1, AcquireFollows
<1>3. disk'["release"] = Absent  BY <1>1, TopologyNames
<1>4. Proc("additional_directory")' = Topology!NotStarted
  BY <1>1, TopologyNames DEF Proc, Topology!Unstarted
<1>5. SoFar(1)'
  <2>1. \A r \in Running : ~(ToldAt(r) < 1) /\ ~(KilledAt(r) < 1) /\ ~(KilledAt(r) + 1 < 1)
    <3>1. \A r \in Running : KilledAt(r) \in Nat /\ ToldAt(r) \in 7..45 /\ ToldAt(r) < KilledAt(r)
      BY PlanHas
    <3>2. QED BY <3>1
  <2>2. ~(1 > 2)  OBVIOUS
  <2>3. QED BY <1>4, <2>1, <2>2, Zenon DEF SoFar
<1>6. \E k \in 1..50 : Follows(job', k, 51 - k) /\ SoFar(k)'  BY <1>2, <1>5
<1>7. QED BY <1>3, <1>6 DEF TopologyTruth

LEMMA PublishTrue ==
  ASSUME TopologyInv, TopologyTruth, Topology!Publish
  PROVE  TopologyTruth'
<1>1. /\ job # <<>> /\ Now.do = "publish"
      /\ \/ Topology!Fails
         \/ /\ job' = Tail(job) /\ UNCHANGED world
            /\ disk' = [disk EXCEPT !["release"] = disk["staging"], !["staging"] = Absent]
  BY Zenon DEF Topology!Publish, Topology!Does, Topology!Now, Now, Topology!Proceed, Topology!Absent, Absent
<1>2. ASSUME job' = Tail(job), UNCHANGED world,
             disk' = [disk EXCEPT !["release"] = disk["staging"], !["staging"] = Absent],
             NEW k \in 1..50, Follows(job, k, 51 - k), SoFar(k)
      PROVE  TopologyTruth'
  <2>1. Fits(Now, k) /\ (k = 50 => Tail(job) = <<>>)  BY <1>2, FollowsNext
  <2>2. k = 50
    <3>1. Plan[k][1] = "publish"  BY <1>1, <2>1 DEF Fits, Kind
    <3>2. QED BY <3>1 DEF Plan
  <2> DEFINE f == [r \in Topology!Roles |-> Verdict(r)]
  <2>3. disk["staging"] = Copies(f)
    <3>1. Kept(50) = Topology!Roles
      <4>1. \A r \in Topology!Roles : KeptAt(r) < 50  BY PlanHas
      <4>2. QED BY <4>1 DEF Kept
    <3>2. disk["staging"] = Copies([r \in Kept(50) |-> Verdict(r)])
      BY <1>2, <2>2 DEF SoFar
    <3>3. QED BY <3>1, <3>2
  <2>4. disk'["release"] = disk["staging"]
    <3>1. disk = [p \in Topology!Places |-> disk[p]]  BY DEF TopologyInv
    <3>2. QED BY <1>2, <3>1, TopologyNames
  <2>5. disk'["release"][2] = f /\ disk'["release"] # Absent
    <3> HIDE DEF f
    <3>1. disk'["release"] = <<"copies", f>> /\ Absent = <<"absent">>
      BY <2>3, <2>4, Zenon DEF Copies, File, Absent
    <3>2. <<"copies", f>>[2] = f /\ <<"copies", f>> # <<"absent">>  OBVIOUS
    <3>3. QED BY <3>1, <3>2, Zenon
  <2>6. \A r \in Running : Proc(r)' = [life |-> "dead", cache |-> "private", log |-> <<"disposition", f[r]>>]
    <3> SUFFICES ASSUME NEW r \in Running
                 PROVE  Proc(r)' = [life |-> "dead", cache |-> "private", log |-> <<"disposition", f[r]>>]
      OBVIOUS
    <3>1. r \in Topology!Roles  BY DEF Running
    <3>2. ToldAt(r) < 50 /\ KilledAt(r) < 50 /\ KilledAt(r) + 1 < 50
      <4>1. KeptAt(r) \in 3..48 /\ KeptAt(r) = KilledAt(r) + 2 /\ KilledAt(r) \in Nat /\ ToldAt(r) \in 7..45
        BY <3>1, PlanHas
      <4>2. QED BY <4>1
    <3>3. Proc(r).log = <<"disposition", Verdict(r)>> /\ Proc(r).life = "dead" /\ Proc(r).cache = "private"
      BY <1>2, <2>2, <3>2 DEF SoFar, Told
    <3>4. Proc(r) = [life |-> Proc(r).life, cache |-> Proc(r).cache, log |-> Proc(r).log]
      BY <3>1 DEF TopologyInv, TopologyWorld
    <3>5. f[r] = Verdict(r) /\ Proc(r)' = Proc(r)  BY <1>2, <3>1 DEF Proc
    <3> HIDE DEF f
    <3>6. QED BY <3>3, <3>4, <3>5
  <2>7. Proc("additional_directory")' = Topology!NotStarted
    BY <1>2 DEF SoFar, Proc
  <2>8. f = [r \in Topology!Roles |-> IF r \in Topology!Cases THEN Topology!Expected(r)
                                      ELSE Topology!Accepted(Topology!Branch(r))]
    BY DEF Verdict
  <2> HIDE DEF f
  <2>9. Topology!TopologyTrue'
    BY <2>5, <2>6, <2>7, <2>8 DEF Topology!TopologyTrue, Topology!Process, Proc, Running
  <2>10. job' = <<>>  BY <1>2, <2>1, <2>2
  <2>11. QED BY <2>5, <2>9, <2>10 DEF TopologyTruth
<1>3. CASE Topology!Fails  BY <1>1, <1>3, FailsAreTrue
<1>4. ASSUME job' = Tail(job), UNCHANGED world,
             disk' = [disk EXCEPT !["release"] = disk["staging"], !["staging"] = Absent]
      PROVE  TopologyTruth'
  <2>1. \E e \in Items(job) : e.do = "publish"
    <3>1. IsJob(job)  BY DEF TopologyInv
    <3>2. Now \in Items(job)  BY <1>1, <3>1, Onward DEF Now, Items
    <3>3. QED BY <1>1, <3>2
  <2>2. QED BY <1>1, <1>2, <1>4, <2>1 DEF TopologyTruth
<1>5. QED BY <1>1, <1>3, <1>4

LEMMA ProcessesTrue ==
  ASSUME TopologyInv, TopologyTruth, Topology!TopologyProcesses
  PROVE  TopologyTruth'
<1>1. PICK r \in Topology!Roles : Topology!BeginsLine(r) \/ Topology!EndsLine(r) \/ Topology!Exits(r)
  BY DEF Topology!TopologyProcesses
<1>2. /\ Proc(r).life = "up" /\ disk' = disk /\ job' = job
      /\ \/ Proc(r).log \in {Topology!Silent, Topology!Partial} /\ \E l : Topology!Sets(r, [Proc(r) EXCEPT !.log = l])
         \/ Topology!Sets(r, [Proc(r) EXCEPT !.life = "exited"])
  <2>1. CASE Topology!BeginsLine(r)
    BY <2>1, Zenon DEF Topology!BeginsLine, Topology!Up, Topology!Process, Proc
  <2>2. CASE Topology!EndsLine(r)
    BY <2>2, Zenon DEF Topology!EndsLine, Topology!Up, Topology!Process, Proc
  <2>3. CASE Topology!Exits(r)
    BY <2>3, Zenon DEF Topology!Exits, Topology!Up, Topology!Process, Proc
  <2>4. QED BY <1>1, <2>1, <2>2, <2>3
<1>3. /\ TopologyWorld /\ Proc(r) = [life |-> Proc(r).life, cache |-> Proc(r).cache, log |-> Proc(r).log]
  BY DEF TopologyInv, TopologyWorld
<1>4. ~Told(r) \/ Proc(r).log \notin {Topology!Silent, Topology!Partial}
  <2>1. \A v : <<"disposition", v>> \notin {<<"silent">>, <<"partial">>}
    OBVIOUS
  <2>2. QED BY <2>1, Zenon DEF Told, Topology!Silent, Topology!Partial
<1>5. PICK p : /\ world' = [world EXCEPT !.process[r] = p] /\ p = [life |-> p.life, cache |-> p.cache, log |-> p.log]
               /\ p.cache = Proc(r).cache /\ (Told(r) => p.log = Proc(r).log)
  <2>1. ASSUME NEW l, Topology!Sets(r, [Proc(r) EXCEPT !.log = l]), Proc(r).log \in {Topology!Silent, Topology!Partial}
        PROVE  \E p : /\ world' = [world EXCEPT !.process[r] = p] /\ p = [life |-> p.life, cache |-> p.cache, log |-> p.log]
                      /\ p.cache = Proc(r).cache /\ (Told(r) => p.log = Proc(r).log)
    <3> DEFINE p == [Proc(r) EXCEPT !.log = l]
    <3>1. p = [life |-> p.life, cache |-> p.cache, log |-> p.log] /\ p.cache = Proc(r).cache
      BY <1>3
    <3>2. world' = [world EXCEPT !.process[r] = p]
      BY <2>1, Zenon DEF Topology!Sets
    <3>3. ~Told(r)  BY <1>4, <2>1
    <3> HIDE DEF p
    <3>4. QED BY <3>1, <3>2, <3>3
  <2>2. ASSUME Topology!Sets(r, [Proc(r) EXCEPT !.life = "exited"])
        PROVE  \E p : /\ world' = [world EXCEPT !.process[r] = p] /\ p = [life |-> p.life, cache |-> p.cache, log |-> p.log]
                      /\ p.cache = Proc(r).cache /\ (Told(r) => p.log = Proc(r).log)
    <3> DEFINE p == [Proc(r) EXCEPT !.life = "exited"]
    <3>1. p = [life |-> p.life, cache |-> p.cache, log |-> p.log] /\ p.cache = Proc(r).cache /\ p.log = Proc(r).log
      BY <1>3
    <3>2. world' = [world EXCEPT !.process[r] = p]
      BY <2>2, Zenon DEF Topology!Sets
    <3> HIDE DEF p
    <3>3. QED BY <3>1, <3>2
  <2>3. QED BY <1>2, <2>1, <2>2
<1>6. \A q \in Topology!Roles : Proc(q)' = IF q = r THEN p ELSE Proc(q)
  BY <1>3, <1>5, TopologySets
<1>7. CASE job = <<>> /\ disk["release"] # Absent /\ Topology!TopologyTrue
  <2>1. \/ r = "additional_directory" /\ Proc(r) = Topology!NotStarted
        \/ Proc(r).life = "dead"
    <3>1. /\ \A q \in Topology!Roles \ {"additional_directory"} :
               \E l : Proc(q) = [life |-> "dead", cache |-> "private", log |-> l]
          /\ Proc("additional_directory") = Topology!NotStarted
      BY <1>7, Zenon DEF Topology!TopologyTrue, Topology!Process, Proc
    <3>2. QED BY <1>1, <3>1
  <2>2. QED BY <1>2, <2>1 DEF Topology!NotStarted
<1>8. ASSUME NEW k \in 1..50, Follows(job, k, 51 - k), SoFar(k), disk["release"] = Absent PROVE TopologyTruth'
  <2>1. r \in Running
    BY <1>1, <1>2, <1>8 DEF SoFar, Running, Topology!NotStarted
  <2>2. ASSUME NEW q \in Running
        PROVE  /\ ToldAt(q) < k => Told(q)'
               /\ KilledAt(q) < k => Proc(q)'.life = "dead"
               /\ KilledAt(q) + 1 < k => Proc(q)'.cache = "private"
    <3>1. q \in Topology!Roles  BY DEF Running
    <3>2. /\ ToldAt(q) < k => Told(q)
          /\ KilledAt(q) < k => Proc(q).life = "dead"
          /\ KilledAt(q) + 1 < k => Proc(q).cache = "private"
      BY <1>8 DEF SoFar
    <3>3. CASE q = r  BY <1>2, <1>5, <1>6, <3>1, <3>2, <3>3 DEF Told
    <3>4. CASE q # r  BY <1>6, <3>1, <3>2, <3>4 DEF Told
    <3>5. QED BY <3>3, <3>4
  <2>3. Proc("additional_directory")' = Topology!NotStarted
    BY <1>6, <1>8, <2>1, TopologyNames DEF SoFar, Running
  <2>4. SoFar(k)'  BY <1>2, <1>8, <2>2, <2>3 DEF SoFar
  <2>5. disk'["release"] = Absent /\ \E i \in 1..50 : Follows(job', i, 51 - i) /\ SoFar(i)'
    BY <1>2, <1>8, <2>4
  <2>6. QED BY <2>5 DEF TopologyTruth
<1>9. CASE disk["release"] = Absent /\ Worded(job) /\ \A e \in Items(job) : e.do # "publish"
  BY <1>2, <1>9 DEF TopologyTruth
<1>10. QED BY <1>7, <1>8, <1>9 DEF TopologyTruth

LEMMA ObeysUnmoved ==
  ASSUME job # <<>>, job' = Tail(job), disk' = disk, world'.process = world.process,
         Now.do \in {"inventory", "prelaunch", "receipt", "refusal", "alive", "audit", "resolve", "gate", "members"},
         Now.do = "receipt" => Proc(Now.path).log = <<"disposition", Topology!Accepted(Topology!Branch(Now.path))>>,
         Now.do = "refusal" => Proc(Now.path).log = <<"disposition", Topology!Expected(Now.path)>>,
         Now.do = "audit" => Proc(Now.path).cache = "private"
  PROVE  TopologyObeys
<1>1. \A r : Proc(r)' = Proc(r)  BY DEF Proc
<1>2. Kind(Now) = <<Now.do, Now.path>>  BY DEF Kind
<1>3. \A r : Kind(Now) \notin {<<"launch", r>>, <<"kill", r>>}  BY <1>2
<1>4. Kind(Now) # <<"publish", "staging">> /\ Kind(Now) # <<"put", "staging">> /\ Now.do # "keep"
  BY <1>2
<1>5. \A r : /\ Kind(Now) = <<"receipt", r>> => Proc(r).log = <<"disposition", Topology!Accepted(Topology!Branch(r))>>
             /\ Kind(Now) = <<"refusal", r>> => Proc(r).log = <<"disposition", Topology!Expected(r)>>
             /\ Kind(Now) = <<"audit", r>> => Proc(r).cache = "private"
  BY <1>2
<1>6. QED BY <1>1, <1>3, <1>4, <1>5 DEF TopologyObeys

LEMMA LooksTrue ==
  ASSUME TopologyInv, TopologyTruth,
         \/ Topology!Inventory \/ Topology!ValidateReturnPrelaunch \/ Topology!WaitForReceipt \/ Topology!WaitForFailure
         \/ Topology!MustBeAlive \/ Topology!CompleteCacheAudit \/ Topology!Resolve \/ Topology!Gate \/ Topology!Members
  PROVE  TopologyTruth'
<1> DEFINE W == {"inventory", "prelaunch", "receipt", "refusal", "alive", "audit", "resolve", "gate", "members"}
           Heard == /\ Now.do = "receipt" => Proc(Now.path).log = <<"disposition", Topology!Accepted(Topology!Branch(Now.path))>>
                    /\ Now.do = "refusal" => Proc(Now.path).log = <<"disposition", Topology!Expected(Now.path)>>
                    /\ Now.do = "audit" => Proc(Now.path).cache = "private"
<1>1. /\ job # <<>> /\ Now.do \in W
      /\ \/ Topology!Fails
         \/ Topology!Passes /\ Heard
         \/ job' = Tail(job) /\ disk' = disk /\ world' = [world EXCEPT !.head = "R1"] /\ Heard
  <2>1. CASE Topology!Inventory
    BY <2>1 DEF Topology!Inventory, Topology!Does, Topology!Now, Now, Topology!Demands
  <2>2. CASE Topology!ValidateReturnPrelaunch
    BY <2>2 DEF Topology!ValidateReturnPrelaunch, Topology!Does, Topology!Now, Now, Topology!Demands
  <2>3. CASE Topology!WaitForReceipt
    BY <2>3 DEF Topology!WaitForReceipt, Topology!WaitsFor, Topology!Does, Topology!Now, Now, Topology!Process, Proc
  <2>4. CASE Topology!WaitForFailure
    BY <2>4 DEF Topology!WaitForFailure, Topology!WaitsFor, Topology!Does, Topology!Now, Now, Topology!Process, Proc
  <2>5. CASE Topology!MustBeAlive
    BY <2>5 DEF Topology!MustBeAlive, Topology!Does, Topology!Now, Now, Topology!Demands
  <2>6. CASE Topology!CompleteCacheAudit
    BY <2>6 DEF Topology!CompleteCacheAudit, Topology!Does, Topology!Now, Now, Topology!Demands, Topology!Process, Proc
  <2>7. CASE Topology!Resolve
    BY <2>7 DEF Topology!Resolve, Topology!Does, Topology!Now, Now, Topology!Proceed
  <2>8. CASE Topology!Gate
    BY <2>8 DEF Topology!Gate, Topology!Does, Topology!Now, Now, Topology!Demands
  <2>9. CASE Topology!Members
    BY <2>9 DEF Topology!Members, Topology!Does, Topology!Now, Now, Topology!Demands
  <2>10. QED BY <2>1, <2>2, <2>3, <2>4, <2>5, <2>6, <2>7, <2>8, <2>9
<1>2. world = [process |-> world.process, head |-> world.head]
  BY DEF TopologyInv, TopologyWorld
<1>3. CASE Topology!Fails  BY <1>1, <1>3, FailsAreTrue
<1>4. CASE Heard /\ job' = Tail(job) /\ disk' = disk /\ (world' = world \/ world' = [world EXCEPT !.head = "R1"])
  <2>1. world'.process = world.process  BY <1>2, <1>4
  <2>2. TopologyObeys  BY <1>1, <1>4, <2>1, ObeysUnmoved
  <2>3. QED BY <2>2, ObeysTrue
<1>5. Topology!Passes => job' = Tail(job) /\ disk' = disk /\ world' = world
  BY DEF Topology!Passes, Topology!Proceed
<1>6. QED BY <1>1, <1>3, <1>4, <1>5

LEMMA StartTrue ==
  ASSUME TopologyInv, TopologyTruth, Topology!StartProcess
  PROVE  TopologyTruth'
<1> DEFINE r == Now.path
<1>1. PICK c : /\ job # <<>> /\ Now.do = "launch" /\ job' = Tail(job) /\ disk' = disk
               /\ world' = [world EXCEPT !.process[r] = [Topology!NotStarted EXCEPT !.life = "up", !.cache = c]]
  BY Zenon DEF Topology!StartProcess, Topology!Does, Topology!Now, Now, Topology!Proceed, Topology!Sets
<1>2. \A q \in Topology!Roles : q # r => Proc(q)' = Proc(q)
  <2> DEFINE p == [Topology!NotStarted EXCEPT !.life = "up", !.cache = c]
  <2>1. world' = [world EXCEPT !.process[r] = p]  BY <1>1
  <2> HIDE DEF p
  <2>2. TopologyWorld  BY DEF TopologyInv
  <2>3. QED BY <2>1, <2>2 DEF TopologyWorld, Proc
<1>3. Kind(Now) = <<"launch", r>>  BY <1>1 DEF Kind
<1>4. TopologyObeys
  <2>1. /\ Kind(Now) # <<"publish", "staging">> /\ Kind(Now) # <<"put", "staging">>
        /\ \A q : Kind(Now) \notin {<<"kill", q>>, <<"receipt", q>>, <<"refusal", q>>, <<"audit", q>>}
        /\ \A q : Kind(Now) = <<"launch", q>> => q = r
    BY <1>3
  <2>2. \A q \in Topology!Roles : Kind(Now) \notin {<<"launch", q>>, <<"kill", q>>} => Proc(q)' = Proc(q)
    BY <1>2, <1>3
  <2>3. QED BY <1>1, <2>1, <2>2 DEF TopologyObeys
<1>5. QED BY <1>4, ObeysTrue

LEMMA TerminateTrue ==
  ASSUME TopologyInv, TopologyTruth, Topology!Terminate
  PROVE  TopologyTruth'
<1> DEFINE r == Now.path
           p == [Proc(r) EXCEPT !.life = "dead"]
           rest == IF disk["staging"] = Absent THEN <<>> ELSE Topology!Remove("staging")
<1>1. /\ job # <<>> /\ Now.do = "kill" /\ disk' = disk
      /\ world' = [world EXCEPT !.process[r] = p]
      /\ job' = Tail(job) \/ job' = rest
  BY Zenon DEF Topology!Terminate, Topology!Does, Topology!Now, Now, Topology!Proceed, Topology!Sets, Topology!Process,
               Proc, Topology!Absent, Absent
<1>2. CASE job' = rest
  <2>1. Closing(job')  BY <1>2, ClosingParts
  <2>2. QED BY <1>1, <2>1, FailsTrue
<1>3. CASE job' = Tail(job)
  <2>1. TopologyWorld  BY DEF TopologyInv
  <2>2. r \in Topology!Roles  BY <1>1, TopologyRest
  <2>3. /\ p.life = "dead" /\ p.cache = Proc(r).cache /\ p.log = Proc(r).log
        /\ p = [life |-> p.life, cache |-> p.cache, log |-> p.log]
    BY <2>1, <2>2 DEF TopologyWorld
  <2> HIDE DEF p
  <2>4. \A q \in Topology!Roles : Proc(q)' = IF q = r THEN p ELSE Proc(q)
    BY <1>1, <2>1, <2>3, TopologySets
  <2>5. Kind(Now) = <<"kill", r>>  BY <1>1 DEF Kind
  <2>6. /\ Kind(Now) # <<"publish", "staging">> /\ Kind(Now) # <<"put", "staging">>
        /\ \A q : Kind(Now) \notin {<<"receipt", q>>, <<"refusal", q>>, <<"audit", q>>}
        /\ \A q : Kind(Now) \in {<<"launch", q>>, <<"kill", q>>} <=> q = r
    BY <2>5
  <2>7. TopologyObeys  BY <1>1, <1>3, <2>3, <2>4, <2>6 DEF TopologyObeys
  <2>8. QED BY <2>7, ObeysTrue
<1>4. QED BY <1>1, <1>2, <1>3

LEMMA KeepTrue ==
  ASSUME TopologyInv, TopologyTruth, Topology!Keep
  PROVE  TopologyTruth'
<1> DEFINE r == Now.path
           f == disk["staging"][2]
           kept == IF r = "additional_directory" THEN Topology!Expected(r) ELSE Proc(r).log[2]
           g == [q \in DOMAIN f \cup {r} |-> IF q = r THEN kept ELSE f[q]]
<1>1. /\ job # <<>> /\ Now.do = "keep" /\ job' = Tail(job) /\ world' = world
      /\ disk' = [disk EXCEPT !["staging"] = Copies(g)]
  BY Zenon DEF Topology!Keep, Topology!Does, Topology!Now, Now, Topology!Proceed, Topology!Process, Proc,
               Topology!Copies, Copies, Topology!File, File
<1>2. disk'["release"] = disk["release"] /\ disk'["staging"] = Copies(g)
  <2>1. disk = [q \in Topology!Places |-> disk[q]]  BY DEF TopologyInv
  <2> HIDE DEF g
  <2>2. QED BY <1>1, <2>1, TopologyNames
<1>3. Kind(Now) = <<"keep", r>>  BY <1>1 DEF Kind
<1>4. ASSUME NEW K, disk["staging"] = Copies([q \in K |-> Verdict(q)]), r \in Running => Told(r), r \in Topology!Roles
      PROVE  disk'["staging"] = Copies([q \in K \cup {r} |-> Verdict(q)])
  <2>1. f = [q \in K |-> Verdict(q)]
    <3> DEFINE h == [q \in K |-> Verdict(q)]
    <3> HIDE DEF h
    <3>1. disk["staging"] = <<"copies", h>>
      BY <1>4, Zenon DEF h, Copies, File
    <3>2. QED BY <3>1 DEF h
  <2>2. kept = Verdict(r)
    <3>1. CASE r = "additional_directory"  BY <3>1 DEF Verdict, Topology!Cases
    <3>2. CASE r # "additional_directory"  BY <1>4, <3>2 DEF Running, Told
    <3>3. QED BY <3>1, <3>2
  <2> HIDE DEF f, kept
  <2>3. g = [q \in K \cup {r} |-> Verdict(q)]  BY <2>1, <2>2
  <2>4. QED BY <1>2, <2>3
<1> HIDE DEF g
<1>5. /\ Kind(Now) # <<"publish", "staging">> /\ Kind(Now) # <<"put", "staging">>
      /\ \A q : Kind(Now) \notin {<<"launch", q>>, <<"kill", q>>, <<"receipt", q>>, <<"refusal", q>>, <<"audit", q>>}
  BY <1>3
<1>6. \A q : Proc(q)' = Proc(q)  BY <1>1 DEF Proc
<1>7. TopologyObeys  BY <1>1, <1>2, <1>4, <1>5, <1>6 DEF TopologyObeys
<1>8. QED BY <1>7, ObeysTrue

LEMMA PerformTrue ==
  ASSUME TopologyInv, TopologyTruth, Perform(Topology!Handler)
  PROVE  TopologyTruth'
<1> DEFINE h == Topology!Handler
<1>1. disk = [p \in Topology!Places |-> disk[p]] /\ Perform(h)
  BY DEF TopologyInv
<1>2. Closing(h)  BY HandlerCloses
<1> HIDE DEF h
<1>3. /\ world' = world /\ job # <<>> /\ Now.do \in FileSteps
      /\ \/ job' = h /\ disk' = disk
         \/ /\ job' = Tail(job)
            /\ \A p \in Topology!Places : p # Now.path => disk'[p] = disk[p]
            /\ Now.path \in Topology!Places /\ Now.do # "copy" => disk'[Now.path] = Now.content
  BY <1>1, Performed
<1>4. CASE job' = h /\ disk' = disk  BY <1>2, <1>3, <1>4, FailsTrue
<1>5. CASE /\ job' = Tail(job)
           /\ \A p \in Topology!Places : p # Now.path => disk'[p] = disk[p]
           /\ Now.path \in Topology!Places /\ Now.do # "copy" => disk'[Now.path] = Now.content
  <2>1. Kind(Now) = <<Now.do, Now.path>> /\ Kind(Now) \in Kinds(job)
    <3>1. IsJob(job)  BY DEF TopologyInv
    <3>2. Kind(Now) = <<Now.do, Now.path>>  BY DEF Kind
    <3>3. QED BY <1>3, <3>1, <3>2, TailKinds DEF Now
  <2>2. Now.path # "release"
    <3>1. Kinds(job) \cap On("release") = {}
      BY DEF TopologyInv, TopologySuccessionInv
    <3>2. Now.path = "release" => Kind(Now) \in On("release")
      BY <1>3, <2>1 DEF On
    <3>3. QED BY <2>1, <3>1, <3>2
  <2>3. Now.path = "staging" => Kind(Now) \in On("staging")
    BY <1>3, <2>1 DEF On
  <2>4. /\ Kind(Now) # <<"publish", "staging">> /\ Now.do # "keep"
        /\ \A r : Kind(Now) \notin {<<"launch", r>>, <<"kill", r>>, <<"receipt", r>>, <<"refusal", r>>, <<"audit", r>>}
    BY <1>3, <2>1 DEF FileSteps
  <2>5. Kind(Now) = <<"put", "staging">> => disk'["staging"] = Now.content
    BY <1>5, <2>1, TopologyNames
  <2>6. \A r : Proc(r)' = Proc(r)  BY <1>3 DEF Proc
  <2>7. TopologyObeys
    BY <1>3, <1>5, <2>2, <2>3, <2>4, <2>5, <2>6, TopologyNames DEF TopologyObeys
  <2>8. QED BY <2>7, ObeysTrue
<1>6. QED BY <1>3, <1>4, <1>5

\* What the command publishes is what its processes told.
LEMMA TopologyStaysTrue ==
  ASSUME TopologyInv, TopologyTruth, Topology!TopologyNext
  PROVE  TopologyTruth'
<1>1. Topology!Perform(Topology!Handler) => Perform(Topology!Handler)
  BY PerformSame
<1>2. QED
  BY <1>1, ProcessesTrue, AcquireTrue, LooksTrue, StartTrue, TerminateTrue, KeepTrue, PublishTrue, PerformTrue
     DEF Topology!TopologyNext, Topology!TopologyCommands

LEMMA TopologyStartsTrue == Topology!TopologyInit => TopologyTruth
<1> SUFFICES ASSUME Topology!TopologyInit PROVE TopologyTruth  OBVIOUS
<1>1. job = <<>> /\ disk["release"] = Absent
  <2>1. job = <<>> /\ disk = [p \in Topology!Places |-> Absent]
    BY Zenon DEF Topology!TopologyInit, Topology!Absent, Absent
  <2>2. QED BY <2>1, TopologyNames
<1>2. Worded(job) /\ \A e \in Items(job) : e.do # "publish"
  BY <1>1, ClosingParts DEF Closing, Closer, Worded
<1>3. QED BY <1>1, <1>2 DEF TopologyTruth

LEMMA TopologyEnds ==
  ASSUME TopologyTruth, job # <<>>, job' = <<>>, disk' = disk
  PROVE  TopologyTruth'
BY ClosingParts, FailsTrue

-----------------------------------------------------------------------------
(* The whole store *)

LEMMA InitTruth == Init => TruthInv
<1>1. Integrated!IntegratedInit => scene \in Integrated!Roots /\ verdict = "none" /\ crashes = 0
  BY Zenon DEF Integrated!IntegratedInit
<1>2. Topology!TopologyInit => scene = "topology" /\ verdict = "none" /\ crashes = 0
  BY Zenon DEF Topology!TopologyInit
<1>3. Occupancy!OccupancyInit => scene = "occupancy" /\ verdict = "none" /\ crashes = 0
  BY Zenon DEF Occupancy!OccupancyInit
<1>4. Physical!PhysicalInit => scene = "physical" /\ verdict = "none" /\ crashes = 0
  BY Zenon DEF Physical!PhysicalInit
<1>5. Integrated!Roots \cap {"topology", "occupancy", "physical"} = {} /\ 0 \in 0..CrashBound
  BY CrashAssumption DEF Integrated!Roots
<1>6. QED
  BY <1>1, <1>2, <1>3, <1>4, <1>5, IntegratedStartsTrue, TopologyStartsTrue, OccupancyStartsTrue, PhysicalStartsTrue
     DEF Init, TruthInv

\* What a step makes of the truth, in the scene it is of.
LEMMA StepsStayTrue ==
  ASSUME IInv, TruthInv, Next
  PROVE  TruthInv'
<1>1. Integrated!Roots \cap {"topology", "occupancy", "physical"} = {}
  BY DEF Integrated!Roots
<1>2. CASE scene \in Integrated!Roots /\ Integrated!IntegratedNext
  <2>1. OneScene /\ IntegratedTruth'
    BY <1>2, IntegratedScene, IntegratedStaysTrue DEF IInv, TruthInv
  <2>2. QED BY <1>1, <1>2, <2>1 DEF TruthInv, OneScene
<1>3. CASE scene = "topology" /\ Topology!TopologyNext
  <2>1. OneScene /\ TopologyTruth'
    BY <1>3, TopologyScene, TopologyStaysTrue DEF IInv, TruthInv
  <2>2. QED BY <1>1, <1>3, <2>1 DEF TruthInv, OneScene
<1>4. CASE scene = "occupancy" /\ Occupancy!OccupancyNext
  <2>1. OneScene /\ OccupancyTruth'
    BY <1>4, OccupancyScene, OccupancyStaysTrue DEF IInv, TruthInv
  <2>2. QED BY <1>1, <1>4, <2>1 DEF TruthInv, OneScene
<1>5. CASE scene = "physical" /\ Physical!PhysicalNext
  <2>1. OneScene /\ PhysicalTruth'
    BY <1>5, PhysicalScene, PhysicalStaysTrue DEF IInv, TruthInv
  <2>2. QED BY <1>1, <1>5, <2>1 DEF TruthInv, OneScene
<1>6. CASE Crash
  <2>1. /\ job # <<>> /\ job' = <<>> /\ crashes < CrashBound /\ crashes' = crashes + 1
        /\ scene' = scene /\ disk' = disk /\ world' = world /\ verdict' = verdict
    BY <1>6 DEF Crash
  <2>2. crashes' \in 0..CrashBound  BY <2>1, CrashAssumption DEF TruthInv
  <2>3. scene \in Integrated!Roots => IntegratedTruth'
    BY <2>1, IntegratedEnds DEF IInv, TruthInv
  <2>4. scene = "topology" => TopologyTruth'
    BY <2>1, TopologyEnds DEF TruthInv
  <2>5. scene = "occupancy" => OccupancyTruth'
    BY <2>1, OccupancyEnds DEF IInv, TruthInv
  <2>6. scene = "physical" => PhysicalTruth'
    BY <2>1, PhysicalEnds DEF IInv, TruthInv
  <2>7. QED BY <2>1, <2>2, <2>3, <2>4, <2>5, <2>6 DEF TruthInv
<1>7. QED BY <1>2, <1>3, <1>4, <1>5, <1>6 DEF Next

LEMMA StutterStaysTrue ==
  ASSUME TruthInv, UNCHANGED storeVars
  PROVE  TruthInv'
<1>1. /\ scene' = scene /\ disk' = disk /\ job' = job /\ world' = world /\ verdict' = verdict /\ crashes' = crashes
  BY DEF storeVars
<1>2. IntegratedTruth => IntegratedTruth'
  <2>1. DidNothing' <=> DidNothing  BY <1>1 DEF DidNothing, Dead
  <2>2. \A p, c : Vouched(p, c)' <=> Vouched(p, c)
    BY <1>1, <2>1 DEF Vouched, LogTold
  <2>3. ExportTruth' <=> ExportTruth
    BY <1>1, <2>2, Zenon DEF ExportTruth, Held, Members, Exporting, Exports, Integrated!Exported
  <2>4. CrewTruth' <=> CrewTruth  BY <1>1, Zenon DEF CrewTruth
  <2>5. Integrated!IntegratedTrue' <=> Integrated!IntegratedTrue
    BY <1>1, Zenon DEF Integrated!IntegratedTrue, Integrated!Exported, Integrated!Final
  <2>6. QED BY <1>1, <2>1, <2>2, <2>3, <2>4, <2>5, Zenon DEF IntegratedTruth
<1>3. TopologyTruth => TopologyTruth'
  <2>1. \A k : SoFar(k)' <=> SoFar(k)  BY <1>1, Zenon DEF SoFar, Told, Proc
  <2>2. Topology!TopologyTrue' <=> Topology!TopologyTrue
    BY <1>1, Zenon DEF Topology!TopologyTrue, Topology!Process
  <2>3. QED BY <1>1, <2>1, <2>2, Zenon DEF TopologyTruth
<1>4. OccupancyTruth => OccupancyTruth'
  BY <1>1 DEF OccupancyTruth, OccupancyWorld, Cached, Gathered
<1>5. PhysicalTruth => PhysicalTruth'
  <2>1. \A n : Composed(n)' = Composed(n)  BY <1>1, Zenon DEF Composed
  <2>2. \A o : Ran(o)' <=> Ran(o)  BY <1>1, Zenon DEF Ran
  <2>3. ComposingTruth' <=> ComposingTruth
    BY <1>1, <2>1, <2>2, Zenon DEF ComposingTruth
  <2>4. PhysicalWorld' <=> PhysicalWorld  BY <1>1 DEF PhysicalWorld
  <2>5. Physical!PhysicalTrue' <=> Physical!PhysicalTrue
    BY <1>1, Zenon DEF Physical!PhysicalTrue, Physical!Released
  <2>6. QED BY <1>1, <2>3, <2>4, <2>5 DEF PhysicalTruth
<1>6. QED BY <1>1, <1>2, <1>3, <1>4, <1>5 DEF TruthInv

\* What the truth of a release rests on is so in every behaviour, for every bound.
THEOREM SpecTruthInv == Spec => []TruthInv
<1>1. IInv /\ TruthInv /\ [Next]_storeVars => TruthInv'
  BY StepsStayTrue, StutterStaysTrue
<1>2. QED BY <1>1, InitTruth, SpecIInv, PTL DEF Spec

\* Each scene has its files, and the steps left are steps.
LEMMA StoreIsTyped == IInv /\ TruthInv => TypeOK
<1> SUFFICES ASSUME IInv, TruthInv PROVE TypeOK  OBVIOUS
<1>1. /\ Integrated!Roots \cap {"topology", "occupancy", "physical"} = {}
      /\ scene \in Integrated!Roots \cup {"topology", "occupancy", "physical"}
  BY DEF IInv, Integrated!Roots
<1>2. /\ scene \in Integrated!Roots => DOMAIN disk = Integrated!Paths /\ Worded(job)
      /\ scene = "occupancy" => DOMAIN disk = Occupancy!Files /\ Worded(job)
      /\ scene = "physical" => DOMAIN disk = Physical!Files /\ Worded(job)
      /\ scene = "topology" => DOMAIN disk = Topology!Places
  BY DEF IInv, TruthInv, IntegratedInv, IntegratedTruth, OccupancyInv, OccupancyTruth, Carries, PhysicalInv, PhysicalTruth,
         ComposingTruth, TopologyInv
<1>3. scene = "topology" => Worded(job)
  <2>1. ASSUME NEW k \in 1..50, Follows(job, k, 51 - k) PROVE Worded(job)
    BY <2>1, FollowsNext
  <2>2. Worded(<<>>)  BY WordedParts
  <2>3. QED BY <2>1, <2>2 DEF TruthInv, TopologyTruth
<1>4. \A i \in DOMAIN job : DOMAIN job[i] = {"do", "path", "content"}
  BY <1>1, <1>2, <1>3 DEF Worded, Items, Words
<1>5. QED BY <1>1, <1>2, <1>4 DEF TypeOK, TruthInv

\* A release that its verifier accepts, or that a command has published, tells what its
\* processes did, for any number of deaths of a command, wherever they fall, and any number
\* of edits (verify_physical_witnesses; acquire; verify_release).
THEOREM SpecReleaseIsTrue == Spec => []ReleaseIsTrue
<1>1. IInv /\ TruthInv => ReleaseIsTrue
  <2> SUFFICES ASSUME IInv, TruthInv PROVE ReleaseIsTrue  OBVIOUS
  <2>1. scene \in Integrated!Roots /\ verdict = "accepted" => Integrated!IntegratedTrue
    BY DEF TruthInv, IntegratedTruth
  <2>2. scene = "topology" /\ disk["release"] # Absent => Topology!TopologyTrue
    BY DEF TruthInv, TopologyTruth
  <2>3. scene = "occupancy" /\ verdict = "accepted" => Occupancy!OccupancyTrue
    BY OccupancyTells DEF TruthInv
  <2>4. scene = "physical" /\ verdict = "accepted" => Physical!PhysicalTrue
    BY DEF TruthInv, PhysicalTruth
  <2>5. QED BY <2>1, <2>2, <2>3, <2>4, StoreIsTyped DEF ReleaseIsTrue
<1>2. QED BY <1>1, SpecIInv, SpecTruthInv, PTL

=============================================================================
