--------------------- MODULE CrossDomainOccupancy_proofs ---------------------
(***************************************************************************)
(* Proofs about the cases of the cross-domain occupancy proof, for any of  *)
(* its cases, any order of the steps of the harness and the processes and  *)
(* any mishaps: a process that has not declared its publication invalid    *)
(* shows what it says it represents; the subject has one body at most;     *)
(* what the harness records of a domain is what the domain shows; evidence *)
(* read through a pipe is of the process it names; at the end of a case    *)
(* nothing it has a handle of is left running; and heads, guard and        *)
(* generations obey the law of OccupancyLaw.                               *)
(*                                                                         *)
(* What the harness asks for and says depends on how far its program has   *)
(* come.  So a view is what it knows at a position of the program, Allowed *)
(* says what an instruction may rely on and After what is known when it is *)
(* done.  ProgramRuns shows that every program runs through the views from *)
(* Beginning to its end; the inductive invariant IInv, that the processes, *)
(* the pipes and the record are as some view has it from which what is     *)
(* left to do runs.                                                        *)
(***************************************************************************)
EXTENDS CrossDomainOccupancy, Integers, FiniteSetTheorems, WellFoundedInduction, SequenceTheorems,
        TLAPS

\* The words of a program.
Words ==
  {"none", "before", "after"}
    \cup {"spawn", "identify", "bind", "resume", "stage", "materialize", "inspect", "arm", "liveness",
          "await", "discard", "compare", "counts", "checkpoint", "evidence", "kill", "wait",
          "terminate", "poll", "guard", "resolve", "publish", "conclude"}
    \cup {"M", "O", "exact", "corrupt", "stdin", "stdout"}
    \cup {"provenance", "bind_receipt", "arm_receipt", "receipt", "candidate", "observation",
          "failure", "liveness_receipt", "changed_start"}
    \cup {"synchronized", "stale", "unbound", "invalid", "protocol_invalid"}
    \cup GuardStates

Instructions == [op : Words, slot : Slots, n : Int, tag : Words, edge : Words]

-----------------------------------------------------------------------------
(* What the harness knows *)

\* Known to it at a position of a program: the guard and the heads, the processes it has
\* open and has a handle of, for each domain the last generation it asked for (sent) and
\* the last it has a receipt of (known), whether it armed a fault that leaves the
\* predecessor whole (early) or not (late), whether that was accepted, whether the domain
\* has reported a failure (dead), and what it has recorded of it (said).
Views ==
  [guarded : BOOLEAN, guard : GuardStates, head : 1..3, published : [{2, 3} -> 0..9],
   open : SUBSET Slots, handles : SUBSET Slots, sent : [Pair -> 0..3], known : [Pair -> 0..3],
   fault : [Pair -> {"none", "early", "accepted", "late"}], dead : SUBSET Pair,
   said : [Pair -> {"nothing", "synchronized", "kept"}]]

Beginning(guarded) ==
  [guarded |-> guarded, guard |-> "open_for_R0", head |-> 1, published |-> [h \in {2, 3} |-> 0],
   open |-> {}, handles |-> {}, sent |-> [s \in Pair |-> 0], known |-> [s \in Pair |-> 0],
   fault |-> [s \in Pair |-> "none"], dead |-> {}, said |-> [s \in Pair |-> "nothing"]]

Done9(v, h) == IF v.published[h] = 9 THEN 1 ELSE 0
Observed(v) == 1 + Done9(v, 2) + Done9(v, 3)

Both(v, g) == \A s \in Pair : v.known[s] = g /\ v.sent[s] = g

\* Nothing it asked for can still be published.
Settled(v) == \A s \in Pair : v.known[s] = v.sent[s] \/ s \in v.dead

MayTurn(v, to) ==
  /\ v.guarded /\ Settled(v)
  /\ \/ to = "closed_for_R0_to_Rtransit" /\ Both(v, 1)
     \/ to = "open_for_Rtransit" /\ Both(v, 1) /\ Observed(v) >= 2
     \/ to = "closed_for_c1_Rtransit_to_Rfinal" /\ Both(v, 1)
     \/ to = "closed_for_Rtransit_to_Rfinal" /\ Both(v, 2)
     \/ to = "open_for_Rfinal" /\ Both(v, 2) /\ Observed(v) >= 3
     \/ to = "failed_closed"

MayAsk(v, s, g) ==
  /\ s \in Pair /\ g \in 1..3 /\ v.sent[s] < g /\ g <= Observed(v)
  /\ v.guarded => v.guard = OpenFor[g]
  /\ s = A /\ g = 3 => v.known[B] >= 2
  /\ v.said[s] # "kept"

MaySay(v, s, g, state) ==
  /\ s \in Pair
  /\ state = "synchronized" =>
       v.guarded /\ g \in 1..3 /\ v.known[s] = g /\ v.sent[s] = g /\ v.fault[s] = "none"
  /\ state \in {"stale", "unbound"} =>
       v.known[s] = g /\ v.sent[s] = g /\ v.fault[s] \in {"none", "accepted"}
  /\ state = "unbound" => g = 0

\* The order the programs keep: what an instruction may rely on, and what is known
\* when it is done.
Allowed(v, i) ==
  CASE i.op = "spawn" -> i.slot \notin v.open
    [] i.op = "resume" -> i.slot \in v.handles
    [] i.op = "materialize" -> MayAsk(v, i.slot, i.n)
    [] i.op = "arm" -> /\ i.slot \in Pair /\ v.fault[i.slot] = "none" /\ v.said[i.slot] = "nothing"
                       /\ i.tag \in {"M", "O"}
    [] i.op = "await" ->
         /\ i.tag = "receipt" => i.slot \in Pair /\ v.fault[i.slot] = "none" /\ v.sent[i.slot] = i.n
         /\ i.tag = "arm_receipt" => i.slot \in Pair
         /\ i.tag = "failure" => i.slot \in Pair \/ i.n = 0
    [] i.op \in {"evidence", "kill"} -> i.slot \in v.open
    [] i.op = "guard" -> MayTurn(v, i.tag)
    [] i.op = "resolve" -> i.n = v.head + 1 /\ i.n <= 3
    [] i.op = "publish" -> i.n \in {2, 3} /\ i.n <= v.head /\ v.published[i.n] < 9
    [] i.op = "conclude" -> MaySay(v, i.slot, i.n, i.tag)
    [] OTHER -> TRUE

Heard(v, i) ==
  CASE i.tag = "receipt" -> [v EXCEPT !.known[i.slot] = i.n]
    [] i.tag = "arm_receipt" -> [v EXCEPT !.fault[i.slot] = IF @ = "early" THEN "accepted" ELSE @]
    [] i.tag = "failure" /\ i.n \notin {0, 99} -> [v EXCEPT !.dead = @ \cup {i.slot}]
    [] OTHER -> v

Saying(state) ==
  CASE state = "synchronized" -> "synchronized" [] state \in {"stale", "unbound"} -> "kept"
    [] OTHER -> "nothing"

After(v, i) ==
  CASE i.op = "spawn" -> [v EXCEPT !.open = @ \cup {i.slot}]
    [] i.op = "identify" -> [v EXCEPT !.handles = @ \cup {i.slot}]
    [] i.op = "terminate" -> [v EXCEPT !.open = @ \ {i.slot}]
    [] i.op = "materialize" ->
         [v EXCEPT !.sent[i.slot] = IF v.fault[i.slot] = "accepted" THEN @ ELSE i.n]
    [] i.op = "arm" -> [v EXCEPT !.fault[i.slot] = IF i.tag = "M" /\ i.n \in 1..16 THEN "early" ELSE "late"]
    [] i.op = "await" -> Heard(v, i)
    [] i.op = "guard" -> [v EXCEPT !.guard = i.tag]
    [] i.op = "resolve" -> [v EXCEPT !.head = i.n]
    [] i.op = "publish" -> [v EXCEPT !.published[i.n] = @ + 1]
    [] i.op = "conclude" -> [v EXCEPT !.said[i.slot] = Saying(i.tag)]
    [] OTHER -> v

\* A program takes one view to another in the order it is written in.
Runs(p, v, w) ==
  /\ p \in Seq(Instructions)
  /\ \E t \in [1 .. Len(p) + 1 -> Views] :
       /\ t[1] = v /\ t[Len(p) + 1] = w
       /\ \A k \in 1 .. Len(p) : Allowed(t[k], p[k]) /\ t[k + 1] = After(t[k], p[k])

-----------------------------------------------------------------------------
(* Programs *)

LEMMA Vocabulary ==
  /\ {"none", "before", "after"} \subseteq Words
  /\ {"spawn", "identify", "bind", "resume", "stage", "materialize", "inspect", "arm", "liveness",
      "await", "discard", "compare", "counts", "checkpoint", "evidence", "kill", "wait",
      "terminate", "poll", "guard", "resolve", "publish", "conclude"} \subseteq Words
  /\ {"M", "O", "exact", "corrupt", "stdin", "stdout"} \subseteq Words
  /\ {"provenance", "bind_receipt", "arm_receipt", "receipt", "candidate", "observation",
      "failure", "liveness_receipt", "changed_start"} \subseteq Words
  /\ {"synchronized", "stale", "unbound", "invalid", "protocol_invalid"} \subseteq Words
  /\ {"open_for_R0", "closed_for_R0_to_Rtransit", "open_for_Rtransit", "closed_for_Rtransit_to_Rfinal",
      "closed_for_c1_Rtransit_to_Rfinal", "open_for_Rfinal", "failed_closed"} \subseteq Words
  BY DEF Words, GuardStates

LEMMA Joined ==
  ASSUME NEW p, NEW q, NEW u, NEW v, NEW w, Runs(p, u, v), Runs(q, v, w)
  PROVE  Runs(p \o q, u, w)
<1> DEFINE n == Len(p)
           m == Len(q)
           r == p \o q
<1>1. /\ p \in Seq(Instructions) /\ q \in Seq(Instructions) /\ n \in Nat /\ m \in Nat
  BY DEF Runs
<1>2. PICK a \in [1 .. n + 1 -> Views] :
        /\ a[1] = u /\ a[n + 1] = v
        /\ \A k \in 1 .. n : Allowed(a[k], p[k]) /\ a[k + 1] = After(a[k], p[k])
  BY DEF Runs
<1>3. PICK b \in [1 .. m + 1 -> Views] :
        /\ b[1] = v /\ b[m + 1] = w
        /\ \A k \in 1 .. m : Allowed(b[k], q[k]) /\ b[k + 1] = After(b[k], q[k])
  BY DEF Runs
<1>4. /\ r \in Seq(Instructions) /\ Len(r) = n + m
      /\ \A k \in 1 .. n : r[k] = p[k]
      /\ \A k \in 1 .. m : r[n + k] = q[k]
  BY <1>1
<1> HIDE DEF n, m, r
<1> DEFINE t == [k \in 1 .. n + m + 1 |-> IF k <= n THEN a[k] ELSE b[k - n]]
<1>5. t \in [1 .. n + m + 1 -> Views] /\ t[n + m + 1] = w
  BY <1>1, <1>2, <1>3
<1>6. \A k \in 1 .. n + 1 : t[k] = a[k]
  BY <1>1, <1>2, <1>3
<1>7. \A k \in 1 .. m + 1 : t[n + k] = b[k]
  BY <1>1, <1>3
<1>8. t[1] = u
  <2>1. 1 \in 1 .. n + 1
    BY <1>1
  <2>2. QED
    BY <1>2, <1>6, <2>1
<1> HIDE DEF t
<1>9. ASSUME NEW k \in 1 .. n + m
      PROVE  Allowed(t[k], r[k]) /\ t[k + 1] = After(t[k], r[k])
  <2>1. CASE k <= n
    <3>1. k \in 1 .. n /\ t[k] = a[k] /\ t[k + 1] = a[k + 1] /\ r[k] = p[k]
      BY <1>1, <1>4, <1>6, <2>1
    <3>2. QED
      BY <1>2, <3>1
  <2>2. CASE ~(k <= n)
    <3>1. PICK j \in 1 .. m : k = n + j
      <4>1. k - n \in 1 .. m /\ k = n + (k - n)
        BY <1>1, <2>2
      <4>2. QED
        BY <4>1
    <3>2. j \in 1 .. m + 1 /\ j + 1 \in 1 .. m + 1 /\ n + (j + 1) = k + 1
      BY <1>1, <3>1
    <3>3. t[k] = b[j] /\ t[k + 1] = b[j + 1] /\ r[k] = q[j]
      BY <1>4, <1>7, <3>1, <3>2
    <3>4. QED
      BY <1>3, <3>3
  <2>3. QED
    BY <2>1, <2>2
<1>10. QED
  BY <1>4, <1>5, <1>8, <1>9 DEF Runs, r

LEMMA Single ==
  ASSUME NEW v \in Views, NEW i \in Instructions, Allowed(v, i), After(v, i) \in Views
  PROVE  Runs(<<i>>, v, After(v, i))
<1> DEFINE t == [k \in 1..2 |-> IF k = 1 THEN v ELSE After(v, i)]
<1>1. <<i>> \in Seq(Instructions) /\ Len(<<i>>) = 1 /\ <<i>>[1] = i
  OBVIOUS
<1>2. t \in [1..2 -> Views] /\ t[1] = v /\ t[2] = After(v, i)
  OBVIOUS
<1> HIDE DEF t
<1>3. QED
  BY <1>1, <1>2 DEF Runs

LEMMA Nothing == ASSUME NEW v \in Views PROVE Runs(<<>>, v, v)
<1> DEFINE t == [k \in 1..1 |-> v]
<1>1. t \in [1..1 -> Views] /\ t[1] = v /\ <<>> \in Seq(Instructions) /\ Len(<<>>) = 0
  OBVIOUS
<1> HIDE DEF t
<1>2. QED
  BY <1>1 DEF Runs

\* One instruction, of each kind.
LEMMA Does ==
  ASSUME NEW v \in Views, NEW op \in Words, NEW s \in Slots, NEW n \in Int, NEW tag \in Words,
         Allowed(v, [op |-> op, slot |-> s, n |-> n, tag |-> tag, edge |-> "none"]),
         NEW w \in Views,
         w = After(v, [op |-> op, slot |-> s, n |-> n, tag |-> tag, edge |-> "none"])
  PROVE  Runs(Ins(op, s, n, tag), v, w)
<1>1. [op |-> op, slot |-> s, n |-> n, tag |-> tag, edge |-> "none"] \in Instructions
  BY Vocabulary DEF Instructions
<1>2. QED
  BY <1>1, Single DEF Ins

\* What leaves the view as it is.
QuietOps == {"bind", "inspect", "liveness", "discard", "compare", "counts", "checkpoint",
             "wait", "poll", "stage"}

LEMMA Quiet ==
  ASSUME NEW v \in Views, NEW s \in Slots, NEW n \in Int, NEW tag \in Words
  PROVE  /\ \A op \in QuietOps : Runs(Ins(op, s, n, tag), v, v)
         /\ tag \notin {"receipt", "arm_receipt", "failure"} => Runs(Ins("await", s, n, tag), v, v)
         /\ n \in {0, 99} /\ (n = 0 \/ s \in Pair) => Runs(Ins("await", s, n, "failure"), v, v)
         /\ s \in v.open => Runs(Ins("evidence", s, n, tag), v, v) /\ Runs(Ins("kill", s, n, tag), v, v)
<1>1. ASSUME NEW op \in QuietOps PROVE Runs(Ins(op, s, n, tag), v, v)
  <2>1. op \in Words
    BY Vocabulary DEF QuietOps
  <2>2. \A i : i.op = op => Allowed(v, i) /\ After(v, i) = v
    BY DEF QuietOps, Allowed, After
  <2>3. QED
    BY <2>1, <2>2, Does
<1>2. ASSUME tag \notin {"receipt", "arm_receipt", "failure"} PROVE Runs(Ins("await", s, n, tag), v, v)
  <2>1. \A i : i.op = "await" /\ i.tag = tag => Allowed(v, i) /\ After(v, i) = v
    BY <1>2 DEF Allowed, After, Heard
  <2>2. QED
    BY <2>1, Does, Vocabulary
<1>3. ASSUME n \in {0, 99}, n = 0 \/ s \in Pair PROVE Runs(Ins("await", s, n, "failure"), v, v)
  <2>1. \A i : i.op = "await" /\ i.tag = "failure" /\ i.n = n /\ i.slot = s
                 => Allowed(v, i) /\ After(v, i) = v
    BY <1>3 DEF Allowed, After, Heard
  <2>2. QED
    BY <2>1, Does, Vocabulary
<1>4. ASSUME s \in v.open PROVE Runs(Ins("evidence", s, n, tag), v, v)
      /\ Runs(Ins("kill", s, n, tag), v, v)
  <2>1. \A i : i.op \in {"evidence", "kill"} /\ i.slot = s => Allowed(v, i) /\ After(v, i) = v
    BY <1>4 DEF Allowed, After
  <2>2. QED
    BY <2>1, Does, Vocabulary
<1>5. QED
  BY <1>1, <1>2, <1>3, <1>4

-----------------------------------------------------------------------------
(* Small programs *)

\* Both domains open and nothing pending: known and sent are k, recorded is q.
At(b, guarding, h, p, k, q) ==
  [guarded |-> b, guard |-> guarding, head |-> h, published |-> p, open |-> Pair,
   handles |-> Pair, sent |-> k, known |-> k, fault |-> [s \in Pair |-> "none"], dead |-> {},
   said |-> q]

Heads == [{2, 3} -> 0..9]
Levels == [Pair -> 0..3]
Sayings == [Pair -> {"nothing", "synchronized", "kept"}]

Heads2(x, y) == [h \in {2, 3} |-> IF h = 2 THEN x ELSE y]
Levels2(x, y) == [s \in Pair |-> IF s = A THEN x ELSE y]
All2(state) == [s \in Pair |-> state]
With(f, s, x) == [f EXCEPT ![s] = x]

\* One generation asked for, its receipt not yet here.
Asking(b, guarding, h, p, l, k, q) ==
  [guarded |-> b, guard |-> guarding, head |-> h, published |-> p, open |-> Pair,
   handles |-> Pair, sent |-> l, known |-> k, fault |-> [s \in Pair |-> "none"], dead |-> {},
   said |-> q]

\* The case has a guard.
Guarding(b) == b = TRUE

LEMMA PairFacts == /\ A \in Pair /\ B \in Pair /\ A # B /\ Pair \subseteq Slots /\ Spare \in Slots
                   /\ Spare \notin Pair /\ \A s \in Pair : s = A \/ s = B
<1>1. A \in Slots /\ B \in Slots /\ Spare \in Slots /\ \A s \in Slots : s = A \/ s = B \/ s = Spare
  BY HarnessAssumption
<1>2. A # B /\ A # Spare /\ B # Spare
  <2>1. ASSUME A = B \/ A = Spare \/ B = Spare PROVE FALSE
    <3>1. \E x, y : Slots = {x, y}
      BY <2>1, HarnessAssumption
    <3>2. \A x, y : Cardinality({x, y}) <= 2
      <4>1. ASSUME NEW x, NEW y PROVE Cardinality({x, y}) <= 2
        <5>1. {x, y} = {x} \cup {y} /\ IsFiniteSet({x}) /\ Cardinality({x}) = 1
          BY FS_Singleton
        <5>2. Cardinality({x} \cup {y}) = IF y \in {x} THEN Cardinality({x}) ELSE Cardinality({x}) + 1
          BY <5>1, FS_AddElement
        <5>3. QED
          BY <5>1, <5>2
      <4>2. QED
        BY <4>1
    <3>3. QED
      BY <3>1, <3>2, HarnessAssumption
  <2>2. QED
    BY <2>1
<1>3. QED
  BY <1>1, <1>2 DEF Pair

LEMMA AtView ==
  ASSUME NEW b \in BOOLEAN, NEW guarding \in GuardStates, NEW h \in 1..3, NEW p \in Heads,
         NEW k \in Levels, NEW q \in Sayings
  PROVE  At(b, guarding, h, p, k, q) \in Views
  BY PairFacts DEF At, Views, Heads, Levels, Sayings

LEMMA Tables ==
  /\ \A x, y \in 0..9 : Heads2(x, y) \in Heads /\ Heads2(x, y)[2] = x /\ Heads2(x, y)[3] = y
  /\ \A x, y \in 0..3 : /\ Levels2(x, y) \in Levels /\ Levels2(x, y)[A] = x /\ Levels2(x, y)[B] = y
  /\ \A x, y, z \in 0..3 : /\ With(Levels2(x, y), A, z) = Levels2(z, y)
                           /\ With(Levels2(x, y), B, z) = Levels2(x, z)
  /\ \A x, y, z \in 0..9 : /\ With(Heads2(x, y), 2, z) = Heads2(z, y)
                           /\ With(Heads2(x, y), 3, z) = Heads2(x, z)
  /\ \A state \in {"nothing", "synchronized", "kept"} : All2(state) \in Sayings
<1>1. \A x, y \in 0..9 : Heads2(x, y) \in Heads /\ Heads2(x, y)[2] = x /\ Heads2(x, y)[3] = y
  BY DEF Heads2, Heads
<1>2. \A x, y \in 0..3 : /\ Levels2(x, y) \in Levels /\ Levels2(x, y)[A] = x /\ Levels2(x, y)[B] = y
  BY PairFacts DEF Levels2, Levels
<1>3. \A x, y, z \in 0..3 : /\ With(Levels2(x, y), A, z) = Levels2(z, y)
                            /\ With(Levels2(x, y), B, z) = Levels2(x, z)
  BY PairFacts DEF Levels2, With
<1>4. \A x, y, z \in 0..9 : /\ With(Heads2(x, y), 2, z) = Heads2(z, y)
                            /\ With(Heads2(x, y), 3, z) = Heads2(x, z)
  <2> TAKE x, y, z \in 0..9
  <2>1. With(Heads2(x, y), 2, z) = Heads2(z, y)
    BY DEF Heads2, With
  <2>2. With(Heads2(x, y), 3, z) = Heads2(x, z)
    <3>1. \A h \in {2, 3} : [Heads2(x, y) EXCEPT ![3] = z][h] = Heads2(x, z)[h]
      BY DEF Heads2
    <3>2. QED
      BY <3>1 DEF Heads2, With
  <2>3. QED
    BY <2>1, <2>2
<1>5. \A state \in {"nothing", "synchronized", "kept"} : All2(state) \in Sayings
  BY DEF All2, Sayings
<1>6. QED
  BY <1>1, <1>2, <1>3, <1>4, <1>5

\* Launched and with its handle.
Opened(v, s) == [[v EXCEPT !.open = @ \cup {s}] EXCEPT !.handles = @ \cup {s}]

LEMMA LaunchRuns ==
  ASSUME NEW v \in Views, NEW s \in Slots, s \notin v.open, NEW n \in Int
  PROVE  Runs(Launch(s, n), v, Opened(v, s))
<1> DEFINE x == [v EXCEPT !.open = @ \cup {s}]
           y == Opened(v, s)
<1>1. x \in Views /\ y \in Views /\ s \in y.handles /\ y = [x EXCEPT !.handles = @ \cup {s}]
  BY DEF Views, Opened
<1> DEFINE i(op) == [op |-> op, slot |-> s, n |-> 0, tag |-> "none", edge |-> "none"]
<1>2. Runs(Ins("spawn", s, 0, "none"), v, x)
  <2>1. Allowed(v, i("spawn")) /\ After(v, i("spawn")) = x
    BY DEF Allowed, After
  <2>2. QED
    BY <1>1, <2>1, Does, Vocabulary
<1> HIDE DEF x, y
<1>3. Runs(Ins("identify", s, 0, "none"), x, y)
  <2>1. Allowed(x, i("identify")) /\ After(x, i("identify")) = y
    BY <1>1 DEF Allowed, After
  <2>2. QED
    BY <1>1, <2>1, Does, Vocabulary
<1>4. Runs(Ins("bind", s, n, "none"), y, y)
  BY <1>1, Quiet, Vocabulary DEF QuietOps
<1>5. Runs(Ins("resume", s, 0, "none"), y, y)
  <2>1. Allowed(y, i("resume")) /\ After(y, i("resume")) = y
    BY <1>1 DEF Allowed, After
  <2>2. QED
    BY <1>1, <2>1, Does, Vocabulary
<1>6. QED
  BY <1>1, <1>2, <1>3, <1>4, <1>5, Joined DEF Launch, y

LEMMA QuietPieces ==
  ASSUME NEW v \in Views, NEW s \in Slots, NEW n \in Int
  PROVE  /\ Runs(Finish(s), v, v) /\ Runs(Inspect(s), v, v) /\ Runs(InspectBoth, v, v)
         /\ Runs(Checkpoint, v, v) /\ Runs(Compare(s, n), v, v)
         /\ s \in v.open => Runs(Evidence(s), v, v)
         /\ Pair \subseteq v.open => Runs(EvidencePair, v, v)
<1>1. \A r \in Slots : Runs(Finish(r), v, v)
  BY Quiet, Vocabulary, Joined DEF Finish
<1>2. \A r \in Slots : Runs(Inspect(r), v, v)
  <2>1. \A r \in Slots : Runs(Ins("inspect", r, 0, "none"), v, v)
        /\ Runs(Ins("await", r, 0, "observation"), v, v)
    BY Quiet, Vocabulary DEF QuietOps
  <2>2. QED
    BY <2>1, Joined DEF Inspect
<1>3. Runs(InspectBoth, v, v)
  BY <1>2, PairFacts, Joined DEF InspectBoth
<1>4. Runs(Checkpoint, v, v) /\ Runs(Compare(s, n), v, v)
  BY PairFacts, Quiet, Vocabulary DEF QuietOps, Checkpoint, Compare
<1>5. \A r \in Slots : r \in v.open => Runs(Evidence(r), v, v)
  BY Quiet, Vocabulary DEF Evidence
<1>6. Pair \subseteq v.open => Runs(EvidencePair, v, v)
  BY <1>5, PairFacts, Joined DEF EvidencePair
<1>7. QED
  BY <1>1, <1>2, <1>3, <1>4, <1>5, <1>6

\* A materialization asked for and its receipt.
LEMMA MaterializeRuns ==
  ASSUME NEW b \in BOOLEAN, NEW guarding \in GuardStates, NEW h \in 1..3, NEW p \in Heads,
         NEW k \in Levels, NEW q \in Sayings, NEW s \in Pair, NEW g \in 1..3,
         MayAsk(At(b, guarding, h, p, k, q), s, g)
  PROVE  Runs(Materialize(s, g), At(b, guarding, h, p, k, q),
              At(b, guarding, h, p, [k EXCEPT ![s] = g], q))
<1> DEFINE v == At(b, guarding, h, p, k, q)
           l == [k EXCEPT ![s] = g]
           x == [v EXCEPT !.sent = l]
           w == At(b, guarding, h, p, l, q)
<1>1. v \in Views /\ l \in Levels /\ w \in Views /\ s \in Slots
  <2>1. l \in Levels /\ s \in Slots
    BY PairFacts DEF Levels
  <2> HIDE DEF l
  <2>2. QED
    BY <2>1, AtView
<1>2. x \in Views /\ v.sent = k /\ v.fault[s] = "none"
  BY <1>1 DEF At, Views, Levels
<1>3. x.sent[s] = g /\ x.fault[s] = "none" /\ x.known = k
  BY <1>1 DEF At, Levels
<1>4. [v EXCEPT !.sent[s] = g] = x
  BY <1>2
<1>5. [x EXCEPT !.known[s] = g] = w
  <2>1. x.known = k /\ [x EXCEPT !.known[s] = g] = [x EXCEPT !.known = l]
    BY DEF At
  <2>2. x = Asking(b, guarding, h, p, l, k, q)
    BY DEF At, Asking
  <2>3. \A m : [Asking(b, guarding, h, p, m, k, q) EXCEPT !.known = m] = At(b, guarding, h, p, m, q)
    BY DEF At, Asking
  <2>4. QED
    BY <2>1, <2>2, <2>3
<1> HIDE DEF v, l, x, w
<1>6. Runs(Ins("stage", s, g, "exact"), v, v)
  BY <1>1, Quiet, Vocabulary DEF QuietOps
<1>7. Runs(Ins("materialize", s, g, "none"), v, x)
  <2> DEFINE i == [op |-> "materialize", slot |-> s, n |-> g, tag |-> "none", edge |-> "none"]
  <2>1. Allowed(v, i)
    BY DEF Allowed, v
  <2>2. After(v, i) = x
    BY <1>2, <1>4 DEF After
  <2>3. QED
    BY <1>1, <1>2, <2>1, <2>2, Does, Vocabulary
<1>8. Runs(Ins("await", s, g, "receipt"), x, w)
  <2> DEFINE i == [op |-> "await", slot |-> s, n |-> g, tag |-> "receipt", edge |-> "none"]
  <2>1. Allowed(x, i)
    BY <1>3 DEF Allowed
  <2>2. After(x, i) = w
    BY <1>5 DEF After, Heard
  <2>3. QED
    BY <1>1, <1>2, <2>1, <2>2, Does, Vocabulary
<1>9. QED
  BY <1>6, <1>7, <1>8, Joined DEF Materialize, Stage, v, w, l

LEMMA AcceptRuns ==
  ASSUME NEW b \in BOOLEAN, Guarding(b), NEW guarding \in GuardStates, NEW h \in 1..3, NEW p \in Heads,
         NEW k \in Levels, NEW q \in Sayings, NEW s \in Pair, NEW g \in 1..3, k[s] = g
  PROVE  Runs(Accept(s, g), At(b, guarding, h, p, k, q),
              At(b, guarding, h, p, k, [q EXCEPT ![s] = "synchronized"]))
<1> DEFINE v == At(b, guarding, h, p, k, q)
           w == At(b, guarding, h, p, k, [q EXCEPT ![s] = "synchronized"])
           i == [op |-> "conclude", slot |-> s, n |-> g, tag |-> "synchronized", edge |-> "none"]
<1>1. v \in Views /\ w \in Views /\ s \in Slots
  BY AtView, PairFacts DEF Sayings
<1>2. Allowed(v, i)
  BY DEF Allowed, MaySay, At, Guarding
<1>3. After(v, i) = w
  BY DEF After, Saying, At
<1> HIDE DEF v, w
<1>4. Runs(Compare(s, g), v, v)
  BY <1>1, QuietPieces
<1>5. Runs(Conclude(s, g, "synchronized"), v, w)
  BY <1>1, <1>2, <1>3, Does, Vocabulary DEF Conclude
<1>6. QED
  BY <1>4, <1>5, Joined DEF Accept, Conclude, v, w

LEMMA GuardRuns ==
  ASSUME NEW v \in Views, NEW to \in GuardStates, MayTurn(v, to)
  PROVE  Runs(Guard(to), v, [v EXCEPT !.guard = to])
<1>1. [v EXCEPT !.guard = to] \in Views
  BY DEF Views
<1>2. A \in Slots /\ to \in Words /\ "guard" \in Words /\ 0 \in Int
  BY PairFacts, Vocabulary DEF Words
<1>3. QED
  BY <1>1, <1>2, Does DEF Guard, Allowed, After

LEMMA ResolveRuns ==
  ASSUME NEW v \in Views, NEW h \in {2, 3}, v.head = h - 1
  PROVE  Runs(Resolve(h), v, [v EXCEPT !.head = h])
<1>1. [v EXCEPT !.head = h] \in Views
  BY DEF Views
<1> DEFINE i == [op |-> "resolve", slot |-> A, n |-> h, tag |-> "none", edge |-> "none"]
<1>2. Allowed(v, i) /\ After(v, i) = [v EXCEPT !.head = h]
  BY DEF Allowed, After
<1>3. QED
  BY <1>1, <1>2, Does, PairFacts, Vocabulary DEF Resolve

\* n stages of the publication of a head done.
HeadAt(v, h, n) == [v EXCEPT !.published[h] = n]

LEMMA PublishRuns ==
  ASSUME NEW v \in Views, NEW h \in {2, 3}, h <= v.head, v.published[h] = 0, NEW n \in 1..9
  PROVE  Runs(Publish(h, n), v, HeadAt(v, h, n))
<1> DEFINE i == [op |-> "publish", slot |-> A, n |-> h, tag |-> "none", edge |-> "none"]
           x(j) == [v EXCEPT !.published[h] = j]
           t == [j \in 1 .. n + 1 |-> x(j - 1)]
<1>1. \A j \in 0..9 : x(j) \in Views /\ x(j).published[h] = j /\ x(j).head = v.head
  BY DEF Views
<1>2. x(0) = v
  BY DEF Views
<1>3. ASSUME NEW j \in 0..8 PROVE Allowed(x(j), i) /\ After(x(j), i) = x(j + 1)
  <2>1. Allowed(x(j), i)
    BY <1>1 DEF Allowed
  <2>2. After(x(j), i) = [x(j) EXCEPT !.published[h] = @ + 1]
    BY DEF After
  <2>3. [x(j) EXCEPT !.published[h] = @ + 1] = x(j + 1)
    BY DEF Views
  <2>4. QED
    BY <2>1, <2>2, <2>3
<1>4. i \in Instructions
  BY PairFacts, Vocabulary DEF Instructions
<1> HIDE DEF x, i
<1>5. t \in [1 .. n + 1 -> Views] /\ t[1] = v /\ t[n + 1] = x(n)
  <2>1. \A j \in 1 .. n + 1 : j - 1 \in 0..9
    OBVIOUS
  <2>2. 1 - 1 = 0 /\ n + 1 - 1 = n
    OBVIOUS
  <2>3. \A j \in 1 .. n + 1 : t[j] = x(j - 1) /\ x(j - 1) \in Views
    BY <1>1, <2>1
  <2>4. 1 \in 1 .. n + 1 /\ n + 1 \in 1 .. n + 1
    OBVIOUS
  <2>5. t[1] = x(1 - 1) /\ t[n + 1] = x(n + 1 - 1)
    BY <2>3, <2>4
  <2>6. t \in [1 .. n + 1 -> Views]
    BY <2>3
  <2>7. QED
    BY <1>2, <2>2, <2>5, <2>6
<1>6. \A j \in 1 .. n : t[j] = x(j - 1) /\ t[j + 1] = x(j) /\ j - 1 \in 0..8 /\ (j - 1) + 1 = j
  <2>1. \A j \in 1 .. n : j + 1 - 1 = j
    OBVIOUS
  <2>2. QED
    BY <2>1
<1>7. Publish(h, n) = [j \in 1 .. n |-> i]
  BY DEF Publish, i
<1>8. Publish(h, n) \in Seq(Instructions) /\ Len(Publish(h, n)) = n
  BY <1>4, <1>7
<1> HIDE DEF t
<1>9. \A j \in 1 .. n : Allowed(t[j], i) /\ t[j + 1] = After(t[j], i)
  BY <1>3, <1>6
<1>10. \A j \in 1 .. n : Publish(h, n)[j] = i
  BY <1>7
<1>11. Runs(Publish(h, n), v, x(n))
  BY <1>5, <1>8, <1>9, <1>10 DEF Runs
<1>12. QED
  BY <1>11 DEF x, HeadAt

-----------------------------------------------------------------------------
(* The positions the cases pass through *)

\* The positions the cases pass through: x and y stages of the two publications done, the
\* domains at k and m.
Place(b, g, h, x, y, k, m, q) == At(b, g, h, Heads2(x, y), Levels2(k, m), q)

\* Nothing recorded yet that keeps a domain from advancing.
Plain == [Pair -> {"nothing", "synchronized"}]

HeadsSeen(x, y) == 1 + (IF x = 9 THEN 1 ELSE 0) + (IF y = 9 THEN 1 ELSE 0)

IsPlace(b, g, h, x, y, k, m, q) ==
  /\ b \in BOOLEAN /\ g \in GuardStates /\ h \in 1..3 /\ x \in 0..9 /\ y \in 0..9
  /\ k \in 0..3 /\ m \in 0..3 /\ q \in Sayings

LEMMA PlaceFields ==
  ASSUME NEW b, NEW g, NEW h, NEW x, NEW y, NEW k, NEW m, NEW q
  PROVE  LET v == Place(b, g, h, x, y, k, m, q) IN
         /\ v.guarded = b /\ v.guard = g /\ v.head = h /\ v.open = Pair /\ v.handles = Pair
         /\ v.published = Heads2(x, y) /\ v.sent = Levels2(k, m) /\ v.known = Levels2(k, m)
         /\ v.fault = All2("none") /\ v.dead = {} /\ v.said = q
  BY DEF Place, At, All2

LEMMA PlaceView ==
  ASSUME NEW b, NEW g, NEW h, NEW x, NEW y, NEW k, NEW m, NEW q, IsPlace(b, g, h, x, y, k, m, q)
  PROVE  Place(b, g, h, x, y, k, m, q) \in Views
<1> USE DEF IsPlace
<1>1. Heads2(x, y) \in Heads /\ Levels2(k, m) \in Levels
  BY Tables
<1>2. QED
  BY <1>1, AtView DEF Place

\* What moves a place on: the guard, the head and its publication.
LEMMA Turns ==
  ASSUME NEW b, NEW g, NEW h, NEW x, NEW y, NEW k, NEW m, NEW q, IsPlace(b, g, h, x, y, k, m, q),
         NEW to \in GuardStates, MayTurn(Place(b, g, h, x, y, k, m, q), to)
  PROVE  Runs(Guard(to), Place(b, g, h, x, y, k, m, q), Place(b, to, h, x, y, k, m, q))
<1> USE DEF IsPlace
<1> DEFINE v == Place(b, g, h, x, y, k, m, q)
<1>1. [v EXCEPT !.guard = to] = Place(b, to, h, x, y, k, m, q)
  BY DEF Place, At
<1>2. v \in Views
  BY PlaceView
<1> HIDE DEF v
<1>3. QED
  BY <1>1, <1>2, GuardRuns DEF v

LEMMA Resolves ==
  ASSUME NEW b, NEW g, NEW h, NEW x, NEW y, NEW k, NEW m, NEW q, IsPlace(b, g, h, x, y, k, m, q),
         NEW i, IsPlace(b, g, i, x, y, k, m, q), h + 1 = i
  PROVE  Runs(Resolve(i), Place(b, g, h, x, y, k, m, q), Place(b, g, i, x, y, k, m, q))
<1> USE DEF IsPlace
<1> DEFINE v == Place(b, g, h, x, y, k, m, q)
<1>1. [v EXCEPT !.head = i] = Place(b, g, i, x, y, k, m, q)
  BY DEF Place, At
<1>2. v \in Views
  BY PlaceView
<1>3. v.head = i - 1 /\ i \in {2, 3}
  BY PlaceFields
<1> HIDE DEF v
<1>4. Runs(Resolve(i), v, [v EXCEPT !.head = i])
  BY <1>2, <1>3, ResolveRuns
<1>5. QED
  BY <1>1, <1>4 DEF v

LEMMA ResolvesTransit ==
  ASSUME NEW b, NEW g, NEW x, NEW y, NEW k, NEW m, NEW q, IsPlace(b, g, 1, x, y, k, m, q)
  PROVE  Runs(Resolve(2), Place(b, g, 1, x, y, k, m, q), Place(b, g, 2, x, y, k, m, q))
<1>1. IsPlace(b, g, 2, x, y, k, m, q) /\ 1 + 1 = 2
  BY DEF IsPlace
<1>2. QED
  BY <1>1, Resolves

LEMMA ResolvesFinal ==
  ASSUME NEW b, NEW g, NEW x, NEW y, NEW k, NEW m, NEW q, IsPlace(b, g, 2, x, y, k, m, q)
  PROVE  Runs(Resolve(3), Place(b, g, 2, x, y, k, m, q), Place(b, g, 3, x, y, k, m, q))
<1>1. IsPlace(b, g, 3, x, y, k, m, q) /\ 2 + 1 = 3
  BY DEF IsPlace
<1>2. QED
  BY <1>1, Resolves

LEMMA PublishesTransit ==
  ASSUME NEW b, NEW g, NEW y, NEW k, NEW m, NEW q, NEW n, n # 0,
         IsPlace(b, g, 2, 0, y, k, m, q), IsPlace(b, g, 2, n, y, k, m, q)
  PROVE  Runs(Publish(2, n), Place(b, g, 2, 0, y, k, m, q), Place(b, g, 2, n, y, k, m, q))
<1> USE DEF IsPlace
<1> DEFINE v == Place(b, g, 2, 0, y, k, m, q)
<1>1. v \in Views
  BY PlaceView
<1>2. v.head = 2 /\ v.published = Heads2(0, y)
  BY PlaceFields
<1>3. Heads2(0, y)[2] = 0 /\ With(Heads2(0, y), 2, n) = Heads2(n, y)
  BY Tables
<1>4. /\ [v EXCEPT !.published[2] = n] = [v EXCEPT !.published = [v.published EXCEPT ![2] = n]]
      /\ [v EXCEPT !.published = Heads2(n, y)] = Place(b, g, 2, n, y, k, m, q)
  BY DEF Place, At
<1> HIDE DEF v
<1>5. Runs(Publish(2, n), v, HeadAt(v, 2, n))
  BY <1>1, <1>2, <1>3, PublishRuns
<1>6. HeadAt(v, 2, n) = Place(b, g, 2, n, y, k, m, q)
  BY <1>2, <1>3, <1>4 DEF HeadAt, With
<1>7. QED
  BY <1>5, <1>6 DEF v

LEMMA PublishesFinal ==
  ASSUME NEW b, NEW g, NEW x, NEW k, NEW m, NEW q, NEW n, n # 0,
         IsPlace(b, g, 3, x, 0, k, m, q), IsPlace(b, g, 3, x, n, k, m, q)
  PROVE  Runs(Publish(3, n), Place(b, g, 3, x, 0, k, m, q), Place(b, g, 3, x, n, k, m, q))
<1> USE DEF IsPlace
<1> DEFINE v == Place(b, g, 3, x, 0, k, m, q)
<1>1. v \in Views
  BY PlaceView
<1>2. v.head = 3 /\ v.published = Heads2(x, 0)
  BY PlaceFields
<1>3. Heads2(x, 0)[3] = 0 /\ With(Heads2(x, 0), 3, n) = Heads2(x, n)
  BY Tables
<1>4. /\ [v EXCEPT !.published[3] = n] = [v EXCEPT !.published = [v.published EXCEPT ![3] = n]]
      /\ [v EXCEPT !.published = Heads2(x, n)] = Place(b, g, 3, x, n, k, m, q)
  BY DEF Place, At
<1> HIDE DEF v
<1>5. Runs(Publish(3, n), v, HeadAt(v, 3, n))
  BY <1>1, <1>2, <1>3, PublishRuns
<1>6. HeadAt(v, 3, n) = Place(b, g, 3, x, n, k, m, q)
  BY <1>2, <1>3, <1>4 DEF HeadAt, With
<1>7. QED
  BY <1>5, <1>6 DEF v

\* What is asked of a domain.
AsksA(b, g, x, y, k, m, q, n) ==
  /\ q \in Plain /\ n \in 1..3 /\ n <= HeadsSeen(x, y) /\ (b => g = OpenFor[n])
  /\ k < n /\ (n = 3 => m >= 2)
AsksB(b, g, x, y, k, m, q, n) ==
  q \in Plain /\ n \in 1..3 /\ n <= HeadsSeen(x, y) /\ (b => g = OpenFor[n]) /\ m < n

LEMMA MayAskA ==
  ASSUME NEW b, NEW g, NEW h, NEW x, NEW y, NEW k, NEW m, NEW q, IsPlace(b, g, h, x, y, k, m, q),
         NEW n, AsksA(b, g, x, y, k, m, q, n)
  PROVE  MayAsk(Place(b, g, h, x, y, k, m, q), A, n)
<1> USE DEF IsPlace, AsksA
<1> DEFINE v == Place(b, g, h, x, y, k, m, q)
<1>1. \A s \in Pair : q[s] # "kept"
  BY DEF Plain
<1>2. v.guarded = b /\ v.guard = g /\ v.said = q /\ v.sent = Levels2(k, m) /\ v.known = Levels2(k, m)
  BY PlaceFields
<1>3. /\ Heads2(x, y) \in Heads /\ Heads2(x, y)[2] = x /\ Heads2(x, y)[3] = y
      /\ Levels2(k, m) \in Levels /\ Levels2(k, m)[A] = k /\ Levels2(k, m)[B] = m
      /\ With(Levels2(k, m), A, n) = Levels2(n, m)
  BY Tables
<1>4. Observed(v) = HeadsSeen(x, y)
  <2>1. v.published = Heads2(x, y)
    BY PlaceFields
  <2> HIDE DEF v
  <2>2. QED
    BY <1>3, <2>1 DEF Observed, HeadsSeen, Done9
<1> HIDE DEF v
<1>5. QED
  BY <1>1, <1>2, <1>3, <1>4, PairFacts DEF MayAsk, v

LEMMA AskedA ==
  ASSUME NEW b, NEW g, NEW h, NEW x, NEW y, NEW k, NEW m, NEW q, IsPlace(b, g, h, x, y, k, m, q),
         NEW n, AsksA(b, g, x, y, k, m, q, n)
  PROVE  Runs(Materialize(A, n), Place(b, g, h, x, y, k, m, q), Place(b, g, h, x, y, n, m, q))
<1> USE DEF IsPlace, AsksA
<1> DEFINE v == Place(b, g, h, x, y, k, m, q)
<1>1. /\ Heads2(x, y) \in Heads /\ Levels2(k, m) \in Levels
      /\ With(Levels2(k, m), A, n) = Levels2(n, m)
  BY Tables
<1>2. v = At(b, g, h, Heads2(x, y), Levels2(k, m), q)
  BY DEF Place
<1>3. MayAsk(v, A, n)
  BY MayAskA
<1> HIDE DEF v
<1>4. Runs(Materialize(A, n), v, At(b, g, h, Heads2(x, y), With(Levels2(k, m), A, n), q))
  BY <1>1, <1>2, <1>3, PairFacts, MaterializeRuns DEF With
<1>5. QED
  BY <1>1, <1>4 DEF Place, v

LEMMA MayAskB ==
  ASSUME NEW b, NEW g, NEW h, NEW x, NEW y, NEW k, NEW m, NEW q, IsPlace(b, g, h, x, y, k, m, q),
         NEW n, AsksB(b, g, x, y, k, m, q, n)
  PROVE  MayAsk(Place(b, g, h, x, y, k, m, q), B, n)
<1> USE DEF IsPlace, AsksB
<1> DEFINE v == Place(b, g, h, x, y, k, m, q)
<1>1. \A s \in Pair : q[s] # "kept"
  BY DEF Plain
<1>2. v.guarded = b /\ v.guard = g /\ v.said = q /\ v.sent = Levels2(k, m) /\ v.known = Levels2(k, m)
  BY PlaceFields
<1>3. /\ Heads2(x, y) \in Heads /\ Heads2(x, y)[2] = x /\ Heads2(x, y)[3] = y
      /\ Levels2(k, m) \in Levels /\ Levels2(k, m)[A] = k /\ Levels2(k, m)[B] = m
      /\ With(Levels2(k, m), B, n) = Levels2(k, n)
  BY Tables
<1>4. Observed(v) = HeadsSeen(x, y)
  <2>1. v.published = Heads2(x, y)
    BY PlaceFields
  <2> HIDE DEF v
  <2>2. QED
    BY <1>3, <2>1 DEF Observed, HeadsSeen, Done9
<1> HIDE DEF v
<1>5. QED
  BY <1>1, <1>2, <1>3, <1>4, PairFacts DEF MayAsk, v

LEMMA AskedB ==
  ASSUME NEW b, NEW g, NEW h, NEW x, NEW y, NEW k, NEW m, NEW q, IsPlace(b, g, h, x, y, k, m, q),
         NEW n, AsksB(b, g, x, y, k, m, q, n)
  PROVE  Runs(Materialize(B, n), Place(b, g, h, x, y, k, m, q), Place(b, g, h, x, y, k, n, q))
<1> USE DEF IsPlace, AsksB
<1> DEFINE v == Place(b, g, h, x, y, k, m, q)
<1>1. /\ Heads2(x, y) \in Heads /\ Levels2(k, m) \in Levels
      /\ With(Levels2(k, m), B, n) = Levels2(k, n)
  BY Tables
<1>2. v = At(b, g, h, Heads2(x, y), Levels2(k, m), q)
  BY DEF Place
<1>3. MayAsk(v, B, n)
  BY MayAskB
<1> HIDE DEF v
<1>4. Runs(Materialize(B, n), v, At(b, g, h, Heads2(x, y), With(Levels2(k, m), B, n), q))
  BY <1>1, <1>2, <1>3, PairFacts, MaterializeRuns DEF With
<1>5. QED
  BY <1>1, <1>4 DEF Place, v

LEMMA KeptBoth ==
  ASSUME NEW b, NEW g, NEW h, NEW x, NEW y, NEW k, NEW m, NEW q, IsPlace(b, g, h, x, y, k, m, q)
  PROVE  LET v == Place(b, g, h, x, y, k, m, q) IN
         /\ Runs(InspectBoth, v, v) /\ Runs(Checkpoint, v, v) /\ Runs(EvidencePair, v, v)
         /\ Runs(<<>>, v, v)
<1> USE DEF IsPlace
<1> DEFINE v == Place(b, g, h, x, y, k, m, q)
<1>1. v \in Views
  BY PlaceView
<1>2. v.open = Pair
  BY PlaceFields
<1> HIDE DEF v
<1>3. QED
  BY <1>1, <1>2, QuietPieces, Nothing, PairFacts DEF v

LEMMA KeptOne ==
  ASSUME NEW b, NEW g, NEW h, NEW x, NEW y, NEW k, NEW m, NEW q,
         IsPlace(b, g, h, x, y, k, m, q), NEW s \in Pair
  PROVE  LET v == Place(b, g, h, x, y, k, m, q) IN
         Runs(Inspect(s), v, v) /\ Runs(Finish(s), v, v) /\ Runs(Evidence(s), v, v)
<1> USE DEF IsPlace
<1> DEFINE v == Place(b, g, h, x, y, k, m, q)
<1>1. v \in Views
  BY PlaceView
<1>2. v.open = Pair
  BY PlaceFields
<1> HIDE DEF v
<1>3. QED
  BY <1>1, <1>2, QuietPieces, Nothing, PairFacts DEF v

LEMMA KeptCompare ==
  ASSUME NEW b, NEW g, NEW h, NEW x, NEW y, NEW k, NEW m, NEW q,
         IsPlace(b, g, h, x, y, k, m, q), NEW s \in Pair, NEW n \in Int
  PROVE  LET v == Place(b, g, h, x, y, k, m, q) IN
         Runs(Compare(s, n), v, v)
<1> USE DEF IsPlace
<1> DEFINE v == Place(b, g, h, x, y, k, m, q)
<1>1. v \in Views
  BY PlaceView
<1>2. v.open = Pair
  BY PlaceFields
<1> HIDE DEF v
<1>3. QED
  BY <1>1, <1>2, QuietPieces, Nothing, PairFacts DEF v

LEMMA LaunchPairRuns ==
  ASSUME NEW b \in BOOLEAN
  PROVE  Runs(LaunchPair, Beginning(b),
              At(b, "open_for_R0", 1, Heads2(0, 0), Levels2(0, 0), All2("nothing")))
<1> DEFINE X(o, h) ==
      [guarded |-> b, guard |-> "open_for_R0", head |-> 1,
       published |-> [d \in {2, 3} |-> 0], open |-> o, handles |-> h,
       sent |-> [s \in Pair |-> 0], known |-> [s \in Pair |-> 0],
       fault |-> [s \in Pair |-> "none"], dead |-> {}, said |-> [s \in Pair |-> "nothing"]]
<1>1. ASSUME NEW o \in SUBSET Slots PROVE X(o, o) \in Views /\ X(o, o).open = o
  BY <1>1 DEF Views, GuardStates
<1>2. X({}, {}) = Beginning(b)
  BY DEF Beginning
<1>3. X(Pair, Pair) = At(b, "open_for_R0", 1, Heads2(0, 0), Levels2(0, 0), All2("nothing"))
  <2>1. /\ [h \in {2, 3} |-> 0] = Heads2(0, 0) /\ [s \in Pair |-> 0] = Levels2(0, 0)
        /\ [s \in Pair |-> "nothing"] = All2("nothing")
    BY DEF Heads2, Levels2, All2
  <2>2. QED
    BY <2>1 DEF At
<1>4. ASSUME NEW o, NEW s PROVE Opened(X(o, o), s) = X(o \cup {s}, o \cup {s})
  <2>1. [X(o, o) EXCEPT !.open = @ \cup {s}] = X(o \cup {s}, o)
    OBVIOUS
  <2>2. [X(o \cup {s}, o) EXCEPT !.handles = @ \cup {s}] = X(o \cup {s}, o \cup {s})
    OBVIOUS
  <2> HIDE DEF X
  <2>3. QED
    BY <2>1, <2>2 DEF Opened
<1> HIDE DEF X
<1>5. ASSUME NEW o \in SUBSET Slots, NEW s \in Slots, s \notin o
      PROVE  Runs(Launch(s, 1), X(o, o), X(o \cup {s}, o \cup {s}))
  <2>1. X(o, o) \in Views /\ s \notin X(o, o).open
    BY <1>1, <1>5
  <2>2. Runs(Launch(s, 1), X(o, o), Opened(X(o, o), s))
    BY <2>1, LaunchRuns
  <2>3. QED
    BY <1>4, <2>2
<1>6. Runs(Launch(A, 1), X({}, {}), X({A}, {A})) /\ Runs(Launch(B, 1), X({A}, {A}), X(Pair, Pair))
  <2>1. {} \cup {A} = {A} /\ {A} \cup {B} = Pair /\ A \in Slots /\ B \in Slots /\ B \notin {A}
    BY PairFacts DEF Pair
  <2>2. {} \in SUBSET Slots /\ {A} \in SUBSET Slots
    BY <2>1
  <2>3. Runs(Launch(A, 1), X({}, {}), X({} \cup {A}, {} \cup {A}))
    BY <1>5, <2>1, <2>2
  <2>4. Runs(Launch(B, 1), X({A}, {A}), X({A} \cup {B}, {A} \cup {B}))
    BY <1>5, <2>1, <2>2
  <2>5. QED
    BY <2>1, <2>3, <2>4
<1>7. Runs(Finish(A), X(Pair, Pair), X(Pair, Pair)) /\ Runs(Finish(B), X(Pair, Pair), X(Pair, Pair))
  <2>1. X(Pair, Pair) \in Views
    BY <1>1, PairFacts
  <2>2. QED
    BY <2>1, PairFacts, QuietPieces
<1>8. QED
  BY <1>2, <1>3, <1>6, <1>7, Joined DEF LaunchPair

-----------------------------------------------------------------------------
(* The stages of the witness *)

\* The turns of the guard.
LEMMA Turned ==
  ASSUME NEW b \in BOOLEAN, Guarding(b), NEW g, NEW h, NEW x, NEW y, NEW k, NEW m, NEW q,
         IsPlace(b, g, h, x, y, k, m, q),
         NEW to \in GuardStates,
         \/ to = "failed_closed"
         \/ k = 1 /\ m = 1 /\ to \in {"closed_for_R0_to_Rtransit", "closed_for_c1_Rtransit_to_Rfinal"}
         \/ k = 1 /\ m = 1 /\ x = 9 /\ to = "open_for_Rtransit"
         \/ k = 2 /\ m = 2 /\ to = "closed_for_Rtransit_to_Rfinal"
         \/ k = 2 /\ m = 2 /\ x = 9 /\ y = 9 /\ to = "open_for_Rfinal"
  PROVE  Runs(Guard(to), Place(b, g, h, x, y, k, m, q), Place(b, to, h, x, y, k, m, q))
<1> DEFINE v == Place(b, g, h, x, y, k, m, q)
<1>1. v.guarded /\ v.sent = Levels2(k, m) /\ v.known = Levels2(k, m)
      /\ v.published = Heads2(x, y)
  BY DEF Place, At, Guarding
<1>2. /\ Levels2(k, m)[A] = k /\ Levels2(k, m)[B] = m /\ Heads2(x, y)[2] = x /\ Heads2(x, y)[3] = y
  BY Tables DEF IsPlace
<1>3. MayTurn(v, to) => Runs(Guard(to), v, Place(b, to, h, x, y, k, m, q))
  BY Turns
<1> HIDE DEF v
<1>4. Settled(v) /\ (k = 1 /\ m = 1 => Both(v, 1)) /\ (k = 2 /\ m = 2 => Both(v, 2))
  BY <1>1, <1>2, PairFacts DEF Settled, Both
<1>5. (x = 9 => Observed(v) >= 2) /\ (x = 9 /\ y = 9 => Observed(v) >= 3)
  BY <1>1, <1>2 DEF Observed, Done9
<1>6. MayTurn(v, to)
  BY <1>1, <1>4, <1>5 DEF MayTurn
<1>7. QED
  BY <1>3, <1>6 DEF v

LEMMA R0Runs ==
  ASSUME NEW b \in BOOLEAN, NEW q \in Plain
  PROVE  Runs(R0Pair, Place(b, "open_for_R0", 1, 0, 0, 0, 0, q), Place(b, "open_for_R0", 1, 0, 0, 1, 1, q))
<1> DEFINE X(k, m) == Place(b, "open_for_R0", 1, 0, 0, k, m, q)
           Is(k, m) == IsPlace(b, "open_for_R0", 1, 0, 0, k, m, q)
<1>1. /\ AsksA(b, "open_for_R0", 0, 0, 0, 0, q, 1) /\ AsksB(b, "open_for_R0", 0, 0, 1, 0, q, 1)
      /\ Is(0, 0) /\ Is(1, 0) /\ Is(1, 1)
  BY DEF IsPlace, AsksA, AsksB, Plain, Sayings, GuardStates, HeadsSeen, OpenFor
<1>2. Runs(Materialize(A, 1), X(0, 0), X(1, 0))
  BY <1>1, AskedA
<1>3. Runs(Materialize(B, 1), X(1, 0), X(1, 1))
  BY <1>1, AskedB
<1>4. Runs(Inspect(A), X(1, 0), X(1, 0)) /\ Runs(Inspect(B), X(1, 1), X(1, 1))
  BY <1>1, KeptOne, PairFacts
<1>5. Runs(Compare(A, 1), X(1, 0), X(1, 0)) /\ Runs(Compare(B, 1), X(1, 1), X(1, 1))
  BY <1>1, KeptCompare, PairFacts
<1> HIDE DEF X
<1>6. Runs(R0Pair, X(0, 0), X(1, 1))
  BY <1>2, <1>3, <1>4, <1>5, Joined DEF R0Pair
<1>7. QED
  BY <1>6 DEF X

\* The head is resolved, and seen by the domains before their guard opens.
LEMMA StaleR0Runs ==
  ASSUME NEW b \in BOOLEAN, Guarding(b), NEW q \in Plain
  PROVE  LET v == Place(b, "open_for_R0", 1, 0, 0, 0, 0, q) IN
         /\ Runs(StaleR0, v, Place(b, "open_for_Rtransit", 2, 9, 0, 1, 1, q))
         /\ Runs(ControlStaleR0, v, Place(b, "closed_for_R0_to_Rtransit", 2, 9, 0, 1, 1, q))
<1> DEFINE X(g, h, x, k) == Place(b, g, h, x, 0, k, k, q)
           Is(g, h, x, k) == IsPlace(b, g, h, x, 0, k, k, q)
           closed == "closed_for_R0_to_Rtransit"
<1>1. /\ Is("open_for_R0", 1, 0, 1) /\ Is(closed, 1, 0, 1) /\ Is(closed, 2, 0, 1)
      /\ Is(closed, 2, 9, 1) /\ closed \in GuardStates /\ "open_for_Rtransit" \in GuardStates
  BY DEF IsPlace, Plain, Sayings, GuardStates
<1>2. Runs(R0Pair, X("open_for_R0", 1, 0, 0), X("open_for_R0", 1, 0, 1))
  BY R0Runs
<1>3. Runs(Guard(closed), X("open_for_R0", 1, 0, 1), X(closed, 1, 0, 1))
  BY <1>1, Turned
<1>4. Runs(Resolve(2), X(closed, 1, 0, 1), X(closed, 2, 0, 1))
  BY <1>1, ResolvesTransit
<1>5. Runs(InspectBoth, X(closed, 2, 0, 1), X(closed, 2, 0, 1))
  BY <1>1, KeptBoth
<1>6. Runs(Publish(2, 9), X(closed, 2, 0, 1), X(closed, 2, 9, 1))
  BY <1>1, 9 # 0, PublishesTransit
<1>7. Runs(InspectBoth, X(closed, 2, 9, 1), X(closed, 2, 9, 1))
  BY <1>1, KeptBoth
<1>8. Runs(Guard("open_for_Rtransit"), X(closed, 2, 9, 1), X("open_for_Rtransit", 2, 9, 1))
  BY <1>1, Turned
<1> HIDE DEF X
<1>9. Runs(StaleR0, X("open_for_R0", 1, 0, 0), X("open_for_Rtransit", 2, 9, 1))
  BY <1>2, <1>3, <1>4, <1>5, <1>6, <1>7, <1>8, Joined DEF StaleR0
<1>10. Runs(ControlStaleR0, X("open_for_R0", 1, 0, 0), X(closed, 2, 9, 1))
  BY <1>2, <1>3, <1>4, <1>6, Joined DEF ControlStaleR0
<1>11. QED
  BY <1>9, <1>10 DEF X

\* Both are refreshed to Rtransit, and then Rfinal is resolved and seen.
LEMMA RefreshBothRuns ==
  ASSUME NEW b \in BOOLEAN, Guarding(b), NEW q \in Plain
  PROVE  Runs(RefreshBoth, Place(b, "open_for_Rtransit", 2, 9, 0, 1, 1, q),
              Place(b, "open_for_Rtransit", 2, 9, 0, 2, 2, q))
<1> DEFINE X(k, m) == Place(b, "open_for_Rtransit", 2, 9, 0, k, m, q)
           Is(k, m) == IsPlace(b, "open_for_Rtransit", 2, 9, 0, k, m, q)
<1>1. /\ AsksA(b, "open_for_Rtransit", 9, 0, 1, 1, q, 2)
      /\ AsksB(b, "open_for_Rtransit", 9, 0, 2, 1, q, 2)
      /\ Is(1, 1) /\ Is(2, 1) /\ Is(2, 2)
  BY DEF IsPlace, AsksA, AsksB, Plain, Sayings, GuardStates, HeadsSeen, OpenFor
<1>2. Runs(Materialize(A, 2), X(1, 1), X(2, 1))
  BY <1>1, AskedA
<1>3. Runs(InspectBoth, X(2, 1), X(2, 1))
  BY <1>1, KeptBoth
<1>4. Runs(Materialize(B, 2), X(2, 1), X(2, 2))
  BY <1>1, AskedB
<1> HIDE DEF X
<1>5. Runs(RefreshBoth, X(1, 1), X(2, 2))
  BY <1>2, <1>3, <1>4, Joined DEF RefreshBoth
<1>6. QED
  BY <1>5 DEF X

LEMMA StaleRtransitRuns ==
  ASSUME NEW b \in BOOLEAN, Guarding(b), NEW q \in Plain
  PROVE  Runs(StaleRtransit, Place(b, "open_for_R0", 1, 0, 0, 0, 0, q),
              Place(b, "open_for_Rfinal", 3, 9, 9, 2, 2, q))
<1> DEFINE X(g, h, y) == Place(b, g, h, 9, y, 2, 2, q)
           Is(g, h, y) == IsPlace(b, g, h, 9, y, 2, 2, q)
           closed == "closed_for_Rtransit_to_Rfinal"
           start == Place(b, "open_for_R0", 1, 0, 0, 0, 0, q)
           stale == Place(b, "open_for_Rtransit", 2, 9, 0, 1, 1, q)
<1>1. /\ Is("open_for_Rtransit", 2, 0) /\ Is(closed, 2, 0) /\ Is(closed, 3, 0) /\ Is(closed, 3, 9)
      /\ closed \in GuardStates /\ "open_for_Rfinal" \in GuardStates
  BY DEF IsPlace, Plain, Sayings, GuardStates
<1>2. Runs(StaleR0, start, stale)
  BY StaleR0Runs
<1>3. Runs(RefreshBoth, stale, X("open_for_Rtransit", 2, 0))
  BY RefreshBothRuns
<1>4. Runs(InspectBoth, X("open_for_Rtransit", 2, 0), X("open_for_Rtransit", 2, 0))
  BY <1>1, KeptBoth
<1>5. Runs(Guard(closed), X("open_for_Rtransit", 2, 0), X(closed, 2, 0))
  BY <1>1, Turned
<1>6. Runs(Resolve(3), X(closed, 2, 0), X(closed, 3, 0))
  BY <1>1, ResolvesFinal
<1>7. Runs(InspectBoth, X(closed, 3, 0), X(closed, 3, 0))
  BY <1>1, KeptBoth
<1>8. Runs(Publish(3, 9), X(closed, 3, 0), X(closed, 3, 9))
  BY <1>1, 9 # 0, PublishesFinal
<1>9. Runs(InspectBoth, X(closed, 3, 9), X(closed, 3, 9))
  BY <1>1, KeptBoth
<1>10. Runs(Guard("open_for_Rfinal"), X(closed, 3, 9), X("open_for_Rfinal", 3, 9))
  BY <1>1, Turned
<1> HIDE DEF X, start, stale
<1>11. Runs(StaleRtransit, start, X("open_for_Rfinal", 3, 9))
  BY <1>2, <1>3, <1>4, <1>5, <1>6, <1>7, <1>8, <1>9, <1>10, Joined DEF StaleRtransit
<1>12. QED
  BY <1>11 DEF X, start

-----------------------------------------------------------------------------
(* A refresh of both domains *)

\* A synchronized domain is said to be so.
Agreed == All2("synchronized")

LEMMA AcceptsA ==
  ASSUME NEW b, NEW g, NEW h, NEW x, NEW y, NEW k, NEW m, NEW q,
         IsPlace(b, g, h, x, y, k, m, q), Guarding(b), k # 0
  PROVE  Runs(Accept(A, k), Place(b, g, h, x, y, k, m, q),
              Place(b, g, h, x, y, k, m, With(q, A, "synchronized")))
<1>1. Heads2(x, y) \in Heads /\ Levels2(k, m) \in Levels /\ Levels2(k, m)[A] = k
  BY Tables DEF IsPlace
<1>2. k \in 1..3 /\ A \in Pair /\ b \in BOOLEAN /\ g \in GuardStates /\ h \in 1..3 /\ q \in Sayings
  BY PairFacts DEF IsPlace
<1>3. QED
  BY <1>1, <1>2, AcceptRuns DEF Place, With

LEMMA AcceptsB ==
  ASSUME NEW b, NEW g, NEW h, NEW x, NEW y, NEW k, NEW m, NEW q,
         IsPlace(b, g, h, x, y, k, m, q), Guarding(b), m # 0
  PROVE  Runs(Accept(B, m), Place(b, g, h, x, y, k, m, q),
              Place(b, g, h, x, y, k, m, With(q, B, "synchronized")))
<1>1. Heads2(x, y) \in Heads /\ Levels2(k, m) \in Levels /\ Levels2(k, m)[B] = m
  BY Tables DEF IsPlace
<1>2. m \in 1..3 /\ B \in Pair /\ b \in BOOLEAN /\ g \in GuardStates /\ h \in 1..3 /\ q \in Sayings
  BY PairFacts DEF IsPlace
<1>3. QED
  BY <1>1, <1>2, AcceptRuns DEF Place, With

LEMMA Agreeing ==
  LET some == With(All2("nothing"), A, "synchronized") IN
  /\ All2("nothing") \in Plain /\ some \in Plain /\ Agreed \in Plain
  /\ All2("nothing") \in Sayings /\ some \in Sayings /\ Agreed \in Sayings
  /\ With(some, B, "synchronized") = Agreed
  /\ With(Agreed, A, "synchronized") = Agreed /\ With(Agreed, B, "synchronized") = Agreed
  BY PairFacts DEF All2, With, Agreed, Plain, Sayings

\* Both domains refreshed, in either order.
LEMMA RefreshPairRuns ==
  ASSUME NEW b, NEW g, NEW h, NEW x, NEW y, NEW k, NEW n, n = k + 1, k \in 1..2, n \in 2..3,
         IsPlace(b, g, h, x, y, k, k, Agreed), Guarding(b),
         n <= HeadsSeen(x, y), b => g = OpenFor[n]
  PROVE  /\ Runs(RefreshPair(n, A, B), Place(b, g, h, x, y, k, k, Agreed), Place(b, g, h, x, y, n, n, Agreed))
         /\ Runs(RefreshPair(n, B, A), Place(b, g, h, x, y, k, k, Agreed), Place(b, g, h, x, y, n, n, Agreed))
<1> DEFINE X(j, m) == Place(b, g, h, x, y, j, m, Agreed)
           Is(j, m) == IsPlace(b, g, h, x, y, j, m, Agreed)
<1>1. /\ Is(k, k) /\ Is(n, k) /\ Is(k, n) /\ Is(n, n)
      /\ AsksA(b, g, x, y, k, k, Agreed, n) /\ AsksB(b, g, x, y, n, k, Agreed, n)
      /\ AsksB(b, g, x, y, k, k, Agreed, n) /\ AsksA(b, g, x, y, k, n, Agreed, n)
  BY Agreeing DEF IsPlace, AsksA, AsksB
<1>2. Runs(Materialize(A, n), X(k, k), X(n, k)) /\ Runs(Materialize(A, n), X(k, n), X(n, n))
  BY <1>1, AskedA
<1>3. Runs(Materialize(B, n), X(k, k), X(k, n)) /\ Runs(Materialize(B, n), X(n, k), X(n, n))
  BY <1>1, AskedB
<1>4. /\ Runs(Inspect(A), X(n, k), X(n, k)) /\ Runs(Inspect(B), X(n, k), X(n, k))
      /\ Runs(Inspect(A), X(k, n), X(k, n)) /\ Runs(Inspect(B), X(k, n), X(k, n))
      /\ Runs(Inspect(A), X(n, n), X(n, n)) /\ Runs(Inspect(B), X(n, n), X(n, n))
  BY <1>1, KeptOne, PairFacts
<1>5. Runs(Checkpoint, X(n, k), X(n, k)) /\ Runs(Checkpoint, X(k, n), X(k, n))
      /\ Runs(Checkpoint, X(n, n), X(n, n))
  BY <1>1, KeptBoth
<1>6. n # 0 /\ With(Agreed, A, "synchronized") = Agreed /\ With(Agreed, B, "synchronized") = Agreed
  BY Agreeing
<1>7. Runs(Accept(A, n), X(n, k), X(n, k)) /\ Runs(Accept(A, n), X(n, n), X(n, n))
  <2>1. /\ Runs(Accept(A, n), X(n, k), Place(b, g, h, x, y, n, k, With(Agreed, A, "synchronized")))
        /\ Runs(Accept(A, n), X(n, n), Place(b, g, h, x, y, n, n, With(Agreed, A, "synchronized")))
    BY <1>1, <1>6, AcceptsA
  <2>2. QED
    BY <1>6, <2>1
<1>8. Runs(Accept(B, n), X(k, n), X(k, n)) /\ Runs(Accept(B, n), X(n, n), X(n, n))
  <2>1. /\ Runs(Accept(B, n), X(k, n), Place(b, g, h, x, y, k, n, With(Agreed, B, "synchronized")))
        /\ Runs(Accept(B, n), X(n, n), Place(b, g, h, x, y, n, n, With(Agreed, B, "synchronized")))
    BY <1>1, <1>6, AcceptsB
  <2>2. QED
    BY <1>6, <2>1
<1> HIDE DEF X
<1>9. Runs(RefreshPair(n, A, B), X(k, k), X(n, n))
  BY <1>2, <1>3, <1>4, <1>5, <1>7, <1>8, Joined DEF RefreshPair
<1>10. Runs(RefreshPair(n, B, A), X(k, k), X(n, n))
  BY <1>2, <1>3, <1>4, <1>5, <1>7, <1>8, Joined DEF RefreshPair
<1>11. QED
  BY <1>9, <1>10 DEF X

-----------------------------------------------------------------------------
(* Faults *)

\* What an armed fault, a failure and a conclusion make of a view.
Armed(v, s, f) == [v EXCEPT !.fault = With(v.fault, s, f)]
SentTo(v, s, g) == [v EXCEPT !.sent = With(v.sent, s, g)]
Failed(v, s) == [v EXCEPT !.dead = @ \cup {s}]
Told(v, s, state) == [v EXCEPT !.said = With(v.said, s, Saying(state))]

LEMMA ArmRuns ==
  ASSUME NEW v \in Views, NEW s \in Pair, v.fault[s] = "none", v.said[s] = "nothing",
         NEW n \in Int, NEW tag \in {"M", "O"}, NEW edge \in {"before", "after"},
         NEW f, f = IF tag = "M" /\ n \in 1..16 THEN "accepted" ELSE "late"
  PROVE  Armed(v, s, f) \in Views /\ Runs(Arm(s, n, tag, edge), v, Armed(v, s, f))
<1> DEFINE e == IF tag = "M" /\ n \in 1..16 THEN "early" ELSE "late"
           x == Armed(v, s, e)
           w == Armed(v, s, f)
           i == [op |-> "arm", slot |-> s, n |-> n, tag |-> tag, edge |-> edge]
           j == [op |-> "await", slot |-> s, n |-> 0, tag |-> "arm_receipt", edge |-> "none"]
<1>1. /\ \A a \in {"early", "late", "accepted"} : With(v.fault, s, a) \in [Pair -> {"none", "early", "accepted", "late"}]
      /\ \A a : With(v.fault, s, a)[s] = a
  BY DEF Views, With
<1>2. s \in Slots /\ e \in {"early", "late"} /\ f \in {"late", "accepted"}
      /\ f = IF e = "early" THEN "accepted" ELSE e
  BY PairFacts
<1> HIDE DEF e
<1>3. x \in Views /\ w \in Views /\ x.fault = With(v.fault, s, e)
  <2>1. With(v.fault, s, e) \in [Pair -> {"none", "early", "accepted", "late"}]
    BY <1>1, <1>2
  <2>2. With(v.fault, s, f) \in [Pair -> {"none", "early", "accepted", "late"}]
    BY <1>1, <1>2
  <2>3. QED
    BY <2>1, <2>2 DEF Views, Armed
<1>4. [v EXCEPT !.fault[s] = e] = x
  BY DEF Armed, With, Views
<1>5. Runs(<<i>>, v, x)
  <2>1. i \in Instructions
    BY <1>2, Vocabulary DEF Instructions
  <2>2. Allowed(v, i)
    BY DEF Allowed
  <2>3. After(v, i) = x
    BY <1>4 DEF After, e
  <2> HIDE DEF i, x
  <2>4. QED
    BY <1>3, <2>1, <2>2, <2>3, Single
<1>6. [x EXCEPT !.fault[s] = f] = w
  <2>1. With(With(v.fault, s, e), s, f) = With(v.fault, s, f)
    BY DEF With, Views
  <2>2. [x EXCEPT !.fault[s] = f] = [x EXCEPT !.fault = With(x.fault, s, f)]
    BY <1>3 DEF With, Views
  <2>3. \A a : [x EXCEPT !.fault = a] = [v EXCEPT !.fault = a]
    BY DEF Armed
  <2>4. QED
    BY <1>3, <2>1, <2>2, <2>3 DEF Armed
<1>7. Runs(Ins("await", s, 0, "arm_receipt"), x, w)
  <2>1. Allowed(x, j)
    BY DEF Allowed
  <2>2. x.fault[s] = e
    BY <1>1, <1>3
  <2>3. After(x, j) = [x EXCEPT !.fault[s] = IF x.fault[s] = "early" THEN "accepted" ELSE x.fault[s]]
    BY DEF After, Heard
  <2>4. After(x, j) = w
    BY <1>2, <1>6, <2>2, <2>3
  <2> HIDE DEF x, w
  <2>5. QED
    BY <1>2, <1>3, <2>1, <2>4, Does, Vocabulary
<1> HIDE DEF x, w
<1>8. QED
  BY <1>3, <1>5, <1>7, Joined DEF Arm, w

\* The materialization that the fault is to stop.
LEMMA FaultyRuns ==
  ASSUME NEW v \in Views, NEW s \in Pair, NEW g \in 1..3, MayAsk(v, s, g), NEW state \in {"exact", "corrupt"}
  PROVE  /\ v.fault[s] = "accepted" => Runs(Stage(s, g, state), v, v)
         /\ v.fault[s] # "accepted" =>
              SentTo(v, s, g) \in Views /\ Runs(Stage(s, g, state), v, SentTo(v, s, g))
<1> DEFINE w == SentTo(v, s, g)
           i == [op |-> "materialize", slot |-> s, n |-> g, tag |-> "none", edge |-> "none"]
<1>1. s \in Slots /\ Runs(Ins("stage", s, g, state), v, v)
  BY PairFacts, Quiet, Vocabulary DEF QuietOps
<1>2. With(v.sent, s, g) \in [Pair -> 0..3]
  BY DEF With, Views
<1>3. w \in Views
  BY <1>2 DEF Views, SentTo
<1>4. Allowed(v, i)
  BY DEF Allowed
<1>5. ASSUME v.fault[s] = "accepted" PROVE Runs(Stage(s, g, state), v, v)
  <2>1. After(v, i) = [v EXCEPT !.sent[s] = v.sent[s]]
    BY <1>5 DEF After
  <2>2. [v EXCEPT !.sent[s] = v.sent[s]] = v
    BY DEF Views
  <2>3. Runs(Ins("materialize", s, g, "none"), v, v)
    BY <1>1, <1>4, <2>1, <2>2, Does, Vocabulary
  <2>4. QED
    BY <1>1, <2>3, Joined DEF Stage
<1>6. ASSUME v.fault[s] # "accepted" PROVE Runs(Stage(s, g, state), v, w)
  <2>1. After(v, i) = w
    BY <1>6 DEF After, SentTo, With, Views
  <2> HIDE DEF w
  <2>2. Runs(Ins("materialize", s, g, "none"), v, w)
    BY <1>1, <1>3, <1>4, <2>1, Does, Vocabulary
  <2>3. QED
    BY <1>1, <2>2, Joined DEF Stage
<1>7. QED
  BY <1>3, <1>5, <1>6

LEMMA FailureRuns ==
  ASSUME NEW v \in Views, NEW s \in Pair, NEW n \in Int, n \notin {0, 99}
  PROVE  Failed(v, s) \in Views /\ Runs(Ins("await", s, n, "failure"), v, Failed(v, s))
<1> DEFINE i == [op |-> "await", slot |-> s, n |-> n, tag |-> "failure", edge |-> "none"]
<1>1. Failed(v, s) \in Views /\ s \in Slots
  BY PairFacts DEF Views, Failed
<1>2. Allowed(v, i)
  BY DEF Allowed
<1>3. After(v, i) = Failed(v, s)
  BY DEF After, Heard, Failed
<1>4. QED
  BY <1>1, <1>2, <1>3, Does, Vocabulary

LEMMA ConcludeRuns ==
  ASSUME NEW v \in Views, NEW s \in Pair, NEW g \in Int,
         NEW state \in {"synchronized", "stale", "unbound", "invalid", "protocol_invalid"},
         MaySay(v, s, g, state)
  PROVE  Told(v, s, state) \in Views /\ Runs(Conclude(s, g, state), v, Told(v, s, state))
<1> DEFINE i == [op |-> "conclude", slot |-> s, n |-> g, tag |-> state, edge |-> "none"]
<1>1. Saying(state) \in {"nothing", "synchronized", "kept"} /\ s \in Slots /\ state \in Words
  BY PairFacts, Vocabulary DEF Saying
<1>2. With(v.said, s, Saying(state)) \in [Pair -> {"nothing", "synchronized", "kept"}]
  BY <1>1 DEF With, Views
<1>3. Told(v, s, state) \in Views
  BY <1>2 DEF Views, Told
<1>4. Allowed(v, i)
  BY DEF Allowed
<1>5. After(v, i) = Told(v, s, state)
  BY DEF After, Told, With, Views
<1>6. QED
  BY <1>1, <1>3, <1>4, <1>5, Does, Vocabulary DEF Conclude

LEMMA Fields ==
  ASSUME NEW v \in Views, NEW s \in Pair, NEW x
  PROVE  /\ LET w == Armed(v, s, x) IN
            /\ w.fault[s] = x /\ w.guarded = v.guarded /\ w.guard = v.guard /\ w.open = v.open
            /\ w.published = v.published /\ w.sent = v.sent /\ w.known = v.known /\ w.dead = v.dead
            /\ w.said = v.said
         /\ LET w == SentTo(v, s, x) IN
            /\ w.sent[s] = x /\ (\A r \in Pair : r # s => w.sent[r] = v.sent[r])
            /\ w.fault = v.fault /\ w.guarded = v.guarded /\ w.guard = v.guard /\ w.open = v.open
            /\ w.published = v.published /\ w.known = v.known /\ w.dead = v.dead /\ w.said = v.said
         /\ LET w == Failed(v, s) IN
            /\ s \in w.dead /\ w.sent = v.sent /\ w.fault = v.fault /\ w.guarded = v.guarded
            /\ w.guard = v.guard /\ w.open = v.open /\ w.published = v.published /\ w.known = v.known
            /\ w.said = v.said
         /\ LET w == Told(v, s, x) IN
            /\ w.sent = v.sent /\ w.fault = v.fault /\ w.guarded = v.guarded /\ w.dead = v.dead
            /\ w.guard = v.guard /\ w.open = v.open /\ w.published = v.published /\ w.known = v.known
<1>1. LET w == Armed(v, s, x) IN
      /\ w.fault[s] = x /\ w.guarded = v.guarded /\ w.guard = v.guard /\ w.open = v.open
      /\ w.published = v.published /\ w.sent = v.sent /\ w.known = v.known /\ w.dead = v.dead
      /\ w.said = v.said
  BY DEF Views, Armed, With
<1>2. LET w == SentTo(v, s, x) IN
      /\ w.sent[s] = x /\ (\A r \in Pair : r # s => w.sent[r] = v.sent[r])
      /\ w.fault = v.fault /\ w.guarded = v.guarded /\ w.guard = v.guard /\ w.open = v.open
      /\ w.published = v.published /\ w.known = v.known /\ w.dead = v.dead /\ w.said = v.said
  BY DEF Views, SentTo, With
<1>3. LET w == Failed(v, s) IN
      /\ s \in w.dead /\ w.sent = v.sent /\ w.fault = v.fault /\ w.guarded = v.guarded
      /\ w.guard = v.guard /\ w.open = v.open /\ w.published = v.published /\ w.known = v.known
      /\ w.said = v.said
  BY DEF Views, Failed
<1>4. LET w == Told(v, s, x) IN
      /\ w.sent = v.sent /\ w.fault = v.fault /\ w.guarded = v.guarded /\ w.dead = v.dead
      /\ w.guard = v.guard /\ w.open = v.open /\ w.published = v.published /\ w.known = v.known
  BY DEF Views, Told
<1>5. QED
  BY <1>1, <1>2, <1>3, <1>4

\* The guard fails closed, the conclusion is recorded and the evidence captured.
LEMMA Closes ==
  ASSUME NEW v \in Views, v.guarded, Settled(v), v.open = Pair
  PROVE  LET u == [v EXCEPT !.guard = "failed_closed"] IN
         /\ u \in Views /\ Runs(Guard("failed_closed"), v, u)
         /\ u.open = Pair /\ Runs(EvidencePair, u, u)
<1> DEFINE u == [v EXCEPT !.guard = "failed_closed"]
<1>1. "failed_closed" \in GuardStates
  BY DEF GuardStates
<1>2. u \in Views /\ u.open = Pair
  BY <1>1 DEF Views
<1>3. MayTurn(v, "failed_closed")
  BY DEF MayTurn
<1>4. Runs(Guard("failed_closed"), v, u)
  BY <1>1, <1>3, GuardRuns
<1> HIDE DEF u
<1>5. Runs(EvidencePair, u, u)
  BY <1>2, PairFacts, QuietPieces
<1>6. QED
  BY <1>2, <1>4, <1>5 DEF u

\* A domain at g - 1 with nothing pending, and a fault in its publication of g.
LEMMA FaultTail ==
  ASSUME NEW v \in Views, NEW s \in Pair, NEW g \in 1..3, v.guarded, v.open = Pair,
         v.fault[s] = "none", v.sent = v.known, v.sent[s] = g - 1, v.said[s] = "nothing",
         MayAsk(v, s, g), NEW k \in 1..23, NEW e \in {"before", "after"}
  PROVE  \E a, c, d, u, w \in Views :
           /\ Runs(Arm(s, k, "M", e), v, a) /\ Runs(Stage(s, g, "exact"), a, c)
           /\ Runs(Ins("await", s, k, "failure"), c, d) /\ Runs(Ins("discard", s, 0, "receipt"), d, d)
           /\ Began(k) => Runs(Guard("failed_closed"), d, u) /\ Runs(Conclude(s, 0, "invalid"), u, w)
           /\ ~Began(k) /\ g = 1 => Runs(Conclude(s, 0, "unbound"), d, w)
           /\ ~Began(k) /\ g # 1 => Runs(Conclude(s, g - 1, "stale"), d, w)
           /\ Runs(EvidencePair, w, w)
<1> DEFINE f == IF "M" = "M" /\ k \in 1..16 THEN "accepted" ELSE "late"
           a == Armed(v, s, f)
           c == IF f = "accepted" THEN a ELSE SentTo(a, s, g)
           d == Failed(c, s)
           u == [d EXCEPT !.guard = "failed_closed"]
           w == IF Began(k) THEN Told(u, s, "invalid")
                ELSE IF g = 1 THEN Told(d, s, "unbound") ELSE Told(d, s, "stale")
<1>1. a \in Views /\ Runs(Arm(s, k, "M", e), v, a)
  BY ArmRuns
<1>2. f = (IF k <= 16 THEN "accepted" ELSE "late")
  OBVIOUS
<1> HIDE DEF f
<1>3. /\ a.fault[s] = f /\ a.guarded /\ a.open = Pair /\ a.sent = v.sent /\ a.known = v.known
      /\ a.said = v.said /\ a.guard = v.guard /\ a.published = v.published
  BY Fields
<1> HIDE DEF a
<1>4. MayAsk(a, s, g)
  BY <1>3 DEF MayAsk, Observed, Done9
<1>5. c \in Views /\ Runs(Stage(s, g, "exact"), a, c)
  BY <1>1, <1>3, <1>4, FaultyRuns
<1>6. /\ c.fault = a.fault /\ c.guarded /\ c.open = Pair /\ c.known = v.known
      /\ (\A r \in Pair : r # s => c.sent[r] = v.sent[r])
      /\ (f = "accepted" => c.sent = v.sent)
  BY <1>1, <1>3, Fields
<1> HIDE DEF c
<1>7. d \in Views /\ Runs(Ins("await", s, k, "failure"), c, d)
  BY <1>5, FailureRuns
<1>8. /\ d.fault[s] = f /\ d.guarded /\ d.open = Pair /\ d.known = v.known /\ s \in d.dead
      /\ (\A r \in Pair : r # s => d.sent[r] = v.sent[r])
      /\ (f = "accepted" => d.sent = v.sent)
  BY <1>3, <1>5, <1>6, Fields
<1>9. Settled(d)
  BY <1>8 DEF Settled
<1> HIDE DEF d
<1>10. Runs(Ins("discard", s, 0, "receipt"), d, d)
  BY <1>7, PairFacts, Quiet, Vocabulary DEF QuietOps
<1>11. u \in Views /\ Runs(Guard("failed_closed"), d, u) /\ u.open = Pair
  BY <1>7, <1>8, <1>9, Closes
<1> HIDE DEF u
<1>12. CASE Began(k)
  <2>1. MaySay(u, s, 0, "invalid")
    BY DEF MaySay
  <2>2. w \in Views /\ Runs(Conclude(s, 0, "invalid"), u, w)
    BY <1>11, <1>12, <2>1, ConcludeRuns
  <2>3. w.open = Pair
    BY <1>11, <1>12, Fields
  <2> HIDE DEF w
  <2>4. Runs(EvidencePair, w, w)
    BY <2>2, <2>3, PairFacts, QuietPieces
  <2>5. QED
    BY <1>1, <1>5, <1>7, <1>10, <1>11, <1>12, <2>2, <2>4
<1>13. CASE ~Began(k)
  <2> DEFINE state == IF g = 1 THEN "unbound" ELSE "stale"
  <2>1. f = "accepted"
    BY <1>2, <1>13 DEF Began
  <2>2. MaySay(d, s, g - 1, state)
    BY <1>8, <2>1 DEF MaySay
  <2>3. w = Told(d, s, state)
    BY <1>13
  <2>4. state \in {"stale", "unbound"}
    OBVIOUS
  <2> HIDE DEF state, w
  <2>5. w \in Views /\ Runs(Conclude(s, g - 1, state), d, w)
    BY <1>7, <2>2, <2>3, <2>4, ConcludeRuns
  <2>6. w.open = Pair
    BY <1>7, <1>8, <2>3, Fields
  <2>7. Runs(EvidencePair, w, w)
    BY <2>5, <2>6, PairFacts, QuietPieces
  <2>8. /\ g = 1 => Runs(Conclude(s, 0, "unbound"), d, w)
        /\ g # 1 => Runs(Conclude(s, g - 1, "stale"), d, w)
    BY <2>5 DEF state
  <2>9. QED
    BY <1>1, <1>5, <1>7, <1>10, <1>11, <1>13, <2>5, <2>7, <2>8
<1>14. QED
  BY <1>12, <1>13

-----------------------------------------------------------------------------
(* The cases with a fault *)

\* The cases, from both domains launched.
Untold == All2("nothing")
Launched(b) == Place(b, "open_for_R0", 1, 0, 0, 0, 0, Untold)

\* A domain that has nothing pending, and the generation it is to get.
Ready(v, s, g) ==
  /\ v \in Views /\ v.guarded /\ v.open = Pair /\ v.fault[s] = "none" /\ v.sent = v.known
  /\ v.sent[s] = g - 1 /\ v.said[s] = "nothing" /\ MayAsk(v, s, g)

LEMMA PlaceKnown ==
  ASSUME NEW b, NEW g, NEW h, NEW x, NEW y, NEW k, NEW m, NEW q, IsPlace(b, g, h, x, y, k, m, q),
         NEW v, v = Place(b, g, h, x, y, k, m, q)
  PROVE  /\ v \in Views /\ v.known[A] = k /\ v.known[B] = m /\ v.sent = v.known
         /\ v.fault[A] = "none" /\ v.fault[B] = "none"
<1>1. Levels2(k, m)[A] = k /\ Levels2(k, m)[B] = m
  BY Tables DEF IsPlace
<1>2. All2("none")[A] = "none" /\ All2("none")[B] = "none"
  BY PairFacts DEF All2
<1>3. v \in Views
  BY PlaceView
<1>4. v.known = Levels2(k, m) /\ v.sent = Levels2(k, m) /\ v.fault = All2("none")
  BY PlaceFields
<1>5. QED
  BY <1>1, <1>2, <1>3, <1>4

LEMMA ReadyA ==
  ASSUME NEW b \in BOOLEAN, Guarding(b), NEW g, NEW h, NEW x, NEW y, NEW k, NEW m, NEW n,
         IsPlace(b, g, h, x, y, k, m, Untold), AsksA(b, g, x, y, k, m, Untold, n), n = k + 1
  PROVE  Ready(Place(b, g, h, x, y, k, m, Untold), A, n)
<1> DEFINE v == Place(b, g, h, x, y, k, m, Untold)
<1>1. v \in Views /\ v.known[A] = k /\ v.sent = v.known /\ v.fault[A] = "none"
  <2> v = Place(b, g, h, x, y, k, m, Untold)
    OBVIOUS
  <2> HIDE DEF v
  <2>1. QED
    BY PlaceKnown
<1>2. v.guarded /\ v.open = Pair /\ v.said = Untold
  BY DEF Place, At, Guarding
<1>3. Untold[A] = "nothing" /\ n - 1 = k
  BY PairFacts DEF Untold, All2, AsksA, IsPlace
<1>4. MayAsk(v, A, n)
  BY MayAskA
<1> HIDE DEF v
<1>5. QED
  BY <1>1, <1>2, <1>3, <1>4 DEF Ready, v

LEMMA ReadyB ==
  ASSUME NEW b \in BOOLEAN, Guarding(b), NEW g, NEW h, NEW x, NEW y, NEW k, NEW m, NEW n,
         IsPlace(b, g, h, x, y, k, m, Untold), AsksB(b, g, x, y, k, m, Untold, n), n = m + 1
  PROVE  Ready(Place(b, g, h, x, y, k, m, Untold), B, n)
<1> DEFINE v == Place(b, g, h, x, y, k, m, Untold)
<1>1. v \in Views /\ v.known[B] = m /\ v.sent = v.known /\ v.fault[B] = "none"
  <2> v = Place(b, g, h, x, y, k, m, Untold)
    OBVIOUS
  <2> HIDE DEF v
  <2>1. QED
    BY PlaceKnown
<1>2. v.guarded /\ v.open = Pair /\ v.said = Untold
  BY DEF Place, At, Guarding
<1>3. Untold[B] = "nothing" /\ n - 1 = m
  BY PairFacts DEF Untold, All2, AsksB, IsPlace
<1>4. MayAsk(v, B, n)
  BY MayAskB
<1> HIDE DEF v
<1>5. QED
  BY <1>1, <1>2, <1>3, <1>4 DEF Ready, v

LEMMA MaterializationFaultRuns ==
  ASSUME NEW b \in BOOLEAN, Guarding(b), NEW g \in 1..3, NEW k \in 1..23, NEW e \in {"before", "after"}
  PROVE  \E w \in Views : Runs(MaterializationFault(g, k, e), Launched(b), w)
<1> DEFINE setup == CASE g = 1 -> <<>> [] g = 2 -> StaleR0 [] g = 3 -> StaleRtransit
           s == Target(g)
<1> HIDE DEF setup, s
<1>1. Untold \in Plain /\ IsPlace(b, "open_for_R0", 1, 0, 0, 0, 0, Untold)
      /\ Launched(b) \in Views
  <2>1. Untold \in Plain /\ IsPlace(b, "open_for_R0", 1, 0, 0, 0, 0, Untold)
    BY Agreeing DEF Untold, IsPlace, GuardStates
  <2>2. QED
    BY <2>1, PlaceView DEF Launched
<1>2. \E v : Ready(v, s, g) /\ Runs(setup, Launched(b), v)
  <2>1. CASE g = 1
    <3>1. AsksB(b, "open_for_R0", 0, 0, 0, 0, Untold, 1) /\ s = B /\ setup = <<>>
      BY <1>1, <2>1 DEF AsksB, HeadsSeen, OpenFor, Target, setup, s
    <3>2. Ready(Launched(b), s, g)
      BY <1>1, <2>1, <3>1, 1 = 0 + 1, ReadyB DEF Launched
    <3>3. QED
      BY <1>1, <3>1, <3>2, Nothing
  <2>2. CASE g = 2
    <3> DEFINE v == Place(b, "open_for_Rtransit", 2, 9, 0, 1, 1, Untold)
    <3>1. AsksB(b, "open_for_Rtransit", 9, 0, 1, 1, Untold, 2) /\ s = B /\ setup = StaleR0
      BY <1>1, <2>2 DEF AsksB, HeadsSeen, OpenFor, Target, setup, s
    <3>2. IsPlace(b, "open_for_Rtransit", 2, 9, 0, 1, 1, Untold)
      BY <1>1 DEF IsPlace, GuardStates
    <3>3. Ready(v, s, g)
      BY <2>2, <3>1, <3>2, 2 = 1 + 1, ReadyB
    <3>4. Runs(StaleR0, Launched(b), v)
      BY <1>1, StaleR0Runs DEF Launched
    <3> HIDE DEF v
    <3>5. QED
      BY <3>1, <3>3, <3>4
  <2>3. CASE g = 3
    <3> DEFINE v == Place(b, "open_for_Rfinal", 3, 9, 9, 2, 2, Untold)
    <3>1. AsksA(b, "open_for_Rfinal", 9, 9, 2, 2, Untold, 3) /\ s = A /\ setup = StaleRtransit
      BY <1>1, <2>3 DEF AsksA, HeadsSeen, OpenFor, Target, setup, s
    <3>2. IsPlace(b, "open_for_Rfinal", 3, 9, 9, 2, 2, Untold)
      BY <1>1 DEF IsPlace, GuardStates
    <3>3. Ready(v, s, g)
      BY <2>3, <3>1, <3>2, 3 = 2 + 1, ReadyA
    <3>4. Runs(StaleRtransit, Launched(b), v)
      BY <1>1, StaleRtransitRuns DEF Launched
    <3> HIDE DEF v
    <3>5. QED
      BY <3>1, <3>3, <3>4
  <2>4. QED
    BY <2>1, <2>2, <2>3
<1>3. s \in Pair
  BY PairFacts DEF Target, s
<1>4. PICK v : Ready(v, s, g) /\ Runs(setup, Launched(b), v)
  BY <1>2
<1>5. PICK a, c, d, u, w \in Views :
        /\ Runs(Arm(s, k, "M", e), v, a) /\ Runs(Stage(s, g, "exact"), a, c)
        /\ Runs(Ins("await", s, k, "failure"), c, d) /\ Runs(Ins("discard", s, 0, "receipt"), d, d)
        /\ Began(k) => Runs(Guard("failed_closed"), d, u) /\ Runs(Conclude(s, 0, "invalid"), u, w)
        /\ ~Began(k) /\ g = 1 => Runs(Conclude(s, 0, "unbound"), d, w)
        /\ ~Began(k) /\ g # 1 => Runs(Conclude(s, g - 1, "stale"), d, w)
        /\ Runs(EvidencePair, w, w)
  BY <1>3, <1>4, FaultTail, ZenonT(60) DEF Ready
<1>6. Runs(IF Began(k) THEN Guard("failed_closed") \o Conclude(s, 0, "invalid")
           ELSE IF g = 1 THEN Conclude(s, 0, "unbound") ELSE Conclude(s, g - 1, "stale"), d, w)
  BY <1>5, Joined
<1>7. Runs(setup \o Arm(s, k, "M", e) \o Stage(s, g, "exact") \o Ins("await", s, k, "failure")
             \o Ins("discard", s, 0, "receipt")
             \o (IF Began(k) THEN Guard("failed_closed") \o Conclude(s, 0, "invalid")
                 ELSE IF g = 1 THEN Conclude(s, 0, "unbound") ELSE Conclude(s, g - 1, "stale"))
             \o EvidencePair, Launched(b), w)
  BY <1>4, <1>5, <1>6, Joined
<1>8. QED
  BY <1>7 DEF MaterializationFault, setup, s

LEMMA Start ==
  ASSUME NEW b \in BOOLEAN
  PROVE  /\ IsPlace(b, "open_for_R0", 1, 0, 0, 0, 0, Untold) /\ Launched(b) \in Views
         /\ Untold \in Plain /\ Untold \in Sayings
<1>1. /\ Untold \in Plain /\ Untold \in Sayings
      /\ IsPlace(b, "open_for_R0", 1, 0, 0, 0, 0, Untold)
  BY Agreeing DEF Untold, IsPlace, GuardStates
<1>2. QED
  BY <1>1, PlaceView DEF Launched

LEMMA HeadFaultRuns ==
  ASSUME NEW b \in BOOLEAN, Guarding(b), NEW h \in {2, 3}, NEW n \in 1..9
  PROVE  \E w \in Views : Runs(HeadFault(h, n), Launched(b), w)
<1> DEFINE tail == IF n >= 8 THEN Guard("failed_closed") ELSE <<>>
<1>1. CASE h = 2
  <2> DEFINE closed == "closed_for_R0_to_Rtransit"
             X(g, i, x, k) == Place(b, g, i, x, 0, k, k, Untold)
             Is(g, i, x, k) == IsPlace(b, g, i, x, 0, k, k, Untold)
             w == IF n >= 8 THEN X("failed_closed", 2, n, 1) ELSE X(closed, 2, n, 1)
  <2>1. /\ Is("open_for_R0", 1, 0, 1) /\ Is(closed, 1, 0, 1) /\ Is(closed, 2, 0, 1)
        /\ Is(closed, 2, n, 1) /\ Is("failed_closed", 2, n, 1)
        /\ closed \in GuardStates /\ "failed_closed" \in GuardStates /\ Untold \in Plain
    BY Start DEF IsPlace, GuardStates
  <2>2. Runs(R0Pair, X("open_for_R0", 1, 0, 0), X("open_for_R0", 1, 0, 1))
    BY <2>1, R0Runs
  <2>3. Runs(Guard(closed), X("open_for_R0", 1, 0, 1), X(closed, 1, 0, 1))
    BY <2>1, Turned
  <2>4. Runs(Resolve(2), X(closed, 1, 0, 1), X(closed, 2, 0, 1))
    BY <2>1, ResolvesTransit
  <2>5. Runs(InspectBoth, X(closed, 2, 0, 1), X(closed, 2, 0, 1))
    BY <2>1, KeptBoth
  <2>6. Runs(Publish(2, n), X(closed, 2, 0, 1), X(closed, 2, n, 1))
    BY <2>1, n # 0, PublishesTransit
  <2>7. Runs(Guard("failed_closed"), X(closed, 2, n, 1), X("failed_closed", 2, n, 1))
    BY <2>1, Turned
  <2>8. Runs(<<>>, X(closed, 2, n, 1), X(closed, 2, n, 1))
    BY <2>1, KeptBoth
  <2>9. Runs(tail, X(closed, 2, n, 1), w) /\ Runs(EvidencePair, w, w) /\ w \in Views
    <3>1. CASE n >= 8
      BY <2>1, <2>7, <3>1, KeptBoth, PlaceView
    <3>2. CASE ~(n >= 8)
      BY <2>1, <2>8, <3>2, KeptBoth, PlaceView
    <3>3. QED
      BY <3>1, <3>2
  <2>10. X("open_for_R0", 1, 0, 0) = Launched(b)
    BY DEF Launched
  <2> HIDE DEF X, w, tail
  <2>11. Runs(R0Pair \o Guard(closed) \o Resolve(2) \o InspectBoth \o Publish(2, n) \o tail \o EvidencePair,
              Launched(b), w)
    BY <2>2, <2>3, <2>4, <2>5, <2>6, <2>9, <2>10, Joined
  <2>12. QED
    BY <1>1, <2>9, <2>11 DEF HeadFault, tail
<1>2. CASE h = 3
  <2> DEFINE closed == "closed_for_Rtransit_to_Rfinal"
             stale == Place(b, "open_for_Rtransit", 2, 9, 0, 1, 1, Untold)
             X(g, i, y) == Place(b, g, i, 9, y, 2, 2, Untold)
             Is(g, i, y) == IsPlace(b, g, i, 9, y, 2, 2, Untold)
             w == IF n >= 8 THEN X("failed_closed", 3, n) ELSE X(closed, 3, n)
  <2>1. /\ Is("open_for_Rtransit", 2, 0) /\ Is(closed, 2, 0) /\ Is(closed, 3, 0)
        /\ Is(closed, 3, n) /\ Is("failed_closed", 3, n)
        /\ closed \in GuardStates /\ "failed_closed" \in GuardStates /\ Untold \in Plain
    BY Start DEF IsPlace, GuardStates
  <2>2. Runs(StaleR0, Launched(b), stale)
    BY <2>1, StaleR0Runs DEF Launched
  <2>3. Runs(RefreshBoth, stale, X("open_for_Rtransit", 2, 0))
    BY <2>1, RefreshBothRuns
  <2>4. Runs(InspectBoth, X("open_for_Rtransit", 2, 0), X("open_for_Rtransit", 2, 0))
    BY <2>1, KeptBoth
  <2>5. Runs(Guard(closed), X("open_for_Rtransit", 2, 0), X(closed, 2, 0))
    BY <2>1, Turned
  <2>6. Runs(Resolve(3), X(closed, 2, 0), X(closed, 3, 0))
    BY <2>1, ResolvesFinal
  <2>7. Runs(InspectBoth, X(closed, 3, 0), X(closed, 3, 0))
    BY <2>1, KeptBoth
  <2>8. Runs(Publish(3, n), X(closed, 3, 0), X(closed, 3, n))
    BY <2>1, n # 0, PublishesFinal
  <2>9. Runs(Guard("failed_closed"), X(closed, 3, n), X("failed_closed", 3, n))
    BY <2>1, Turned
  <2>10. Runs(<<>>, X(closed, 3, n), X(closed, 3, n))
    BY <2>1, KeptBoth
  <2>11. Runs(tail, X(closed, 3, n), w) /\ Runs(EvidencePair, w, w) /\ w \in Views
    <3>1. CASE n >= 8
      BY <2>1, <2>9, <3>1, KeptBoth, PlaceView
    <3>2. CASE ~(n >= 8)
      BY <2>1, <2>10, <3>2, KeptBoth, PlaceView
    <3>3. QED
      BY <3>1, <3>2
  <2> HIDE DEF X, w, tail, stale
  <2>12. Runs((StaleR0 \o RefreshBoth \o InspectBoth \o Guard(closed)) \o Resolve(3) \o InspectBoth
                \o Publish(3, n) \o tail \o EvidencePair, Launched(b), w)
    BY <2>2, <2>3, <2>4, <2>5, <2>6, <2>7, <2>8, <2>11, Joined
  <2>13. QED
    BY <1>2, <2>11, <2>12 DEF HeadFault, tail
<1>3. QED
  BY <1>1, <1>2

\* The observation that is faulted, with both domains where they are.
LEMMA ObservationTail ==
  ASSUME NEW v \in Views, NEW s \in Pair, v.guarded, v.open = Pair, v.fault[s] = "none",
         v.sent = v.known, v.said[s] = "nothing", NEW k \in 1..12, NEW g \in Int
  PROVE  \E d, u, w \in Views :
           /\ k > 10 => /\ d = v /\ Runs(Inspect(s), v, v) /\ Runs(Compare(s, g), v, v)
           /\ Runs(<<>>, v, v)
           /\ k <= 10 => Runs(Arm(s, k, "O", "after") \o Ins("inspect", s, 0, "none")
                                \o Ins("await", s, k, "failure") \o Ins("discard", s, 0, "observation"), v, d)
           /\ Runs(Guard("failed_closed"), d, u) /\ Runs(Conclude(s, 0, "invalid"), u, w)
           /\ Runs(EvidencePair, w, w)
<1> DEFINE a == Armed(v, s, "late")
           d == IF k > 10 THEN v ELSE Failed(a, s)
           u == [d EXCEPT !.guard = "failed_closed"]
           w == Told(u, s, "invalid")
<1>1. s \in Slots /\ "O" # "M"
  BY PairFacts
<1>2. a \in Views /\ Runs(Arm(s, k, "O", "after"), v, a)
  <2>1. "late" = IF "O" = "M" /\ k \in 1..16 THEN "accepted" ELSE "late"
    BY <1>1
  <2>2. "O" \in {"M", "O"} /\ "after" \in {"before", "after"} /\ k \in Int
    OBVIOUS
  <2> HIDE DEF a
  <2>3. QED
    BY <2>1, <2>2, ArmRuns DEF a
<1>3. a.guarded /\ a.open = Pair /\ a.sent = v.sent /\ a.known = v.known
  BY Fields
<1> HIDE DEF a
<1>4. Failed(a, s) \in Views /\ Runs(Ins("await", s, k, "failure"), a, Failed(a, s))
  BY <1>2, FailureRuns
<1>5. /\ d \in Views /\ d.guarded /\ d.open = Pair /\ d.sent = d.known
  BY <1>2, <1>3, <1>4, Fields
<1>6. k <= 10 => Runs(Arm(s, k, "O", "after") \o Ins("inspect", s, 0, "none")
                        \o Ins("await", s, k, "failure") \o Ins("discard", s, 0, "observation"), v, d)
  <2> DEFINE f == Failed(a, s)
  <2>1. Runs(Ins("inspect", s, 0, "none"), a, a)
    <3>1. "inspect" \in QuietOps /\ "none" \in Words /\ 0 \in Int
      BY Vocabulary DEF QuietOps
    <3>2. QED
      BY <1>1, <1>2, <3>1, Quiet
  <2>2. Runs(Ins("discard", s, 0, "observation"), f, f)
    BY <1>1, <1>4, Quiet, Vocabulary DEF QuietOps
  <2>3. k <= 10 => d = f
    OBVIOUS
  <2> HIDE DEF f, d
  <2>4. Runs(Ins("await", s, k, "failure"), a, f)
    BY <1>4 DEF f
  <2>5. QED
    BY <1>2, <2>1, <2>2, <2>3, <2>4, Joined
<1>7. k > 10 => d = v
  OBVIOUS
<1>8. Runs(Inspect(s), v, v) /\ Runs(Compare(s, g), v, v) /\ Runs(<<>>, v, v)
  BY <1>1, QuietPieces, Nothing
<1> HIDE DEF d
<1>9. Settled(d)
  BY <1>5 DEF Settled
<1>10. u \in Views /\ Runs(Guard("failed_closed"), d, u) /\ u.open = Pair
  BY <1>5, <1>9, Closes
<1> HIDE DEF u
<1>11. MaySay(u, s, 0, "invalid")
  BY DEF MaySay
<1>12. w \in Views /\ Runs(Conclude(s, 0, "invalid"), u, w)
  BY <1>10, <1>11, ConcludeRuns
<1>13. w.open = Pair
  BY <1>10, Fields
<1> HIDE DEF w
<1>14. Runs(EvidencePair, w, w)
  BY <1>12, <1>13, PairFacts, QuietPieces
<1>15. QED
  BY <1>5, <1>6, <1>7, <1>8, <1>10, <1>12, <1>14

\* Both domains open and at rest, and nothing recorded of them.
AtRest(v) ==
  /\ v \in Views /\ v.guarded /\ v.open = Pair /\ v.sent = v.known
  /\ \A s \in Pair : v.fault[s] = "none" /\ v.said[s] = "nothing"

LEMMA Resting ==
  ASSUME NEW b, Guarding(b), NEW g, NEW h, NEW x, NEW y, NEW k, NEW m,
         IsPlace(b, g, h, x, y, k, m, Untold)
  PROVE  AtRest(Place(b, g, h, x, y, k, m, Untold))
<1> DEFINE v == Place(b, g, h, x, y, k, m, Untold)
<1>1. v \in Views
  BY PlaceView
<1>2. /\ v.guarded = b /\ v.open = Pair /\ v.sent = Levels2(k, m) /\ v.known = Levels2(k, m)
      /\ v.fault = All2("none") /\ v.said = All2("nothing")
  BY PlaceFields DEF Untold
<1>3. \A s \in Pair : All2("none")[s] = "none" /\ All2("nothing")[s] = "nothing"
  BY DEF All2
<1>4. b
  BY DEF Guarding
<1> HIDE DEF v
<1>5. v.guarded
  BY <1>2, <1>4
<1>6. QED
  BY <1>1, <1>2, <1>3, <1>5 DEF AtRest, v

\* What comes before the inspection that is faulted.
LEMMA BeforeObservationRuns ==
  ASSUME NEW b \in BOOLEAN, Guarding(b), NEW g \in 1..3
  PROVE  \E v : AtRest(v) /\ Runs(BeforeObservation(g), Launched(b), v)
<1>1. CASE g = 1
  <2> DEFINE X(i, j) == Place(b, "open_for_R0", 1, 0, 0, i, j, Untold)
             Is(i, j) == IsPlace(b, "open_for_R0", 1, 0, 0, i, j, Untold)
  <2>1. /\ Is(0, 0) /\ Is(1, 0) /\ Is(1, 1)
        /\ AsksA(b, "open_for_R0", 0, 0, 0, 0, Untold, 1)
        /\ AsksB(b, "open_for_R0", 0, 0, 1, 0, Untold, 1)
    BY Start DEF IsPlace, AsksA, AsksB, HeadsSeen, OpenFor
  <2>2. Runs(Materialize(A, 1), X(0, 0), X(1, 0))
    BY <2>1, AskedA
  <2>3. Runs(Inspect(A), X(1, 0), X(1, 0))
    BY <2>1, KeptOne, PairFacts
  <2>4. Runs(Materialize(B, 1), X(1, 0), X(1, 1))
    BY <2>1, AskedB
  <2>5. AtRest(X(1, 1))
    BY <2>1, Resting
  <2>6. X(0, 0) = Launched(b)
    BY DEF Launched
  <2> HIDE DEF X
  <2>7. Runs(Materialize(A, 1) \o Inspect(A) \o Materialize(B, 1), Launched(b), X(1, 1))
    BY <2>2, <2>3, <2>4, <2>6, Joined
  <2>8. BeforeObservation(g) = Materialize(A, 1) \o Inspect(A) \o Materialize(B, 1)
    BY <1>1 DEF BeforeObservation
  <2>9. QED
    BY <2>5, <2>7, <2>8
<1>2. CASE g = 2
  <2> DEFINE X == Place(b, "open_for_Rtransit", 2, 9, 0, 2, 2, Untold)
             stale == Place(b, "open_for_Rtransit", 2, 9, 0, 1, 1, Untold)
  <2>1. IsPlace(b, "open_for_Rtransit", 2, 9, 0, 2, 2, Untold)
    BY Start DEF IsPlace, GuardStates
  <2>2. Runs(StaleR0, Launched(b), stale)
    BY Start, StaleR0Runs DEF Launched
  <2>3. Runs(RefreshBoth, stale, X)
    BY Start, RefreshBothRuns
  <2>4. Runs(Inspect(A), X, X)
    BY <2>1, KeptOne, PairFacts
  <2>5. AtRest(X)
    BY <2>1, Resting
  <2> HIDE DEF X, stale
  <2>6. Runs(StaleR0 \o RefreshBoth \o Inspect(A), Launched(b), X)
    BY <2>2, <2>3, <2>4, Joined
  <2>7. BeforeObservation(g) = StaleR0 \o RefreshBoth \o Inspect(A)
    BY <1>2 DEF BeforeObservation
  <2>8. QED
    BY <2>5, <2>6, <2>7
<1>3. CASE g = 3
  <2> DEFINE X(i, j) == Place(b, "open_for_Rfinal", 3, 9, 9, i, j, Untold)
             Is(i, j) == IsPlace(b, "open_for_Rfinal", 3, 9, 9, i, j, Untold)
  <2>1. /\ Is(2, 2) /\ Is(3, 2) /\ Is(3, 3)
        /\ AsksA(b, "open_for_Rfinal", 9, 9, 2, 2, Untold, 3)
        /\ AsksB(b, "open_for_Rfinal", 9, 9, 3, 2, Untold, 3)
    BY Start DEF IsPlace, AsksA, AsksB, HeadsSeen, OpenFor, GuardStates
  <2>2. Runs(StaleRtransit, Launched(b), X(2, 2))
    BY Start, StaleRtransitRuns DEF Launched
  <2>3. Runs(Materialize(A, 3), X(2, 2), X(3, 2))
    BY <2>1, AskedA
  <2>4. Runs(InspectBoth, X(3, 2), X(3, 2))
    BY <2>1, KeptBoth
  <2>5. Runs(Materialize(B, 3), X(3, 2), X(3, 3))
    BY <2>1, AskedB
  <2>6. Runs(Inspect(B), X(3, 3), X(3, 3))
    BY <2>1, KeptOne, PairFacts
  <2>7. AtRest(X(3, 3))
    BY <2>1, Resting
  <2> HIDE DEF X
  <2>8. Runs(StaleRtransit \o Materialize(A, 3) \o InspectBoth \o Materialize(B, 3) \o Inspect(B), Launched(b), X(3, 3))
    BY <2>2, <2>3, <2>4, <2>5, <2>6, Joined
  <2>9. BeforeObservation(g) = StaleRtransit \o Materialize(A, 3) \o InspectBoth \o Materialize(B, 3) \o Inspect(B)
    BY <1>3 DEF BeforeObservation
  <2>10. QED
    BY <2>7, <2>8, <2>9
<1>4. QED
  BY <1>1, <1>2, <1>3

LEMMA ObservationFaultRuns ==
  ASSUME NEW b \in BOOLEAN, Guarding(b), NEW g \in 1..3, NEW k \in 1..12
  PROVE  \E w \in Views : Runs(ObservationFault(g, k), Launched(b), w)
<1> DEFINE s == Target(g)
           armed == Arm(s, k, "O", "after") \o Ins("inspect", s, 0, "none")
                     \o Ins("await", s, k, "failure") \o Ins("discard", s, 0, "observation")
           last == IF k = 12 THEN Compare(s, g) ELSE <<>>
           middle == IF k > 10 THEN Inspect(s) \o last ELSE armed
<1>1. s \in Pair
  BY PairFacts DEF Target
<1> HIDE DEF s
<1>2. PICK v : AtRest(v) /\ Runs(BeforeObservation(g), Launched(b), v)
  BY BeforeObservationRuns
<1>3. PICK d, u, w \in Views :
        /\ k > 10 => /\ d = v /\ Runs(Inspect(s), v, v) /\ Runs(Compare(s, g), v, v) /\ Runs(<<>>, v, v)
        /\ k <= 10 => Runs(armed, v, d)
        /\ Runs(Guard("failed_closed"), d, u) /\ Runs(Conclude(s, 0, "invalid"), u, w)
        /\ Runs(EvidencePair, w, w)
  BY <1>1, <1>2, ObservationTail DEF AtRest
<1>4. Runs(middle, v, d)
  <2>1. CASE k > 10
    <3>1. Runs(last, v, v)
      BY <1>3, <2>1
    <3> HIDE DEF last
    <3>2. QED
      BY <1>3, <2>1, <3>1, Joined
  <2>2. CASE ~(k > 10)
    BY <1>3, <2>2
  <2>3. QED
    BY <2>1, <2>2
<1> HIDE DEF middle
<1>5. Runs(BeforeObservation(g) \o middle \o Guard("failed_closed") \o Conclude(s, 0, "invalid") \o EvidencePair,
           Launched(b), w)
  BY <1>2, <1>3, <1>4, Joined
<1>6. QED
  BY <1>5 DEF ObservationFault, middle, last, armed, s

-----------------------------------------------------------------------------
(* The other cases *)

LEMMA FailsClosed ==
  ASSUME NEW v \in Views, v.guarded, Settled(v)
  PROVE  \E u \in Views : Runs(Guard("failed_closed"), v, u) /\ u.open = v.open
<1> DEFINE u == [v EXCEPT !.guard = "failed_closed"]
<1>1. "failed_closed" \in GuardStates
  BY DEF GuardStates
<1>2. u \in Views /\ u.open = v.open
  BY <1>1 DEF Views
<1>3. MayTurn(v, "failed_closed")
  BY DEF MayTurn
<1>4. Runs(Guard("failed_closed"), v, u)
  BY <1>1, <1>3, GuardRuns
<1> HIDE DEF u
<1>5. QED
  BY <1>2, <1>4

\* The same is recorded of both domains.
LEMMA ConcludeBoth ==
  ASSUME NEW v \in Views, NEW g \in Int,
         NEW state \in {"synchronized", "stale", "unbound", "invalid", "protocol_invalid"},
         MaySay(v, A, g, state), MaySay(v, B, g, state)
  PROVE  \E c, w \in Views : /\ Runs(Conclude(A, g, state), v, c) /\ Runs(Conclude(B, g, state), c, w)
                             /\ w.open = v.open
<1> DEFINE c == Told(v, A, state)
           w == Told(c, B, state)
<1>1. c \in Views /\ Runs(Conclude(A, g, state), v, c)
  BY PairFacts, ConcludeRuns
<1>2. /\ c.sent = v.sent /\ c.fault = v.fault /\ c.known = v.known /\ c.open = v.open
      /\ c.guarded = v.guarded
  BY PairFacts, Fields
<1> HIDE DEF c
<1>3. MaySay(c, B, g, state)
  BY <1>2 DEF MaySay
<1>4. w \in Views /\ Runs(Conclude(B, g, state), c, w)
  BY <1>1, <1>3, PairFacts, ConcludeRuns
<1>5. w.open = c.open
  BY <1>1, PairFacts, Fields
<1> HIDE DEF w
<1>6. QED
  BY <1>1, <1>2, <1>4, <1>5

\* The witness up to one of its checkpoints.
LEMMA PrefixRuns ==
  ASSUME NEW b \in BOOLEAN, Guarding(b), NEW last \in 0..7
  PROVE  \E v : AtRest(v) /\ Runs(Prefix(last), Launched(b), v)
<1> DEFINE X(g, h, x, y, k, m) == Place(b, g, h, x, y, k, m, Untold)
           Is(g, h, x, y, k, m) == IsPlace(b, g, h, x, y, k, m, Untold)
           closedT == "closed_for_R0_to_Rtransit"
           closedF == "closed_for_Rtransit_to_Rfinal"
           P0 == X("open_for_R0", 1, 0, 0, 1, 1)
           P1 == X(closedT, 2, 0, 0, 1, 1)
           P2 == X("open_for_Rtransit", 2, 9, 0, 1, 1)
           P3 == X("open_for_Rtransit", 2, 9, 0, 2, 1)
           P4 == X("open_for_Rtransit", 2, 9, 0, 2, 2)
           P5 == X(closedF, 3, 9, 0, 2, 2)
           P6 == X("open_for_Rfinal", 3, 9, 9, 2, 2)
           P7 == X("open_for_Rfinal", 3, 9, 9, 3, 2)
           L0 == R0Pair \o Checkpoint
           L1 == Guard(closedT) \o Resolve(2) \o InspectBoth \o Checkpoint
           L2 == Publish(2, 9) \o InspectBoth \o Guard("open_for_Rtransit") \o Checkpoint
           L3 == Materialize(A, 2) \o InspectBoth \o Checkpoint
           L4 == Materialize(B, 2) \o InspectBoth \o Checkpoint
           L5 == Guard(closedF) \o Resolve(3) \o InspectBoth \o Checkpoint
           L6 == Publish(3, 9) \o InspectBoth \o Guard("open_for_Rfinal") \o Checkpoint
           L7 == Materialize(A, 3) \o InspectBoth \o Checkpoint
           From(k, part) == IF last < k THEN <<>> ELSE part
<1>1. /\ Is("open_for_R0", 1, 0, 0, 1, 1) /\ Is(closedT, 1, 0, 0, 1, 1) /\ Is(closedT, 2, 0, 0, 1, 1)
      /\ Is(closedT, 2, 9, 0, 1, 1) /\ Is("open_for_Rtransit", 2, 9, 0, 1, 1)
      /\ Is("open_for_Rtransit", 2, 9, 0, 2, 1) /\ Is("open_for_Rtransit", 2, 9, 0, 2, 2)
      /\ Is(closedF, 2, 9, 0, 2, 2) /\ Is(closedF, 3, 9, 0, 2, 2) /\ Is(closedF, 3, 9, 9, 2, 2)
      /\ Is("open_for_Rfinal", 3, 9, 9, 2, 2) /\ Is("open_for_Rfinal", 3, 9, 9, 3, 2)
  BY Start DEF IsPlace, GuardStates
<1>2. {closedT, closedF, "open_for_Rtransit", "open_for_Rfinal"} \subseteq GuardStates
  BY DEF GuardStates
<1>3. /\ AsksA(b, "open_for_Rtransit", 9, 0, 1, 1, Untold, 2)
      /\ AsksB(b, "open_for_Rtransit", 9, 0, 2, 1, Untold, 2)
      /\ AsksA(b, "open_for_Rfinal", 9, 9, 2, 2, Untold, 3)
  BY Start DEF AsksA, AsksB, HeadsSeen, OpenFor
<1>4. /\ Runs(Checkpoint, P0, P0) /\ Runs(Checkpoint, P1, P1) /\ Runs(Checkpoint, P2, P2)
      /\ Runs(Checkpoint, P3, P3) /\ Runs(Checkpoint, P4, P4) /\ Runs(Checkpoint, P5, P5)
      /\ Runs(Checkpoint, P6, P6) /\ Runs(Checkpoint, P7, P7)
  BY <1>1, KeptBoth
<1>5. /\ Runs(InspectBoth, P1, P1)
      /\ Runs(InspectBoth, X(closedT, 2, 9, 0, 1, 1), X(closedT, 2, 9, 0, 1, 1))
      /\ Runs(InspectBoth, P3, P3) /\ Runs(InspectBoth, P4, P4) /\ Runs(InspectBoth, P5, P5)
      /\ Runs(InspectBoth, X(closedF, 3, 9, 9, 2, 2), X(closedF, 3, 9, 9, 2, 2))
      /\ Runs(InspectBoth, P7, P7)
  BY <1>1, KeptBoth
<1>6. Runs(R0Pair, Launched(b), P0)
  BY Start, R0Runs DEF Launched
<1>7. /\ Runs(Guard(closedT), P0, X(closedT, 1, 0, 0, 1, 1))
      /\ Runs(Resolve(2), X(closedT, 1, 0, 0, 1, 1), P1)
  <2>1. Runs(Guard(closedT), P0, X(closedT, 1, 0, 0, 1, 1))
    BY <1>1, <1>2, Turned
  <2>2. Runs(Resolve(2), X(closedT, 1, 0, 0, 1, 1), P1)
    BY <1>1, ResolvesTransit
  <2>3. QED
    BY <2>1, <2>2
<1>8. /\ Runs(Publish(2, 9), P1, X(closedT, 2, 9, 0, 1, 1))
      /\ Runs(Guard("open_for_Rtransit"), X(closedT, 2, 9, 0, 1, 1), P2)
  <2>1. Runs(Publish(2, 9), P1, X(closedT, 2, 9, 0, 1, 1))
    BY <1>1, 9 # 0, PublishesTransit
  <2>2. Runs(Guard("open_for_Rtransit"), X(closedT, 2, 9, 0, 1, 1), P2)
    BY <1>1, <1>2, Turned
  <2>3. QED
    BY <2>1, <2>2
<1>9. Runs(Materialize(A, 2), P2, P3)
  BY <1>1, <1>3, AskedA
<1>10. Runs(Materialize(B, 2), P3, P4)
  BY <1>1, <1>3, AskedB
<1>11. /\ Runs(Guard(closedF), P4, X(closedF, 2, 9, 0, 2, 2))
       /\ Runs(Resolve(3), X(closedF, 2, 9, 0, 2, 2), P5)
  <2>1. Runs(Guard(closedF), P4, X(closedF, 2, 9, 0, 2, 2))
    BY <1>1, <1>2, Turned
  <2>2. Runs(Resolve(3), X(closedF, 2, 9, 0, 2, 2), P5)
    BY <1>1, ResolvesFinal
  <2>3. QED
    BY <2>1, <2>2
<1>12. /\ Runs(Publish(3, 9), P5, X(closedF, 3, 9, 9, 2, 2))
       /\ Runs(Guard("open_for_Rfinal"), X(closedF, 3, 9, 9, 2, 2), P6)
  <2>1. Runs(Publish(3, 9), P5, X(closedF, 3, 9, 9, 2, 2))
    BY <1>1, 9 # 0, PublishesFinal
  <2>2. Runs(Guard("open_for_Rfinal"), X(closedF, 3, 9, 9, 2, 2), P6)
    BY <1>1, <1>2, Turned
  <2>3. QED
    BY <2>1, <2>2
<1>13. Runs(Materialize(A, 3), P6, P7)
  BY <1>1, <1>3, AskedA
<1>14. /\ AtRest(P0) /\ AtRest(P1) /\ AtRest(P2) /\ AtRest(P3) /\ AtRest(P4) /\ AtRest(P5)
       /\ AtRest(P6) /\ AtRest(P7)
  BY <1>1, Resting
<1> HIDE DEF X
<1>15. Runs(L0, Launched(b), P0) /\ Runs(L1, P0, P1)
  BY <1>4, <1>5, <1>6, <1>7, Joined
<1>16. Runs(L2, P1, P2) /\ Runs(L3, P2, P3)
  BY <1>4, <1>5, <1>8, <1>9, Joined
<1>17. Runs(L4, P3, P4) /\ Runs(L5, P4, P5)
  BY <1>4, <1>5, <1>10, <1>11, Joined
<1>18. Runs(L6, P5, P6) /\ Runs(L7, P6, P7)
  BY <1>4, <1>5, <1>12, <1>13, Joined
<1>19. Prefix(last) = L0 \o From(1, L1) \o From(2, L2) \o From(3, L3) \o From(4, L4) \o From(5, L5)
                         \o From(6, L6) \o From(7, L7)
  BY DEF Prefix
<1> DEFINE V == CASE last = 0 -> P0 [] last = 1 -> P1 [] last = 2 -> P2 [] last = 3 -> P3 [] last = 4 -> P4
                  [] last = 5 -> P5 [] last = 6 -> P6 [] last = 7 -> P7
           Q(k, p) == IF last < k THEN V ELSE p
<1> HIDE DEF P0, P1, P2, P3, P4, P5, P6, P7, L0, L1, L2, L3, L4, L5, L6, L7
<1>20. AtRest(V)
  BY <1>14
<1>21. Runs(<<>>, V, V)
  BY <1>20, Nothing DEF AtRest
<1>22. /\ (last = 0 => V = P0) /\ (last = 1 => V = P1) /\ (last = 2 => V = P2) /\ (last = 3 => V = P3)
       /\ (last = 4 => V = P4) /\ (last = 5 => V = P5) /\ (last = 6 => V = P6) /\ (last = 7 => V = P7)
  OBVIOUS
<1> HIDE DEF V
<1>23. Runs(From(1, L1), P0, Q(1, P1))
  BY <1>15, <1>21, <1>22
<1>24. Runs(From(2, L2), Q(1, P1), Q(2, P2))
  BY <1>16, <1>21, <1>22
<1>25. Runs(From(3, L3), Q(2, P2), Q(3, P3))
  BY <1>16, <1>21, <1>22
<1>26. Runs(From(4, L4), Q(3, P3), Q(4, P4))
  BY <1>17, <1>21, <1>22
<1>27. Runs(From(5, L5), Q(4, P4), Q(5, P5))
  BY <1>17, <1>21, <1>22
<1>28. Runs(From(6, L6), Q(5, P5), Q(6, P6))
  BY <1>18, <1>21, <1>22
<1>29. Runs(From(7, L7), Q(6, P6), Q(7, P7))
  BY <1>18, <1>21, <1>22
<1>30. Q(7, P7) = V
  BY <1>22
<1> HIDE DEF From, Q
<1>31. Runs(Prefix(last), Launched(b), V)
  BY <1>15, <1>19, <1>23, <1>24, <1>25, <1>26, <1>27, <1>28, <1>29, <1>30, Joined, ZenonT(60)
<1>32. QED
  BY <1>20, <1>31

\* An adversary changes nothing the harness knows, but for the process launched for it.
LEMMA AdversaryRuns ==
  ASSUME NEW b \in BOOLEAN, Guarding(b), NEW n \in 1..6
  PROVE  \E v \in Views : /\ Runs(Adversary(n), Launched(b), v) /\ v.guarded /\ Settled(v)
                          /\ Pair \subseteq v.open /\ (n = 6 => Spare \in v.open)
<1>1. \A last \in 0..7 : \E v : AtRest(v) /\ Runs(Prefix(last), Launched(b), v)
  BY PrefixRuns
<1>2. \A v : AtRest(v) => v \in Views /\ v.guarded /\ Settled(v) /\ v.open = Pair
  BY DEF AtRest, Settled
<1>3. A \in Slots /\ B \in Slots /\ Spare \in Slots /\ Spare \notin Pair
  BY PairFacts
<1>4. CASE n = 1
  <2>1. PICK v : AtRest(v) /\ Runs(Prefix(0), Launched(b), v)
    BY <1>1
  <2>2. Runs(Ins("kill", A, 0, "none"), v, v)
    <3>1. v \in Views /\ A \in v.open /\ "none" \in Words /\ 0 \in Int
      BY <1>2, <2>1, PairFacts, Vocabulary
    <3>2. QED
      BY <1>3, <3>1, Quiet
  <2>3. Runs(Adversary(n), Launched(b), v)
    BY <1>4, <2>1, <2>2, Joined DEF Adversary
  <2>4. QED
    BY <1>2, <1>4, <2>1, <2>3
<1>5. CASE n = 2
  <2>1. PICK v : AtRest(v) /\ Runs(Prefix(1), Launched(b), v)
    BY <1>1
  <2>2. Runs(Ins("kill", B, 0, "none"), v, v) /\ Runs(Ins("wait", B, 0, "none"), v, v)
    <3>1. v \in Views /\ B \in v.open /\ "none" \in Words /\ 0 \in Int
      BY <1>2, <2>1, PairFacts, Vocabulary
    <3>2. "wait" \in QuietOps
      BY DEF QuietOps
    <3>3. QED
      BY <1>3, <3>1, <3>2, Quiet
  <2>3. Runs(Adversary(n), Launched(b), v)
    BY <1>5, <2>1, <2>2, Joined DEF Adversary
  <2>4. QED
    BY <1>2, <1>5, <2>1, <2>3
<1>6. CASE n = 3
  <2>1. PICK v : AtRest(v) /\ Runs(Prefix(2), Launched(b), v)
    BY <1>1
  <2>2. /\ Runs(Ins("liveness", A, 3, "none"), v, v)
        /\ Runs(Ins("await", A, 3, "liveness_receipt"), v, v)
        /\ Runs(Ins("await", A, 0, "changed_start"), v, v)
    BY <1>2, <1>3, <2>1, Quiet, Vocabulary DEF QuietOps
  <2>3. Runs(Adversary(n), Launched(b), v)
    BY <1>6, <2>1, <2>2, Joined DEF Adversary
  <2>4. QED
    BY <1>2, <1>6, <2>1, <2>3
<1>7. CASE n = 4
  <2>1. PICK v : AtRest(v) /\ Runs(Prefix(3), Launched(b), v)
    BY <1>1
  <2>2. /\ Runs(Ins("liveness", B, 4, "none"), v, v)
        /\ Runs(Ins("await", B, 4, "liveness_receipt"), v, v)
        /\ Runs(Ins("poll", B, 0, "stdin"), v, v)
    BY <1>2, <1>3, <2>1, Quiet, Vocabulary DEF QuietOps
  <2>3. Runs(Adversary(n), Launched(b), v)
    BY <1>7, <2>1, <2>2, Joined DEF Adversary
  <2>4. QED
    BY <1>2, <1>7, <2>1, <2>3
<1>8. CASE n = 5
  <2>1. PICK v : AtRest(v) /\ Runs(Prefix(5), Launched(b), v)
    BY <1>1
  <2>2. /\ Runs(Ins("liveness", A, 5, "none"), v, v)
        /\ Runs(Ins("await", A, 5, "liveness_receipt"), v, v)
        /\ Runs(Ins("poll", A, 0, "stdout"), v, v)
    BY <1>2, <1>3, <2>1, Quiet, Vocabulary DEF QuietOps
  <2>3. Runs(Adversary(n), Launched(b), v)
    BY <1>8, <2>1, <2>2, Joined DEF Adversary
  <2>4. QED
    BY <1>2, <1>8, <2>1, <2>3
<1>9. CASE n = 6
  <2>1. PICK v : AtRest(v) /\ Runs(Prefix(7), Launched(b), v)
    BY <1>1
  <2> DEFINE w == Opened(v, Spare)
  <2>2. v \in Views /\ v.guarded /\ Settled(v) /\ v.open = Pair
    BY <1>2, <2>1
  <2>3. Runs(Launch(Spare, 0), v, w)
    BY <1>3, <2>2, LaunchRuns
  <2>4. w \in Views /\ w.open = Pair \cup {Spare} /\ w.guarded /\ w.known = v.known /\ w.sent = v.sent
        /\ w.dead = v.dead
    BY <1>3, <2>2 DEF Views, Opened
  <2> HIDE DEF w
  <2>5. Runs(Ins("await", Spare, 0, "failure"), w, w)
    BY <1>3, <2>4, Quiet, Vocabulary
  <2>6. Settled(w)
    BY <2>2, <2>4 DEF Settled
  <2>7. Runs(Adversary(n), Launched(b), w)
    BY <1>9, <2>1, <2>3, <2>5, Joined DEF Adversary
  <2>8. QED
    BY <2>4, <2>6, <2>7
<1>10. QED
  BY <1>4, <1>5, <1>6, <1>7, <1>8, <1>9

LEMMA LivenessRuns ==
  ASSUME NEW b \in BOOLEAN, Guarding(b), NEW n \in 1..6
  PROVE  \E w \in Views : Runs(LivenessAdversary(n), Launched(b), w)
<1> DEFINE last == IF n = 6 THEN Evidence(Spare) ELSE <<>>
           state == "protocol_invalid"
<1>1. PICK v \in Views : /\ Runs(Adversary(n), Launched(b), v) /\ v.guarded /\ Settled(v)
                         /\ Pair \subseteq v.open /\ (n = 6 => Spare \in v.open)
  BY AdversaryRuns
<1>2. PICK u \in Views : Runs(Guard("failed_closed"), v, u) /\ u.open = v.open
  BY <1>1, FailsClosed
<1>3. MaySay(u, A, 0, state) /\ MaySay(u, B, 0, state)
  BY PairFacts DEF MaySay
<1>4. PICK c, w \in Views : /\ Runs(Conclude(A, 0, state), u, c) /\ Runs(Conclude(B, 0, state), c, w)
                           /\ w.open = u.open
  BY <1>3, ConcludeBoth
<1>5. Runs(EvidencePair, w, w)
  BY <1>1, <1>2, <1>4, QuietPieces, PairFacts
<1>6. Runs(last, w, w)
  BY <1>1, <1>2, <1>4, QuietPieces, PairFacts, Nothing
<1> HIDE DEF last
<1>7. Runs(Adversary(n) \o Guard("failed_closed") \o Conclude(A, 0, state) \o Conclude(B, 0, state)
             \o EvidencePair \o last, Launched(b), w)
  BY <1>1, <1>2, <1>4, <1>5, <1>6, Joined
<1>8. QED
  BY <1>7 DEF LivenessAdversary, last

\* One domain advances, the other is given a projection of no domain.
LEMMA AsymmetricPlaces ==
  ASSUME NEW b \in BOOLEAN, ~b, NEW g \in {2, 3}
  PROVE  \E h \in {2, 3} : \E y \in {0, 9} :
    /\ g <= HeadsSeen(9, y) /\ IsPlace(b, "open_for_R0", h, 9, y, g - 1, g - 1, Untold)
    /\ Runs(R0Pair \o Resolve(2) \o Publish(2, 9)
              \o (IF g = 3 THEN Materialize(A, 2) \o Inspect(A) \o Materialize(B, 2) \o Inspect(B)
                                  \o Resolve(3) \o Publish(3, 9)
                           ELSE <<>>),
            Launched(b), Place(b, "open_for_R0", h, 9, y, g - 1, g - 1, Untold))
<1> DEFINE X(h, x, y, k, m) == Place(b, "open_for_R0", h, x, y, k, m, Untold)
           Is(h, x, y, k, m) == IsPlace(b, "open_for_R0", h, x, y, k, m, Untold)
<1>1. /\ Is(1, 0, 0, 1, 1) /\ Is(2, 0, 0, 1, 1) /\ Is(2, 9, 0, 1, 1) /\ Is(2, 9, 0, 2, 1) /\ Is(2, 9, 0, 2, 2)
      /\ Is(3, 9, 0, 2, 2) /\ Is(3, 9, 9, 2, 2)
  BY Start DEF IsPlace, GuardStates
<1>2. Runs(R0Pair, Launched(b), X(1, 0, 0, 1, 1))
  BY Start, R0Runs DEF Launched
<1>3. Runs(Resolve(2), X(1, 0, 0, 1, 1), X(2, 0, 0, 1, 1))
  BY <1>1, ResolvesTransit
<1>4. Runs(Publish(2, 9), X(2, 0, 0, 1, 1), X(2, 9, 0, 1, 1))
  BY <1>1, 9 # 0, PublishesTransit
<1>5. CASE g = 2
  <2>1. 2 <= HeadsSeen(9, 0) /\ g - 1 = 1
    BY <1>5 DEF HeadsSeen
  <2>2. Runs(<<>>, X(2, 9, 0, 1, 1), X(2, 9, 0, 1, 1))
    BY <1>1, KeptBoth
  <2> HIDE DEF X
  <2>3. Runs(R0Pair \o Resolve(2) \o Publish(2, 9) \o <<>>, Launched(b), X(2, 9, 0, 1, 1))
    BY <1>2, <1>3, <1>4, <2>2, Joined
  <2>4. QED
    BY <1>1, <1>5, <2>1, <2>3 DEF X
<1>6. CASE g = 3
  <2>1. 3 <= HeadsSeen(9, 9) /\ g - 1 = 2
    BY <1>6 DEF HeadsSeen
  <2>2. /\ AsksA(b, "open_for_R0", 9, 0, 1, 1, Untold, 2)
        /\ AsksB(b, "open_for_R0", 9, 0, 2, 1, Untold, 2)
    BY Start DEF AsksA, AsksB, HeadsSeen
  <2>3. Runs(Materialize(A, 2), X(2, 9, 0, 1, 1), X(2, 9, 0, 2, 1))
    BY <1>1, <2>2, AskedA
  <2>4. Runs(Materialize(B, 2), X(2, 9, 0, 2, 1), X(2, 9, 0, 2, 2))
    BY <1>1, <2>2, AskedB
  <2>5. Runs(Inspect(A), X(2, 9, 0, 2, 1), X(2, 9, 0, 2, 1))
        /\ Runs(Inspect(B), X(2, 9, 0, 2, 2), X(2, 9, 0, 2, 2))
    BY <1>1, KeptOne, PairFacts
  <2>6. Runs(Resolve(3), X(2, 9, 0, 2, 2), X(3, 9, 0, 2, 2))
    BY <1>1, ResolvesFinal
  <2>7. Runs(Publish(3, 9), X(3, 9, 0, 2, 2), X(3, 9, 9, 2, 2))
    BY <1>1, 9 # 0, PublishesFinal
  <2> HIDE DEF X
  <2> DEFINE more == Materialize(A, 2) \o Inspect(A) \o Materialize(B, 2) \o Inspect(B)
                       \o Resolve(3) \o Publish(3, 9)
  <2>8. Runs(more, X(2, 9, 0, 1, 1), X(3, 9, 9, 2, 2))
    BY <2>3, <2>4, <2>5, <2>6, <2>7, Joined
  <2> HIDE DEF more
  <2>9. Runs(R0Pair \o Resolve(2) \o Publish(2, 9) \o more, Launched(b), X(3, 9, 9, 2, 2))
    BY <1>2, <1>3, <1>4, <2>8, Joined
  <2>10. QED
    BY <1>1, <1>6, <2>1, <2>9 DEF X, more
<1>7. QED
  BY <1>5, <1>6

LEMMA AsymmetricRuns ==
  ASSUME NEW b \in BOOLEAN, ~b, NEW g \in {2, 3}
  PROVE  /\ \E w \in Views : Runs(Asymmetric(A, B, g), Launched(b), w)
         /\ \E w \in Views : Runs(Asymmetric(B, A, g), Launched(b), w)
<1> DEFINE setup == R0Pair \o Resolve(2) \o Publish(2, 9)
              \o (IF g = 3 THEN Materialize(A, 2) \o Inspect(A) \o Materialize(B, 2) \o Inspect(B)
                                  \o Resolve(3) \o Publish(3, 9)
                           ELSE <<>>)
           k == g - 1
<1>1. PICK h \in {2, 3}, y \in {0, 9} :
        /\ g <= HeadsSeen(9, y) /\ IsPlace(b, "open_for_R0", h, 9, y, k, k, Untold)
        /\ Runs(setup, Launched(b), Place(b, "open_for_R0", h, 9, y, k, k, Untold))
  BY AsymmetricPlaces, ZenonT(60)
<1> DEFINE X(i, j) == Place(b, "open_for_R0", h, 9, y, i, j, Untold)
           Is(i, j) == IsPlace(b, "open_for_R0", h, 9, y, i, j, Untold)
<1> HIDE DEF setup
<1>2. Is(k, k) /\ Is(g, k) /\ Is(k, g)
  BY <1>1 DEF IsPlace
<1>3. ASSUME NEW s \in Pair, NEW v \in Views, v.open = Pair, v.fault[s] = "none", MayAsk(v, s, g)
      PROVE  \E c, w \in Views :
               /\ Runs(Stage(s, g, "corrupt"), v, c) /\ Runs(Ins("await", s, 9, "failure"), c, w)
               /\ Runs(Inspect(s), w, w) /\ Runs(Ins("counts", s, k, "none"), w, w)
               /\ Runs(EvidencePair, w, w)
  <2> DEFINE c == SentTo(v, s, g)
             w == Failed(c, s)
  <2>1. c \in Views /\ Runs(Stage(s, g, "corrupt"), v, c)
    BY <1>3, FaultyRuns
  <2>2. c.open = Pair
    BY <1>3, Fields
  <2> HIDE DEF c
  <2>3. w \in Views /\ Runs(Ins("await", s, 9, "failure"), c, w)
    BY <2>1, FailureRuns
  <2>4. w.open = Pair
    BY <2>1, <2>2, Fields
  <2> HIDE DEF w
  <2>5. s \in Slots /\ k \in Int
    BY PairFacts
  <2>6. Runs(Inspect(s), w, w) /\ Runs(EvidencePair, w, w) /\ Runs(Ins("counts", s, k, "none"), w, w)
    BY <2>3, <2>4, <2>5, QuietPieces, Quiet, Vocabulary DEF QuietOps
  <2>7. QED
    BY <2>1, <2>3, <2>6
<1>4. /\ AsksA(b, "open_for_R0", 9, y, k, k, Untold, g)
      /\ AsksB(b, "open_for_R0", 9, y, k, k, Untold, g)
      /\ AsksB(b, "open_for_R0", 9, y, g, k, Untold, g) /\ AsksA(b, "open_for_R0", 9, y, k, g, Untold, g)
  BY <1>1, Start DEF AsksA, AsksB
<1>5. Runs(Materialize(A, g), X(k, k), X(g, k)) /\ Runs(Materialize(B, g), X(k, k), X(k, g))
  <2>1. Runs(Materialize(A, g), X(k, k), X(g, k))
    BY <1>2, <1>4, AskedA
  <2>2. Runs(Materialize(B, g), X(k, k), X(k, g))
    BY <1>2, <1>4, AskedB
  <2>3. QED
    BY <2>1, <2>2
<1>6. Runs(Inspect(A), X(g, k), X(g, k)) /\ Runs(Inspect(B), X(k, g), X(k, g))
  BY <1>2, KeptOne, PairFacts
<1>7. MayAsk(X(g, k), B, g) /\ MayAsk(X(k, g), A, g)
  <2>1. MayAsk(X(g, k), B, g)
    BY <1>2, <1>4, MayAskB
  <2>2. MayAsk(X(k, g), A, g)
    BY <1>2, <1>4, MayAskA
  <2>3. QED
    BY <2>1, <2>2
<1>8. X(g, k) \in Views /\ X(k, g) \in Views
  BY <1>2, PlaceView
<1>9. /\ X(g, k).open = Pair /\ X(g, k).fault = All2("none")
      /\ X(k, g).open = Pair /\ X(k, g).fault = All2("none")
  BY PlaceFields
<1>10. A \in Pair /\ B \in Pair /\ \A s \in Pair : All2("none")[s] = "none"
  BY PairFacts DEF All2
<1> HIDE DEF X, k
<1>11. PICK c, w \in Views :
         /\ Runs(Stage(B, g, "corrupt"), X(g, k), c) /\ Runs(Ins("await", B, 9, "failure"), c, w)
         /\ Runs(Inspect(B), w, w) /\ Runs(Ins("counts", B, k, "none"), w, w)
         /\ Runs(EvidencePair, w, w)
  BY <1>3, <1>7, <1>8, <1>9, <1>10
<1>12. PICK d, x \in Views :
         /\ Runs(Stage(A, g, "corrupt"), X(k, g), d) /\ Runs(Ins("await", A, 9, "failure"), d, x)
         /\ Runs(Inspect(A), x, x) /\ Runs(Ins("counts", A, k, "none"), x, x)
         /\ Runs(EvidencePair, x, x)
  BY <1>3, <1>7, <1>8, <1>9, <1>10
<1>13. Runs(setup, Launched(b), X(k, k))
  BY <1>1 DEF X
<1>14. Runs(setup \o Materialize(A, g) \o Inspect(A) \o Stage(B, g, "corrupt") \o Ins("await", B, 9, "failure")
              \o Inspect(B) \o Ins("counts", B, k, "none") \o EvidencePair, Launched(b), w)
  BY <1>5, <1>6, <1>11, <1>13, Joined
<1>15. Runs(setup \o Materialize(B, g) \o Inspect(B) \o Stage(A, g, "corrupt") \o Ins("await", A, 9, "failure")
              \o Inspect(A) \o Ins("counts", A, k, "none") \o EvidencePair, Launched(b), x)
  BY <1>5, <1>6, <1>12, <1>13, Joined
<1>16. QED
  BY <1>14, <1>15 DEF Asymmetric, setup, k

-----------------------------------------------------------------------------
(* The controls *)

\* The head is ahead of both domains, whose guard has opened for it.
LEMMA StalePlaces ==
  ASSUME NEW b \in BOOLEAN, Guarding(b)
  PROVE  LET X(g, h, y, k) == Place(b, g, h, 9, y, k, k, Untold)
             closed == "closed_for_R0_to_Rtransit"
         IN /\ IsPlace(b, closed, 2, 9, 0, 1, 1, Untold)
            /\ IsPlace(b, "open_for_Rtransit", 2, 9, 0, 1, 1, Untold)
            /\ IsPlace(b, "open_for_Rtransit", 2, 9, 0, 2, 2, Untold)
            /\ Runs(ControlStaleR0, Launched(b), X(closed, 2, 0, 1))
            /\ Runs(InspectBoth, X(closed, 2, 0, 1), X(closed, 2, 0, 1))
            /\ Runs(Guard("open_for_Rtransit"), X(closed, 2, 0, 1), X("open_for_Rtransit", 2, 0, 1))
            /\ Runs(RefreshBoth, X("open_for_Rtransit", 2, 0, 1), X("open_for_Rtransit", 2, 0, 2))
            /\ Runs(InspectBoth, X("open_for_Rtransit", 2, 0, 2), X("open_for_Rtransit", 2, 0, 2))
<1> DEFINE closed == "closed_for_R0_to_Rtransit"
           X(g, h, y, k) == Place(b, g, h, 9, y, k, k, Untold)
<1>1. /\ IsPlace(b, closed, 2, 9, 0, 1, 1, Untold)
      /\ IsPlace(b, "open_for_Rtransit", 2, 9, 0, 1, 1, Untold)
      /\ IsPlace(b, "open_for_Rtransit", 2, 9, 0, 2, 2, Untold) /\ "open_for_Rtransit" \in GuardStates
  BY Start DEF IsPlace, GuardStates
<1>2. Runs(ControlStaleR0, Launched(b), X(closed, 2, 0, 1))
  BY Start, StaleR0Runs DEF Launched
<1>3. Runs(Guard("open_for_Rtransit"), X(closed, 2, 0, 1), X("open_for_Rtransit", 2, 0, 1))
  BY <1>1, Turned
<1>4. Runs(RefreshBoth, X("open_for_Rtransit", 2, 0, 1), X("open_for_Rtransit", 2, 0, 2))
  BY Start, RefreshBothRuns
<1>5. /\ Runs(InspectBoth, X(closed, 2, 0, 1), X(closed, 2, 0, 1))
      /\ Runs(InspectBoth, X("open_for_Rtransit", 2, 0, 2), X("open_for_Rtransit", 2, 0, 2))
  BY <1>1, KeptBoth
<1>6. QED
  BY <1>1, <1>2, <1>3, <1>4, <1>5

\* C1: both domains keep R0 while the record goes on to Rfinal.
LEMMA StaleControlRuns ==
  ASSUME NEW b \in BOOLEAN, Guarding(b)
  PROVE  \E w \in Views : Runs(Control("C1"), Launched(b), w)
<1> DEFINE X(g, h, y) == Place(b, g, h, 9, y, 1, 1, Untold)
           closed == "closed_for_R0_to_Rtransit"
           behind == "closed_for_c1_Rtransit_to_Rfinal"
           v == X(behind, 3, 9)
<1>1. /\ IsPlace(b, behind, 2, 9, 0, 1, 1, Untold) /\ IsPlace(b, behind, 3, 9, 0, 1, 1, Untold)
      /\ IsPlace(b, behind, 3, 9, 9, 1, 1, Untold) /\ behind \in GuardStates
      /\ IsPlace(b, "open_for_Rtransit", 2, 9, 0, 1, 1, Untold)
  BY Start DEF IsPlace, GuardStates
<1>2. /\ Runs(ControlStaleR0, Launched(b), X(closed, 2, 0))
      /\ Runs(InspectBoth, X(closed, 2, 0), X(closed, 2, 0))
      /\ Runs(Guard("open_for_Rtransit"), X(closed, 2, 0), X("open_for_Rtransit", 2, 0))
  BY StalePlaces
<1>3. Runs(Guard(behind), X("open_for_Rtransit", 2, 0), X(behind, 2, 0))
  BY <1>1, Turned
<1>4. Runs(Resolve(3), X(behind, 2, 0), X(behind, 3, 0))
  BY <1>1, ResolvesFinal
<1>5. Runs(Publish(3, 9), X(behind, 3, 0), v)
  BY <1>1, 9 # 0, PublishesFinal
<1>6. Runs(InspectBoth, v, v)
  BY <1>1, KeptBoth
<1>7. v \in Views
  BY <1>1, PlaceView
<1>8. v.open = Pair /\ v.sent = Levels2(1, 1) /\ v.known = Levels2(1, 1) /\ v.fault = All2("none")
  BY PlaceFields
<1>9. \A s \in Pair : Levels2(1, 1)[s] = 1 /\ All2("none")[s] = "none"
  BY PairFacts DEF Levels2, All2
<1> HIDE DEF X, v
<1>10. MaySay(v, A, 1, "stale") /\ MaySay(v, B, 1, "stale")
  BY <1>8, <1>9, PairFacts DEF MaySay
<1>11. PICK c, w \in Views : /\ Runs(Conclude(A, 1, "stale"), v, c)
       /\ Runs(Conclude(B, 1, "stale"), c, w)
                             /\ w.open = v.open
  BY <1>7, <1>10, ConcludeBoth
<1>12. Runs(EvidencePair, w, w)
  BY <1>8, <1>11, QuietPieces, PairFacts
<1>13. Runs(ControlStaleR0 \o InspectBoth \o InspectBoth \o Guard("open_for_Rtransit")
              \o Guard(behind) \o Resolve(3) \o Publish(3, 9)
              \o InspectBoth \o Conclude(A, 1, "stale") \o Conclude(B, 1, "stale") \o EvidencePair,
            Launched(b), w)
  BY <1>2, <1>3, <1>4, <1>5, <1>6, <1>11, <1>12, Joined
<1>14. QED
  BY <1>13 DEF Control

\* C2 and C3: the publication of B fails before M20, after M16.
LEMMA FailingControlRuns ==
  ASSUME NEW b \in BOOLEAN, Guarding(b), NEW id \in {"C2", "C3"}
  PROVE  \E w \in Views : Runs(Control(id), Launched(b), w)
<1> DEFINE X(g) == Place(b, g, 2, 9, 0, 1, 1, Untold)
           closed == "closed_for_R0_to_Rtransit"
           v == X("open_for_Rtransit")
           n == IF id = "C2" THEN 20 ELSE 16
           edge == IF id = "C2" THEN "before" ELSE "after"
           f == IF "M" = "M" /\ n \in 1..16 THEN "accepted" ELSE "late"
           a == Armed(v, B, f)
           c == IF f = "accepted" THEN a ELSE SentTo(a, B, 2)
           w == Told(c, B, "invalid")
<1>1. /\ Runs(ControlStaleR0, Launched(b), X(closed))
      /\ Runs(Guard("open_for_Rtransit"), X(closed), v)
      /\ IsPlace(b, "open_for_Rtransit", 2, 9, 0, 1, 1, Untold)
  BY StalePlaces
<1>2. AtRest(v)
  BY <1>1, Resting
<1>3. MayAsk(v, B, 2)
  <2>1. AsksB(b, "open_for_Rtransit", 9, 0, 1, 1, Untold, 2)
    BY Start DEF AsksB, HeadsSeen, OpenFor
  <2>2. QED
    BY <1>1, <2>1, MayAskB
<1> HIDE DEF X, v
<1>4. B \in Pair /\ B \in Slots /\ n \in Int /\ edge \in {"before", "after"} /\ f \in {"accepted", "late"}
  BY PairFacts
<1>5. a \in Views /\ Runs(Arm(B, n, "M", edge), v, a)
  BY <1>2, <1>4, ArmRuns DEF AtRest
<1> HIDE DEF f, n, edge
<1>6. /\ a.fault[B] = f /\ a.guarded /\ a.open = Pair /\ a.sent = v.sent /\ a.known = v.known
      /\ a.said = v.said /\ a.guard = v.guard /\ a.published = v.published /\ a.guarded = v.guarded
  <2>1. v \in Views /\ v.guarded /\ v.open = Pair
    BY <1>2 DEF AtRest
  <2>2. /\ a.fault[B] = f /\ a.guarded = v.guarded /\ a.open = v.open /\ a.sent = v.sent
        /\ a.known = v.known /\ a.said = v.said /\ a.guard = v.guard /\ a.published = v.published
    BY <1>4, <2>1 DEF Views, Armed, With
  <2> HIDE DEF a
  <2>3. QED
    BY <2>1, <2>2
<1> HIDE DEF a
<1>7. MayAsk(a, B, 2)
  BY <1>3, <1>6 DEF MayAsk, Observed, Done9
<1>8. c \in Views /\ Runs(Stage(B, 2, "exact"), a, c)
  BY <1>4, <1>5, <1>6, <1>7, FaultyRuns
<1>9. c.open = Pair
  BY <1>4, <1>5, <1>6, Fields
<1> HIDE DEF c
<1>10. /\ Runs(Ins("await", B, 99, "failure"), c, c) /\ Runs(Ins("await", B, 2, "candidate"), c, c)
       /\ Runs(Inspect(B), c, c) /\ Runs(Ins("counts", B, 0, "none"), c, c)
       /\ Runs(Ins("counts", B, 1, "none"), c, c) /\ Runs(<<>>, c, c)
  <2>1. Runs(Ins("await", B, 99, "failure"), c, c) /\ Runs(Ins("await", B, 2, "candidate"), c, c)
    BY <1>4, <1>8, Quiet, Vocabulary
  <2>2. Runs(Inspect(B), c, c) /\ Runs(<<>>, c, c)
    BY <1>4, <1>8, QuietPieces, Nothing
  <2>3. Runs(Ins("counts", B, 0, "none"), c, c) /\ Runs(Ins("counts", B, 1, "none"), c, c)
    <3>1. "counts" \in QuietOps /\ "none" \in Words /\ 0 \in Int /\ 1 \in Int
      BY Vocabulary DEF QuietOps
    <3>2. \A k \in Int : \A op \in QuietOps : Runs(Ins(op, B, k, "none"), c, c)
      BY <1>4, <1>8, <3>1, Quiet
    <3>3. QED
      BY <3>1, <3>2
  <2>4. QED
    BY <2>1, <2>2, <2>3
<1>11. MaySay(c, B, 0, "invalid")
  BY <1>4 DEF MaySay
<1>12. w \in Views /\ Runs(Conclude(B, 0, "invalid"), c, w) /\ w.open = Pair
  <2>1. w \in Views /\ Runs(Conclude(B, 0, "invalid"), c, w)
    BY <1>4, <1>8, <1>11, ConcludeRuns
  <2>2. w.open = Pair
    BY <1>4, <1>8, <1>9, Fields
  <2>3. QED
    BY <2>1, <2>2
<1> HIDE DEF w
<1>13. Runs(EvidencePair, w, w)
  BY <1>12, QuietPieces, PairFacts
<1>14. CASE id = "C2"
  <2>1. Runs(Arm(B, 20, "M", "before"), v, a)
    BY <1>5, <1>14 DEF n, edge
  <2>2. Runs(ControlStaleR0 \o Guard("open_for_Rtransit") \o Arm(B, 20, "M", "before")
               \o Stage(B, 2, "exact") \o Ins("await", B, 99, "failure") \o <<>>
               \o Inspect(B) \o Ins("counts", B, 0, "none") \o Conclude(B, 0, "invalid") \o EvidencePair,
             Launched(b), w)
    BY <1>1, <1>8, <1>10, <1>12, <1>13, <2>1, Joined DEF v
  <2>3. QED
    BY <1>12, <1>14, <2>2 DEF Control
<1>15. CASE id = "C3"
  <2>1. Runs(Arm(B, 16, "M", "after"), v, a)
    BY <1>5, <1>15 DEF n, edge
  <2>2. Runs(ControlStaleR0 \o Guard("open_for_Rtransit") \o Arm(B, 16, "M", "after")
               \o Stage(B, 2, "exact") \o Ins("await", B, 99, "failure") \o Ins("await", B, 2, "candidate")
               \o Inspect(B) \o Ins("counts", B, 1, "none") \o Conclude(B, 0, "invalid") \o EvidencePair,
             Launched(b), w)
    BY <1>1, <1>8, <1>10, <1>12, <1>13, <2>1, Joined DEF v
  <2>3. QED
    BY <1>12, <1>15, <2>2 DEF Control
<1>16. QED
  BY <1>14, <1>15

\* C4a: the record goes on under an open guard.
LEMMA OpenGuardControlRuns ==
  ASSUME NEW b \in BOOLEAN, Guarding(b)
  PROVE  \E w \in Views : Runs(Control("C4a"), Launched(b), w)
<1> DEFINE X(g, h) == Place(b, g, h, 0, 0, 1, 1, Untold)
           v == X("failed_closed", 2)
           state == "protocol_invalid"
<1>1. /\ IsPlace(b, "open_for_R0", 1, 0, 0, 1, 1, Untold) /\ IsPlace(b, "open_for_R0", 2, 0, 0, 1, 1, Untold)
      /\ IsPlace(b, "failed_closed", 2, 0, 0, 1, 1, Untold) /\ "failed_closed" \in GuardStates
  BY Start DEF IsPlace, GuardStates
<1>2. Runs(R0Pair, Launched(b), X("open_for_R0", 1))
  BY Start, R0Runs DEF Launched
<1>3. Runs(Resolve(2), X("open_for_R0", 1), X("open_for_R0", 2))
  BY <1>1, ResolvesTransit
<1>4. Runs(Guard("failed_closed"), X("open_for_R0", 2), v)
  BY <1>1, Turned
<1>5. Runs(EvidencePair, v, v)
  BY <1>1, KeptBoth
<1>6. v \in Views
  BY <1>1, PlaceView
<1> HIDE DEF X, v
<1>7. MaySay(v, A, 1, state) /\ MaySay(v, B, 1, state)
  BY PairFacts DEF MaySay
<1>8. PICK c, w \in Views : /\ Runs(Conclude(A, 1, state), v, c) /\ Runs(Conclude(B, 1, state), c, w)
                            /\ w.open = v.open
  BY <1>6, <1>7, ConcludeBoth
<1>9. Runs(R0Pair \o Resolve(2) \o Guard("failed_closed") \o EvidencePair
             \o Conclude(A, 1, state) \o Conclude(B, 1, state), Launched(b), w)
  BY <1>2, <1>3, <1>4, <1>5, <1>8, Joined
<1>10. QED
  BY <1>9 DEF Control

\* C5: the replacement of B.
LEMMA ReplaceRuns ==
  ASSUME NEW v \in Views, v.open = Pair
  PROVE  \E w \in Views : Runs(Replace, v, w)
<1> DEFINE x == [v EXCEPT !.open = @ \ {B}]
           w == Opened(x, Spare)
<1>1. A \in Slots /\ B \in Slots /\ Spare \in Slots /\ Spare \notin Pair /\ A # B
  BY PairFacts
<1>2. x \in Views /\ x.open = Pair \ {B}
  BY <1>1 DEF Views
<1>3. Runs(Ins("terminate", B, 0, "none"), v, x)
  <2> DEFINE i == [op |-> "terminate", slot |-> B, n |-> 0, tag |-> "none", edge |-> "none"]
  <2>1. Allowed(v, i) /\ After(v, i) = x
    BY DEF Allowed, After
  <2>2. QED
    BY <1>1, <1>2, <2>1, Does, Vocabulary
<1>4. Runs(Evidence(B), v, v)
  BY <1>1, QuietPieces DEF Pair
<1> HIDE DEF x
<1>5. Runs(Launch(Spare, 1), x, w)
  BY <1>1, <1>2, LaunchRuns
<1>6. w \in Views /\ A \in w.open /\ Spare \in w.open
  BY <1>1, <1>2 DEF Views, Opened, Pair
<1> HIDE DEF w
<1>7. Runs(Finish(Spare), w, w) /\ Runs(Evidence(A), w, w) /\ Runs(Evidence(Spare), w, w)
  BY <1>1, <1>6, QuietPieces
<1>8. QED
  BY <1>3, <1>4, <1>5, <1>6, <1>7, Joined DEF Replace

LEMMA LateControlRuns ==
  ASSUME NEW b \in BOOLEAN, Guarding(b)
  PROVE  /\ \E w \in Views : Runs(Control("C4b"), Launched(b), w)
         /\ \E w \in Views : Runs(Control("C5"), Launched(b), w)
<1> DEFINE X(g, h, k) == Place(b, g, h, 9, 0, k, k, Untold)
           closed == "closed_for_R0_to_Rtransit"
           open == "open_for_Rtransit"
           v == X("open_for_Rtransit", 2, 2)
           u == X("failed_closed", 3, 2)
           setup == ControlStaleR0 \o InspectBoth \o InspectBoth \o Guard("open_for_Rtransit")
                      \o RefreshBoth \o InspectBoth
<1>1. /\ IsPlace(b, open, 2, 9, 0, 2, 2, Untold) /\ IsPlace(b, open, 3, 9, 0, 2, 2, Untold)
      /\ IsPlace(b, "failed_closed", 3, 9, 0, 2, 2, Untold) /\ "failed_closed" \in GuardStates
  BY Start DEF IsPlace, GuardStates
<1>2. /\ Runs(ControlStaleR0, Launched(b), X(closed, 2, 1))
      /\ Runs(InspectBoth, X(closed, 2, 1), X(closed, 2, 1))
      /\ Runs(Guard("open_for_Rtransit"), X(closed, 2, 1), X("open_for_Rtransit", 2, 1))
      /\ Runs(RefreshBoth, X("open_for_Rtransit", 2, 1), v) /\ Runs(InspectBoth, v, v)
  BY StalePlaces
<1>3. Runs(Resolve(3), v, X(open, 3, 2))
  BY <1>1, ResolvesFinal
<1>4. Runs(Guard("failed_closed"), X(open, 3, 2), u)
  BY <1>1, Turned
<1>5. Runs(EvidencePair, u, u) /\ u \in Views /\ v \in Views
  BY <1>1, KeptBoth, PlaceView
<1>6. v.open = Pair
  BY PlaceFields
<1> HIDE DEF X, v, u
<1>7. Runs(setup, Launched(b), v)
  BY <1>2, Joined
<1> HIDE DEF setup
<1> DEFINE late == Resolve(3) \o Guard("failed_closed") \o EvidencePair
<1>8. Runs(late, v, u)
  BY <1>3, <1>4, <1>5, Joined
<1> HIDE DEF late
<1>9. PICK w \in Views : Runs(Replace, v, w)
  BY <1>5, <1>6, ReplaceRuns
<1>10. Runs(setup \o late, Launched(b), u) /\ Runs(setup \o Replace, Launched(b), w)
  BY <1>7, <1>8, <1>9, Joined
<1>11. Control("C4b") = setup \o late /\ Control("C5") = setup \o Replace
  BY DEF Control, setup, late
<1>12. QED
  BY <1>5, <1>10, <1>11

LEMMA ControlRuns ==
  ASSUME NEW b \in BOOLEAN, Guarding(b), NEW id \in {"C1", "C2", "C3", "C4a", "C4b", "C5"}
  PROVE  \E w \in Views : Runs(Control(id), Launched(b), w)
  BY StaleControlRuns, FailingControlRuns, OpenGuardControlRuns, LateControlRuns

-----------------------------------------------------------------------------
(* Every program *)

\* The witness, with its two refreshes in either order.
LEMMA PrimaryRuns ==
  ASSUME NEW b \in BOOLEAN, Guarding(b), NEW first \in [1..2 -> Pair], NEW second \in [1..2 -> Pair],
         \A i \in 1..2 : second[i] = IF first[i] = A THEN B ELSE A
  PROVE  \E w \in Views : Runs(Primary(first, second), Launched(b), w)
<1> DEFINE some == With(Untold, A, "synchronized")
           X(g, h, x, y, k, m) == Place(b, g, h, x, y, k, m, Agreed)
           Is(g, h, x, y, k, m) == IsPlace(b, g, h, x, y, k, m, Agreed)
           Y(k, m, q) == Place(b, "open_for_R0", 1, 0, 0, k, m, q)
           IsY(k, m, q) == IsPlace(b, "open_for_R0", 1, 0, 0, k, m, q)
           closedT == "closed_for_R0_to_Rtransit"
           closedF == "closed_for_Rtransit_to_Rfinal"
<1>1. /\ Untold \in Plain /\ some \in Plain /\ Agreed \in Plain
      /\ Untold \in Sayings /\ some \in Sayings /\ Agreed \in Sayings
      /\ With(some, B, "synchronized") = Agreed
  BY Agreeing DEF Untold
<1> HIDE DEF some
<1>2. /\ IsY(0, 0, Untold) /\ IsY(1, 0, Untold) /\ IsY(1, 0, some) /\ IsY(1, 1, some) /\ IsY(1, 1, Agreed)
      /\ AsksA(b, "open_for_R0", 0, 0, 0, 0, Untold, 1) /\ AsksB(b, "open_for_R0", 0, 0, 1, 0, some, 1)
  BY <1>1 DEF IsPlace, GuardStates, AsksA, AsksB, HeadsSeen, OpenFor
<1>3. /\ Is("open_for_R0", 1, 0, 0, 1, 1) /\ Is(closedT, 1, 0, 0, 1, 1) /\ Is(closedT, 2, 0, 0, 1, 1)
      /\ Is(closedT, 2, 9, 0, 1, 1) /\ Is("open_for_Rtransit", 2, 9, 0, 1, 1)
      /\ Is("open_for_Rtransit", 2, 9, 0, 2, 2) /\ Is(closedF, 2, 9, 0, 2, 2)
      /\ Is(closedF, 3, 9, 0, 2, 2) /\ Is(closedF, 3, 9, 9, 2, 2) /\ Is("open_for_Rfinal", 3, 9, 9, 2, 2)
      /\ Is("open_for_Rfinal", 3, 9, 9, 3, 3)
  BY <1>1 DEF IsPlace, GuardStates
<1>4. {closedT, closedF, "open_for_Rtransit", "open_for_Rfinal"} \subseteq GuardStates
  BY DEF GuardStates
<1>5. Runs(Materialize(A, 1), Launched(b), Y(1, 0, Untold))
  BY <1>2, AskedA DEF Launched
<1>6. Runs(Accept(A, 1), Y(1, 0, Untold), Y(1, 0, some))
  BY <1>2, 1 # 0, AcceptsA DEF some
<1>7. Runs(Materialize(B, 1), Y(1, 0, some), Y(1, 1, some))
  BY <1>2, AskedB
<1>8. Runs(Accept(B, 1), Y(1, 1, some), Y(1, 1, Agreed))
  <2>1. Runs(Accept(B, 1), Y(1, 1, some), Y(1, 1, With(some, B, "synchronized")))
    BY <1>2, 1 # 0, AcceptsB
  <2>2. QED
    BY <1>1, <2>1
<1>9. Runs(Inspect(A), Y(1, 0, Untold), Y(1, 0, Untold))
      /\ Runs(Inspect(B), Y(1, 1, some), Y(1, 1, some))
  BY <1>2, KeptOne, PairFacts
<1>10. Y(1, 1, Agreed) = X("open_for_R0", 1, 0, 0, 1, 1)
  OBVIOUS
<1>11. /\ Runs(Checkpoint, X("open_for_R0", 1, 0, 0, 1, 1), X("open_for_R0", 1, 0, 0, 1, 1))
       /\ Runs(InspectBoth, X(closedT, 2, 0, 0, 1, 1), X(closedT, 2, 0, 0, 1, 1))
       /\ Runs(Checkpoint, X(closedT, 2, 0, 0, 1, 1), X(closedT, 2, 0, 0, 1, 1))
       /\ Runs(InspectBoth, X(closedT, 2, 9, 0, 1, 1), X(closedT, 2, 9, 0, 1, 1))
       /\ Runs(Checkpoint, X(closedT, 2, 9, 0, 1, 1), X(closedT, 2, 9, 0, 1, 1))
  BY <1>3, KeptBoth
<1>12. /\ Runs(InspectBoth, X(closedF, 3, 9, 0, 2, 2), X(closedF, 3, 9, 0, 2, 2))
       /\ Runs(Checkpoint, X(closedF, 3, 9, 0, 2, 2), X(closedF, 3, 9, 0, 2, 2))
       /\ Runs(InspectBoth, X(closedF, 3, 9, 9, 2, 2), X(closedF, 3, 9, 9, 2, 2))
       /\ Runs(Checkpoint, X(closedF, 3, 9, 9, 2, 2), X(closedF, 3, 9, 9, 2, 2))
  BY <1>3, KeptBoth
<1>13. Runs(Guard(closedT), X("open_for_R0", 1, 0, 0, 1, 1), X(closedT, 1, 0, 0, 1, 1))
  BY <1>3, <1>4, Turned
<1>14. Runs(Resolve(2), X(closedT, 1, 0, 0, 1, 1), X(closedT, 2, 0, 0, 1, 1))
  BY <1>3, ResolvesTransit
<1>15. Runs(Publish(2, 9), X(closedT, 2, 0, 0, 1, 1), X(closedT, 2, 9, 0, 1, 1))
  BY <1>3, 9 # 0, PublishesTransit
<1>16. Runs(Guard("open_for_Rtransit"), X(closedT, 2, 9, 0, 1, 1), X("open_for_Rtransit", 2, 9, 0, 1, 1))
  BY <1>3, <1>4, Turned
<1>17. /\ first[1] \in Pair /\ first[2] \in Pair
       /\ \A i \in 1..2 : (first[i] = A /\ second[i] = B) \/ (first[i] = B /\ second[i] = A)
  <2>1. \A i \in 1..2 : first[i] \in Pair /\ (first[i] = A \/ first[i] = B)
    BY PairFacts
  <2>2. ASSUME NEW i \in 1..2 PROVE (first[i] = A /\ second[i] = B) \/ (first[i] = B /\ second[i] = A)
    <3>1. second[i] = IF first[i] = A THEN B ELSE A
      BY <2>2
    <3>2. first[i] = A \/ first[i] = B
      BY <2>1
    <3>3. QED
      BY <3>1, <3>2
  <2>3. QED
    BY <2>1, <2>2
<1>18. Runs(RefreshPair(2, first[1], second[1]), X("open_for_Rtransit", 2, 9, 0, 1, 1),
            X("open_for_Rtransit", 2, 9, 0, 2, 2))
  <2>1. 2 = 1 + 1 /\ 2 <= HeadsSeen(9, 0) /\ (b => "open_for_Rtransit" = OpenFor[2])
    BY DEF HeadsSeen, OpenFor
  <2>2. /\ Runs(RefreshPair(2, A, B), X("open_for_Rtransit", 2, 9, 0, 1, 1), X("open_for_Rtransit", 2, 9, 0, 2, 2))
        /\ Runs(RefreshPair(2, B, A), X("open_for_Rtransit", 2, 9, 0, 1, 1), X("open_for_Rtransit", 2, 9, 0, 2, 2))
    BY <1>3, <2>1, RefreshPairRuns
  <2>3. QED
    BY <1>17, <2>2
<1>19. Runs(Guard(closedF), X("open_for_Rtransit", 2, 9, 0, 2, 2), X(closedF, 2, 9, 0, 2, 2))
  BY <1>3, <1>4, Turned
<1>20. Runs(Resolve(3), X(closedF, 2, 9, 0, 2, 2), X(closedF, 3, 9, 0, 2, 2))
  BY <1>3, ResolvesFinal
<1>21. Runs(Publish(3, 9), X(closedF, 3, 9, 0, 2, 2), X(closedF, 3, 9, 9, 2, 2))
  BY <1>3, 9 # 0, PublishesFinal
<1>22. Runs(Guard("open_for_Rfinal"), X(closedF, 3, 9, 9, 2, 2), X("open_for_Rfinal", 3, 9, 9, 2, 2))
  BY <1>3, <1>4, Turned
<1>23. Runs(RefreshPair(3, first[2], second[2]), X("open_for_Rfinal", 3, 9, 9, 2, 2),
            X("open_for_Rfinal", 3, 9, 9, 3, 3))
  <2>1. 3 = 2 + 1 /\ 3 <= HeadsSeen(9, 9) /\ (b => "open_for_Rfinal" = OpenFor[3])
    BY DEF HeadsSeen, OpenFor
  <2>2. /\ Runs(RefreshPair(3, A, B), X("open_for_Rfinal", 3, 9, 9, 2, 2), X("open_for_Rfinal", 3, 9, 9, 3, 3))
        /\ Runs(RefreshPair(3, B, A), X("open_for_Rfinal", 3, 9, 9, 2, 2), X("open_for_Rfinal", 3, 9, 9, 3, 3))
    BY <1>3, <2>1, RefreshPairRuns
  <2>3. QED
    BY <1>17, <2>2
<1>24. X("open_for_Rfinal", 3, 9, 9, 3, 3) \in Views
  BY <1>3, PlaceView
<1> DEFINE p == RefreshPair(2, first[1], second[1])
           r == RefreshPair(3, first[2], second[2])
           l1 == Materialize(A, 1) \o Inspect(A) \o Accept(A, 1)
                   \o Materialize(B, 1) \o Inspect(B) \o Accept(B, 1) \o Checkpoint
           l2 == l1 \o Guard(closedT) \o Resolve(2) \o InspectBoth \o Checkpoint
           l3 == l2 \o Publish(2, 9) \o InspectBoth \o Checkpoint \o Guard("open_for_Rtransit") \o p
           l4 == l3 \o Guard(closedF) \o Resolve(3) \o InspectBoth \o Checkpoint
           l5 == l4 \o Publish(3, 9) \o InspectBoth \o Checkpoint \o Guard("open_for_Rfinal") \o r
<1>25. Primary(first, second) = l5
  BY DEF Primary
<1> HIDE DEF X, Y, p, r
<1>26. Runs(l1, Launched(b), X("open_for_R0", 1, 0, 0, 1, 1))
  BY <1>5, <1>6, <1>7, <1>8, <1>9, <1>10, <1>11, Joined
<1> HIDE DEF l1
<1>27. Runs(l2, Launched(b), X(closedT, 2, 0, 0, 1, 1))
  BY <1>11, <1>13, <1>14, <1>26, Joined
<1> HIDE DEF l2
<1>28. Runs(l3, Launched(b), X("open_for_Rtransit", 2, 9, 0, 2, 2))
  <2>1. Runs(p, X("open_for_Rtransit", 2, 9, 0, 1, 1), X("open_for_Rtransit", 2, 9, 0, 2, 2))
    BY <1>18 DEF p
  <2>2. Runs(l2 \o Publish(2, 9) \o InspectBoth \o Checkpoint, Launched(b), X(closedT, 2, 9, 0, 1, 1))
    BY <1>11, <1>15, <1>27, Joined
  <2>3. QED
    BY <1>16, <2>1, <2>2, Joined
<1> HIDE DEF l3
<1>29. Runs(l4, Launched(b), X(closedF, 3, 9, 0, 2, 2))
  <2>1. Runs(l3 \o Guard(closedF) \o Resolve(3), Launched(b), X(closedF, 3, 9, 0, 2, 2))
    BY <1>19, <1>20, <1>28, Joined
  <2>2. QED
    BY <1>12, <2>1, Joined
<1> HIDE DEF l4
<1>30. Runs(l5, Launched(b), X("open_for_Rfinal", 3, 9, 9, 3, 3))
  BY <1>12, <1>21, <1>22, <1>23, <1>29, Joined, SMTT(30) DEF r
<1>31. QED
  BY <1>24, <1>25, <1>30

\* Whatever the case, its program takes the harness from its beginning to some view.
LEMMA ProgramRuns ==
  ASSUME NEW c \in AllCases
  PROVE  \E w \in Views : Runs(Program(c), Beginning(c.kind # "asymmetric"), w)
<1> DEFINE b == c.kind # "asymmetric"
<1>1. b \in BOOLEAN
  OBVIOUS
<1>2. Runs(LaunchPair, Beginning(b), Launched(b))
  BY <1>1, LaunchPairRuns DEF Launched, Place, Untold
<1>3. ASSUME NEW p, \E w \in Views : Runs(p, Launched(b), w), Program(c) = LaunchPair \o p
      PROVE  \E w \in Views : Runs(Program(c), Beginning(b), w)
  BY <1>2, <1>3, Joined
<1>4. c.kind # "asymmetric" => Guarding(b)
  BY DEF Guarding
<1> HIDE DEF b
<1>5. CASE c \in [kind : {"primary"}, first : [1..2 -> Pair]]
  <2> DEFINE second == [i \in 1..2 |-> IF c.first[i] = A THEN B ELSE A]
  <2>1. second \in [1..2 -> Pair]
    BY PairFacts
  <2>2. c.kind = "primary"
        /\ c.first \in [1..2 -> Pair] /\ Program(c) = LaunchPair \o Primary(c.first, second)
    BY <1>5 DEF Program
  <2>3. \A i \in 1..2 : second[i] = IF c.first[i] = A THEN B ELSE A
    OBVIOUS
  <2> HIDE DEF second
  <2>4. \E w \in Views : Runs(Primary(c.first, second), Launched(b), w)
    BY <1>1, <1>4, <2>1, <2>2, <2>3, PrimaryRuns
  <2>5. QED
    BY <1>3, <2>2, <2>4 DEF b
<1>6. CASE c \in [kind : {"control"}, id : {"C1", "C2", "C3", "C4a", "C4b", "C5"}]
  <2>1. c.kind = "control" /\ Program(c) = LaunchPair \o Control(c.id)
    BY <1>6 DEF Program
  <2>2. \E w \in Views : Runs(Control(c.id), Launched(b), w)
    BY <1>1, <1>4, <1>6, <2>1, ControlRuns
  <2>3. QED
    BY <1>3, <2>1, <2>2 DEF b
<1>7. CASE c \in [kind : {"asymmetric"}, slot : Pair, n : {2, 3}]
  <2>1. c.kind = "asymmetric" /\ c.slot \in Pair /\ c.n \in {2, 3} /\ ~b
    BY <1>7 DEF b
  <2>2. /\ \E w \in Views : Runs(Asymmetric(A, B, c.n), Launched(b), w)
        /\ \E w \in Views : Runs(Asymmetric(B, A, c.n), Launched(b), w)
    BY <1>1, <2>1, AsymmetricRuns
  <2>3. Program(c) = LaunchPair \o Asymmetric(A, B, c.n) \/ Program(c) = LaunchPair \o Asymmetric(B, A, c.n)
    BY <2>1, PairFacts DEF Program
  <2>4. QED
    BY <1>3, <2>2, <2>3 DEF b
<1>8. CASE c \in [kind : {"head_fault"}, n : {2, 3}, stage : 1..9]
  <2>1. c.kind = "head_fault" /\ Program(c) = LaunchPair \o HeadFault(c.n, c.stage)
    BY <1>8 DEF Program
  <2>2. \E w \in Views : Runs(HeadFault(c.n, c.stage), Launched(b), w)
    BY <1>1, <1>4, <1>8, <2>1, HeadFaultRuns
  <2>3. QED
    BY <1>3, <2>1, <2>2 DEF b
<1>9. CASE c \in [kind : {"materialization_fault"}, n : 1..3, stage : 1..23, edge : {"before", "after"}]
  <2>1. c.kind = "materialization_fault"
        /\ Program(c) = LaunchPair \o MaterializationFault(c.n, c.stage, c.edge)
    BY <1>9 DEF Program
  <2>2. \E w \in Views : Runs(MaterializationFault(c.n, c.stage, c.edge), Launched(b), w)
    BY <1>1, <1>4, <1>9, <2>1, MaterializationFaultRuns
  <2>3. QED
    BY <1>3, <2>1, <2>2 DEF b
<1>10. CASE c \in [kind : {"observation_fault"}, n : 1..3, stage : 1..12]
  <2>1. c.kind = "observation_fault" /\ Program(c) = LaunchPair \o ObservationFault(c.n, c.stage)
    BY <1>10 DEF Program
  <2>2. \E w \in Views : Runs(ObservationFault(c.n, c.stage), Launched(b), w)
    BY <1>1, <1>4, <1>10, <2>1, ObservationFaultRuns
  <2>3. QED
    BY <1>3, <2>1, <2>2 DEF b
<1>11. CASE c \in [kind : {"liveness"}, n : 1..6]
  <2>1. c.kind = "liveness" /\ Program(c) = LaunchPair \o LivenessAdversary(c.n)
    BY <1>11 DEF Program
  <2>2. \E w \in Views : Runs(LivenessAdversary(c.n), Launched(b), w)
    BY <1>1, <1>4, <1>11, <2>1, LivenessRuns
  <2>3. QED
    BY <1>3, <2>1, <2>2 DEF b
<1>12. CASE c \in [kind : {"binding"}]
  <2> DEFINE v == Beginning(b)
             w == Opened(v, A)
  <2>1. c.kind = "binding" /\ Program(c) = Launch(A, 0) \o Ins("await", A, 0, "failure")
    BY <1>12 DEF Program
  <2>2. A \in Slots
    BY PairFacts
  <2>3. v \in Views /\ A \notin v.open
    BY <1>1 DEF Beginning, Views, GuardStates
  <2> HIDE DEF v
  <2>4. Runs(Launch(A, 0), v, w)
    BY <2>2, <2>3, LaunchRuns
  <2>5. w \in Views
    BY <2>2, <2>3 DEF Views, Opened
  <2> HIDE DEF w
  <2>6. Runs(Ins("await", A, 0, "failure"), w, w)
    BY <2>2, <2>5, Quiet, Vocabulary
  <2>7. QED
    BY <2>1, <2>4, <2>5, <2>6, Joined DEF v, b
<1>13. QED
  BY <1>5, <1>6, <1>7, <1>8, <1>9, <1>10, <1>11, <1>12 DEF AllCases

-----------------------------------------------------------------------------
(* The processes *)

Plans == [tag : Words, n : Int, edge : Words]

Lines == {c \in [op : AllOps, n : Int, tag : Words, edge : Words] :
            /\ c.op = "materialize" => c.n \in 1..3
            /\ c.op = "arm" => c.tag \in {"M", "O"}}

Objects == [kind : Words, n : Int, m : Int]

Processes ==
  [life : {"absent", "suspended", "running", "exited", "reaped"},
   bound : BOOLEAN, failed : BOOLEAN, terminal : BOOLEAN, fresh : BOOLEAN,
   plan : Plans, spent : BOOLEAN,
   generation : 0..3, anchor : 0..3, subject : 0..3, publication : {"none", "published", "invalid"},
   stdin : BOOLEAN, stdout : BOOLEAN]

\* A fault that leaves the predecessor whole.
Early(plan) == plan.tag = "M" /\ plan.n \in 1..16

\* SaysWhatItShows, of one process.
Truthful(s, p) ==
  p.publication # "invalid" => p.anchor = p.generation /\ p.subject = Subject(s, p.generation)

\* And what makes it so: what invalidates and what has struck is final; and the one subject
\* is gone from domain B after its first generation.
Sound(s, p) ==
  /\ Truthful(s, p)
  /\ p.publication = "invalid" => p.terminal
  /\ p.spent => p.terminal
  /\ p.fresh => p.generation = 0
  /\ s \notin InRoleA /\ p.generation >= 2 => p.subject = 0

\* Invalidated by the engine: no fault that is armed does it, so that the generation it
\* was asked for is never represented.
Lost(p) == p.publication = "invalid" /\ (p.plan = NoFault \/ Early(p.plan))

Running(s) == {p \in Processes : p.life = "running" /\ Sound(s, p)}

\* What a process has written of itself is true of it, then and later.
Backed(p, o) ==
  /\ o.kind = "failure" /\ o.n # 0 => p.terminal
  /\ o.kind = "arm_receipt" => p.plan # NoFault
  /\ o.kind = "receipt" => o.n <= p.generation \/ p.plan # NoFault

\* A line is a materialization that may come to be represented.
Advancing(p, c) == c.op = "materialize" /\ c.n = p.generation + 1 /\ ~p.terminal /\ ~Early(p.plan)

\* What a line may make of a process.
Follows(s, p, c, q) ==
  /\ q.generation = p.generation \/ (Advancing(p, c) /\ q.generation = c.n)
  /\ \/ q.plan = p.plan
     \/ c.op = "arm" /\ p.plan = NoFault /\ q.plan = [tag |-> c.tag, n |-> c.n, edge |-> c.edge]
  /\ p.terminal => q.terminal
  /\ q.subject \in {p.subject, 0} \/ (Advancing(p, c) /\ q.subject = Subject(s, c.n))
  /\ Lost(q) => q.generation = p.generation /\ (Lost(p) \/ Advancing(p, c))

\* A process that is where it was, but for what nothing depends on.
Alike(p, q) ==
  /\ q.plan = p.plan /\ q.generation = p.generation /\ q.anchor = p.anchor /\ q.subject = p.subject
  /\ Lost(q) => Lost(p)

LEMMA AlikeFollows ==
  ASSUME NEW s, NEW p, NEW c, NEW q, Alike(p, q), p.terminal => q.terminal
  PROVE  Follows(s, p, c, q)
  BY DEF Alike, Follows

\* What a line changes that is not the publication.
LEMMA RunningKept ==
  ASSUME NEW s \in Slots, NEW p \in Running(s)
  PROVE  /\ [p EXCEPT !.failed = TRUE] \in Running(s) /\ Alike(p, [p EXCEPT !.failed = TRUE])
         /\ [p EXCEPT !.failed = TRUE].terminal = p.terminal
         /\ [p EXCEPT !.bound = TRUE] \in Running(s) /\ Alike(p, [p EXCEPT !.bound = TRUE])
         /\ [p EXCEPT !.bound = TRUE].terminal = p.terminal
         /\ [p EXCEPT !.fresh = FALSE] \in Running(s) /\ Alike(p, [p EXCEPT !.fresh = FALSE])
         /\ [p EXCEPT !.fresh = FALSE].terminal = p.terminal
<1>1. [p EXCEPT !.failed = TRUE] \in Processes /\ [p EXCEPT !.bound = TRUE] \in Processes
      /\ [p EXCEPT !.fresh = FALSE] \in Processes
  BY DEF Running, Processes
<1>2. [p EXCEPT !.failed = TRUE] \in Running(s) /\ [p EXCEPT !.bound = TRUE] \in Running(s)
  BY <1>1 DEF Running, Processes, Sound, Truthful
<1>3. [p EXCEPT !.fresh = FALSE] \in Running(s)
  BY <1>1 DEF Running, Processes, Sound, Truthful
<1>4. QED
  BY <1>2, <1>3 DEF Alike, Lost, Running, Processes

LEMMA RunningLives ==
  ASSUME NEW s \in Slots, NEW p \in Running(s), NEW in \in BOOLEAN, NEW out \in BOOLEAN
  PROVE  /\ [p EXCEPT !.fresh = FALSE, !.stdin = in, !.stdout = out] \in Running(s)
         /\ Alike(p, [p EXCEPT !.fresh = FALSE, !.stdin = in, !.stdout = out])
         /\ [p EXCEPT !.fresh = FALSE, !.stdin = in, !.stdout = out].terminal = p.terminal
<1> DEFINE q == [p EXCEPT !.fresh = FALSE, !.stdin = in, !.stdout = out]
<1>1. /\ q \in Processes /\ q.life = "running" /\ q.fresh = FALSE
      /\ q.plan = p.plan /\ q.generation = p.generation /\ q.anchor = p.anchor /\ q.subject = p.subject
      /\ q.terminal = p.terminal /\ q.spent = p.spent /\ q.publication = p.publication
  BY DEF Running, Processes
<1> HIDE DEF q
<1>2. q \in Running(s) /\ Alike(p, q)
  BY <1>1 DEF Running, Sound, Truthful, Alike, Lost
<1>3. QED
  BY <1>1, <1>2 DEF q

\* A fault is armed only where there is none, so what is lost then was lost before.
LEMMA RunningArmed ==
  ASSUME NEW s \in Slots, NEW p \in Running(s), NEW plan \in Plans, p.plan = NoFault
  PROVE  /\ [p EXCEPT !.plan = plan] \in Running(s)
         /\ [p EXCEPT !.plan = plan].plan = plan
         /\ \A c : c.op = "arm" /\ plan = [tag |-> c.tag, n |-> c.n, edge |-> c.edge]
                     => Follows(s, p, c, [p EXCEPT !.plan = plan])
<1> DEFINE q == [p EXCEPT !.plan = plan]
<1>1. /\ q \in Processes /\ q.life = "running" /\ q.fresh = p.fresh
      /\ q.plan = plan /\ q.generation = p.generation /\ q.anchor = p.anchor /\ q.subject = p.subject
      /\ q.terminal = p.terminal /\ q.spent = p.spent /\ q.publication = p.publication
  BY DEF Running, Processes
<1> HIDE DEF q
<1>2. q \in Running(s)
  BY <1>1 DEF Running, Sound, Truthful
<1>3. \A c : c.op = "arm" /\ plan = [tag |-> c.tag, n |-> c.n, edge |-> c.edge] => Follows(s, p, c, q)
  BY <1>1 DEF Follows, Lost
<1>4. QED
  BY <1>1, <1>2, <1>3 DEF q

\* An inspection fails only where its fault is armed.
LEMMA RunningInvalid ==
  ASSUME NEW s \in Slots, NEW p \in Running(s), FaultStop(p, "O") < 24
  PROVE  LET q == [p EXCEPT !.fresh = FALSE, !.terminal = TRUE, !.spent = TRUE, !.publication = "invalid"]
         IN q \in Running(s) /\ Alike(p, q) /\ q.terminal = TRUE
<1> DEFINE q == [p EXCEPT !.fresh = FALSE, !.terminal = TRUE, !.spent = TRUE, !.publication = "invalid"]
<1>1. /\ q \in Processes /\ q.life = "running" /\ q.fresh = FALSE
      /\ q.plan = p.plan /\ q.generation = p.generation /\ q.anchor = p.anchor /\ q.subject = p.subject
      /\ q.terminal = TRUE /\ q.spent = TRUE /\ q.publication = "invalid"
  BY DEF Running, Processes
<1>2. p.plan.tag = "O"
  BY DEF FaultStop
<1> HIDE DEF q
<1>3. p.plan # NoFault /\ ~Early(p.plan)
  BY <1>2 DEF NoFault, Early
<1>4. q \in Running(s) /\ Alike(p, q)
  BY <1>1, <1>3 DEF Running, Sound, Truthful, Alike, Lost
<1>5. QED
  BY <1>1, <1>4 DEF q

-----------------------------------------------------------------------------
(* A publication *)

\* What a publication asks of a process: its generation is the next.
LEMMA NextGeneration ==
  ASSUME NEW s \in Slots, NEW p \in Running(s), NEW g \in 1..3, MaterializeAllowed(p, g)
  PROVE  g = p.generation + 1 /\ ~p.terminal /\ ~p.spent /\ p.publication # "invalid"
  BY DEF MaterializeAllowed, Running, Processes, Sound

\* The world after so many stages.
LEMMA WorldShown ==
  ASSUME NEW s \in Slots, NEW p \in Running(s), NEW g \in 1..3, NEW done \in Int
  PROVE  LET w == WorldAfter(s, p, g, done) IN
         /\ w \in Processes /\ w.life = "running"
         /\ w.anchor = IF done >= 20 THEN g ELSE IF done >= 18 THEN 0 ELSE p.anchor
         /\ w.subject = IF done >= 19 THEN Subject(s, g) ELSE IF done >= 18 THEN 0 ELSE p.subject
         /\ w.plan = p.plan /\ w.generation = p.generation /\ w.terminal = p.terminal
         /\ w.spent = p.spent /\ w.publication = p.publication /\ w.fresh = p.fresh
<1> DEFINE x == IF done >= 20 THEN g ELSE IF done >= 18 THEN 0 ELSE p.anchor
           y == IF done >= 19 THEN Subject(s, g) ELSE IF done >= 18 THEN 0 ELSE p.subject
           w == [p EXCEPT !.anchor = x, !.subject = y]
<1>1. x \in 0..3 /\ y \in 0..3
  BY DEF Running, Processes, Subject
<1>2. WorldAfter(s, p, g, done) = w
  BY DEF WorldAfter
<1> HIDE DEF x, y
<1>3. /\ w \in Processes /\ w.life = "running" /\ w.anchor = x /\ w.subject = y
      /\ w.plan = p.plan /\ w.generation = p.generation /\ w.terminal = p.terminal
      /\ w.spent = p.spent /\ w.publication = p.publication /\ w.fresh = p.fresh
  BY <1>1 DEF Running, Processes
<1> HIDE DEF w
<1>4. QED
  BY <1>2, <1>3 DEF x, y

LEMMA PublishedShown ==
  ASSUME NEW w \in Processes, NEW g \in 1..3
  PROVE  /\ Published(w, g) \in Processes /\ Published(w, g).life = w.life
         /\ Published(w, g).generation = g /\ Published(w, g).publication = "published"
         /\ Published(w, g).anchor = w.anchor /\ Published(w, g).subject = w.subject
         /\ Published(w, g).plan = w.plan /\ Published(w, g).terminal = w.terminal
         /\ Published(w, g).spent = w.spent
<1> DEFINE r == [w EXCEPT !.generation = g, !.publication = "published"]
<1>1. Published(w, g) = r
  BY DEF Published
<1>2. r \in Processes
  <2>1. g \in 0..3
    OBVIOUS
  <2>2. QED
    BY <2>1 DEF Processes
<1>3. /\ r.life = w.life /\ r.generation = g /\ r.publication = "published"
      /\ r.anchor = w.anchor /\ r.subject = w.subject
      /\ r.plan = w.plan /\ r.terminal = w.terminal /\ r.spent = w.spent
  BY DEF Processes
<1> HIDE DEF r
<1>4. QED
  BY <1>1, <1>2, <1>3

LEMMA SubjectGone ==
  ASSUME NEW s, NEW g, s \notin InRoleA, g >= 2, g \in 0..3
  PROVE  Subject(s, g) = 0
  BY DEF Subject, Present

\* A publication that comes to its end shows its generation.
LEMMA RunningPublishes ==
  ASSUME NEW s \in Slots, NEW p \in Running(s), NEW c \in Lines, c.op = "materialize",
         MaterializeAllowed(p, c.n), FaultStop(p, "M") = 24
  PROVE  LET q == [Published(WorldAfter(s, p, c.n, 23), c.n) EXCEPT !.fresh = FALSE] IN
         /\ q \in Running(s) /\ Follows(s, p, c, q) /\ q.generation = c.n
<1> DEFINE g == c.n
           w == WorldAfter(s, p, g, 23)
           r == Published(w, g)
           q == [r EXCEPT !.fresh = FALSE]
<1>1. g \in 1..3
  BY DEF Lines
<1>2. g = p.generation + 1 /\ ~p.terminal /\ ~p.spent
  BY <1>1, NextGeneration
<1>3. ~Early(p.plan)
  BY <1>2 DEF FaultStop, Early, Running, Processes, Plans
<1>4. /\ w \in Processes /\ w.life = "running" /\ w.anchor = g /\ w.subject = Subject(s, g)
      /\ w.plan = p.plan /\ w.terminal = p.terminal /\ w.spent = p.spent
  BY <1>1, WorldShown
<1> HIDE DEF w
<1>5. /\ r \in Processes /\ r.life = "running" /\ r.generation = g /\ r.publication = "published"
      /\ r.anchor = g /\ r.subject = Subject(s, g)
      /\ r.plan = p.plan /\ r.terminal = p.terminal /\ r.spent = p.spent
  BY <1>1, <1>4, PublishedShown
<1> HIDE DEF r
<1>6. /\ q \in Processes /\ q.life = "running" /\ q.generation = g /\ q.publication = "published"
      /\ q.anchor = g /\ q.subject = Subject(s, g) /\ q.fresh = FALSE
      /\ q.plan = p.plan /\ q.terminal = p.terminal /\ q.spent = p.spent
  BY <1>5 DEF Processes
<1> HIDE DEF q
<1>7. s \notin InRoleA /\ g >= 2 => Subject(s, g) = 0
  BY <1>1, SubjectGone
<1>8. q \in Running(s)
  BY <1>2, <1>6, <1>7 DEF Running, Sound, Truthful
<1>9. Follows(s, p, c, q)
  BY <1>2, <1>3, <1>6 DEF Follows, Advancing, Lost
<1>10. QED
  BY <1>6, <1>8, <1>9 DEF q, r, w

\* What a failure leaves of a process.
FailedAs(s, p, g, done, spent, late) ==
  [(IF late THEN Published(WorldAfter(s, p, g, done), g) ELSE WorldAfter(s, p, g, done))
     EXCEPT !.fresh = FALSE, !.terminal = TRUE, !.spent = spent,
            !.publication = IF done >= 17 THEN "invalid" ELSE @]

\* One that fails before its predecessor is destroyed shows the predecessor; a later one
\* is declared invalid, and no early fault is so late.
LEMMA RunningFails ==
  ASSUME NEW s \in Slots, NEW p \in Running(s), NEW c \in Lines, c.op = "materialize",
         MaterializeAllowed(p, c.n), NEW done \in Int, NEW spent \in BOOLEAN, NEW late \in BOOLEAN,
         late => done >= 20, p.plan = NoFault \/ Early(p.plan) => done < 17
  PROVE  /\ FailedAs(s, p, c.n, done, spent, late) \in Running(s)
         /\ Follows(s, p, c, FailedAs(s, p, c.n, done, spent, late))
         /\ FailedAs(s, p, c.n, done, spent, late).terminal
         /\ FailedAs(s, p, c.n, done, spent, late).plan = p.plan
<1> DEFINE g == c.n
           w == WorldAfter(s, p, g, done)
           r == IF late THEN Published(w, g) ELSE w
           q == [r EXCEPT !.fresh = FALSE, !.terminal = TRUE, !.spent = spent,
                          !.publication = IF done >= 17 THEN "invalid" ELSE @]
<1>1. g \in 1..3
  BY DEF Lines
<1>2. g = p.generation + 1 /\ ~p.terminal /\ ~p.spent /\ p.publication # "invalid"
  BY <1>1, NextGeneration
<1>3. /\ w \in Processes /\ w.life = "running" /\ w.plan = p.plan
      /\ w.generation = p.generation /\ w.publication = p.publication
      /\ w.anchor = IF done >= 20 THEN g ELSE IF done >= 18 THEN 0 ELSE p.anchor
      /\ w.subject = IF done >= 19 THEN Subject(s, g) ELSE IF done >= 18 THEN 0 ELSE p.subject
  BY <1>1, WorldShown
<1> HIDE DEF w
<1>4. /\ r \in Processes /\ r.life = "running" /\ r.plan = p.plan
      /\ r.generation = (IF late THEN g ELSE p.generation)
      /\ ~late => r.publication = p.publication
      /\ r.anchor = w.anchor /\ r.subject = w.subject
  BY <1>1, <1>3, PublishedShown
<1> HIDE DEF r
<1>5. /\ q \in Processes /\ q.life = "running" /\ q.plan = p.plan /\ q.fresh = FALSE /\ q.terminal = TRUE
      /\ q.generation = r.generation /\ q.anchor = r.anchor /\ q.subject = r.subject
      /\ q.publication = IF done >= 17 THEN "invalid" ELSE r.publication
  BY <1>4 DEF Processes
<1> HIDE DEF q
<1>6. s \notin InRoleA /\ g >= 2 => Subject(s, g) = 0
  BY <1>1, SubjectGone
<1>7. Truthful(s, q)
  BY <1>3, <1>4, <1>5 DEF Truthful, Running, Sound
<1>8. ~Lost(q)
  BY <1>2, <1>4, <1>5 DEF Lost
<1>9. s \notin InRoleA /\ q.generation >= 2 => q.subject = 0
  <2>1. p.generation \in 0..3 /\ (s \notin InRoleA /\ p.generation >= 2 => p.subject = 0)
    BY DEF Running, Processes, Sound
  <2>2. CASE late
    BY <1>3, <1>4, <1>5, <1>6, <2>2
  <2>3. CASE ~late
    BY <1>2, <1>3, <1>4, <1>5, <1>6, <2>1, <2>3
  <2>4. QED
    BY <2>2, <2>3
<1>10. q \in Running(s)
  BY <1>5, <1>7, <1>9 DEF Running, Sound
<1>11. Follows(s, p, c, q)
  <2>1. done >= 17 => Advancing(p, c)
    BY <1>2 DEF Advancing
  <2>2. q.generation = p.generation \/ (Advancing(p, c) /\ q.generation = c.n)
    BY <1>4, <1>5, <2>1
  <2>3. q.subject \in {p.subject, 0} \/ (Advancing(p, c) /\ q.subject = Subject(s, c.n))
    BY <1>3, <1>4, <1>5, <2>1
  <2>4. QED
    BY <1>5, <1>8, <2>2, <2>3 DEF Follows
<1>12. QED
  BY <1>5, <1>10, <1>11 DEF q, r, w, FailedAs

\* Nor has one that the engine refuses: it declares itself invalid with the generation it
\* had, and at most the subject that was due.
LEMMA RunningRefused ==
  ASSUME NEW s \in Slots, NEW p \in Running(s), NEW c \in Lines, c.op = "materialize",
         MaterializeAllowed(p, c.n), NEW n \in 18..21, n <= FaultStop(p, "M"),
         NEW world \in RefusedWorlds(s, p, c.n, n)
  PROVE  LET q == [world EXCEPT !.fresh = FALSE, !.terminal = TRUE, !.publication = "invalid"] IN
         q \in Running(s) /\ Follows(s, p, c, q) /\ q.terminal
<1> DEFINE g == c.n
           q == [world EXCEPT !.fresh = FALSE, !.terminal = TRUE, !.publication = "invalid"]
<1>1. g \in 1..3
  BY DEF Lines
<1>2. g = p.generation + 1 /\ ~p.terminal /\ ~p.spent
  BY <1>1, NextGeneration
<1>3. Advancing(p, c)
  <2>1. ~Early(p.plan)
    BY <1>2 DEF FaultStop, Early, Running, Processes, Plans
  <2>2. QED
    BY <1>2, <2>1 DEF Advancing
<1>4. /\ world \in Processes /\ world.life = "running" /\ world.plan = p.plan
      /\ world.generation = p.generation /\ world.subject \in {p.subject, 0, Subject(s, g)}
  <2>1. CASE n = 18
    <3>1. PICK a \in {p.anchor, 0}, b \in {p.subject, 0} : world = [p EXCEPT !.anchor = a, !.subject = b]
      BY <2>1 DEF RefusedWorlds
    <3>2. a \in 0..3 /\ b \in 0..3 /\ p \in Processes /\ p.life = "running"
      BY DEF Running, Processes
    <3>3. /\ world \in Processes /\ world.life = "running" /\ world.plan = p.plan
          /\ world.generation = p.generation /\ world.subject = b
      BY <3>1, <3>2 DEF Processes
    <3>4. QED
      BY <3>3
  <2>2. CASE n # 18
    <3>1. world = WorldAfter(s, p, g, n - 1) /\ n - 1 \in Int
      BY <2>2 DEF RefusedWorlds
    <3>2. QED
      BY <1>1, <3>1, WorldShown
  <2>3. QED
    BY <2>1, <2>2
<1>5. /\ q \in Processes /\ q.life = "running" /\ q.plan = p.plan /\ q.fresh = FALSE /\ q.terminal = TRUE
      /\ q.generation = p.generation /\ q.subject = world.subject /\ q.publication = "invalid"
  BY <1>4 DEF Processes
<1> HIDE DEF q
<1>6. s \notin InRoleA /\ q.generation >= 2 => q.subject = 0
  <2>1. p.generation \in 0..3 /\ (s \notin InRoleA /\ p.generation >= 2 => p.subject = 0)
    BY DEF Running, Processes, Sound
  <2>2. s \notin InRoleA /\ g >= 2 => Subject(s, g) = 0
    BY <1>1, SubjectGone
  <2>3. QED
    BY <1>2, <1>4, <1>5, <2>1, <2>2
<1>7. q \in Running(s)
  BY <1>5, <1>6 DEF Running, Sound, Truthful
<1>8. Follows(s, p, c, q)
  BY <1>3, <1>4, <1>5 DEF Follows
<1>9. QED
  BY <1>5, <1>7, <1>8 DEF q

-----------------------------------------------------------------------------
(* A line *)

\* What it writes of itself as it handles a line.
Writes(q, objects) == objects \in Seq(Objects) /\ \A i \in DOMAIN objects : Backed(q, objects[i])

\* One line, handled.
HandledWell(s, c) ==
  \E q \in Running(s) : \E objects :
    Handled(s, q, objects) /\ Follows(s, proc[s], c, q) /\ Writes(q, objects)

LEMMA WritesOne ==
  ASSUME NEW q, NEW o \in Objects, Backed(q, o)
  PROVE  Writes(q, <<o>>)
  BY DEF Writes

LEMMA WritesThen ==
  ASSUME NEW q, NEW x, NEW y, Writes(q, x), Writes(q, y)
  PROVE  Writes(q, x \o y)
<1>1. x \in Seq(Objects) /\ y \in Seq(Objects)
  BY DEF Writes
<1>2. x \o y \in Seq(Objects) /\ Len(x \o y) = Len(x) + Len(y)
  BY <1>1
<1>3. ASSUME NEW i \in DOMAIN (x \o y) PROVE Backed(q, (x \o y)[i])
  <2>1. CASE i <= Len(x)
    <3>1. i \in DOMAIN x /\ (x \o y)[i] = x[i]
      BY <1>1, <1>2, <2>1
    <3>2. QED
      BY <3>1 DEF Writes
  <2>2. CASE ~(i <= Len(x))
    <3>1. i - Len(x) \in DOMAIN y /\ (x \o y)[i] = y[i - Len(x)]
      BY <1>1, <1>2, <2>2
    <3>2. QED
      BY <3>1 DEF Writes
  <2>3. QED
    BY <2>1, <2>2
<1>4. QED
  BY <1>2, <1>3 DEF Writes

LEMMA WritesMore ==
  ASSUME NEW q, NEW x, NEW o \in Objects, Writes(q, x), Backed(q, o)
  PROVE  Writes(q, Append(x, o))
  BY DEF Writes

LEMMA WritesNone == \A q : Writes(q, <<>>)
  BY DEF Writes

\* What is written says nothing but in a receipt and a failure.
LEMMA Unremarkable ==
  ASSUME NEW q, NEW n \in Int, NEW m \in Int
  PROVE  /\ Obj("provenance", n, m) \in Objects /\ Backed(q, Obj("provenance", n, m))
         /\ Obj("bind_receipt", n, m) \in Objects /\ Backed(q, Obj("bind_receipt", n, m))
         /\ Obj("liveness_receipt", n, m) \in Objects /\ Backed(q, Obj("liveness_receipt", n, m))
         /\ Obj("changed_start", n, m) \in Objects /\ Backed(q, Obj("changed_start", n, m))
         /\ Obj("observation", n, m) \in Objects /\ Backed(q, Obj("observation", n, m))
<1>1. /\ "provenance" \in Words /\ "bind_receipt" \in Words /\ "liveness_receipt" \in Words
      /\ "changed_start" \in Words /\ "observation" \in Words
  BY Vocabulary
<1>2. \A kind \in Words : Obj(kind, n, m) \in Objects
  BY DEF Obj, Objects
<1>3. \A kind : Obj(kind, n, m).kind = kind
  BY DEF Obj
<1>4. \A o : o.kind \notin {"failure", "arm_receipt", "receipt"} => Backed(q, o)
  BY DEF Backed
<1>5. QED
  BY <1>1, <1>2, <1>3, <1>4

LEMMA Fails ==
  ASSUME NEW q, NEW o, o.n \in Int, o.m \in Int, o = [kind |-> o.kind, n |-> o.n, m |-> o.m],
         o.kind = "failure", o.n = 0 \/ q.terminal
  PROVE  o \in Objects /\ Backed(q, o)
<1>1. "failure" \in Words
  BY Vocabulary
<1>2. o \in Objects
  BY <1>1 DEF Objects
<1>3. QED
  BY <1>2 DEF Backed

LEMMA Receives ==
  ASSUME NEW q, NEW g \in 1..3, NEW subject \in Int, g <= q.generation \/ q.plan # NoFault
  PROVE  Receipt(g, subject) \in Objects /\ Backed(q, Receipt(g, subject))
<1>1. "receipt" \in Words
  BY Vocabulary
<1>2. QED
  BY <1>1 DEF Receipt, Obj, Objects, Backed

LEMMA FailedHandled ==
  ASSUME NEW s \in Slots, proc[s] \in Running(s), NEW c, ProtocolFailure(s)
  PROVE  HandledWell(s, c)
<1> DEFINE q == [proc[s] EXCEPT !.failed = TRUE]
<1>1. q \in Running(s) /\ Alike(proc[s], q) /\ q.terminal = proc[s].terminal
  BY RunningKept
<1>2. Follows(s, proc[s], c, q)
  BY <1>1, AlikeFollows
<1>3. Writes(q, <<Failure(0, FALSE)>>)
  <2>1. Failure(0, FALSE) \in Objects /\ Backed(q, Failure(0, FALSE))
    <3> HIDE DEF q
    <3>1. QED
      BY Fails DEF Failure, Obj
  <2>2. QED
    BY <2>1, WritesOne
<1>4. Handled(s, q, <<Failure(0, FALSE)>>)
  BY DEF ProtocolFailure
<1> HIDE DEF q
<1>5. QED
  BY <1>1, <1>2, <1>3, <1>4 DEF HandledWell

LEMMA BindingHandled ==
  ASSUME NEW s \in Slots, proc[s] \in Running(s), NEW c, AcceptBinding(s)
  PROVE  HandledWell(s, c)
<1> DEFINE q == [proc[s] EXCEPT !.bound = TRUE]
           objects == <<Obj("provenance", 0, 0), Obj("bind_receipt", 0, 0)>>
<1>1. q \in Running(s) /\ Alike(proc[s], q) /\ q.terminal = proc[s].terminal
  BY RunningKept
<1>2. Follows(s, proc[s], c, q)
  BY <1>1, AlikeFollows
<1>3. Writes(q, objects)
  <2> HIDE DEF q
  <2>1. 0 \in Int
    OBVIOUS
  <2>2. /\ Obj("provenance", 0, 0) \in Objects /\ Backed(q, Obj("provenance", 0, 0))
        /\ Obj("bind_receipt", 0, 0) \in Objects /\ Backed(q, Obj("bind_receipt", 0, 0))
    BY <2>1, Unremarkable
  <2>3. objects = Append(<<Obj("provenance", 0, 0)>>, Obj("bind_receipt", 0, 0))
    BY <2>2
  <2>4. QED
    BY <2>2, <2>3, WritesOne, WritesMore
<1>4. Handled(s, q, objects) \/ ProtocolFailure(s)
  BY DEF AcceptBinding
<1> HIDE DEF q, objects
<1>5. QED
  BY <1>1, <1>2, <1>3, <1>4, FailedHandled DEF HandledWell

LEMMA ArmHandled ==
  ASSUME NEW s \in Slots, proc[s] \in Running(s), Head(control[s]) \in Lines, AcceptFaultArm(s)
  PROVE  HandledWell(s, Head(control[s]))
<1> DEFINE c == Head(control[s])
           plan == [tag |-> c.tag, n |-> c.n, edge |-> c.edge]
           q == [proc[s] EXCEPT !.plan = plan]
           objects == <<Obj("arm_receipt", 0, 0)>>
<1>1. c.op = "arm" /\ c.tag \in {"M", "O"} /\ plan \in Plans /\ plan.tag = c.tag
  BY DEF AcceptFaultArm, Operates, Takes, Lines, Plans
<1>2. CASE ArmAllowed(s, c)
  <2>1. proc[s].plan = NoFault
    BY <1>2 DEF ArmAllowed
  <2>2. q \in Running(s) /\ q.plan = plan /\ Follows(s, proc[s], c, q)
    BY <1>1, <2>1, RunningArmed
  <2>3. plan # NoFault
    BY <1>1 DEF NoFault
  <2>4. Handled(s, q, objects)
    BY <1>2 DEF AcceptFaultArm
  <2> HIDE DEF q, plan
  <2>5. Writes(q, objects)
    <3>1. "arm_receipt" \in Words
      BY Vocabulary
    <3>2. Obj("arm_receipt", 0, 0) \in Objects /\ Backed(q, Obj("arm_receipt", 0, 0))
      BY <2>2, <2>3, <3>1 DEF Obj, Objects, Backed
    <3>3. QED
      BY <3>2, WritesOne
  <2> HIDE DEF objects, c
  <2>6. HandledWell(s, c)
    BY <2>2, <2>4, <2>5 DEF HandledWell
  <2>7. QED
    BY <2>6 DEF c
<1>3. CASE ~ArmAllowed(s, c)
  BY <1>3, FailedHandled DEF AcceptFaultArm
<1>4. QED
  BY <1>2, <1>3

LEMMA LivenessHandled ==
  ASSUME NEW s \in Slots, proc[s] \in Running(s), Head(control[s]) \in Lines,
         ExecuteLivenessAdversary(s)
  PROVE  HandledWell(s, Head(control[s]))
<1> DEFINE c == Head(control[s])
           in == (c.n # 4)
           out == (c.n # 5)
           q == [proc[s] EXCEPT !.fresh = FALSE, !.stdin = in, !.stdout = out]
           armed == <<Obj("liveness_receipt", c.n, 0)>>
           objects == IF c.n = 3 THEN Append(armed, Obj("changed_start", 0, 0)) ELSE armed
<1>1. c.n \in Int /\ in \in BOOLEAN /\ out \in BOOLEAN
  BY DEF Lines
<1>2. ProtocolFailure(s) \/ Handled(s, q, objects)
  BY DEF ExecuteLivenessAdversary
<1>3. Writes(q, objects)
  <2> HIDE DEF q, in, out
  <2>1. 0 \in Int
    OBVIOUS
  <2>2. Obj("changed_start", 0, 0) \in Objects /\ Backed(q, Obj("changed_start", 0, 0))
    BY <2>1, Unremarkable
  <2> HIDE DEF c
  <2>3. Obj("liveness_receipt", c.n, 0) \in Objects /\ Backed(q, Obj("liveness_receipt", c.n, 0))
    BY <1>1, <2>1, Unremarkable
  <2>4. Writes(q, armed)
    BY <2>3, WritesOne
  <2> HIDE DEF armed
  <2>5. QED
    BY <2>2, <2>4, WritesMore
<1> HIDE DEF in, out
<1>4. q \in Running(s) /\ Alike(proc[s], q) /\ q.terminal = proc[s].terminal
  BY <1>1, RunningLives
<1> HIDE DEF q, objects, c
<1>5. Follows(s, proc[s], c, q)
  BY <1>4, AlikeFollows
<1>6. HandledWell(s, c)
  BY <1>2, <1>3, <1>4, <1>5, FailedHandled DEF HandledWell
<1>7. QED
  BY <1>6 DEF c

LEMMA OnceHandled ==
  ASSUME NEW s \in Slots, proc[s] \in Running(s), Head(control[s]) \in Lines, MaterializeOnce(s)
  PROVE  HandledWell(s, Head(control[s]))
<1> DEFINE p == proc[s]
           c == Head(control[s])
           q == [Published(WorldAfter(s, p, c.n, 23), c.n) EXCEPT !.fresh = FALSE]
           o == Receipt(c.n, WorldAfter(s, p, c.n, 23).subject)
<1>1. c.op = "materialize" /\ c.n \in 1..3
  BY DEF MaterializeOnce, Operates, Takes, Lines
<1>2. MaterializeAllowed(p, c.n) /\ FaultStop(p, "M") = 24 /\ Handled(s, q, <<o>>)
  BY DEF MaterializeOnce
<1>3. q \in Running(s) /\ Follows(s, p, c, q) /\ q.generation = c.n
  BY <1>1, <1>2, RunningPublishes
<1> HIDE DEF q
<1>4. Writes(q, <<o>>)
  <2>1. c.n <= q.generation
    BY <1>1, <1>3
  <2>2. WorldAfter(s, p, c.n, 23).subject \in Int
    BY <1>1, WorldShown DEF Processes
  <2>3. QED
    BY <1>1, <2>1, <2>2, Receives, WritesOne
<1> HIDE DEF o
<1>5. QED
  BY <1>2, <1>3, <1>4 DEF HandledWell

LEMMA FailureHandled ==
  ASSUME NEW s \in Slots, proc[s] \in Running(s), Head(control[s]) \in Lines, FailMaterialization(s)
  PROVE  HandledWell(s, Head(control[s]))
<1> DEFINE p == proc[s]
           c == Head(control[s])
           g == c.n
           faulted == FaultStop(p, "M") <= BundleStop(bundle[s][g])
           done == IF faulted THEN FaultStop(p, "M") ELSE BundleStop(bundle[s][g])
           late == faulted /\ p.plan.n = 23
           world == WorldAfter(s, p, g, done)
           returned == IF late THEN Published(world, g) ELSE world
           spent == faulted \/ p.spent
           q == FailedAs(s, p, g, done, spent, late)
           after == WorldAfter(s, p, g, 22).subject
           receipts == IF faulted THEN ReceiptOfFailed(s, p, g) ELSE <<>>
           objects == receipts
                        \o <<IF faulted THEN Failure(p.plan.n, TRUE) ELSE Failure(done + 1, FALSE)>>
<1>1. c.op = "materialize" /\ g \in 1..3 /\ p.plan.n \in Int /\ p.spent \in BOOLEAN
  BY DEF FailMaterialization, Operates, Takes, Lines, Running, Processes, Plans
<1>2. MaterializeAllowed(p, g) /\ done < 24
  BY DEF FailMaterialization
<1>3. FaultStop(p, "M") \in Int /\ BundleStop(bundle[s][g]) \in {2, 8, 24}
  BY <1>1 DEF FaultStop, BundleStop
<1>4. faulted => p.plan.tag = "M" /\ ~p.spent /\ FaultStop(p, "M") \in {p.plan.n - 1, p.plan.n}
  BY <1>1, <1>2, <1>3 DEF FaultStop
<1>5. done \in Int /\ late \in BOOLEAN /\ spent \in BOOLEAN /\ (~faulted => done \in {2, 8})
  BY <1>1, <1>2, <1>3
<1>6. late => done >= 20
  BY <1>1, <1>4
<1>7. p.plan = NoFault \/ Early(p.plan) => done < 17
  BY <1>1, <1>4, <1>5 DEF NoFault, Early
<1>8. /\ q \in Running(s) /\ Follows(s, p, c, q) /\ q.terminal /\ q.plan = p.plan
  <2> HIDE DEF done, late, spent, c, p
  <2>1. c \in Lines /\ p \in Running(s)
    BY DEF c, p
  <2>2. /\ p.plan = NoFault \/ Early(p.plan) => done < 17
        /\ c.op = "materialize" /\ MaterializeAllowed(p, c.n) /\ done \in Int
        /\ spent \in BOOLEAN /\ late \in BOOLEAN /\ (late => done >= 20)
    BY <1>1, <1>2, <1>5, <1>6, <1>7
  <2>3. /\ q \in Running(s) /\ Follows(s, p, c, q) /\ q.terminal /\ q.plan = p.plan
    BY <2>1, <2>2, RunningFails, SMTT(30)
  <2>4. QED
    BY <2>3
<1>9. Handled(s, q, objects)
  <2>1. returned.spent = p.spent
    <3>1. world \in Processes /\ world.spent = p.spent
      BY <1>1, <1>5, WorldShown
    <3> HIDE DEF world, late
    <3>2. QED
      BY <1>1, <3>1, PublishedShown
  <2>2. QED
    BY <2>1, Zenon DEF FailMaterialization, FailedAs
<1> HIDE DEF q
<1>10. Writes(q, objects)
  <2> DEFINE o == IF faulted THEN Failure(p.plan.n, TRUE) ELSE Failure(done + 1, FALSE)
  <2>1. Writes(q, receipts)
    <3>1. receipts = <<>> \/ (faulted /\ \E subject \in {after, Subject(s, g)} : receipts = <<Receipt(g, subject)>>)
      BY DEF ReceiptOfFailed
    <3>2. faulted => q.plan # NoFault
      BY <1>4, <1>8 DEF NoFault
    <3>3. after \in Int /\ Subject(s, g) \in Int
      BY <1>1, WorldShown DEF Processes, Subject
    <3> HIDE DEF receipts, faulted, after
    <3>4. faulted => \A subject \in {after, Subject(s, g)} :
            Receipt(g, subject) \in Objects /\ Backed(q, Receipt(g, subject))
      BY <1>1, <3>2, <3>3, Receives
    <3>5. QED
      BY <3>1, <3>4, WritesOne, WritesNone
  <2>2. o \in Objects /\ Backed(q, o)
    <3>1. done + 1 \in Int
      BY <1>5
    <3> HIDE DEF done
    <3>2. QED
      BY <1>1, <1>8, <3>1, Fails DEF Failure, Obj
  <2>3. objects = receipts \o <<o>>
    OBVIOUS
  <2> HIDE DEF o, receipts, objects
  <2>4. QED
    BY <2>1, <2>2, <2>3, WritesOne, WritesThen
<1> HIDE DEF objects
<1>11. QED
  BY <1>8, <1>9, <1>10, SMTT(30) DEF HandledWell

LEMMA RefusalHandled ==
  ASSUME NEW s \in Slots, proc[s] \in Running(s), Head(control[s]) \in Lines, EngineRefuses(s)
  PROVE  HandledWell(s, Head(control[s]))
<1> DEFINE p == proc[s]
           c == Head(control[s])
           Left(world) == [world EXCEPT !.fresh = FALSE, !.terminal = TRUE, !.publication = "invalid"]
<1>1. c.op = "materialize" /\ MaterializeAllowed(p, c.n)
  BY DEF EngineRefuses, Operates, Takes
<1>2. PICK n \in 18..21 : /\ n <= FaultStop(p, "M")
                          /\ \E world \in RefusedWorlds(s, p, c.n, n) :
                               Handled(s, Left(world), <<Failure(24, FALSE)>>)
  BY DEF EngineRefuses
<1>3. PICK world \in RefusedWorlds(s, p, c.n, n) : Handled(s, Left(world), <<Failure(24, FALSE)>>)
  BY <1>2
<1> DEFINE q == Left(world)
<1>4. q \in Running(s) /\ Follows(s, p, c, q) /\ q.terminal
  BY <1>1, <1>2, RunningRefused
<1> HIDE DEF q
<1>5. Writes(q, <<Failure(24, FALSE)>>)
  <2>1. Failure(24, FALSE) \in Objects /\ Backed(q, Failure(24, FALSE))
    BY <1>4, Fails DEF Failure, Obj
  <2>2. QED
    BY <2>1, WritesOne
<1>6. Handled(s, q, <<Failure(24, FALSE)>>)
  BY <1>3 DEF q
<1>7. QED
  BY <1>4, <1>5, <1>6 DEF HandledWell

LEMMA InspectionHandled ==
  ASSUME NEW s \in Slots, proc[s] \in Running(s), NEW c, InspectOnce(s) \/ FailInspection(s)
  PROVE  HandledWell(s, c)
<1> DEFINE p == proc[s]
<1>1. p.anchor \in Int /\ p.subject \in Int /\ p.plan.n \in Int
  BY DEF Running, Processes, Plans
<1>2. \A q : Observation(s, p) \in Objects /\ Backed(q, Observation(s, p))
  <2> HIDE DEF p
  <2>1. QED
    BY <1>1, Unremarkable DEF Observation
<1>3. CASE InspectOnce(s)
  <2> DEFINE q == [p EXCEPT !.fresh = FALSE]
  <2>1. q \in Running(s) /\ Alike(p, q) /\ q.terminal = p.terminal
    BY RunningKept
  <2>2. Handled(s, q, <<Observation(s, p)>>)
    BY <1>3 DEF InspectOnce
  <2> HIDE DEF q
  <2>3. Writes(q, <<Observation(s, p)>>)
    BY <1>2, WritesOne
  <2>4. Follows(s, p, c, q)
    BY <2>1, AlikeFollows
  <2>5. QED
    BY <2>1, <2>2, <2>3, <2>4 DEF HandledWell
<1>4. CASE FailInspection(s)
  <2> DEFINE q == [p EXCEPT !.fresh = FALSE, !.terminal = TRUE, !.spent = TRUE, !.publication = "invalid"]
             seenFirst == IF p.plan.n = 10 /\ p.plan.edge = "after" THEN <<Observation(s, p)>> ELSE <<>>
             objects == seenFirst \o <<Failure(p.plan.n, TRUE)>>
  <2>1. q \in Running(s) /\ Alike(p, q) /\ q.terminal = TRUE
    BY <1>4, RunningInvalid DEF FailInspection
  <2>2. Handled(s, q, objects)
    BY <1>4 DEF FailInspection
  <2> HIDE DEF q
  <2>3. Failure(p.plan.n, TRUE) \in Objects /\ Backed(q, Failure(p.plan.n, TRUE))
    BY <1>1, <2>1, Fails DEF Failure, Obj
  <2>4. Writes(q, seenFirst)
    BY <1>2, WritesOne, WritesNone
  <2> HIDE DEF seenFirst
  <2>5. Writes(q, objects)
    BY <2>3, <2>4, WritesOne, WritesThen
  <2> HIDE DEF objects
  <2>6. Follows(s, p, c, q)
    BY <2>1, AlikeFollows
  <2>7. QED
    BY <2>1, <2>2, <2>5, <2>6 DEF HandledWell
<1>5. QED
  BY <1>3, <1>4

\* A line is handled by a process that runs, and leaves it running and sound.
LEMMA LineHandled ==
  ASSUME NEW s \in Slots, proc[s] \in Processes, control[s] \in Seq(Lines), Sound(s, proc[s]),
         HandleLine(s) \/ EngineRefuses(s)
  PROVE  /\ proc[s].life = "running" /\ control[s] # <<>>
         /\ Head(control[s]) \in Lines /\ HandledWell(s, Head(control[s]))
<1>1. \E ops : Takes(s, ops)
  BY DEF HandleLine, AcceptBinding, RefuseLine, AcceptFaultArm, ExecuteLivenessAdversary,
         MaterializeOnce, FailMaterialization, RejectMaterialization, InspectOnce, FailInspection,
         RejectInspection, EngineRefuses, Operates
<1>2. /\ proc[s].life = "running" /\ proc[s] \in Running(s)
      /\ control[s] # <<>> /\ Head(control[s]) \in Lines
  BY <1>1 DEF Takes, Running
<1>3. CASE RefuseLine(s) \/ RejectMaterialization(s) \/ RejectInspection(s)
  BY <1>2, <1>3, FailedHandled DEF RefuseLine, RejectMaterialization, RejectInspection
<1>4. QED
  BY <1>2, <1>3, BindingHandled, ArmHandled, LivenessHandled, OnceHandled, FailureHandled,
     RefusalHandled, InspectionHandled DEF HandleLine

-----------------------------------------------------------------------------
(* The invariant *)

TypeInv ==
  /\ proc \in [Slots -> Processes]
  /\ control \in [Slots -> Seq(Lines)]
  /\ output \in [Slots -> Seq(Objects)]
  /\ disposition \in [Slots -> [state : Words, n : Int]]
  /\ receipt \in [Slots -> 0..3]
  /\ witness \in Witnesses /\ owned \subseteq Slots
  /\ guard \in GuardStates /\ head \in 1..3 /\ published \in Heads
  /\ phase \in {"acquire", "finally", "ended"} /\ outcome \in {"none", "completed", "aborted"}
  /\ case \in AllCases

\* The processes are sound, what they have written stands, and a running one has a handle.
ProcessInv ==
  \A s \in Slots :
    /\ Sound(s, proc[s]) /\ (proc[s].life = "running" => s \in owned)
    /\ \A i \in DOMAIN output[s] : Backed(proc[s], output[s][i])

CleanInv == phase = "ended" => \A s \in Slots : s \in owned => proc[s].life = "reaped"

\* Open pipes have a number each, and what was read through a number was its slot's.
PipeInv ==
  /\ number \in [Slots -> 0..3] /\ captured \in [Slots -> SUBSET Slots]
  /\ \A s \in Slots : captured[s] \subseteq {s}
  /\ phase = "acquire" => \A s, r \in Open : number[s] = number[r] => s = r

\* What the harness knows is so.  Of the heads and the guard:
HeadFits(v) ==
  /\ v.guarded <=> case.kind # "asymmetric"
  /\ v.guard = guard /\ v.head = head /\ v.published = published
  /\ v.published[2] # 0 => v.head >= 2
  /\ v.published[3] # 0 => v.head = 3
  /\ v.sent[A] = 3 => v.known[B] >= 2
  /\ \A s \in Pair : receipt[s] = v.known[s]

\* Of a line on its way to a process: it comes to be represented only while the guard is
\* open for it, or not at all.
LineFits(v, s, c) ==
  /\ c.op = "materialize" =>
       /\ c.n <= Observed(v)
       /\ s = A /\ c.n = 3 => v.known[B] >= 2
       /\ v.fault[s] # "accepted" => c.n <= v.sent[s]
       /\ \/ c.n <= v.known[s] \/ s \in v.dead \/ v.fault[s] = "accepted"
          \/ (v.guarded => v.guard = OpenFor[c.n])
  /\ c.op = "arm" => v.fault[s] # "none" /\ (v.fault[s] # "late" => Early(c))

\* Of a process:
DomainFits(v, s) ==
  /\ v.known[s] <= proc[s].generation /\ proc[s].generation <= v.sent[s]
  /\ v.fault[s] = "none" => proc[s].plan = NoFault
  /\ v.fault[s] = "early" => proc[s].plan = NoFault \/ Early(proc[s].plan)
  /\ v.fault[s] = "accepted" => Early(proc[s].plan)
  /\ s \in v.dead => proc[s].terminal
  /\ Lost(proc[s]) => proc[s].generation < v.sent[s]
  /\ s = A /\ proc[s].subject # 0 => v.sent[s] = 3

\* Of what it has recorded of a domain:
SaidFits(v, s) ==
  /\ disposition[s].state = "synchronized" =>
       /\ v.guarded /\ v.said[s] = "synchronized" /\ v.fault[s] = "none"
       /\ disposition[s].n \in 1..3 /\ disposition[s].n <= v.sent[s]
       /\ guard = OpenFor[disposition[s].n] =>
            v.known[s] = disposition[s].n /\ v.sent[s] = disposition[s].n
  /\ disposition[s].state \in {"stale", "unbound"} =>
       /\ v.said[s] = "kept" /\ v.fault[s] \in {"none", "accepted"}
       /\ v.known[s] = disposition[s].n /\ v.sent[s] = disposition[s].n
  /\ disposition[s].state = "unbound" => disposition[s].n = 0

\* And of what is open and has a handle, as long as it acquires:
OpenFits(v) == phase = "acquire" => v.open = Open /\ v.handles \subseteq owned

LinesFit(v) == \A s \in Pair : \A i \in DOMAIN control[s] : LineFits(v, s, control[s][i])
SpareFits == \A i \in DOMAIN control[Spare] : control[Spare][i].op \notin {"materialize", "arm"}

Fits(v) ==
  /\ HeadFits(v) /\ LinesFit(v) /\ SpareFits /\ OpenFits(v)
  /\ \A s \in Pair : DomainFits(v, s) /\ SaidFits(v, s)

\* The rest of the program runs from what it knows.
ViewInv == \E v \in Views : Fits(v) /\ \E w : Runs(todo, v, w)

IInv == TypeInv /\ ProcessInv /\ CleanInv /\ PipeInv /\ ViewInv

-----------------------------------------------------------------------------
(* One instruction *)

LEMMA RunsOn ==
  ASSUME NEW p, NEW v, NEW w, Runs(p, v, w), p # <<>>
  PROVE  /\ Head(p) \in Instructions /\ Allowed(v, Head(p)) /\ After(v, Head(p)) \in Views
         /\ Runs(Tail(p), After(v, Head(p)), w)
<1>1. p \in Seq(Instructions) /\ Len(p) \in Nat /\ Len(p) >= 1 /\ Head(p) = p[1]
  BY DEF Runs
<1>2. PICK t \in [1 .. Len(p) + 1 -> Views] :
        /\ t[1] = v /\ t[Len(p) + 1] = w
        /\ \A k \in 1 .. Len(p) : Allowed(t[k], p[k]) /\ t[k + 1] = After(t[k], p[k])
  BY DEF Runs
<1>3. 1 \in 1 .. Len(p) /\ 2 \in 1 .. Len(p) + 1
  BY <1>1
<1>4. Head(p) \in Instructions /\ Allowed(v, Head(p)) /\ t[2] = After(v, Head(p)) /\ t[2] \in Views
  <2>1. t[1 + 1] = After(t[1], p[1]) /\ Allowed(t[1], p[1])
    BY <1>2, <1>3
  <2>2. QED
    BY <1>1, <1>2, <1>3, <2>1
<1> DEFINE n == Len(p)
           q == Tail(p)
           u == [k \in 1 .. n |-> t[k + 1]]
<1>5. q \in Seq(Instructions) /\ Len(q) + 1 = n /\ \A k \in 1 .. Len(q) : q[k] = p[k + 1]
  BY <1>1
<1> HIDE DEF n, q
<1>6. u \in [1 .. n -> Views] /\ u[1] = t[2] /\ u[n] = w
  BY <1>1, <1>2, <1>3 DEF n
<1>7. \A k \in 1 .. n : u[k] = t[k + 1]
  OBVIOUS
<1> HIDE DEF u
<1>8. ASSUME NEW k \in 1 .. Len(q) PROVE Allowed(u[k], q[k]) /\ u[k + 1] = After(u[k], q[k])
  <2>1. /\ k + 1 \in 1 .. n /\ k \in 1 .. n /\ k + 1 \in 1 .. Len(p)
    BY <1>1, <1>5 DEF n
  <2>2. u[k] = t[k + 1] /\ u[k + 1] = t[(k + 1) + 1] /\ q[k] = p[k + 1]
    BY <1>5, <1>7, <2>1
  <2>3. QED
    BY <1>2, <2>1, <2>2
<1>9. Runs(q, t[2], w)
  BY <1>4, <1>5, <1>6, <1>8 DEF Runs
<1>10. QED
  BY <1>4, <1>9 DEF q

\* An instruction that leaves what the harness knows fitting.
LEMMA ViewStep ==
  ASSUME ViewInv, todo # <<>>, todo' = Tail(todo),
         \A v, u \in Views : Fits(v) /\ Allowed(v, Now) /\ u = After(v, Now) => Fits(u)'
  PROVE  ViewInv'
<1>1. PICK v \in Views : Fits(v) /\ \E w : Runs(todo, v, w)
  BY DEF ViewInv
<1>2. PICK w : Runs(todo, v, w)
  BY <1>1
<1>3. PICK u \in Views : u = After(v, Now) /\ Allowed(v, Now) /\ Runs(Tail(todo), u, w)
  BY <1>2, RunsOn DEF Now
<1>4. Fits(u)'
  BY <1>1, <1>3
<1>5. QED
  BY <1>3, <1>4 DEF ViewInv

-----------------------------------------------------------------------------
(* What does not depend on the view *)

\* Two views that differ in what is open and what has a handle.
SameKnown(v, u) ==
  /\ u.guarded = v.guarded /\ u.guard = v.guard /\ u.head = v.head /\ u.published = v.published
  /\ u.sent = v.sent /\ u.known = v.known /\ u.fault = v.fault /\ u.dead = v.dead /\ u.said = v.said

SameDomains ==
  \A s \in Pair :
    /\ proc'[s].generation = proc[s].generation /\ proc'[s].plan = proc[s].plan
    /\ proc'[s].subject = proc[s].subject /\ proc'[s].terminal = proc[s].terminal
    /\ proc'[s].publication = proc[s].publication

LEMMA SameObserved == ASSUME NEW v, NEW u, u.published = v.published PROVE Observed(u) = Observed(v)
  BY DEF Observed, Done9

\* What a view says of the rest depends on nothing else.
LEMMA LinesSame ==
  ASSUME NEW v, NEW u, SameKnown(v, u), NEW s, NEW c, LineFits(v, s, c)
  PROVE  LineFits(u, s, c)
<1>1. Observed(u) = Observed(v)
  BY SameObserved DEF SameKnown
<1>2. QED
  BY <1>1 DEF SameKnown, LineFits

LEMMA FrameFits ==
  ASSUME NEW v, NEW u, Fits(v), SameKnown(v, u), SameDomains, OpenFits(u)',
         UNCHANGED <<case, guard, head, published, receipt, control, disposition>>
  PROVE  Fits(u)'
<1>1. HeadFits(u)'
  BY DEF Fits, HeadFits, SameKnown
<1>2. LinesFit(u)'
  <2>1. ASSUME NEW s \in Pair, NEW i \in DOMAIN control'[s] PROVE LineFits(u, s, control'[s][i])
    BY LinesSame DEF Fits, LinesFit
  <2>2. QED
    BY <2>1 DEF LinesFit, LineFits
<1>3. SpareFits'
  BY DEF Fits, SpareFits
<1>4. ASSUME NEW s \in Pair PROVE DomainFits(u, s)' /\ SaidFits(u, s)'
  <2>1. DomainFits(v, s) /\ SaidFits(v, s)
    BY DEF Fits
  <2>2. DomainFits(u, s)'
    BY <2>1 DEF DomainFits, Lost, SameKnown, SameDomains
  <2>3. SaidFits(u, s)'
    BY <2>1 DEF SaidFits, SameKnown
  <2>4. QED
    BY <2>2, <2>3
<1>5. QED
  BY <1>1, <1>2, <1>3, <1>4 DEF Fits

LEMMA NoLonger == ASSUME phase' # "acquire" PROVE \A v : OpenFits(v)'
  BY DEF OpenFits

LEMMA SameSelf == \A v : SameKnown(v, v)
  BY DEF SameKnown

LEMMA UnchangedDomains == ASSUME UNCHANGED proc PROVE SameDomains
  BY DEF SameDomains

\* A process changes its state of life and nothing else.
LEMMA LifeChanged ==
  ASSUME TypeInv, ProcessInv, NEW r \in Slots,
         NEW life \in {"suspended", "running", "exited", "reaped"},
         proc' = [proc EXCEPT ![r].life = life], output' = output, owned \subseteq owned',
         life = "running" => r \in owned'
  PROVE  /\ proc' \in [Slots -> Processes] /\ ProcessInv' /\ SameDomains
         /\ \A s \in Slots : proc'[s].life = IF s = r THEN life ELSE proc[s].life
<1>1. \A s \in Slots : proc'[s] = IF s = r THEN [proc[s] EXCEPT !.life = life] ELSE proc[s]
  BY DEF TypeInv
<1>2. \A p \in Processes :
        LET q == [p EXCEPT !.life = life] IN
        /\ q \in Processes /\ q.life = life
        /\ q.publication = p.publication /\ q.anchor = p.anchor /\ q.subject = p.subject
        /\ q.generation = p.generation /\ q.plan = p.plan /\ q.terminal = p.terminal
        /\ q.spent = p.spent /\ q.fresh = p.fresh
  BY DEF Processes
<1>3. proc' \in [Slots -> Processes]
  BY <1>1, <1>2 DEF TypeInv
<1>4. ASSUME NEW s \in Slots
      PROVE  /\ proc'[s].publication = proc[s].publication /\ proc'[s].anchor = proc[s].anchor
             /\ proc'[s].subject = proc[s].subject
             /\ proc'[s].generation = proc[s].generation /\ proc'[s].plan = proc[s].plan
             /\ proc'[s].terminal = proc[s].terminal /\ proc'[s].spent = proc[s].spent
             /\ proc'[s].fresh = proc[s].fresh
             /\ proc'[s].life = IF s = r THEN life ELSE proc[s].life
  BY <1>1, <1>2 DEF TypeInv
<1>5. ASSUME NEW s \in Slots
      PROVE  /\ Sound(s, proc'[s]) /\ (proc'[s].life = "running" => s \in owned')
             /\ \A i \in DOMAIN output'[s] : Backed(proc'[s], output'[s][i])
  <2>1. Sound(s, proc[s]) /\ (proc[s].life = "running" => s \in owned)
    BY DEF ProcessInv
  <2>2. \A o : Backed(proc[s], o) => Backed(proc'[s], o)
    BY <1>4 DEF Backed
  <2>3. Sound(s, proc'[s])
    BY <1>4, <2>1 DEF Sound, Truthful
  <2>4. QED
    BY <1>4, <2>1, <2>2, <2>3 DEF ProcessInv
<1>6. ProcessInv'
  BY <1>5 DEF ProcessInv, Sound, Truthful, Backed
<1>7. SameDomains
  BY <1>4, PairFacts DEF SameDomains
<1>8. QED
  BY <1>3, <1>4, <1>6, <1>7

LEMMA NewSound == ASSUME NEW s \in Slots PROVE Sound(s, NewProcess)
<1> DEFINE p == NewProcess
<1>1. /\ p.publication = "none" /\ p.anchor = 0 /\ p.generation = 0 /\ p.subject = 0
  BY DEF NewProcess
<1>2. ~p.spent
  BY DEF NewProcess
<1> HIDE DEF p
<1>3. Truthful(s, p)
  BY <1>1 DEF Truthful, Subject
<1>4. QED
  BY <1>1, <1>2, <1>3 DEF Sound, p

LEMMA InitIInv == Init => IInv
<1> SUFFICES ASSUME Init PROVE IInv
  OBVIOUS
<1> DEFINE b == case.kind # "asymmetric"
           v == Beginning(b)
<1>1. case \in AllCases /\ todo = Program(case) /\ b \in BOOLEAN
  BY CasesAssumption DEF Init
<1>2. v \in Views
  BY <1>1 DEF Beginning, Views, GuardStates
<1>3. \E w : Runs(todo, v, w)
  BY <1>1, ProgramRuns
<1>4. /\ NewProcess \in Processes /\ NewProcess.life = "absent" /\ NewProcess.generation = 0
      /\ NewProcess.anchor = 0 /\ NewProcess.subject = 0 /\ NewProcess.plan = NoFault
      /\ NewProcess.publication = "none" /\ ~NewProcess.spent
  BY Vocabulary DEF NewProcess, NoFault, Processes, Plans
<1>5. \A s \in Slots : proc[s] = NewProcess /\ control[s] = <<>> /\ output[s] = <<>>
  BY DEF Init, RouterInit
<1>6. witness \in Witnesses
  BY DEF Init, WitnessOf, Witnesses
<1>7. TypeInv
  <2>1. proc \in [Slots -> Processes] /\ control \in [Slots -> Seq(Lines)]
        /\ output \in [Slots -> Seq(Objects)]
    BY <1>4 DEF Init, RouterInit
  <2>2. disposition \in [Slots -> [state : Words, n : Int]]
    BY Vocabulary DEF Init
  <2>3. receipt \in [Slots -> 0..3] /\ published \in Heads /\ guard \in GuardStates
    BY DEF Init, Heads, GuardStates
  <2>4. /\ owned \subseteq Slots /\ head \in 1..3 /\ phase \in {"acquire", "finally", "ended"}
        /\ outcome \in {"none", "completed", "aborted"}
    BY DEF Init
  <2>5. case \in AllCases
    BY CasesAssumption DEF Init
  <2>6. QED
    BY <1>6, <2>1, <2>2, <2>3, <2>4, <2>5 DEF TypeInv
<1>8. ProcessInv
  <2>1. \A s \in Slots : Sound(s, NewProcess)
    BY NewSound
  <2>2. \A s \in Slots : \A i : i \notin DOMAIN output[s]
    BY <1>5
  <2> HIDE DEF b, v
  <2>3. QED
    BY <1>4, <1>5, <2>1, <2>2 DEF ProcessInv
<1>9. Open = {}
  BY <1>4, <1>5 DEF Open
<1>10. CleanInv /\ PipeInv
  BY <1>9 DEF Init, CleanInv, PipeInv
<1>11. Fits(v)
  <2>1. /\ (v.guarded <=> b) /\ v.guard = "open_for_R0" /\ v.head = 1
        /\ v.published = [h \in {2, 3} |-> 0] /\ v.open = {} /\ v.handles = {} /\ v.dead = {}
        /\ \A s \in Pair : v.sent[s] = 0 /\ v.known[s] = 0 /\ v.fault[s] = "none" /\ v.said[s] = "nothing"
    BY DEF Beginning
  <2> HIDE DEF v
  <2>2. HeadFits(v)
    <3>1. /\ guard = "open_for_R0" /\ head = 1 /\ published = [h \in {2, 3} |-> 0]
          /\ receipt = [s \in Slots |-> 0] /\ A \in Pair /\ Pair \subseteq Slots
      BY PairFacts DEF Init
    <3>2. v.published[2] = 0 /\ v.published[3] = 0 /\ v.sent[A] = 0
      BY <2>1, <3>1
    <3>3. QED
      BY <2>1, <3>1, <3>2 DEF HeadFits
  <2>3. LinesFit(v) /\ SpareFits
    BY <1>5, PairFacts DEF LinesFit, SpareFits
  <2>4. OpenFits(v)
    BY <1>9, <2>1 DEF OpenFits
  <2>5. ASSUME NEW s \in Pair PROVE DomainFits(v, s)
    <3>1. /\ proc[s].generation = 0 /\ proc[s].plan = NoFault /\ proc[s].subject = 0
          /\ proc[s].publication = "none"
          /\ v.known[s] = 0 /\ v.sent[s] = 0 /\ v.fault[s] = "none" /\ s \notin v.dead
      BY <1>4, <1>5, <2>1, PairFacts
    <3>2. QED
      BY <3>1 DEF DomainFits, Lost
  <2>6. \A s \in Pair : SaidFits(v, s)
    BY <2>1, PairFacts DEF SaidFits, Init
  <2>7. QED
    BY <2>2, <2>3, <2>4, <2>5, <2>6 DEF Fits
<1> HIDE DEF v
<1>12. ViewInv
  BY <1>2, <1>3, <1>11 DEF ViewInv
<1>13. QED
  BY <1>7, <1>8, <1>10, <1>12 DEF IInv

-----------------------------------------------------------------------------
(* The objects a process writes *)

\* next_object takes one object out of the list, the first of its schema.
LEMMA FirstIsOne ==
  ASSUME NEW S, S \subseteq Nat, S # {}
  PROVE  First(S) \in S
<1>1. \E i \in S : \A j \in S : ~(<<j, i>> \in OpToRel(<, Nat))
  BY WFMin, NatLessThanWellFounded, Zenon
<1>2. \A i, j \in Nat : j < i => <<j, i>> \in OpToRel(<, Nat)
  BY Zenon DEF OpToRel
<1>3. \E i \in S : \A j \in S : ~(j < i)
  BY <1>1, <1>2, Zenon
<1>4. \E i \in S : \A j \in S : i <= j
  BY <1>3
<1>5. QED
  BY <1>4 DEF First

LEMMA Taken ==
  ASSUME NEW q \in Seq(Objects), NEW i \in DOMAIN q
  PROVE  /\ Without(q, i) \in Seq(Objects)
         /\ \A j \in DOMAIN Without(q, i) : \E k \in DOMAIN q : Without(q, i)[j] = q[k]
<1> DEFINE n == Len(q)
           x == SubSeq(q, 1, i - 1)
           y == SubSeq(q, i + 1, n)
<1>1. n \in Nat /\ i \in 1..n /\ \A k \in 1..n : q[k] \in Objects
  OBVIOUS
<1>2. /\ x \in Seq(Objects) /\ Len(x) = i - 1
      /\ \A k \in 1 .. i - 1 : x[k] = q[k]
  <2>1. \A k \in 1 .. i - 1 : q[k] \in Objects
    BY <1>1
  <2>2. 1 \in Int /\ i - 1 \in Int
    BY <1>1
  <2>3. /\ x \in Seq(Objects)
        /\ Len(x) = IF 1 <= i - 1 THEN i - 1 - 1 + 1 ELSE 0
        /\ \A k \in 1 .. i - 1 - 1 + 1 : x[k] = q[1 + k - 1]
    BY <2>1, <2>2, SubSeqProperties
  <2> HIDE DEF x
  <2>4. QED
    BY <1>1, <2>3
<1>3. /\ y \in Seq(Objects) /\ Len(y) = n - i
      /\ \A k \in 1 .. n - i : y[k] = q[i + k]
  <2>1. \A k \in i + 1 .. n : q[k] \in Objects
    BY <1>1
  <2>2. i + 1 \in Int /\ n \in Int
    BY <1>1
  <2>3. /\ y \in Seq(Objects)
        /\ Len(y) = IF i + 1 <= n THEN n - (i + 1) + 1 ELSE 0
        /\ \A k \in 1 .. n - (i + 1) + 1 : y[k] = q[(i + 1) + k - 1]
    BY <2>1, <2>2, SubSeqProperties
  <2> HIDE DEF y
  <2>4. QED
    BY <1>1, <2>3
<1>4. Without(q, i) = x \o y
  BY DEF Without
<1> HIDE DEF x, y, n
<1>5. /\ x \o y \in Seq(Objects) /\ Len(x \o y) = n - 1
      /\ \A j \in 1 .. n - 1 : (x \o y)[j] = IF j <= i - 1 THEN x[j] ELSE y[j - (i - 1)]
  <2>1. /\ x \o y \in Seq(Objects) /\ Len(x \o y) = Len(x) + Len(y)
        /\ \A j \in 1 .. Len(x) + Len(y) : (x \o y)[j] = IF j <= Len(x) THEN x[j] ELSE y[j - Len(x)]
    BY <1>2, <1>3, ConcatProperties
  <2>2. Len(x) = i - 1 /\ Len(x) + Len(y) = n - 1
    <3>1. n \in Nat /\ i \in Nat
      BY <1>1
    <3>2. QED
      BY <1>2, <1>3, <3>1
  <2>3. QED
    BY <2>1, <2>2
<1>6. ASSUME NEW j \in DOMAIN (x \o y) PROVE \E k \in DOMAIN q : (x \o y)[j] = q[k]
  <2>1. j \in 1 .. n - 1
    BY <1>5
  <2>2. CASE j <= i - 1
    <3>1. (x \o y)[j] = x[j] /\ x[j] = q[j] /\ j \in DOMAIN q
      BY <1>1, <1>2, <1>5, <2>1, <2>2 DEF n
    <3>2. QED
      BY <3>1
  <2>3. CASE ~(j <= i - 1)
    <3>1. j - (i - 1) \in 1 .. n - i
      BY <1>1, <2>1, <2>3
    <3>2. (x \o y)[j] = y[j - (i - 1)]
      BY <1>5, <2>1, <2>3
    <3>3. y[j - (i - 1)] = q[i + (j - (i - 1))] /\ i + (j - (i - 1)) \in DOMAIN q
      BY <1>1, <1>3, <3>1 DEF n
    <3>4. QED
      BY <3>2, <3>3
  <2>4. QED
    BY <2>2, <2>3
<1>7. QED
  BY <1>4, <1>5, <1>6

\* What is left of a list was in it.
Fewer(q, r) == q \in Seq(Objects) /\ \A j \in DOMAIN q : \E k \in DOMAIN r : q[j] = r[k]

LEMMA FewerTaken ==
  ASSUME NEW s \in Slots, NEW tag, Matching(s, tag) # {}, output[s] \in Seq(Objects)
  PROVE  LET i == First(Matching(s, tag)) IN
         /\ Fewer(Without(output[s], i), output[s])
         /\ i \in DOMAIN output[s] /\ output[s][i].kind = Schema(tag)
<1>1. Matching(s, tag) \subseteq Nat
  BY DEF Matching
<1>2. First(Matching(s, tag)) \in Matching(s, tag)
  BY <1>1, FirstIsOne
<1>3. First(Matching(s, tag)) \in DOMAIN output[s]
  BY <1>2 DEF Matching
<1>4. output[s][First(Matching(s, tag))].kind = Schema(tag)
  BY <1>2 DEF Matching
<1>5. QED
  BY <1>3, <1>4, Taken DEF Fewer

-----------------------------------------------------------------------------
(* Instructions that change no view *)

LEMMA Acting ==
  ASSUME IInv, NEW op, Executes(op), Done
  PROVE  /\ todo # <<>> /\ todo' = Tail(todo) /\ Now.op = op /\ phase = "acquire" /\ phase' = "acquire"
         /\ UNCHANGED <<case, outcome>> /\ Now \in Instructions
         /\ \E v \in Views : Fits(v) /\ Allowed(v, Now) /\ After(v, Now) \in Views
<1>1. /\ todo # <<>> /\ todo' = Tail(todo) /\ Now.op = op /\ phase = "acquire" /\ phase' = "acquire"
      /\ UNCHANGED <<case, outcome>>
  BY DEF Executes, Done
<1>2. PICK v \in Views : Fits(v) /\ \E w : Runs(todo, v, w)
  BY DEF IInv, ViewInv
<1>3. Now \in Instructions /\ Allowed(v, Now) /\ After(v, Now) \in Views
  BY <1>1, <1>2, RunsOn DEF Now
<1>4. QED
  BY <1>1, <1>2, <1>3

\* A step that leaves the processes and their pipes alone.
LEMMA ProcessesKept ==
  ASSUME IInv, UNCHANGED <<proc, owned, number, captured, phase>>,
         \A s \in Slots : Fewer(output'[s], output[s])
  PROVE  ProcessInv' /\ CleanInv' /\ PipeInv' /\ SameDomains /\ \A v : OpenFits(v) => OpenFits(v)'
<1>1. ProcessInv'
  <2>1. ASSUME NEW s \in Slots, NEW i \in DOMAIN output'[s] PROVE Backed(proc'[s], output'[s][i])
    BY <2>1 DEF IInv, ProcessInv, Fewer
  <2>2. \A s \in Slots : Sound(s, proc'[s]) /\ (proc'[s].life = "running" => s \in owned')
    BY DEF IInv, ProcessInv
  <2>3. QED
    BY <2>1, <2>2 DEF ProcessInv, Sound, Truthful, Backed
<1>2. CleanInv'
  BY DEF IInv, CleanInv
<1>3. Open' = Open
  BY DEF Open
<1>4. PipeInv'
  BY <1>3 DEF IInv, PipeInv
<1>5. \A v : OpenFits(v) => OpenFits(v)'
  BY <1>3 DEF OpenFits
<1>6. QED
  BY <1>1, <1>2, <1>4, <1>5, UnchangedDomains

LEMMA FewerSame == ASSUME TypeInv PROVE \A s \in Slots : Fewer(output[s], output[s])
  BY DEF TypeInv, Fewer

LEMMA TypesKept ==
  ASSUME TypeInv, \A s \in Slots : Fewer(output'[s], output[s]),
         output' \in [Slots -> Seq(Objects)],
         UNCHANGED <<witness, proc, control, owned, phase, case, outcome>>,
         disposition' \in [Slots -> [state : Words, n : Int]], receipt' \in [Slots -> 0..3],
         guard' \in GuardStates, head' \in 1..3, published' \in Heads
  PROVE  TypeInv'
  BY DEF TypeInv

\* What the harness looks at changes nothing it knows.
LEMMA QuietIInv ==
  ASSUME IInv, Discard \/ CompareWorlds \/ Watch \/ Poll \/ StageBundle
  PROVE  IInv'
<1>1. PICK op \in {"discard", "compare", "counts", "checkpoint", "poll", "stage"} :
        Executes(op) /\ Done
  BY DEF Discard, CompareWorlds, Watch, Poll, StageBundle
<1>2. /\ todo # <<>> /\ todo' = Tail(todo) /\ Now.op = op /\ phase' = phase
      /\ UNCHANGED <<case, outcome>> /\ Now \in Instructions
  BY <1>1, Acting
<1>3. UNCHANGED <<witness, proc, control, owned, number, captured, guard, head, published, receipt,
                  disposition>>
  BY DEF Discard, CompareWorlds, Watch, Poll, StageBundle, occupancyVars, pipeVars, headVars,
         recordVars
<1>4. output' \in [Slots -> Seq(Objects)] /\ \A s \in Slots : Fewer(output'[s], output[s])
  <2>1. CASE output' = output
    BY <2>1, FewerSame DEF IInv, TypeInv
  <2>2. CASE output' # output
    <3> DEFINE s == Now.slot
               found == Matching(s, Now.tag)
    <3>1. Discard /\ s \in Slots
      BY <1>2, <2>2 DEF CompareWorlds, Watch, Poll, StageBundle, occupancyVars, Instructions
    <3>2. found # {}
      BY <2>2, <3>1 DEF Discard, IInv, TypeInv
    <3>3. output' = [output EXCEPT ![s] = Without(@, First(found))]
      BY <3>1, <3>2 DEF Discard
    <3>4. Fewer(Without(output[s], First(found)), output[s])
      BY <3>1, <3>2, FewerTaken DEF IInv, TypeInv
    <3> HIDE DEF s, found
    <3>5. \A r \in Slots : output'[r] = IF r = s THEN Without(output[s], First(found)) ELSE output[r]
      BY <3>3 DEF IInv, TypeInv
    <3>6. \A r \in Slots : Fewer(output'[r], output[r])
      BY <3>4, <3>5, FewerSame DEF IInv
    <3>7. \A r \in Slots : output'[r] \in Seq(Objects)
      BY <3>6 DEF Fewer
    <3>8. QED
      BY <3>3, <3>6, <3>7 DEF IInv, TypeInv
  <2>3. QED
    BY <2>1, <2>2
<1>5. TypeInv'
  BY <1>2, <1>3, <1>4 DEF IInv, TypeInv
<1>6. ProcessInv' /\ CleanInv' /\ PipeInv' /\ SameDomains /\ \A v : OpenFits(v) => OpenFits(v)'
  BY <1>2, <1>3, <1>4, ProcessesKept
<1>7. ViewInv'
  <2>1. ASSUME NEW v \in Views, NEW u \in Views, Fits(v), Allowed(v, Now), u = After(v, Now)
        PROVE  Fits(u)'
    <3>1. u = v
      BY <1>2, <2>1 DEF After
    <3>2. OpenFits(v)
      BY <2>1 DEF Fits
    <3>3. QED
      BY <1>2, <1>3, <1>6, <2>1, <3>1, <3>2, SameSelf, FrameFits
  <2>2. QED
    BY <1>2, <2>1, ViewStep DEF IInv
<1>8. QED
  BY <1>5, <1>6, <1>7 DEF IInv

\* Through its number it reads the pipe of the slot, and no other that is open has it.
LEMMA CaptureIInv == ASSUME IInv, CaptureEvidence PROVE IInv'
<1>1. Executes("evidence") /\ Done
  BY DEF CaptureEvidence
<1>2. /\ todo # <<>> /\ todo' = Tail(todo) /\ Now.op = "evidence" /\ phase = "acquire" /\ phase' = phase
      /\ UNCHANGED <<case, outcome>> /\ Now \in Instructions
      /\ \E v \in Views : Fits(v) /\ Allowed(v, Now)
  BY <1>1, Acting
<1>3. /\ UNCHANGED <<witness, proc, control, output, owned, number, guard, head, published, receipt,
                     disposition>>
      /\ captured' = [captured EXCEPT ![Now.slot] = @ \cup Reads(Now.slot)]
  BY DEF CaptureEvidence, occupancyVars, headVars, recordVars
<1>4. Now.slot \in Open
  <2>1. PICK v \in Views : Fits(v) /\ Allowed(v, Now)
    BY <1>2
  <2>2. Now.slot \in v.open /\ v.open = Open
    BY <1>2, <2>1 DEF Allowed, Fits, OpenFits
  <2>3. QED
    BY <2>2
<1>5. Reads(Now.slot) \subseteq {Now.slot} /\ Now.slot \in Slots
  BY <1>2, <1>4 DEF Reads, IInv, PipeInv, Open
<1>6. Open' = Open
  BY <1>3 DEF Open
<1>7. PipeInv'
  BY <1>2, <1>3, <1>5, <1>6 DEF IInv, PipeInv
<1>8. TypeInv' /\ CleanInv'
  BY <1>2, <1>3 DEF IInv, TypeInv, CleanInv
<1>9. ProcessInv'
  BY <1>3 DEF IInv, ProcessInv, Sound, Truthful, Backed
<1>10. ViewInv'
  <2>1. ASSUME NEW v \in Views, NEW u \in Views, Fits(v), Allowed(v, Now), u = After(v, Now)
        PROVE  Fits(u)'
    <3>1. u = v
      BY <1>2, <2>1 DEF After
    <3>2. OpenFits(v)'
      BY <1>2, <1>3, <1>6, <2>1 DEF Fits, OpenFits
    <3>3. QED
      BY <1>2, <1>3, <2>1, <3>1, <3>2, UnchangedDomains, SameSelf, FrameFits
  <2>2. QED
    BY <1>2, <2>1, ViewStep DEF IInv
<1>11. QED
  BY <1>7, <1>8, <1>9, <1>10 DEF IInv

-----------------------------------------------------------------------------
(* The guard, the record and what is said *)

LEMMA ObservedTyped == ASSUME NEW v \in Views PROVE Observed(v) \in 1..3
  BY DEF Views, Observed, Done9

\* A line fits on, where more has been observed and nothing else is known.
LEMMA LineKept ==
  ASSUME NEW v \in Views, NEW u \in Views, NEW s, NEW c \in Lines, LineFits(v, s, c),
         Observed(v) <= Observed(u), u.known = v.known, u.sent = v.sent, u.fault = v.fault,
         u.dead = v.dead, u.guarded = v.guarded,
         u.guard = v.guard \/ (v.known[s] = v.sent[s] \/ s \in v.dead)
  PROVE  LineFits(u, s, c)
<1>1. Observed(v) \in 1..3 /\ Observed(u) \in 1..3
  BY ObservedTyped
<1>2. c.op = "materialize" => c.n \in 1..3
  BY DEF Lines
<1>3. QED
  BY <1>1, <1>2 DEF LineFits

\* The domains fit on, where no process has changed.
LEMMA DomainKept ==
  ASSUME NEW v, NEW u, NEW s \in Pair, DomainFits(v, s), SameDomains,
         u.known = v.known, u.sent = v.sent, u.fault = v.fault, u.dead = v.dead
  PROVE  DomainFits(u, s)'
  BY DEF DomainFits, Lost, SameDomains

\* What is left to show of a step of the harness's own.
LEMMA OwnStep ==
  ASSUME IInv, NEW op, Executes(op), Done, UNCHANGED <<occupancyVars, pipeVars, receipt>>,
         disposition' \in [Slots -> [state : Words, n : Int]],
         guard' \in GuardStates, head' \in 1..3, published' \in Heads,
         \A v, u \in Views : Fits(v) /\ Allowed(v, Now) /\ u = After(v, Now) =>
           /\ HeadFits(u)' /\ u.open = v.open /\ u.handles = v.handles
           /\ u.known = v.known /\ u.sent = v.sent /\ u.fault = v.fault /\ u.dead = v.dead
           /\ u.guarded = v.guarded /\ Observed(v) <= Observed(u)
           /\ u.guard = v.guard \/ Settled(v)
           /\ \A s \in Pair : SaidFits(u, s)'
  PROVE  IInv'
<1>1. UNCHANGED <<witness, proc, control, output, owned, number, captured>>
  BY DEF occupancyVars, pipeVars
<1>2. /\ todo # <<>> /\ todo' = Tail(todo) /\ phase' = phase /\ UNCHANGED <<case, outcome>>
  BY Acting
<1>3. \A s \in Slots : Fewer(output'[s], output[s])
  BY <1>1, FewerSame DEF IInv
<1>4. TypeInv'
  BY <1>1, <1>2, <1>3, TypesKept DEF IInv, TypeInv
<1>5. ProcessInv' /\ CleanInv' /\ PipeInv' /\ SameDomains /\ \A v : OpenFits(v) => OpenFits(v)'
  BY <1>1, <1>2, <1>3, ProcessesKept
<1>6. ASSUME NEW v \in Views, NEW u \in Views, Fits(v), Allowed(v, Now), u = After(v, Now)
      PROVE  Fits(u)'
  <2>1. /\ HeadFits(u)' /\ u.open = v.open /\ u.handles = v.handles
        /\ u.known = v.known /\ u.sent = v.sent /\ u.fault = v.fault /\ u.dead = v.dead
        /\ u.guarded = v.guarded /\ Observed(v) <= Observed(u)
        /\ u.guard = v.guard \/ Settled(v)
        /\ \A s \in Pair : SaidFits(u, s)'
    BY <1>6
  <2>2. OpenFits(u)'
    <3>1. OpenFits(v)'
      BY <1>5, <1>6 DEF Fits
    <3>2. QED
      BY <2>1, <3>1 DEF OpenFits
  <2>3. SpareFits'
    BY <1>1, <1>6 DEF Fits, SpareFits
  <2>4. \A s \in Pair : DomainFits(u, s)'
    BY <1>5, <1>6, <2>1, DomainKept DEF Fits
  <2>5. LinesFit(u)'
    <3>1. ASSUME NEW s \in Pair, NEW i \in DOMAIN control'[s] PROVE LineFits(u, s, control'[s][i])
      <4>1. control'[s][i] = control[s][i] /\ i \in DOMAIN control[s]
        BY <1>1
      <4>2. control[s][i] \in Lines /\ LineFits(v, s, control[s][i])
        BY <1>6, <4>1, PairFacts DEF IInv, TypeInv, Fits, LinesFit
      <4>3. u.guard = v.guard \/ (v.known[s] = v.sent[s] \/ s \in v.dead)
        BY <2>1 DEF Settled
      <4>4. QED
        BY <2>1, <4>1, <4>2, <4>3, LineKept
    <3>2. QED
      BY <3>1 DEF LinesFit, LineFits
  <2>6. QED
    BY <2>1, <2>2, <2>3, <2>4, <2>5 DEF Fits
<1>7. ViewInv'
  BY <1>2, <1>6, ViewStep DEF IInv
<1>8. QED
  BY <1>4, <1>5, <1>7 DEF IInv

\* An opening of the guard finds what was synchronized at the generation before, and so
\* not at that it opens for.
LEMMA GuardIInv == ASSUME IInv, GuardTransition PROVE IInv'
<1>1. /\ Executes("guard") /\ Done /\ guard' = Now.tag
      /\ UNCHANGED <<occupancyVars, pipeVars, head, published, receipt, disposition, case>>
  BY DEF GuardTransition, recordVars, Done
<1>2. /\ Now.op = "guard" /\ \E v \in Views : Fits(v) /\ Allowed(v, Now) /\ After(v, Now) \in Views
  BY <1>1, Acting
<1>3. guard' \in GuardStates
  <2>1. PICK v \in Views : Allowed(v, Now)
    BY <1>2
  <2>2. MayTurn(v, Now.tag)
    BY <1>2, <2>1 DEF Allowed
  <2>3. QED
    BY <1>1, <2>2 DEF MayTurn, GuardStates
<1>4. ASSUME NEW v \in Views, NEW u \in Views, Fits(v), Allowed(v, Now), u = After(v, Now)
      PROVE  /\ HeadFits(u)' /\ u.open = v.open /\ u.handles = v.handles
             /\ u.known = v.known /\ u.sent = v.sent /\ u.fault = v.fault /\ u.dead = v.dead
             /\ u.guarded = v.guarded /\ Observed(v) <= Observed(u)
             /\ u.guard = v.guard \/ Settled(v)
             /\ \A s \in Pair : SaidFits(u, s)'
  <2>1. MayTurn(v, Now.tag)
    BY <1>2, <1>4 DEF Allowed
  <2>2. u = [v EXCEPT !.guard = Now.tag]
    BY <1>2, <1>4 DEF After
  <2>3. /\ u.guard = Now.tag /\ u.open = v.open /\ u.handles = v.handles
        /\ u.known = v.known /\ u.sent = v.sent /\ u.fault = v.fault /\ u.dead = v.dead
        /\ u.guarded = v.guarded /\ u.said = v.said /\ u.head = v.head /\ u.published = v.published
    BY <2>2 DEF Views
  <2>4. HeadFits(v) /\ \A s \in Pair : SaidFits(v, s)
    BY <1>4 DEF Fits
  <2>5. HeadFits(u)'
    BY <1>1, <2>3, <2>4 DEF HeadFits
  <2>6. Observed(v) <= Observed(u)
    BY <2>3, ObservedTyped, SameObserved
  <2>7. ASSUME NEW s \in Pair PROVE SaidFits(u, s)'
    <3>1. SaidFits(v, s) /\ v.sent[s] \in 0..3
      BY <2>4 DEF Views
    <3>2. ASSUME disposition[s].n \in 1..3, disposition[s].n <= v.sent[s], Now.tag = OpenFor[disposition[s].n]
          PROVE  FALSE
      <4>1. \/ disposition[s].n = 1 /\ Now.tag = "open_for_R0"
            \/ disposition[s].n = 2 /\ Now.tag = "open_for_Rtransit"
            \/ disposition[s].n = 3 /\ Now.tag = "open_for_Rfinal"
        BY <3>2 DEF OpenFor
      <4>2. QED
        BY <2>1, <3>2, <4>1 DEF MayTurn, Both
    <3>3. QED
      BY <1>1, <2>3, <3>1, <3>2 DEF SaidFits
  <2>8. Settled(v)
    BY <2>1 DEF MayTurn
  <2>9. QED
    BY <2>3, <2>5, <2>6, <2>7, <2>8
<1>5. disposition' \in [Slots -> [state : Words, n : Int]] /\ head' \in 1..3 /\ published' \in Heads
  BY <1>1 DEF IInv, TypeInv
<1>6. QED
  BY <1>1, <1>3, <1>4, <1>5, OwnStep

LEMMA ResolveIInv == ASSUME IInv, ResolveDue PROVE IInv'
<1>1. /\ Executes("resolve") /\ Done /\ head' = Now.n
      /\ UNCHANGED <<occupancyVars, pipeVars, guard, published, receipt, disposition, case>>
  BY DEF ResolveDue, recordVars, Done
<1>2. /\ Now.op = "resolve" /\ \E v \in Views : Fits(v) /\ Allowed(v, Now) /\ After(v, Now) \in Views
  BY <1>1, Acting
<1>3. head' \in 1..3
  <2>1. PICK v \in Views : Allowed(v, Now)
    BY <1>2
  <2>2. Now.n = v.head + 1 /\ Now.n <= 3 /\ v.head \in 1..3
    BY <1>2, <2>1 DEF Allowed, Views
  <2>3. QED
    BY <1>1, <2>2
<1>4. ASSUME NEW v \in Views, NEW u \in Views, Fits(v), Allowed(v, Now), u = After(v, Now)
      PROVE  /\ HeadFits(u)' /\ u.open = v.open /\ u.handles = v.handles
             /\ u.known = v.known /\ u.sent = v.sent /\ u.fault = v.fault /\ u.dead = v.dead
             /\ u.guarded = v.guarded /\ Observed(v) <= Observed(u)
             /\ u.guard = v.guard \/ Settled(v)
             /\ \A s \in Pair : SaidFits(u, s)'
  <2>1. Now.n = v.head + 1 /\ Now.n <= 3 /\ v.head \in 1..3
    BY <1>2, <1>4 DEF Allowed, Views
  <2>2. u = [v EXCEPT !.head = Now.n]
    BY <1>2, <1>4 DEF After
  <2>3. /\ u.head = Now.n /\ u.open = v.open /\ u.handles = v.handles
        /\ u.known = v.known /\ u.sent = v.sent /\ u.fault = v.fault /\ u.dead = v.dead
        /\ u.guarded = v.guarded /\ u.said = v.said /\ u.guard = v.guard /\ u.published = v.published
    BY <2>2 DEF Views
  <2>4. HeadFits(v) /\ \A s \in Pair : SaidFits(v, s)
    BY <1>4 DEF Fits
  <2>5. HeadFits(u)'
    BY <1>1, <2>1, <2>3, <2>4 DEF HeadFits
  <2>6. Observed(v) <= Observed(u)
    BY <2>3, ObservedTyped, SameObserved
  <2>7. \A s \in Pair : SaidFits(u, s)'
    BY <1>1, <2>3, <2>4 DEF SaidFits
  <2>8. QED
    BY <2>3, <2>5, <2>6, <2>7
<1>5. disposition' \in [Slots -> [state : Words, n : Int]] /\ guard' \in GuardStates /\ published' \in Heads
  BY <1>1 DEF IInv, TypeInv
<1>6. QED
  BY <1>1, <1>3, <1>4, <1>5, OwnStep

LEMMA PublishIInv == ASSUME IInv, PublishHead PROVE IInv'
<1>1. /\ Executes("publish") /\ Done /\ published' = [published EXCEPT ![Now.n] = @ + 1]
      /\ UNCHANGED <<occupancyVars, pipeVars, guard, head, receipt, disposition, case>>
  BY DEF PublishHead, recordVars, Done
<1>2. /\ Now.op = "publish" /\ \E v \in Views : Fits(v) /\ Allowed(v, Now) /\ After(v, Now) \in Views
  BY <1>1, Acting
<1>3. Now.n \in {2, 3} /\ published[Now.n] < 9
  <2>1. PICK v \in Views : Fits(v) /\ Allowed(v, Now)
    BY <1>2
  <2>2. Now.n \in {2, 3} /\ v.published[Now.n] < 9 /\ v.published = published
    BY <1>2, <2>1 DEF Allowed, Fits, HeadFits
  <2>3. QED
    BY <2>2
<1>4. published' \in Heads
  BY <1>1, <1>3 DEF IInv, TypeInv, Heads
<1>5. ASSUME NEW v \in Views, NEW u \in Views, Fits(v), Allowed(v, Now), u = After(v, Now)
      PROVE  /\ HeadFits(u)' /\ u.open = v.open /\ u.handles = v.handles
             /\ u.known = v.known /\ u.sent = v.sent /\ u.fault = v.fault /\ u.dead = v.dead
             /\ u.guarded = v.guarded /\ Observed(v) <= Observed(u)
             /\ u.guard = v.guard \/ Settled(v)
             /\ \A s \in Pair : SaidFits(u, s)'
  <2>1. Now.n \in {2, 3} /\ Now.n <= v.head /\ v.head \in 1..3
    BY <1>2, <1>5 DEF Allowed, Views
  <2>2. HeadFits(v) /\ \A s \in Pair : SaidFits(v, s)
    BY <1>5 DEF Fits
  <2>3. u = [v EXCEPT !.published[Now.n] = @ + 1]
    BY <1>2, <1>5 DEF After
  <2>4. /\ u.open = v.open /\ u.handles = v.handles
        /\ u.known = v.known /\ u.sent = v.sent /\ u.fault = v.fault /\ u.dead = v.dead
        /\ u.guarded = v.guarded /\ u.said = v.said /\ u.guard = v.guard /\ u.head = v.head
        /\ u.published = [v.published EXCEPT ![Now.n] = @ + 1]
    BY <2>3 DEF Views
  <2>5. published = v.published /\ v.published \in [{2, 3} -> 0..9] /\ u.published = published'
    BY <1>1, <2>2, <2>4 DEF HeadFits, Views
  <2>6. \A h \in {2, 3} : published'[h] = IF h = Now.n THEN published[h] + 1 ELSE published[h]
    BY <1>1, <2>1, <2>5
  <2>7. HeadFits(u)'
    <3>1. u.published[2] # 0 => u.head >= 2
      BY <2>1, <2>2, <2>4, <2>5, <2>6 DEF HeadFits
    <3>2. u.published[3] # 0 => u.head = 3
      BY <2>1, <2>2, <2>4, <2>5, <2>6 DEF HeadFits
    <3>3. QED
      BY <1>1, <2>2, <2>4, <2>5, <3>1, <3>2 DEF HeadFits
  <2>8. Observed(v) <= Observed(u)
    BY <1>3, <2>5, <2>6 DEF Observed, Done9
  <2>9. \A s \in Pair : SaidFits(u, s)'
    BY <1>1, <2>2, <2>4 DEF SaidFits
  <2>10. QED
    BY <2>4, <2>7, <2>8, <2>9
<1>6. disposition' \in [Slots -> [state : Words, n : Int]] /\ guard' \in GuardStates /\ head' \in 1..3
  BY <1>1 DEF IInv, TypeInv
<1>7. QED
  BY <1>1, <1>4, <1>5, <1>6, OwnStep

\* What it says of a domain is so when it says it.
LEMMA ConcludeIInv == ASSUME IInv, RecordDisposition PROVE IInv'
<1>1. /\ Executes("conclude") /\ Done
      /\ disposition' = [disposition EXCEPT ![Now.slot] = [state |-> Now.tag, n |-> Now.n]]
      /\ UNCHANGED <<occupancyVars, pipeVars, guard, head, published, receipt, case>>
  BY DEF RecordDisposition, headVars, Done
<1>2. /\ Now.op = "conclude" /\ Now \in Instructions
  BY <1>1, Acting
<1>3. disposition' \in [Slots -> [state : Words, n : Int]]
  BY <1>1, <1>2 DEF IInv, TypeInv, Instructions
<1>4. ASSUME NEW v \in Views, NEW u \in Views, Fits(v), Allowed(v, Now), u = After(v, Now)
      PROVE  /\ HeadFits(u)' /\ u.open = v.open /\ u.handles = v.handles
             /\ u.known = v.known /\ u.sent = v.sent /\ u.fault = v.fault /\ u.dead = v.dead
             /\ u.guarded = v.guarded /\ Observed(v) <= Observed(u)
             /\ u.guard = v.guard \/ Settled(v)
             /\ \A s \in Pair : SaidFits(u, s)'
  <2>1. MaySay(v, Now.slot, Now.n, Now.tag)
    BY <1>2, <1>4 DEF Allowed
  <2>2. HeadFits(v) /\ \A s \in Pair : SaidFits(v, s)
    BY <1>4 DEF Fits
  <2>3. u = [v EXCEPT !.said[Now.slot] = Saying(Now.tag)]
    BY <1>2, <1>4 DEF After
  <2>4. /\ u.open = v.open /\ u.handles = v.handles
        /\ u.known = v.known /\ u.sent = v.sent /\ u.fault = v.fault /\ u.dead = v.dead
        /\ u.guarded = v.guarded /\ u.guard = v.guard /\ u.head = v.head /\ u.published = v.published
        /\ u.said = [v.said EXCEPT ![Now.slot] = Saying(Now.tag)]
    BY <2>3 DEF Views
  <2>5. HeadFits(u)'
    BY <1>1, <2>2, <2>4 DEF HeadFits
  <2>6. Observed(v) <= Observed(u)
    BY <2>4, ObservedTyped, SameObserved
  <2>7. ASSUME NEW s \in Pair PROVE SaidFits(u, s)'
    <3>1. CASE s # Now.slot
      <4>1. disposition'[s] = disposition[s] /\ u.said[s] = v.said[s]
        BY <1>1, <2>4, <3>1, PairFacts DEF IInv, TypeInv, Views
      <4>2. QED
        BY <1>1, <2>2, <2>4, <4>1 DEF SaidFits
    <3>2. CASE s = Now.slot
      <4>1. disposition'[s].state = Now.tag /\ disposition'[s].n = Now.n
        BY <1>1, <3>2, PairFacts DEF IInv, TypeInv
      <4>2. u.said[s] = Saying(Now.tag)
        BY <2>4, <3>2 DEF Views
      <4>3. Now.tag = "synchronized" => u.said[s] = "synchronized"
        BY <4>2 DEF Saying
      <4>4. Now.tag \in {"stale", "unbound"} => u.said[s] = "kept"
        BY <4>2 DEF Saying
      <4>5. QED
        BY <1>1, <2>1, <2>4, <3>2, <4>1, <4>3, <4>4 DEF SaidFits, MaySay
    <3>3. QED
      BY <3>1, <3>2
  <2>8. QED
    BY <2>4, <2>5, <2>6, <2>7
<1>5. guard' \in GuardStates /\ head' \in 1..3 /\ published' \in Heads
  BY <1>1 DEF IInv, TypeInv
<1>6. QED
  BY <1>1, <1>3, <1>4, <1>5, OwnStep

-----------------------------------------------------------------------------
(* The processes live and die *)

\* What is open after a process has changed its state of life.
LEMMA OpenAfter ==
  ASSUME NEW r \in Slots, NEW life,
         \A s \in Slots : proc'[s].life = IF s = r THEN life ELSE proc[s].life
  PROVE  Open' = IF life \in {"absent", "reaped"} THEN Open \ {r} ELSE Open \cup {r}
<1>1. \A s : s \in Open' <=> s \in Slots /\ proc'[s].life \notin {"absent", "reaped"}
  BY DEF Open
<1>2. \A s : s \in Open <=> s \in Slots /\ proc[s].life \notin {"absent", "reaped"}
  BY DEF Open
<1>3. CASE life \in {"absent", "reaped"}
  BY <1>1, <1>2, <1>3
<1>4. CASE life \notin {"absent", "reaped"}
  BY <1>1, <1>2, <1>4
<1>5. QED
  BY <1>3, <1>4

\* What is left to show of an instruction that changes what is open or has a handle.
LEMMA LivesStep ==
  ASSUME IInv, NEW op, Executes(op), Done,
         UNCHANGED <<witness, control, output, headVars, recordVars>>,
         proc' \in [Slots -> Processes], ProcessInv', SameDomains, PipeInv', owned' \subseteq Slots,
         \A v, u \in Views : Fits(v) /\ Allowed(v, Now) /\ u = After(v, Now) =>
           SameKnown(v, u) /\ OpenFits(u)'
  PROVE  IInv'
<1>1. /\ todo # <<>> /\ todo' = Tail(todo) /\ phase = "acquire" /\ phase' = "acquire"
      /\ UNCHANGED <<case, outcome>>
  BY Acting
<1>2. UNCHANGED <<guard, head, published, receipt, disposition>>
  BY DEF headVars, recordVars
<1>3. TypeInv' /\ CleanInv'
  BY <1>1, <1>2 DEF IInv, TypeInv, CleanInv
<1>4. ASSUME NEW v \in Views, NEW u \in Views, Fits(v), Allowed(v, Now), u = After(v, Now)
      PROVE  Fits(u)'
  <2>1. SameKnown(v, u) /\ OpenFits(u)'
    BY <1>4
  <2>2. QED
    BY <1>1, <1>2, <1>4, <2>1, FrameFits
<1>5. ViewInv'
  BY <1>1, <1>4, ViewStep DEF IInv
<1>6. QED
  BY <1>3, <1>5 DEF IInv

\* One number of three is not used by two processes.
LEMMA LowestFree ==
  ASSUME NEW open, NEW s \in Slots, open \subseteq Slots, s \notin open, number \in [Slots -> 0..3]
  PROVE  LET used == {number[o] : o \in open} IN Lowest(used) \in 1..3 /\ Lowest(used) \notin used
<1> DEFINE used == {number[o] : o \in open}
<1>1. \E x, y \in Slots : open \subseteq {x, y}
  <2>1. \A o \in Slots : o = A \/ o = B \/ o = Spare
    BY PairFacts, HarnessAssumption
  <2>2. A \in Slots /\ B \in Slots /\ Spare \in Slots
    BY PairFacts
  <2>3. CASE s = A
    BY <2>1, <2>2, <2>3
  <2>4. CASE s = B
    BY <2>1, <2>2, <2>4
  <2>5. CASE s = Spare
    BY <2>1, <2>2, <2>5
  <2>6. QED
    BY <2>1, <2>3, <2>4, <2>5
<1>2. PICK a, b \in 0..3 : \A n \in used : n = a \/ n = b
  <2>1. PICK x, y \in Slots : open \subseteq {x, y}
    BY <1>1
  <2>2. number[x] \in 0..3 /\ number[y] \in 0..3
    BY <2>1
  <2>3. \A n \in used : n = number[x] \/ n = number[y]
    BY <2>1
  <2>4. QED
    BY <2>2, <2>3
<1> HIDE DEF used
<1>3. \E n \in 1..3 : n \notin used /\ \A m \in 1..3 : m < n => m \in used
  <2>1. CASE 1 \notin used
    <3>1. \A m \in 1..3 : ~(m < 1)
      OBVIOUS
    <3>2. QED
      BY <2>1, <3>1
  <2>2. CASE 1 \in used /\ 2 \notin used
    <3>1. \A m \in 1..3 : m < 2 => m = 1
      OBVIOUS
    <3>2. QED
      BY <2>2, <3>1
  <2>3. CASE 1 \in used /\ 2 \in used
    <3>1. 3 \notin used
      BY <1>2, <2>3
    <3>2. \A m \in 1..3 : m < 3 => m = 1 \/ m = 2
      OBVIOUS
    <3>3. QED
      BY <2>3, <3>1, <3>2
  <2>4. QED
    BY <2>1, <2>2, <2>3
<1>4. QED
  BY <1>3 DEF Lowest, used

\* A new process gets a number that no open one has.
LEMMA SpawnIInv == ASSUME IInv, Spawn PROVE IInv'
<1> DEFINE s == Now.slot
<1>1. /\ Executes("spawn") /\ Done /\ proc' = [proc EXCEPT ![s].life = "suspended"]
      /\ number' = [number EXCEPT ![s] = Lowest({number[o] : o \in Open})]
      /\ UNCHANGED <<witness, control, output, owned, captured, headVars, recordVars>>
  BY DEF Spawn
<1>2. /\ Now.op = "spawn" /\ Now \in Instructions /\ phase = "acquire" /\ phase' = "acquire"
      /\ \E v \in Views : Fits(v) /\ Allowed(v, Now)
  BY <1>1, Acting
<1>3. s \in Slots /\ s \notin Open
  <2>1. PICK v \in Views : Fits(v) /\ Allowed(v, Now)
    BY <1>2
  <2>2. v.open = Open /\ s \notin v.open
    BY <1>2, <2>1 DEF Fits, OpenFits, Allowed
  <2>3. QED
    BY <1>2, <2>2 DEF Instructions
<1> HIDE DEF s
<1>4. TypeInv /\ ProcessInv /\ PipeInv
  BY DEF IInv
<1>5. /\ proc' \in [Slots -> Processes] /\ ProcessInv' /\ SameDomains
      /\ \A r \in Slots : proc'[r].life = IF r = s THEN "suspended" ELSE proc[r].life
  BY <1>1, <1>3, <1>4, LifeChanged
<1>6. Open' = Open \cup {s}
  BY <1>3, <1>5, OpenAfter
<1>7. PipeInv'
  <2> DEFINE n == Lowest({number[o] : o \in Open})
  <2>1. n \in 1..3 /\ \A o \in Open : number[o] # n
    <3>1. Open \subseteq Slots /\ number \in [Slots -> 0..3]
      BY <1>4 DEF Open, PipeInv
    <3>2. n \in 1..3 /\ n \notin {number[o] : o \in Open}
      BY <1>3, <3>1, LowestFree
    <3> HIDE DEF n
    <3>3. QED
      BY <3>2
  <2>2. number' = [number EXCEPT ![s] = n]
    BY <1>1
  <2> HIDE DEF n
  <2>3. number' \in [Slots -> 0..3]
    <3>1. number \in [Slots -> 0..3] /\ n \in 0..3
      BY <1>4, <2>1 DEF PipeInv
    <3>2. QED
      BY <2>2, <3>1
  <2>4. \A r \in Slots : number'[r] = IF r = s THEN n ELSE number[r]
    BY <1>4, <2>2 DEF PipeInv
  <2>5. Open \subseteq Slots
    BY DEF Open
  <2>6. ASSUME NEW q \in Open', NEW r \in Open', number'[q] = number'[r] PROVE q = r
    <3>1. (q \in Open \/ q = s) /\ (r \in Open \/ r = s)
      BY <1>6
    <3>2. \A x, y \in Open : number[x] = number[y] => x = y
      BY <1>2, <1>4 DEF PipeInv
    <3>3. CASE q = s /\ r # s
      BY <1>3, <2>1, <2>4, <2>5, <2>6, <3>1, <3>3
    <3>4. CASE q # s /\ r = s
      BY <1>3, <2>1, <2>4, <2>5, <2>6, <3>1, <3>4
    <3>5. CASE q # s /\ r # s
      BY <1>3, <2>4, <2>5, <2>6, <3>1, <3>2, <3>5
    <3>6. QED
      BY <3>3, <3>4, <3>5
  <2>7. QED
    BY <1>1, <1>4, <2>3, <2>6 DEF PipeInv
<1>8. ASSUME NEW v \in Views, NEW u \in Views, Fits(v), Allowed(v, Now), u = After(v, Now)
      PROVE  SameKnown(v, u) /\ OpenFits(u)'
  <2>1. u = [v EXCEPT !.open = @ \cup {s}]
    BY <1>2, <1>8 DEF After, s
  <2>2. SameKnown(v, u) /\ u.open = v.open \cup {s} /\ u.handles = v.handles
    BY <2>1 DEF Views, SameKnown
  <2>3. QED
    BY <1>1, <1>2, <1>6, <1>8, <2>2 DEF Fits, OpenFits
<1>9. owned' \subseteq Slots
  BY <1>1, <1>4 DEF TypeInv
<1>10. QED
  BY <1>1, <1>5, <1>7, <1>8, <1>9, LivesStep

LEMMA IdentifyIInv == ASSUME IInv, Identify PROVE IInv'
<1>1. /\ Executes("identify") /\ Done /\ owned' = owned \cup {Now.slot}
      /\ UNCHANGED <<witness, proc, control, output, number, captured, headVars, recordVars>>
  BY DEF Identify, occupancyVars
<1>2. /\ Now.op = "identify" /\ Now \in Instructions /\ phase' = phase /\ phase' = "acquire"
  BY <1>1, Acting
<1>3. Now.slot \in Slots /\ TypeInv /\ ProcessInv /\ PipeInv
  BY <1>2 DEF Instructions, IInv
<1>4. Open' = Open
  BY <1>1 DEF Open
<1>5. PipeInv'
  BY <1>1, <1>2, <1>3, <1>4 DEF PipeInv
<1>6. ProcessInv'
  BY <1>1, <1>3 DEF ProcessInv, Sound, Truthful, Backed
<1>7. ASSUME NEW v \in Views, NEW u \in Views, Fits(v), Allowed(v, Now), u = After(v, Now)
      PROVE  SameKnown(v, u) /\ OpenFits(u)'
  <2>1. u = [v EXCEPT !.handles = @ \cup {Now.slot}]
    BY <1>2, <1>7 DEF After
  <2>2. SameKnown(v, u) /\ u.open = v.open /\ u.handles = v.handles \cup {Now.slot}
    BY <2>1 DEF Views, SameKnown
  <2>3. QED
    BY <1>1, <1>2, <1>4, <1>7, <2>2 DEF Fits, OpenFits
<1>8. proc' \in [Slots -> Processes] /\ owned' \subseteq Slots
  BY <1>1, <1>3 DEF TypeInv
<1>9. QED
  BY <1>1, <1>5, <1>6, <1>7, <1>8, UnchangedDomains, LivesStep

\* What leaves the view as it is, and what is open.
LEMMA StillOpen ==
  ASSUME IInv, NEW op, Executes(op), Done, UNCHANGED pipeVars,
         UNCHANGED <<witness, control, output, headVars, recordVars>>,
         proc' \in [Slots -> Processes], ProcessInv', SameDomains, Open' = Open,
         op \in {"resume", "kill", "wait"}
  PROVE  IInv'
<1>1. Now.op = op /\ phase' = phase
  BY Acting
<1>2. PipeInv' /\ owned' \subseteq Slots
  BY <1>1 DEF IInv, PipeInv, TypeInv, pipeVars
<1>3. ASSUME NEW v \in Views, NEW u \in Views, Fits(v), Allowed(v, Now), u = After(v, Now)
      PROVE  SameKnown(v, u) /\ OpenFits(u)'
  <2>1. u = v
    BY <1>1, <1>3 DEF After
  <2>2. OpenFits(v) /\ UNCHANGED owned
    BY <1>3 DEF Fits, pipeVars
  <2>3. OpenFits(v)'
    BY <1>1, <2>2 DEF OpenFits
  <2>4. QED
    BY <2>1, <2>3, SameSelf
<1>4. QED
  BY <1>2, <1>3, LivesStep

\* A process is resumed when it has a handle.
LEMMA ResumeIInv == ASSUME IInv, Resume PROVE IInv'
<1> DEFINE s == Now.slot
<1>1. /\ Executes("resume") /\ Done
      /\ proc' = [proc EXCEPT ![s].life = IF @ = "suspended" THEN "running" ELSE @]
      /\ UNCHANGED <<witness, control, output, pipeVars, headVars, recordVars>>
  BY DEF Resume
<1>2. /\ Now.op = "resume" /\ Now \in Instructions /\ phase = "acquire" /\ phase' = "acquire"
      /\ \E v \in Views : Fits(v) /\ Allowed(v, Now)
  BY <1>1, Acting
<1>3. s \in owned /\ s \in Slots
  <2>1. PICK v \in Views : Fits(v) /\ Allowed(v, Now)
    BY <1>2
  <2>2. s \in v.handles /\ v.handles \subseteq owned
    BY <1>2, <2>1 DEF Fits, OpenFits, Allowed
  <2>3. QED
    BY <1>2, <2>2 DEF Instructions
<1> HIDE DEF s
<1>4. TypeInv /\ ProcessInv /\ UNCHANGED <<owned, output>>
  BY <1>1 DEF IInv, pipeVars
<1>5. proc' \in [Slots -> Processes] /\ ProcessInv' /\ SameDomains /\ Open' = Open
  <2>1. CASE proc[s].life = "suspended"
    <3>1. proc' = [proc EXCEPT ![s].life = "running"]
      BY <1>1, <2>1
    <3>2. /\ proc' \in [Slots -> Processes] /\ ProcessInv' /\ SameDomains
          /\ \A r \in Slots : proc'[r].life = IF r = s THEN "running" ELSE proc[r].life
      BY <1>3, <1>4, <3>1, LifeChanged
    <3>3. Open' = Open \cup {s}
      BY <1>3, <3>2, OpenAfter
    <3>4. s \in Open
      BY <1>3, <2>1 DEF Open
    <3>5. QED
      BY <3>2, <3>3, <3>4
  <2>2. CASE proc[s].life # "suspended"
    <3>1. proc' = proc
      BY <1>1, <1>3, <1>4, <2>2 DEF TypeInv, Processes
    <3>2. ProcessInv'
      BY <1>4, <3>1 DEF ProcessInv, Sound, Truthful, Backed
    <3>3. QED
      BY <1>4, <3>1, <3>2, UnchangedDomains DEF TypeInv, Open
  <2>3. QED
    BY <2>1, <2>2
<1>6. QED
  BY <1>1, <1>5, StillOpen

LEMMA KillIInv == ASSUME IInv, Kill PROVE IInv'
<1> DEFINE s == Now.slot
<1>1. Done /\ UNCHANGED <<witness, control, output, pipeVars, headVars, recordVars>>
  BY DEF Kill, Dies, occupancyVars
<1>2. TypeInv /\ ProcessInv /\ UNCHANGED <<owned, output>>
  BY <1>1 DEF IInv, pipeVars
<1>3. CASE Executes("wait") /\ UNCHANGED occupancyVars
  <2>1. UNCHANGED proc
    BY <1>3 DEF occupancyVars
  <2>2. proc' \in [Slots -> Processes] /\ Open' = Open
    BY <1>2, <2>1 DEF TypeInv, Open
  <2>3. ProcessInv'
    BY <1>2, <2>1 DEF ProcessInv, Sound, Truthful, Backed
  <2>4. QED
    BY <1>1, <1>3, <2>1, <2>2, <2>3, UnchangedDomains, StillOpen
<1>4. CASE Executes("kill") /\ Dies(s, "exited")
  <2>1. /\ Now.op = "kill" /\ Now \in Instructions /\ phase = "acquire"
        /\ \E v \in Views : Fits(v) /\ Allowed(v, Now)
    BY <1>1, <1>4, Acting
  <2>2. s \in Open /\ s \in Slots
    <3>1. PICK v \in Views : Fits(v) /\ Allowed(v, Now)
      BY <2>1
    <3>2. s \in v.open /\ v.open = Open
      BY <2>1, <3>1 DEF Fits, OpenFits, Allowed
    <3>3. QED
      BY <2>1, <3>2 DEF Instructions
  <2> HIDE DEF s
  <2>3. proc' = [proc EXCEPT ![s].life = "exited"]
    BY <1>4 DEF Dies
  <2>4. /\ proc' \in [Slots -> Processes] /\ ProcessInv' /\ SameDomains
        /\ \A r \in Slots : proc'[r].life = IF r = s THEN "exited" ELSE proc[r].life
    BY <1>2, <2>2, <2>3, LifeChanged
  <2>5. Open' = Open \cup {s}
    BY <2>2, <2>4, OpenAfter
  <2>6. Open' = Open
    BY <2>2, <2>5
  <2>7. QED
    BY <1>1, <1>4, <2>4, <2>6, StillOpen
<1>5. QED
  BY <1>3, <1>4 DEF Kill

LEMMA TerminateIInv == ASSUME IInv, Terminate PROVE IInv'
<1> DEFINE s == Now.slot
<1>1. /\ Executes("terminate") /\ Done /\ proc' = [proc EXCEPT ![s].life = "reaped"]
      /\ UNCHANGED <<witness, control, output, owned, number, captured, headVars, recordVars>>
  BY DEF Terminate, Dies, pipeVars
<1>2. /\ Now.op = "terminate" /\ Now \in Instructions /\ phase = "acquire" /\ phase' = "acquire"
  BY <1>1, Acting
<1>3. s \in Slots /\ TypeInv /\ ProcessInv /\ PipeInv
  BY <1>2 DEF Instructions, IInv
<1> HIDE DEF s
<1>4. /\ proc' \in [Slots -> Processes] /\ ProcessInv' /\ SameDomains
      /\ \A r \in Slots : proc'[r].life = IF r = s THEN "reaped" ELSE proc[r].life
  BY <1>1, <1>3, LifeChanged
<1>5. Open' = Open \ {s}
  BY <1>3, <1>4, OpenAfter
<1>6. PipeInv'
  BY <1>1, <1>2, <1>3, <1>5 DEF PipeInv
<1>7. ASSUME NEW v \in Views, NEW u \in Views, Fits(v), Allowed(v, Now), u = After(v, Now)
      PROVE  SameKnown(v, u) /\ OpenFits(u)'
  <2>1. u = [v EXCEPT !.open = @ \ {s}]
    BY <1>2, <1>7 DEF After, s
  <2>2. SameKnown(v, u) /\ u.open = v.open \ {s} /\ u.handles = v.handles
    BY <2>1 DEF Views, SameKnown
  <2>3. QED
    BY <1>1, <1>2, <1>5, <1>7, <2>2 DEF Fits, OpenFits
<1>8. owned' \subseteq Slots
  BY <1>1, <1>3 DEF TypeInv
<1>9. QED
  BY <1>1, <1>4, <1>6, <1>7, <1>8, LivesStep

-----------------------------------------------------------------------------
(* The end of a case *)

\* It stops where it is.
LEMMA StopIInv ==
  ASSUME IInv, todo' = <<>>, phase' = "finally", outcome' \in {"aborted", "completed"},
         UNCHANGED <<occupancyVars, case, pipeVars, headVars, recordVars>>
  PROVE  IInv'
<1>1. UNCHANGED <<witness, proc, control, output, owned, number, captured, guard, head, published,
                  receipt, disposition, case>>
  BY DEF occupancyVars, pipeVars, headVars, recordVars
<1>2. TypeInv' /\ CleanInv'
  BY <1>1 DEF IInv, TypeInv, CleanInv
<1>3. PipeInv'
  BY <1>1 DEF IInv, PipeInv
<1>4. ProcessInv'
  BY <1>1 DEF IInv, ProcessInv, Sound, Truthful, Backed
<1>5. ViewInv'
  <2>1. PICK v \in Views : Fits(v)
    BY DEF IInv, ViewInv
  <2>2. OpenFits(v)'
    BY NoLonger
  <2>3. Fits(v)'
    BY <1>1, <2>1, <2>2, UnchangedDomains, SameSelf, FrameFits
  <2>4. Runs(todo', v, v)
    BY Nothing
  <2>5. QED
    BY <2>3, <2>4 DEF ViewInv
<1>6. QED
  BY <1>2, <1>3, <1>4, <1>5 DEF IInv

LEMMA RaiseIInv == ASSUME IInv, Raise \/ Return \/ Timeout \/ IoError PROVE IInv'
<1>1. /\ todo' = <<>> /\ phase' = "finally" /\ outcome' \in {"aborted", "completed"}
      /\ UNCHANGED <<occupancyVars, case, pipeVars, headVars, recordVars>>
  BY DEF Raise, Return, Timeout, IoError, Abandon
<1>2. QED
  BY <1>1, StopIInv

\* A process changes its life outside of the program.
LEMMA AsideIInv ==
  ASSUME IInv, UNCHANGED <<witness, control, output, case, pipeVars, headVars, recordVars>>,
         todo' \in {todo, <<>>}, outcome' \in {outcome, "aborted"},
         phase' \in {"acquire", "finally", "ended"},
         proc' \in [Slots -> Processes], ProcessInv', SameDomains, CleanInv',
         phase' = "acquire" => phase = "acquire" /\ Open' = Open
  PROVE  IInv'
<1>1. UNCHANGED <<owned, number, captured, guard, head, published, receipt, disposition>>
  BY DEF pipeVars, headVars, recordVars
<1>2. TypeInv'
  BY <1>1 DEF IInv, TypeInv
<1>3. PipeInv'
  BY <1>1 DEF IInv, PipeInv
<1>4. ViewInv'
  <2>1. PICK v \in Views : Fits(v) /\ \E w : Runs(todo, v, w)
    BY DEF IInv, ViewInv
  <2>2. OpenFits(v)'
    BY <1>1, <2>1 DEF Fits, OpenFits
  <2>3. Fits(v)'
    BY <1>1, <2>1, <2>2, SameSelf, FrameFits
  <2>4. Runs(<<>>, v, v)
    BY Nothing
  <2>5. QED
    BY <2>1, <2>3, <2>4 DEF ViewInv
<1>5. QED
  BY <1>2, <1>3, <1>4 DEF IInv

LEMMA CleanIInv == ASSUME IInv, Clean PROVE IInv'
<1>1. /\ phase = "finally" /\ UNCHANGED <<todo, case, outcome, pipeVars, headVars, recordVars>>
      /\ UNCHANGED <<witness, control, output>>
  BY DEF Clean, Dies, occupancyVars
<1>2. TypeInv /\ ProcessInv /\ UNCHANGED owned
  BY <1>1 DEF IInv, pipeVars
<1>3. CASE Unreaped # {}
  <2> DEFINE r == NextUnreaped
  <2>1. phase' = "finally" /\ proc' = [proc EXCEPT ![r].life = "reaped"]
    BY <1>1, <1>3 DEF Clean, Dies
  <2>2. r \in Slots
    BY PairFacts DEF NextUnreaped
  <2> HIDE DEF r
  <2>3. proc' \in [Slots -> Processes] /\ ProcessInv' /\ SameDomains
    BY <1>1, <1>2, <2>1, <2>2, LifeChanged
  <2>4. CleanInv'
    BY <2>1 DEF CleanInv
  <2>5. QED
    BY <1>1, <2>1, <2>3, <2>4, AsideIInv
<1>4. CASE Unreaped = {}
  <2>1. phase' = "ended" /\ UNCHANGED proc
    BY <1>1, <1>4 DEF Clean, occupancyVars
  <2>2. CleanInv'
    BY <1>2, <1>4, <2>1 DEF CleanInv, Unreaped
  <2>3. ProcessInv'
    BY <1>1, <1>2, <2>1 DEF ProcessInv, Sound, Truthful, Backed
  <2>4. proc' \in [Slots -> Processes]
    BY <1>2, <2>1 DEF TypeInv
  <2>5. QED
    BY <1>1, <2>1, <2>2, <2>3, <2>4, UnchangedDomains, AsideIInv
<1>5. QED
  BY <1>3, <1>4

\* terminate reaps before its drain can raise.
LEMMA TerminateRaisesIInv == ASSUME IInv, TerminateRaises PROVE IInv'
<1>1. /\ UNCHANGED <<witness, control, output, case, pipeVars, headVars, recordVars>>
      /\ todo' \in {todo, <<>>} /\ outcome' \in {outcome, "aborted"} /\ phase' = "finally"
  BY DEF TerminateRaises, Dies
<1>2. PICK r \in Slots : proc' = [proc EXCEPT ![r].life = "reaped"]
  <2>1. CASE Executes("terminate") /\ Dies(Now.slot, "reaped")
    <3>1. PICK v \in Views : \E w : Runs(todo, v, w)
      BY DEF IInv, ViewInv
    <3>2. Now \in Instructions
      BY <2>1, <3>1, RunsOn DEF Executes, Now
    <3>3. QED
      BY <2>1, <3>2 DEF Instructions, Dies
  <2>2. CASE Dies(NextUnreaped, "reaped")
    BY <2>2, PairFacts DEF Dies, NextUnreaped
  <2>3. QED
    BY <2>1, <2>2 DEF TerminateRaises
<1>3. TypeInv /\ ProcessInv /\ UNCHANGED <<output, owned>>
  BY <1>1 DEF IInv, pipeVars
<1>4. proc' \in [Slots -> Processes] /\ ProcessInv' /\ SameDomains
  BY <1>2, <1>3, LifeChanged
<1>5. CleanInv'
  BY <1>1 DEF CleanInv
<1>6. QED
  BY <1>1, <1>4, <1>5, AsideIInv

LEMMA DiesIInv == ASSUME IInv, NEW s \in Slots, ProcessDies(s) PROVE IInv'
<1>1. /\ UNCHANGED <<todo, witness, control, output, case, outcome, phase, pipeVars, headVars, recordVars>>
      /\ proc[s].life \in {"suspended", "running"} /\ proc' = [proc EXCEPT ![s].life = "exited"]
  BY DEF ProcessDies, Crash
<1>2. TypeInv /\ ProcessInv /\ UNCHANGED owned
  BY <1>1 DEF IInv, pipeVars
<1>3. /\ proc' \in [Slots -> Processes] /\ ProcessInv' /\ SameDomains
      /\ \A r \in Slots : proc'[r].life = IF r = s THEN "exited" ELSE proc[r].life
  BY <1>1, <1>2, LifeChanged
<1>4. Open' = Open
  <2>1. Open' = Open \cup {s}
    BY <1>3, OpenAfter
  <2>2. s \in Open
    BY <1>1 DEF Open
  <2>3. QED
    BY <2>1, <2>2
<1>5. CleanInv'
  BY <1>1, <1>2, <1>3 DEF IInv, CleanInv
<1>6. QED
  BY <1>1, <1>3, <1>4, <1>5, AsideIInv DEF IInv, TypeInv

-----------------------------------------------------------------------------
(* What is asked *)

\* No two generations have the guard open in one state.
LEMMA OpenForOne ==
  ASSUME NEW g \in 1..3, NEW h \in 1..3, OpenFor[g] = OpenFor[h]
  PROVE  g = h
<1>1. OpenFor[1] = "open_for_R0" /\ OpenFor[2] = "open_for_Rtransit" /\ OpenFor[3] = "open_for_Rfinal"
  BY DEF OpenFor
<1>2. g \in {1, 2, 3} /\ h \in {1, 2, 3}
  OBVIOUS
<1>3. QED
  BY <1>1, <1>2

\* What sending a line leaves to show of a view.
SentFits(v, u, s, c) ==
  /\ HeadFits(u) /\ u.open = v.open /\ u.handles = v.handles
  /\ \A r \in Pair : \A d \in Lines : LineFits(v, r, d) => LineFits(u, r, d)
  /\ s \in Pair => LineFits(u, s, c)
  /\ s \notin Pair => c.op \notin {"materialize", "arm"}
  /\ \A r \in Pair : DomainFits(u, r) /\ SaidFits(u, r)

\* A new generation is asked for while the guard is open for it, and no domain is said to
\* be synchronized at it.
LEMMA AskedFits ==
  ASSUME NEW v \in Views, NEW i \in Instructions, i.op = "materialize", MayAsk(v, i.slot, i.n),
         NEW u \in Views, u = After(v, i), Fits(v), TypeInv
  PROVE  SentFits(v, u, i.slot, Line(i.op, i.n, i.tag, i.edge))
<1> DEFINE s == i.slot
           n == i.n
           c == Line(i.op, i.n, i.tag, i.edge)
<1>1. /\ s \in Pair /\ n \in 1..3 /\ v.sent[s] < n /\ n <= Observed(v)
      /\ v.guarded => v.guard = OpenFor[n]
      /\ s = A /\ n = 3 => v.known[B] >= 2
      /\ v.said[s] # "kept"
  BY DEF MayAsk
<1>2. c.op = "materialize" /\ c.n = n
  BY DEF Line
<1>3. u = [v EXCEPT !.sent[s] = IF v.fault[s] = "accepted" THEN @ ELSE n]
  BY DEF After
<1> HIDE DEF s, n, c
<1>4. /\ u.open = v.open /\ u.handles = v.handles /\ u.known = v.known /\ u.fault = v.fault
      /\ u.dead = v.dead /\ u.guarded = v.guarded /\ u.guard = v.guard /\ u.head = v.head
      /\ u.published = v.published /\ u.said = v.said
      /\ u.sent = [v.sent EXCEPT ![s] = IF v.fault[s] = "accepted" THEN @ ELSE n]
  BY <1>3 DEF Views
<1>5. \A r \in Pair : u.sent[r] = IF r = s /\ v.fault[s] # "accepted" THEN n ELSE v.sent[r]
  BY <1>4 DEF Views
<1>6. \A r \in Pair : v.sent[r] \in 0..3 /\ u.sent[r] \in 0..3 /\ v.sent[r] <= u.sent[r]
  BY <1>1, <1>5 DEF Views
<1>7. HeadFits(v) /\ Observed(u) = Observed(v)
  BY <1>4, SameObserved DEF Fits
<1>8. HeadFits(u)
  <2>1. u.sent[A] = 3 => u.known[B] >= 2
    BY <1>1, <1>4, <1>5, <1>7, PairFacts DEF HeadFits
  <2>2. QED
    BY <1>4, <1>7, <2>1 DEF HeadFits
<1>9. ASSUME NEW r \in Pair, NEW d \in Lines, LineFits(v, r, d) PROVE LineFits(u, r, d)
  <2>1. d.op = "materialize" => d.n \in 1..3
    BY DEF Lines
  <2>2. QED
    BY <1>4, <1>6, <1>7, <1>9, <2>1 DEF LineFits
<1>10. LineFits(u, s, c)
  <2>1. v.fault[s] # "accepted" => u.sent[s] = n
    BY <1>1, <1>5
  <2>2. QED
    BY <1>1, <1>2, <1>4, <1>7, <2>1 DEF LineFits
<1>11. ASSUME NEW r \in Pair PROVE DomainFits(u, r)
  <2>1. DomainFits(v, r)
    BY DEF Fits
  <2>2. /\ proc[r].generation <= v.sent[r] => proc[r].generation <= u.sent[r]
        /\ proc[r].generation < v.sent[r] => proc[r].generation < u.sent[r]
    <3>1. proc[r].generation \in 0..3
      BY PairFacts DEF TypeInv, Processes
    <3>2. QED
      BY <1>6, <3>1
  <2>3. r = A /\ proc[r].subject # 0 => u.sent[r] = 3
    BY <1>1, <1>5, <1>6, <2>1 DEF DomainFits
  <2>4. QED
    BY <1>4, <2>1, <2>2, <2>3 DEF DomainFits
<1>12. ASSUME NEW r \in Pair PROVE SaidFits(u, r)
  <2>1. SaidFits(v, r) /\ v.guard = guard
    BY <1>7 DEF Fits, HeadFits
  <2>2. CASE u.sent[r] = v.sent[r]
    BY <1>4, <2>1, <2>2 DEF SaidFits
  <2>3. CASE u.sent[r] # v.sent[r]
    <3>1. r = s /\ u.sent[r] = n
      BY <1>5, <2>3
    <3>2. disposition[r].state \notin {"stale", "unbound"}
      BY <1>1, <2>1, <3>1 DEF SaidFits
    <3>3. CASE disposition[r].state = "synchronized"
      <4>1. /\ v.guarded /\ v.said[r] = "synchronized" /\ v.fault[r] = "none"
            /\ disposition[r].n \in 1..3 /\ disposition[r].n <= v.sent[r]
        BY <2>1, <3>3 DEF SaidFits
      <4>2. disposition[r].n < n
        BY <1>1, <1>6, <3>1, <4>1
      <4>3. guard = OpenFor[n]
        BY <1>1, <2>1, <4>1
      <4>4. guard # OpenFor[disposition[r].n]
        BY <1>1, <4>1, <4>2, <4>3, OpenForOne
      <4>5. disposition[r].n <= u.sent[r]
        BY <1>1, <3>1, <4>1, <4>2
      <4>6. QED
        BY <1>4, <3>2, <4>1, <4>4, <4>5 DEF SaidFits
    <3>4. CASE disposition[r].state # "synchronized"
      BY <3>2, <3>4 DEF SaidFits
    <3>5. QED
      BY <3>3, <3>4
  <2>4. QED
    BY <2>2, <2>3
<1>13. QED
  BY <1>1, <1>4, <1>8, <1>9, <1>10, <1>11, <1>12 DEF SentFits, s, c

\* A fault is armed where nothing has been said and none is armed.
LEMMA ArmedFits ==
  ASSUME NEW v \in Views, NEW i \in Instructions, i.op = "arm", Allowed(v, i),
         NEW u \in Views, u = After(v, i), Fits(v)
  PROVE  SentFits(v, u, i.slot, Line(i.op, i.n, i.tag, i.edge))
<1> DEFINE s == i.slot
           early == i.tag = "M" /\ i.n \in 1..16
           c == Line(i.op, i.n, i.tag, i.edge)
<1>1. s \in Pair /\ v.fault[s] = "none" /\ v.said[s] = "nothing"
  BY DEF Allowed
<1>2. c.op = "arm" /\ (Early(c) <=> early)
  BY DEF Line, Early
<1>3. u = [v EXCEPT !.fault[s] = IF early THEN "early" ELSE "late"]
  BY DEF After
<1> HIDE DEF s, early, c
<1>4. /\ u.open = v.open /\ u.handles = v.handles /\ u.known = v.known /\ u.sent = v.sent
      /\ u.dead = v.dead /\ u.guarded = v.guarded /\ u.guard = v.guard /\ u.head = v.head
      /\ u.published = v.published /\ u.said = v.said
      /\ u.fault = [v.fault EXCEPT ![s] = IF early THEN "early" ELSE "late"]
  BY <1>3 DEF Views
<1>5. \A r \in Pair : u.fault[r] = IF r # s THEN v.fault[r] ELSE IF early THEN "early" ELSE "late"
  BY <1>4 DEF Views
<1>6. HeadFits(v) /\ Observed(u) = Observed(v)
  BY <1>4, SameObserved DEF Fits
<1>7. HeadFits(u)
  BY <1>4, <1>6 DEF HeadFits
<1>8. ASSUME NEW r \in Pair, NEW d \in Lines, LineFits(v, r, d) PROVE LineFits(u, r, d)
  BY <1>1, <1>4, <1>5, <1>6, <1>8 DEF LineFits
<1>9. LineFits(u, s, c)
  BY <1>1, <1>2, <1>5 DEF LineFits
<1>10. ASSUME NEW r \in Pair PROVE DomainFits(u, r)
  <2>1. DomainFits(v, r)
    BY DEF Fits
  <2>2. QED
    BY <1>1, <1>4, <1>5, <2>1 DEF DomainFits
<1>11. ASSUME NEW r \in Pair PROVE SaidFits(u, r)
  <2>1. SaidFits(v, r)
    BY DEF Fits
  <2>2. QED
    BY <1>1, <1>4, <1>5, <2>1 DEF SaidFits
<1>12. QED
  BY <1>1, <1>4, <1>7, <1>8, <1>9, <1>10, <1>11 DEF SentFits, s, c

LEMMA PlainLineFits ==
  ASSUME NEW v \in Views, NEW i \in Instructions, i.op \in {"bind", "inspect", "liveness"}, Fits(v)
  PROVE  After(v, i) = v /\ SentFits(v, v, i.slot, Line(i.op, i.n, i.tag, i.edge))
<1> DEFINE c == Line(i.op, i.n, i.tag, i.edge)
<1>1. After(v, i) = v
  BY DEF After
<1>2. c.op = i.op
  BY DEF Line
<1> HIDE DEF c
<1>3. c.op \notin {"materialize", "arm"}
  BY <1>2
<1>4. LineFits(v, i.slot, c)
  BY <1>3 DEF LineFits
<1>5. QED
  BY <1>1, <1>3, <1>4 DEF SentFits, Fits, c

LEMMA SendIInv == ASSUME IInv, Send PROVE IInv'
<1> DEFINE s == Now.slot
           c == Line(Now.op, Now.n, Now.tag, Now.edge)
<1>1. PICK op \in Sends : Executes(op)
  BY DEF Send
<1>2. /\ Done /\ control' = [control EXCEPT ![s] = Append(@, c)]
      /\ UNCHANGED <<witness, proc, output, pipeVars, headVars, recordVars>>
  BY DEF Send
<1>3. /\ todo # <<>> /\ todo' = Tail(todo) /\ Now.op = op /\ phase' = phase
      /\ UNCHANGED <<case, outcome>> /\ Now \in Instructions
      /\ \E v \in Views : Fits(v) /\ Allowed(v, Now) /\ After(v, Now) \in Views
  BY <1>1, <1>2, Acting
<1>4. UNCHANGED <<witness, proc, output, owned, number, captured, guard, head, published, receipt,
                  disposition>>
  BY <1>2 DEF pipeVars, headVars, recordVars
<1>5. Now.op \in {"bind", "inspect", "liveness"} \/ Now.op = "materialize" \/ Now.op = "arm"
  BY <1>1, <1>3 DEF Sends
<1>6. c \in Lines
  <2>1. PICK v \in Views : Allowed(v, Now)
    BY <1>3
  <2>2. Now.op = "materialize" => Now.n \in 1..3
    BY <2>1 DEF Allowed, MayAsk
  <2>3. Now.op = "arm" => Now.tag \in {"M", "O"}
    BY <2>1 DEF Allowed
  <2>4. Now.op \in AllOps /\ Now.n \in Int /\ Now.tag \in Words /\ Now.edge \in Words
    BY <1>1, <1>3 DEF Sends, AllOps, Instructions
  <2>5. /\ c \in [op : AllOps, n : Int, tag : Words, edge : Words]
        /\ c.op = Now.op /\ c.n = Now.n /\ c.tag = Now.tag
    BY <2>4 DEF Line
  <2> HIDE DEF c
  <2>6. QED
    BY <2>2, <2>3, <2>5 DEF Lines
<1>7. s \in Slots
  BY <1>3 DEF Instructions
<1> HIDE DEF s, c
<1>8. /\ control \in [Slots -> Seq(Lines)]
      /\ \A r \in Slots : control'[r] = IF r = s THEN Append(control[r], c) ELSE control[r]
  BY <1>2, <1>7 DEF IInv, TypeInv
<1>9. control' \in [Slots -> Seq(Lines)]
  <2>1. \A r \in Slots : control'[r] \in Seq(Lines)
    <3>1. \A q \in Seq(Lines) : Append(q, c) \in Seq(Lines)
      BY <1>6
    <3>2. QED
      BY <1>8, <3>1
  <2>2. QED
    BY <1>2, <1>8, <2>1
<1>10. ASSUME NEW r \in Slots, NEW k \in DOMAIN control'[r]
       PROVE  (k \in DOMAIN control[r] /\ control'[r][k] = control[r][k]) \/ (r = s /\ control'[r][k] = c)
  <2>1. CASE r = s
    <3>1. control[r] \in Seq(Lines) /\ control'[r] = Append(control[r], c)
      BY <1>8, <2>1
    <3>2. QED
      BY <1>6, <1>10, <2>1, <3>1
  <2>2. CASE r # s
    BY <1>8, <1>10, <2>2
  <2>3. QED
    BY <2>1, <2>2
<1>11. TypeInv'
  BY <1>3, <1>4, <1>9 DEF IInv, TypeInv
<1>12. ProcessInv' /\ CleanInv' /\ PipeInv' /\ \A v : OpenFits(v) => OpenFits(v)'
  BY <1>3, <1>4, FewerSame, ProcessesKept DEF IInv
<1>13. ASSUME NEW v \in Views, NEW u \in Views, Fits(v), Allowed(v, Now), u = After(v, Now)
       PROVE  Fits(u)'
  <2>1. SentFits(v, u, s, c)
    <3>1. Now.op = "materialize" => MayAsk(v, Now.slot, Now.n)
      BY <1>13 DEF Allowed
    <3>2. QED
      BY <1>3, <1>5, <1>13, <3>1, AskedFits, ArmedFits, PlainLineFits DEF s, c, IInv
  <2>2. HeadFits(u)'
    BY <1>3, <1>4, <2>1 DEF SentFits, HeadFits
  <2>3. OpenFits(u)'
    <3>1. OpenFits(v)'
      BY <1>12, <1>13 DEF Fits
    <3>2. QED
      BY <2>1, <3>1 DEF SentFits, OpenFits
  <2>4. \A r \in Pair : DomainFits(u, r)' /\ SaidFits(u, r)'
    BY <1>4, <2>1 DEF SentFits, DomainFits, SaidFits
  <2>5. SpareFits'
    <3>1. ASSUME NEW k \in DOMAIN control'[Spare] PROVE control'[Spare][k].op \notin {"materialize", "arm"}
      <4>1. CASE k \in DOMAIN control[Spare] /\ control'[Spare][k] = control[Spare][k]
        BY <1>13, <4>1 DEF Fits, SpareFits
      <4>2. CASE Spare = s /\ control'[Spare][k] = c
        BY <2>1, <4>2, PairFacts DEF SentFits
      <4>3. QED
        BY <1>10, <3>1, <4>1, <4>2, PairFacts
    <3>2. QED
      BY <3>1 DEF SpareFits
  <2>6. LinesFit(u)'
    <3>1. ASSUME NEW r \in Pair, NEW k \in DOMAIN control'[r] PROVE LineFits(u, r, control'[r][k])
      <4>1. CASE k \in DOMAIN control[r] /\ control'[r][k] = control[r][k]
        <5>1. control[r][k] \in Lines /\ LineFits(v, r, control[r][k])
          BY <1>8, <1>13, <4>1, PairFacts DEF Fits, LinesFit
        <5>2. QED
          BY <2>1, <4>1, <5>1 DEF SentFits
      <4>2. CASE r = s /\ control'[r][k] = c
        BY <2>1, <4>2 DEF SentFits
      <4>3. QED
        BY <1>10, <3>1, <4>1, <4>2, PairFacts
    <3>2. QED
      BY <3>1 DEF LinesFit, LineFits
  <2>7. QED
    BY <2>2, <2>3, <2>4, <2>5, <2>6 DEF Fits
<1>14. ViewInv'
  BY <1>3, <1>13, ViewStep DEF IInv
<1>15. QED
  BY <1>11, <1>12, <1>14 DEF IInv

-----------------------------------------------------------------------------
(* What is heard *)

\* What hearing of a domain leaves to show of a view.
HeardFits(v, u, receipts) ==
  /\ u.open = v.open /\ u.handles = v.handles /\ u.guarded = v.guarded /\ u.guard = v.guard
  /\ u.head = v.head /\ u.published = v.published
  /\ u.sent[A] = 3 => u.known[B] >= 2
  /\ \A r \in Pair : receipts[r] = u.known[r]
  /\ \A r \in Pair : \A d \in Lines : LineFits(v, r, d) => LineFits(u, r, d)
  /\ \A r \in Pair : DomainFits(u, r) /\ SaidFits(u, r)

\* The receipt of the last generation asked for, and no fault armed: it is represented.
LEMMA ReceiptFits ==
  ASSUME NEW v \in Views, NEW i \in Instructions, i.op = "await", i.tag = "receipt", Allowed(v, i),
         NEW u \in Views, u = After(v, i), Fits(v), TypeInv,
         NEW o, Backed(proc[i.slot], o), o.kind = "receipt", Valid(i.slot, i, o)
  PROVE  HeardFits(v, u, [receipt EXCEPT ![i.slot] = o.n]) /\ o.n \in 0..3 /\ i.slot \in Pair
<1> DEFINE s == i.slot
           n == i.n
<1>1. s \in Pair /\ v.fault[s] = "none" /\ v.sent[s] = n
  BY DEF Allowed
<1>2. o.n = n
  BY DEF Valid
<1>3. u = [v EXCEPT !.known[s] = n]
  BY DEF After, Heard
<1>4. Backed(proc[s], o)
  OBVIOUS
<1> HIDE DEF s, n
<1>5. /\ u.open = v.open /\ u.handles = v.handles /\ u.sent = v.sent /\ u.fault = v.fault
      /\ u.dead = v.dead /\ u.guarded = v.guarded /\ u.guard = v.guard /\ u.head = v.head
      /\ u.published = v.published /\ u.said = v.said
      /\ u.known = [v.known EXCEPT ![s] = n]
  BY <1>3 DEF Views
<1>6. \A r \in Pair : /\ u.known[r] = IF r = s THEN n ELSE v.known[r]
                      /\ v.known[r] \in 0..3 /\ u.known[r] \in 0..3 /\ v.sent[r] \in 0..3
                      /\ proc[r].generation \in 0..3
  BY <1>5, PairFacts DEF Views, TypeInv, Processes
<1>7. HeadFits(v) /\ Observed(u) = Observed(v) /\ \A r \in Pair : DomainFits(v, r) /\ SaidFits(v, r)
  BY <1>5, SameObserved DEF Fits
<1>8. n <= proc[s].generation
  <2>1. proc[s].plan = NoFault
    BY <1>1, <1>7 DEF DomainFits
  <2>2. QED
    BY <1>2, <1>4, <2>1 DEF Backed
<1>9. v.known[s] <= n
  <2>1. v.known[s] <= proc[s].generation /\ proc[s].generation <= v.sent[s]
    BY <1>1, <1>7 DEF DomainFits
  <2>2. QED
    BY <1>1, <1>6, <2>1
<1>10. \A r \in Pair : v.known[r] <= u.known[r]
  BY <1>1, <1>6, <1>9
<1>11. u.sent[A] = 3 => u.known[B] >= 2
  BY <1>5, <1>6, <1>7, <1>10, PairFacts DEF HeadFits
<1>12. n \in 0..3
  BY <1>1, <1>6
<1>13. \A r \in Pair : [receipt EXCEPT ![s] = o.n][r] = u.known[r]
  BY <1>1, <1>2, <1>6, <1>7, PairFacts DEF HeadFits, TypeInv
<1>14. ASSUME NEW r \in Pair, NEW d \in Lines, LineFits(v, r, d) PROVE LineFits(u, r, d)
  <2>1. d.op = "materialize" => d.n \in 1..3
    BY DEF Lines
  <2>2. v.known[B] <= u.known[B] /\ v.known[r] <= u.known[r] /\ v.known[B] \in 0..3 /\ u.known[B] \in 0..3
    BY <1>6, <1>10, PairFacts
  <2>3. r = s /\ d.op = "materialize" => d.n <= u.known[r]
    BY <1>1, <1>6, <1>14 DEF LineFits
  <2>4. r # s => u.known[r] = v.known[r]
    BY <1>6
  <2>5. QED
    BY <1>5, <1>7, <1>14, <2>1, <2>2, <2>3, <2>4 DEF LineFits
<1>15. ASSUME NEW r \in Pair PROVE DomainFits(u, r)
  BY <1>5, <1>6, <1>7, <1>8 DEF DomainFits
<1>16. ASSUME NEW r \in Pair PROVE SaidFits(u, r)
  <2>1. SaidFits(v, r)
    BY <1>7
  <2>2. v.known[r] = disposition[r].n /\ v.sent[r] = disposition[r].n => u.known[r] = disposition[r].n
    BY <1>1, <1>6
  <2>3. QED
    BY <1>5, <2>1, <2>2 DEF SaidFits
<1>17. QED
  BY <1>1, <1>2, <1>5, <1>11, <1>12, <1>13, <1>14, <1>15, <1>16 DEF HeardFits, s

\* A fault is armed when its receipt is here, and only then.
LEMMA ArmReceiptFits ==
  ASSUME NEW v \in Views, NEW i \in Instructions, i.op = "await", i.tag = "arm_receipt", Allowed(v, i),
         NEW u \in Views, u = After(v, i), Fits(v),
         NEW o, Backed(proc[i.slot], o), o.kind = "arm_receipt"
  PROVE  HeardFits(v, u, receipt)
<1> DEFINE s == i.slot
<1>1. s \in Pair
  BY DEF Allowed
<1>2. u = [v EXCEPT !.fault[s] = IF @ = "early" THEN "accepted" ELSE @]
  BY DEF After, Heard
<1>3. proc[s].plan # NoFault
  BY DEF Backed
<1> HIDE DEF s
<1>4. /\ u.open = v.open /\ u.handles = v.handles /\ u.sent = v.sent /\ u.known = v.known
      /\ u.dead = v.dead /\ u.guarded = v.guarded /\ u.guard = v.guard /\ u.head = v.head
      /\ u.published = v.published /\ u.said = v.said
      /\ u.fault = [v.fault EXCEPT ![s] = IF @ = "early" THEN "accepted" ELSE @]
  BY <1>2 DEF Views
<1>5. \A r \in Pair : u.fault[r] = IF r = s /\ v.fault[r] = "early" THEN "accepted" ELSE v.fault[r]
  BY <1>1, <1>4 DEF Views
<1>6. HeadFits(v) /\ Observed(u) = Observed(v) /\ \A r \in Pair : DomainFits(v, r) /\ SaidFits(v, r)
  BY <1>4, SameObserved DEF Fits
<1>7. ASSUME NEW r \in Pair, NEW d \in Lines, LineFits(v, r, d) PROVE LineFits(u, r, d)
  BY <1>4, <1>5, <1>6, <1>7 DEF LineFits
<1>8. ASSUME NEW r \in Pair PROVE DomainFits(u, r)
  BY <1>3, <1>4, <1>5, <1>6 DEF DomainFits
<1>9. ASSUME NEW r \in Pair PROVE SaidFits(u, r)
  BY <1>4, <1>5, <1>6 DEF SaidFits
<1>10. QED
  BY <1>4, <1>6, <1>7, <1>8, <1>9 DEF HeardFits, HeadFits

\* A domain that reports the failure of a stage is terminal.
LEMMA FailureFits ==
  ASSUME NEW v \in Views, NEW i \in Instructions, i.op = "await", i.tag = "failure", i.n \notin {0, 99},
         Allowed(v, i), NEW u \in Views, u = After(v, i), Fits(v),
         NEW o, Backed(proc[i.slot], o), o.kind = "failure", Valid(i.slot, i, o)
  PROVE  HeardFits(v, u, receipt)
<1> DEFINE s == i.slot
<1>1. s \in Pair
  BY DEF Allowed
<1>2. u = [v EXCEPT !.dead = @ \cup {s}]
  BY DEF After, Heard
<1>3. proc[s].terminal
  <2>1. o.n = i.n /\ i.n # 0
    BY DEF Valid
  <2>2. QED
    BY <2>1 DEF Backed
<1> HIDE DEF s
<1>4. /\ u.open = v.open /\ u.handles = v.handles /\ u.sent = v.sent /\ u.known = v.known
      /\ u.fault = v.fault /\ u.guarded = v.guarded /\ u.guard = v.guard /\ u.head = v.head
      /\ u.published = v.published /\ u.said = v.said /\ u.dead = v.dead \cup {s}
  BY <1>2 DEF Views
<1>5. HeadFits(v) /\ Observed(u) = Observed(v) /\ \A r \in Pair : DomainFits(v, r) /\ SaidFits(v, r)
  BY <1>4, SameObserved DEF Fits
<1>6. ASSUME NEW r \in Pair, NEW d \in Lines, LineFits(v, r, d) PROVE LineFits(u, r, d)
  BY <1>4, <1>5, <1>6 DEF LineFits
<1>7. ASSUME NEW r \in Pair PROVE DomainFits(u, r)
  BY <1>3, <1>4, <1>5 DEF DomainFits
<1>8. ASSUME NEW r \in Pair PROVE SaidFits(u, r)
  BY <1>4, <1>5 DEF SaidFits
<1>9. QED
  BY <1>4, <1>5, <1>6, <1>7, <1>8 DEF HeardFits, HeadFits

LEMMA OtherwiseFits ==
  ASSUME NEW v \in Views, NEW i, i.op = "await", i.tag \notin {"receipt", "arm_receipt"},
         i.tag = "failure" => i.n \in {0, 99}, Fits(v)
  PROVE  After(v, i) = v /\ HeardFits(v, v, receipt)
<1>1. After(v, i) = v
  BY DEF After, Heard
<1>2. QED
  BY <1>1 DEF HeardFits, Fits, HeadFits

LEMMA AwaitIInv == ASSUME IInv, Await PROVE IInv'
<1> DEFINE s == Now.slot
           k == First(Matching(s, Now.tag))
           o == output[s][k]
<1>1. /\ Executes("await") /\ Done /\ Matching(s, Now.tag) # {} /\ Valid(s, Now, o)
      /\ output' = [output EXCEPT ![s] = Without(@, k)]
      /\ receipt' = IF Now.tag = "receipt" THEN [receipt EXCEPT ![s] = o.n] ELSE receipt
      /\ UNCHANGED <<witness, proc, control, pipeVars, headVars, disposition>>
  BY DEF Await
<1>2. /\ todo # <<>> /\ todo' = Tail(todo) /\ Now.op = "await" /\ phase' = phase
      /\ UNCHANGED <<case, outcome>> /\ Now \in Instructions
      /\ \E v \in Views : Fits(v) /\ Allowed(v, Now) /\ After(v, Now) \in Views
  BY <1>1, Acting
<1>3. UNCHANGED <<owned, number, captured, guard, head, published>>
  BY <1>1 DEF pipeVars, headVars
<1>4. s \in Slots /\ TypeInv /\ ProcessInv
  BY <1>2 DEF Instructions, IInv
<1>5. /\ Fewer(Without(output[s], k), output[s]) /\ k \in DOMAIN output[s]
      /\ o.kind = Schema(Now.tag)
  <2>1. output[s] \in Seq(Objects)
    BY <1>4 DEF TypeInv
  <2>2. QED
    BY <1>1, <1>4, <2>1, FewerTaken
<1>6. Backed(proc[s], o)
  BY <1>4, <1>5 DEF ProcessInv
<1>7. ASSUME NEW v \in Views, NEW u \in Views, Fits(v), Allowed(v, Now), u = After(v, Now)
      PROVE  HeardFits(v, u, receipt') /\ (Now.tag = "receipt" => o.n \in 0..3)
  <2>1. CASE Now.tag = "receipt"
    <3>1. o.kind = "receipt" /\ receipt' = [receipt EXCEPT ![s] = o.n]
      BY <1>1, <1>5, <2>1 DEF Schema
    <3> HIDE DEF o, k
    <3>2. HeardFits(v, u, [receipt EXCEPT ![Now.slot] = o.n]) /\ o.n \in 0..3
      BY <1>1, <1>2, <1>4, <1>6, <1>7, <2>1, <3>1, ReceiptFits
    <3>3. QED
      BY <3>1, <3>2
  <2>2. CASE Now.tag = "arm_receipt"
    <3>1. o.kind = "arm_receipt" /\ receipt' = receipt
      BY <1>1, <1>5, <2>2 DEF Schema
    <3> HIDE DEF o, k
    <3>2. HeardFits(v, u, receipt)
      BY <1>2, <1>6, <1>7, <2>2, <3>1, ArmReceiptFits
    <3>3. QED
      BY <2>2, <3>1, <3>2
  <2>3. CASE Now.tag = "failure" /\ Now.n \notin {0, 99}
    <3>1. o.kind = "failure" /\ receipt' = receipt
      BY <1>1, <1>5, <2>3 DEF Schema
    <3> HIDE DEF o, k
    <3>2. HeardFits(v, u, receipt)
      BY <1>1, <1>2, <1>6, <1>7, <2>3, <3>1, FailureFits
    <3>3. QED
      BY <2>3, <3>1, <3>2
  <2>4. CASE Now.tag \notin {"receipt", "arm_receipt"} /\ (Now.tag = "failure" => Now.n \in {0, 99})
    <3>1. receipt' = receipt
      BY <1>1, <2>4
    <3> HIDE DEF o, k
    <3>2. HeardFits(v, u, receipt)
      BY <1>2, <1>7, <2>4, OtherwiseFits
    <3>3. QED
      BY <2>4, <3>1, <3>2
  <2>5. QED
    BY <2>1, <2>2, <2>3, <2>4
<1>8. Now.tag = "receipt" => o.n \in 0..3
  <2>1. PICK v \in Views : Fits(v) /\ Allowed(v, Now) /\ After(v, Now) \in Views
    BY <1>2
  <2>2. PICK u \in Views : u = After(v, Now)
    BY <2>1
  <2> HIDE DEF o
  <2>3. QED
    BY <1>7, <2>1, <2>2
<1> HIDE DEF s, k, o
<1>9. receipt' \in [Slots -> 0..3]
  BY <1>1, <1>4, <1>8 DEF TypeInv
<1>10. \A r \in Slots : output'[r] = IF r = s THEN Without(output[r], k) ELSE output[r]
  BY <1>1, <1>4 DEF TypeInv
<1>11. \A r \in Slots : Fewer(output'[r], output[r])
  BY <1>4, <1>5, <1>10, FewerSame
<1>12. output' \in [Slots -> Seq(Objects)]
  <2>1. \A r \in Slots : output'[r] \in Seq(Objects)
    BY <1>11 DEF Fewer
  <2>2. QED
    BY <1>1, <1>4, <2>1 DEF TypeInv
<1>13. TypeInv'
  BY <1>1, <1>2, <1>3, <1>4, <1>9, <1>12 DEF TypeInv
<1>14. ProcessInv' /\ CleanInv' /\ PipeInv' /\ SameDomains /\ \A v : OpenFits(v) => OpenFits(v)'
  BY <1>1, <1>2, <1>3, <1>11, ProcessesKept
<1>15. ASSUME NEW v \in Views, NEW u \in Views, Fits(v), Allowed(v, Now), u = After(v, Now)
       PROVE  Fits(u)'
  <2>1. HeardFits(v, u, receipt')
    BY <1>7, <1>15
  <2>2. HeadFits(u)'
    <3>1. HeadFits(v)
      BY <1>15 DEF Fits
    <3>2. QED
      BY <1>2, <1>3, <2>1, <3>1 DEF HeardFits, HeadFits
  <2>3. OpenFits(u)'
    <3>1. OpenFits(v)'
      BY <1>14, <1>15 DEF Fits
    <3>2. QED
      BY <2>1, <3>1 DEF HeardFits, OpenFits
  <2>4. \A r \in Pair : DomainFits(u, r)' /\ SaidFits(u, r)'
    BY <1>1, <1>3, <2>1 DEF HeardFits, DomainFits, Lost, SaidFits
  <2>5. SpareFits'
    BY <1>1, <1>15 DEF Fits, SpareFits
  <2>6. LinesFit(u)'
    <3>1. ASSUME NEW r \in Pair, NEW j \in DOMAIN control'[r] PROVE LineFits(u, r, control'[r][j])
      <4>1. control'[r][j] = control[r][j] /\ j \in DOMAIN control[r]
        BY <1>1, <3>1
      <4>2. control[r][j] \in Lines /\ LineFits(v, r, control[r][j])
        BY <1>4, <1>15, <4>1, PairFacts DEF TypeInv, Fits, LinesFit
      <4>3. QED
        BY <2>1, <4>1, <4>2 DEF HeardFits
    <3>2. QED
      BY <3>1 DEF LinesFit, LineFits
  <2>7. QED
    BY <2>2, <2>3, <2>4, <2>5, <2>6 DEF Fits
<1>16. ViewInv'
  BY <1>2, <1>15, ViewStep DEF IInv
<1>17. QED
  BY <1>13, <1>14, <1>16 DEF IInv

-----------------------------------------------------------------------------
(* A process handles a line *)

\* What was written of a process stays true of it.
LEMMA BackedOn ==
  ASSUME NEW s, NEW p \in Processes, NEW c \in Lines, NEW q \in Processes, Follows(s, p, c, q),
         NEW o \in Objects, Backed(p, o)
  PROVE  Backed(q, o)
<1>1. p.terminal => q.terminal
  BY DEF Follows
<1>2. p.plan # NoFault => q.plan # NoFault
  BY DEF Follows
<1>3. p.generation <= q.generation /\ p.generation \in 0..3 /\ q.generation \in 0..3
  BY DEF Follows, Advancing, Processes
<1>4. o.n \in Int
  BY DEF Objects
<1>5. QED
  BY <1>1, <1>2, <1>3, <1>4 DEF Backed

\* A generation that comes to be represented was asked for and has been observed, and the
\* guard is open for it.
LEMMA Advances ==
  ASSUME NEW v \in Views, NEW s \in Pair, NEW c \in Lines, LineFits(v, s, c), DomainFits(v, s),
         proc[s] \in Processes, Advancing(proc[s], c)
  PROVE  /\ c.n = proc[s].generation + 1 /\ c.n \in 1..3 /\ c.n <= v.sent[s] /\ c.n <= Observed(v)
         /\ v.guarded => v.guard = OpenFor[c.n]
<1>1. c.op = "materialize" /\ c.n = proc[s].generation + 1 /\ ~proc[s].terminal /\ ~Early(proc[s].plan)
  BY DEF Advancing
<1>2. c.n \in 1..3 /\ proc[s].generation \in 0..3 /\ v.known[s] \in 0..3
  BY <1>1 DEF Lines, Processes, Views
<1>3. s \notin v.dead /\ v.fault[s] # "accepted"
  BY <1>1 DEF DomainFits
<1>4. ~(c.n <= v.known[s])
  BY <1>1, <1>2 DEF DomainFits
<1>5. QED
  BY <1>1, <1>2, <1>3, <1>4 DEF LineFits

\* A domain fits on when it has handled a line that fits.
LEMMA DomainFollows ==
  ASSUME NEW v \in Views, NEW s \in Pair, NEW c \in Lines, LineFits(v, s, c), DomainFits(v, s),
         proc[s] \in Processes, NEW q \in Processes, Follows(s, proc[s], c, q), proc'[s] = q
  PROVE  DomainFits(v, s)'
<1> DEFINE p == proc[s]
<1>1. /\ p.generation \in 0..3 /\ q.generation \in 0..3 /\ v.known[s] \in 0..3 /\ v.sent[s] \in 0..3
  BY DEF Processes, Views
<1>2. Advancing(p, c) => c.n = p.generation + 1 /\ c.n <= v.sent[s] /\ c.n \in 1..3
  BY Advances
<1>3. v.known[s] <= p.generation /\ p.generation <= v.sent[s]
  BY DEF DomainFits
<1>4. v.known[s] <= q.generation /\ q.generation <= v.sent[s]
  BY <1>1, <1>2, <1>3 DEF Follows
<1>5. q.plan = p.plan \/ (c.op = "arm" /\ p.plan = NoFault /\ (Early(c) => Early(q.plan)))
  BY DEF Follows, Early
<1>6. ~Early(NoFault)
  BY DEF Early, NoFault
<1>7. /\ v.fault[s] = "none" => q.plan = NoFault
      /\ v.fault[s] = "early" => q.plan = NoFault \/ Early(q.plan)
      /\ v.fault[s] = "accepted" => Early(q.plan)
  BY <1>5, <1>6 DEF DomainFits, LineFits
<1>8. s \in v.dead => q.terminal
  BY DEF DomainFits, Follows
<1>9. s = A /\ q.subject # 0 => v.sent[s] = 3
  <2> SUFFICES ASSUME s = A, q.subject # 0 PROVE v.sent[s] = 3
    OBVIOUS
  <2>1. CASE q.subject = p.subject
    BY <2>1 DEF DomainFits
  <2>2. CASE Advancing(p, c) /\ q.subject = Subject(s, c.n)
    <3>1. s \in InRoleA
      BY HarnessAssumption
    <3>2. c.n = 3
      BY <2>2, <3>1 DEF Subject, Present
    <3>3. QED
      BY <1>1, <1>2, <2>2, <3>2
  <2>3. QED
    BY <2>1, <2>2 DEF Follows
<1>10. Lost(q) => q.generation < v.sent[s]
  <2>1. Lost(q) => q.generation = p.generation /\ (Lost(p) \/ Advancing(p, c))
    BY DEF Follows
  <2>2. Lost(p) => p.generation < v.sent[s]
    BY DEF DomainFits
  <2>3. QED
    BY <1>1, <1>2, <2>1, <2>2
<1>11. QED
  BY <1>4, <1>7, <1>8, <1>9, <1>10 DEF DomainFits, Lost

LEMMA ProcessIInv == ASSUME IInv, NEW s \in Slots, Process(s) \/ ProcessFails(s) PROVE IInv'
<1> DEFINE p == proc[s]
           c == Head(control[s])
<1>1. /\ HandleLine(s) \/ EngineRefuses(s)
      /\ UNCHANGED <<case, phase, outcome, todo, owned, number, captured, guard, head, published, receipt,
                     disposition>>
  BY DEF Process, ProcessFails, runVars, pipeVars, headVars, recordVars
<1>2. /\ p \in Processes /\ control[s] \in Seq(Lines) /\ Sound(s, p) /\ TypeInv /\ ProcessInv
      /\ output[s] \in Seq(Objects)
  BY DEF IInv, TypeInv, ProcessInv
<1>3. p.life = "running" /\ control[s] # <<>> /\ c \in Lines /\ HandledWell(s, c)
  BY <1>1, <1>2, LineHandled
<1>4. PICK q \in Running(s) : \E objects :
        Handled(s, q, objects) /\ Follows(s, p, c, q) /\ Writes(q, objects)
  BY <1>3 DEF HandledWell
<1>5. PICK objects : Handled(s, q, objects) /\ Follows(s, p, c, q) /\ Writes(q, objects)
  BY <1>4
<1>6. q \in Processes /\ q.life = "running" /\ Sound(s, q)
  BY DEF Running
<1>7. /\ \A r \in Slots : proc'[r] = IF r = s THEN q ELSE proc[r]
      /\ \A r \in Slots : control'[r] = IF r = s THEN Tail(control[r]) ELSE control[r]
      /\ \A r \in Slots : output'[r] = output[r] \/ (r = s /\ output'[r] = output[r] \o objects)
      /\ UNCHANGED witness
  BY <1>2, <1>5 DEF Handled, TypeInv
<1>8. TypeInv'
  <2>1. proc' \in [Slots -> Processes]
    BY <1>2, <1>5, <1>6 DEF Handled, TypeInv
  <2>2. control' \in [Slots -> Seq(Lines)]
    <3>1. Tail(control[s]) \in Seq(Lines)
      BY <1>2, <1>3
    <3>2. QED
      BY <1>2, <1>5, <3>1 DEF Handled, TypeInv
  <2>3. output' \in [Slots -> Seq(Objects)]
    <3>1. output[s] \o objects \in Seq(Objects)
      BY <1>2, <1>5, ConcatProperties DEF Writes
    <3>2. QED
      BY <1>2, <1>5, <3>1 DEF Handled, TypeInv
  <2>4. QED
    BY <1>1, <1>2, <1>7, <2>1, <2>2, <2>3 DEF TypeInv
<1>9. ProcessInv'
  <2>1. ASSUME NEW r \in Slots PROVE Sound(r, proc'[r]) /\ (proc'[r].life = "running" => r \in owned')
    BY <1>1, <1>2, <1>3, <1>6, <1>7 DEF ProcessInv
  <2>2. ASSUME NEW r \in Slots, NEW i \in DOMAIN output'[r] PROVE Backed(proc'[r], output'[r][i])
    <3>1. CASE r # s
      BY <1>2, <1>7, <2>2, <3>1 DEF ProcessInv
    <3>2. CASE r = s
      <4>1. Writes(q, output[s])
        <5>1. \A j \in DOMAIN output[s] : output[s][j] \in Objects /\ Backed(p, output[s][j])
          BY <1>2 DEF ProcessInv
        <5>2. \A j \in DOMAIN output[s] : Backed(q, output[s][j])
          BY <1>2, <1>3, <1>5, <1>6, <5>1, BackedOn
        <5>3. QED
          BY <1>2, <5>2 DEF Writes
      <4>2. Writes(q, output[s] \o objects)
        BY <1>5, <4>1, WritesThen
      <4>3. QED
        BY <1>7, <2>2, <3>2, <4>1, <4>2 DEF Writes
    <3>3. QED
      BY <3>1, <3>2
  <2>3. QED
    BY <2>1, <2>2 DEF ProcessInv, Sound, Truthful, Backed
<1>10. CleanInv'
  BY <1>1, <1>2, <1>3, <1>7 DEF IInv, CleanInv, ProcessInv
<1>11. Open' = Open
  BY <1>3, <1>6, <1>7 DEF Open
<1>12. PipeInv'
  BY <1>1, <1>11 DEF IInv, PipeInv
<1>13. \A i \in DOMAIN control'[s] : i + 1 \in DOMAIN control[s] /\ control'[s][i] = control[s][i + 1]
  <2>1. \A r \in Seq(Lines) : r # <<>> =>
          \A i \in DOMAIN Tail(r) : i + 1 \in DOMAIN r /\ Tail(r)[i] = r[i + 1]
    OBVIOUS
  <2>2. control'[s] = Tail(control[s])
    BY <1>7
  <2>3. QED
    BY <1>2, <1>3, <2>1, <2>2
<1>14. 1 \in DOMAIN control[s] /\ c = control[s][1]
  BY <1>2, <1>3
<1> HIDE DEF p, c
<1>15. ViewInv'
  <2>1. PICK v \in Views : Fits(v) /\ \E w : Runs(todo, v, w)
    BY DEF IInv, ViewInv
  <2>2. HeadFits(v)' /\ OpenFits(v)'
    BY <1>1, <1>11, <2>1 DEF Fits, HeadFits, OpenFits
  <2>3. LinesFit(v)'
    <3>1. ASSUME NEW r \in Pair, NEW i \in DOMAIN control'[r] PROVE LineFits(v, r, control'[r][i])
      <4>1. CASE r = s
        BY <1>13, <2>1, <3>1, <4>1 DEF Fits, LinesFit
      <4>2. CASE r # s
        BY <1>7, <2>1, <3>1, <4>2, PairFacts DEF Fits, LinesFit
      <4>3. QED
        BY <4>1, <4>2
    <3>2. QED
      BY <3>1 DEF LinesFit, LineFits
  <2>4. SpareFits'
    <3>1. CASE Spare = s
      BY <1>13, <2>1, <3>1 DEF Fits, SpareFits
    <3>2. CASE Spare # s
      BY <1>7, <2>1, <3>2, PairFacts DEF Fits, SpareFits
    <3>3. QED
      BY <3>1, <3>2
  <2>5. ASSUME NEW r \in Pair PROVE DomainFits(v, r)' /\ SaidFits(v, r)'
    <3>1. DomainFits(v, r) /\ SaidFits(v, r)
      BY <2>1 DEF Fits
    <3>2. SaidFits(v, r)'
      BY <1>1, <3>1 DEF SaidFits
    <3>3. CASE r # s
      <4>1. proc'[r] = proc[r]
        BY <1>7, <3>3, PairFacts
      <4>2. DomainFits(v, r)'
        BY <3>1, <4>1 DEF DomainFits, Lost
      <4>3. QED
        BY <3>2, <4>2
    <3>4. CASE r = s
      <4>1. LineFits(v, s, c)
        BY <1>14, <2>1, <3>4 DEF Fits, LinesFit
      <4>2. proc[s] \in Processes /\ proc'[s] = q /\ Follows(s, proc[s], c, q) /\ c \in Lines
        BY <1>2, <1>3, <1>5, <1>7 DEF p
      <4>3. DomainFits(v, s)'
        BY <1>6, <3>1, <3>4, <4>1, <4>2, DomainFollows
      <4>4. QED
        BY <3>2, <3>4, <4>3
    <3>5. QED
      BY <3>3, <3>4
  <2>6. Fits(v)'
    BY <2>2, <2>3, <2>4, <2>5 DEF Fits
  <2>7. QED
    BY <1>1, <2>1, <2>6 DEF ViewInv
<1>16. QED
  BY <1>8, <1>9, <1>10, <1>12, <1>15 DEF IInv

LEMMA StutterIInv == ASSUME IInv, UNCHANGED vars PROVE IInv'
<1>1. UNCHANGED <<witness, proc, control, output, case, phase, outcome, todo, owned, number, captured,
                  guard, head, published, receipt, disposition>>
  BY DEF vars, occupancyVars, runVars, pipeVars, headVars, recordVars
<1>2. UNCHANGED <<pipeVars, headVars>> /\ Open' = Open
  BY <1>1 DEF pipeVars, headVars, Open
<1>3. TypeInv' /\ CleanInv' /\ PipeInv'
  BY <1>1, <1>2 DEF IInv, TypeInv, CleanInv, PipeInv
<1>4. ProcessInv'
  BY <1>1 DEF IInv, ProcessInv, Sound, Truthful, Backed
<1>5. ViewInv'
  <2>1. PICK v \in Views : Fits(v) /\ \E w : Runs(todo, v, w)
    BY DEF IInv, ViewInv
  <2>2. OpenFits(v)'
    BY <1>1, <1>2, <2>1 DEF Fits, OpenFits
  <2>3. Fits(v)'
    BY <1>1, <2>1, <2>2, UnchangedDomains, SameSelf, FrameFits
  <2>4. QED
    BY <1>1, <2>1, <2>3 DEF ViewInv
<1>6. QED
  BY <1>3, <1>4, <1>5 DEF IInv

LEMMA NextIInv == IInv /\ [Next]_vars => IInv'
<1> SUFFICES ASSUME IInv, [Next]_vars PROVE IInv'
  OBVIOUS
<1>1. CASE Harness
  BY <1>1, SpawnIInv, IdentifyIInv, ResumeIInv, SendIInv, AwaitIInv, QuietIInv, CaptureIInv,
     KillIInv, TerminateIInv, GuardIInv, ResolveIInv, PublishIInv, ConcludeIInv, RaiseIInv,
     CleanIInv DEF Harness
<1>2. CASE Timeout \/ IoError \/ TerminateRaises
  BY <1>2, RaiseIInv, TerminateRaisesIInv
<1>3. ASSUME NEW s \in Slots, Process(s) \/ ProcessDies(s) \/ ProcessFails(s) PROVE IInv'
  BY <1>3, ProcessIInv, DiesIInv
<1>4. CASE UNCHANGED vars
  BY <1>4, StutterIInv
<1>5. QED
  BY <1>1, <1>2, <1>3, <1>4 DEF Next

\* What the harness knows at its position of the program is so of the processes, the pipes
\* and the record, whatever the processes do meanwhile and whatever fails.
THEOREM InductiveInvariant == Spec => []IInv
  BY InitIInv, NextIInv, PTL DEF Spec

-----------------------------------------------------------------------------
(* The theorems *)

\* A process that has not declared its publication invalid shows the generation it says it
\* represents, with its subject, whichever stage of whichever publication failed and
\* whatever was armed (FCrossDomainOccupancyProofAdapter::MaterializeOnce).
THEOREM ShowsWhatItSays == Spec => []SaysWhatItShows
<1>1. IInv => SaysWhatItShows
  BY DEF IInv, ProcessInv, Sound, Truthful, SaysWhatItShows
<1>2. QED
  BY <1>1, InductiveInvariant, PTL

\* At the end of a case every process it has a handle of is reaped and none is running,
\* the replacement included (LiveDomain.terminate, the finally clauses).
THEOREM EndsClean == Spec => []NoneLeftRunning
<1>1. IInv => NoneLeftRunning
  BY DEF IInv, TypeInv, Processes, ProcessInv, CleanInv, NoneLeftRunning
<1>2. QED
  BY <1>1, InductiveInvariant, PTL

LEMMA OneBodyShown == IInv => OneBody
<1> SUFFICES ASSUME IInv PROVE OneBody
  OBVIOUS
<1>1. TypeInv /\ ProcessInv /\ PipeInv
  BY DEF IInv
<1>2. TypeOKHarness
  <2>1. ASSUME NEW s \in Slots
        PROVE  /\ proc[s].life \in {"absent", "suspended", "running", "exited", "reaped"}
               /\ {proc[s].generation, proc[s].anchor, proc[s].subject, receipt[s]} \subseteq 0..3
               /\ proc[s].publication \in {"none", "published", "invalid"}
               /\ number[s] \in 0..3 /\ captured[s] \subseteq Slots
               /\ \A i \in DOMAIN control[s] : control[s][i].op \in AllOps
    <3>1. proc[s] \in Processes /\ receipt[s] \in 0..3 /\ control[s] \in Seq(Lines)
      BY <1>1 DEF TypeInv
    <3>2. number[s] \in 0..3 /\ captured[s] \subseteq Slots
      BY <1>1 DEF PipeInv
    <3>3. \A i \in DOMAIN control[s] : control[s][i] \in Lines
      BY <3>1
    <3>4. \A c \in Lines : c.op \in AllOps
      BY DEF Lines
    <3>5. QED
      BY <3>1, <3>2, <3>3, <3>4 DEF Processes
  <2>2. QED
    BY <1>1, <2>1 DEF TypeInv, TypeOKHarness, Generations, Heads
<1>3. PICK v \in Views : Fits(v)
  BY DEF IInv, ViewInv
<1>4. ASSUME proc[A].subject # 0 PROVE proc[B].subject = 0
  <2>1. A \in Pair /\ B \in Pair /\ B \in Slots /\ A # B
    BY PairFacts
  <2>2. v.sent[A] = 3
    BY <1>3, <1>4, <2>1 DEF Fits, DomainFits
  <2>3. v.known[B] >= 2
    BY <1>3, <2>2 DEF Fits, HeadFits
  <2>4. v.known[B] <= proc[B].generation
    BY <1>3, <2>1 DEF Fits, DomainFits
  <2>5. v.known[B] \in 0..3 /\ proc[B].generation \in 0..3
    BY <1>1, <2>1 DEF TypeInv, Processes, Views
  <2>6. proc[B].generation >= 2
    BY <2>3, <2>4, <2>5
  <2>7. B \notin InRoleA
    BY <2>1, HarnessAssumption
  <2>8. QED
    BY <1>1, <2>1, <2>6, <2>7 DEF ProcessInv, Sound
<1>5. QED
  BY <1>2, <1>4 DEF OneBody

\* The subject never has a body in both domains: the domain it enters is asked for the final
\* generation only when the one it leaves has a receipt of the transit
\* (acquire_primary_witness, _setup_stale_rtransit, acquire_asymmetric_failures).
THEOREM OneBodyAtMost == Spec => []OneBody
<1>1. QED
  BY OneBodyShown, InductiveInvariant, PTL

\* A process whose publication is not invalid has what is expected of its generation.
LEMMA ShownAsExpected ==
  ASSUME TypeInv, ProcessInv, NEW v \in Views, NEW s \in Pair, DomainFits(v, s),
         v.fault[s] \in {"none", "accepted"}, v.known[s] = v.sent[s]
  PROVE  LET g == v.known[s] IN
         proc[s].anchor = g /\ proc[s].subject = ExpectedSubject(s, g) /\ proc[s].generation = g
<1>1. /\ proc[s].generation \in 0..3 /\ v.known[s] \in 0..3
      /\ s \in Slots /\ Sound(s, proc[s])
  BY PairFacts DEF TypeInv, Processes, Views, ProcessInv
<1>2. proc[s].generation = v.known[s]
  BY <1>1 DEF DomainFits
<1>3. proc[s].publication # "invalid"
  <2>1. ~Lost(proc[s]) /\ (proc[s].plan = NoFault \/ Early(proc[s].plan))
    BY <1>1, <1>2 DEF DomainFits
  <2>2. QED
    BY <2>1 DEF Lost
<1>4. proc[s].anchor = v.known[s] /\ proc[s].subject = Subject(s, v.known[s])
  BY <1>1, <1>2, <1>3 DEF Sound, Truthful
<1>5. s \in InRoleA <=> s = A
  BY PairFacts, HarnessAssumption
<1>6. \A g \in 0..3 : Subject(s, g) = ExpectedSubject(s, g)
  BY <1>5 DEF Subject, Present, ExpectedSubject
<1>7. QED
  BY <1>1, <1>2, <1>4, <1>6

LEMMA DispositionsShown == IInv => DispositionsMatchWorlds
<1> SUFFICES ASSUME IInv PROVE DispositionsMatchWorlds
  OBVIOUS
<1>1. TypeInv /\ ProcessInv
  BY DEF IInv
<1>2. PICK v \in Views : Fits(v)
  BY DEF IInv, ViewInv
<1>3. ASSUME NEW s \in Pair
      PROVE  LET d == disposition[s]
                 Shows(g) == proc[s].anchor = g /\ proc[s].subject = ExpectedSubject(s, g)
                               /\ proc[s].generation = g
             IN /\ d.state = "synchronized" /\ guard = OpenFor[d.n] => receipt[s] = d.n /\ Shows(d.n)
                /\ d.state = "stale" => Shows(d.n)
                /\ d.state = "unbound" => Shows(0)
  <2> DEFINE d == disposition[s]
             Shows(g) == proc[s].anchor = g /\ proc[s].subject = ExpectedSubject(s, g)
                           /\ proc[s].generation = g
  <2>1. SaidFits(v, s) /\ DomainFits(v, s) /\ receipt[s] = v.known[s]
    BY <1>2 DEF Fits, HeadFits
  <2>2. ASSUME v.fault[s] \in {"none", "accepted"}, v.known[s] = d.n, v.sent[s] = d.n
        PROVE  Shows(d.n)
    <3>1. Shows(v.known[s])
      BY <1>1, <2>1, <2>2, ShownAsExpected
    <3>2. QED
      BY <2>2, <3>1
  <2> HIDE DEF Shows
  <2>3. d.state = "synchronized" /\ guard = OpenFor[d.n] => receipt[s] = d.n /\ Shows(d.n)
    BY <2>1, <2>2 DEF SaidFits
  <2>4. d.state = "stale" => Shows(d.n)
    BY <2>1, <2>2 DEF SaidFits
  <2>5. d.state = "unbound" => Shows(0)
    BY <2>1, <2>2 DEF SaidFits
  <2>6. QED
    BY <2>3, <2>4, <2>5 DEF Shows
<1>4. QED
  BY <1>3 DEF DispositionsMatchWorlds

\* A domain recorded synchronized, stale or unbound shows the generation it is recorded at,
\* though faults may have been armed in it and failures reported
\* (head_disposition, PhysicalCurrentHeadGuard).
THEOREM SaidAsShown == Spec => []DispositionsMatchWorlds
<1>1. QED
  BY DispositionsShown, InductiveInvariant, PTL

\* The bytes recorded as the evidence of a process were read from its own pipe, even when a
\* descriptor was closed and given out again (_domain_evidence, LiveDomain.terminate).
THEOREM EvidenceOfItsOwn == Spec => []EvidenceIsOwn
<1>1. IInv => EvidenceIsOwn
  BY DEF IInv, PipeInv, EvidenceIsOwn
<1>2. QED
  BY <1>1, InductiveInvariant, PTL

-----------------------------------------------------------------------------
(* The law *)

LEMMA ObservedCounted ==
  ASSUME NEW p \in Heads
  PROVE  1 + Cardinality({h \in {2, 3} : p[h] = 9})
           = 1 + (IF p[2] = 9 THEN 1 ELSE 0) + (IF p[3] = 9 THEN 1 ELSE 0)
<1> DEFINE S == {h \in {2, 3} : p[h] = 9}
<1>1. /\ Cardinality({}) = 0 /\ Cardinality({2}) = 1 /\ Cardinality({3}) = 1
      /\ Cardinality({2, 3}) = 2
  <2>1. Cardinality({}) = 0 /\ Cardinality({2}) = 1 /\ Cardinality({3}) = 1 /\ IsFiniteSet({2})
    BY FS_EmptySet, FS_Singleton
  <2>2. ASSUME NEW x, NEW y, x # y PROVE Cardinality({x} \cup {y}) = 2
    <3>1. IsFiniteSet({x}) /\ Cardinality({x}) = 1 /\ y \notin {x}
      BY <2>2, FS_Singleton
    <3>2. Cardinality({x} \cup {y}) = IF y \in {x} THEN Cardinality({x}) ELSE Cardinality({x}) + 1
      BY <3>1, FS_AddElement
    <3>3. QED
      BY <3>1, <3>2
  <2>3. \A x, y : x # y => Cardinality({x} \cup {y}) = 2
    BY <2>2
  <2>4. {2} \cup {3} = {2, 3} /\ 2 # 3
    OBVIOUS
  <2>5. Cardinality({2} \cup {3}) = 2
    BY <2>3, <2>4, Zenon
  <2>6. QED
    BY <2>1, <2>4, <2>5
<1>2. CASE p[2] = 9 /\ p[3] = 9
  <2>1. S = {2, 3}
    BY <1>2
  <2> HIDE DEF S
  <2>2. QED
    BY <1>1, <1>2, <2>1 DEF S
<1>3. CASE p[2] = 9 /\ p[3] # 9
  <2>1. S = {2}
    BY <1>3
  <2> HIDE DEF S
  <2>2. QED
    BY <1>1, <1>3, <2>1 DEF S
<1>4. CASE p[2] # 9 /\ p[3] = 9
  <2>1. S = {3}
    BY <1>4
  <2> HIDE DEF S
  <2>2. QED
    BY <1>1, <1>4, <2>1 DEF S
<1>5. CASE p[2] # 9 /\ p[3] # 9
  <2>1. S = {}
    BY <1>5
  <2> HIDE DEF S
  <2>2. QED
    BY <1>1, <1>5, <2>1 DEF S
<1>6. QED
  BY <1>2, <1>3, <1>4, <1>5

\* What the harness has observed, in a view that fits.
LEMMA ObservedFits ==
  ASSUME TypeInv, NEW v \in Views, HeadFits(v)
  PROVE  1 + Cardinality({h \in {2, 3} : published[h] = 9}) = Observed(v)
<1>1. published \in Heads /\ v.published = published
  BY DEF TypeInv, HeadFits
<1>2. QED
  BY <1>1, ObservedCounted DEF Observed, Done9

LEMMA LawStutters ==
  ASSUME UNCHANGED <<head, published, guard, case>>,
         \A s \in Pair : proc'[s].generation = proc[s].generation
  PROVE  UNCHANGED Law!lawVars
<1>1. [s \in Pair |-> proc'[s].generation] = [s \in Pair |-> proc[s].generation]
  OBVIOUS
<1>2. QED
  BY <1>1 DEF Law!lawVars

\* The steps that are none of the law's.
LEMMA OtherSteps ==
  ASSUME TypeInv,
         \/ Spawn \/ Identify \/ Resume \/ Send \/ Await \/ Discard \/ CompareWorlds \/ Watch
         \/ CaptureEvidence \/ Kill \/ Terminate \/ Poll \/ StageBundle \/ RecordDisposition
         \/ Raise \/ Return \/ Clean \/ Timeout \/ IoError \/ TerminateRaises
         \/ (\E s \in Slots : ProcessDies(s)) \/ UNCHANGED vars
  PROVE  UNCHANGED Law!lawVars
<1>1. UNCHANGED <<head, published, guard, case>>
  BY DEF Spawn, Identify, Resume, Send, Await, Discard, CompareWorlds, Watch, CaptureEvidence, Kill,
         Terminate, Poll, StageBundle, RecordDisposition, Raise, Return, Clean, Timeout, IoError,
         TerminateRaises, ProcessDies, Done, Abandon, headVars, vars, runVars
<1>2. \/ UNCHANGED proc
      \/ \E s, life : proc' = [proc EXCEPT ![s].life = life]
  <2>1. CASE \/ Identify \/ Send \/ Await \/ Discard \/ CompareWorlds \/ Watch \/ CaptureEvidence
             \/ Poll \/ StageBundle \/ RecordDisposition \/ Raise \/ Return \/ Timeout \/ IoError
             \/ UNCHANGED vars
    BY <2>1 DEF Identify, Send, Await, Discard, CompareWorlds, Watch, CaptureEvidence, Poll, StageBundle,
                RecordDisposition, Raise, Return, Timeout, IoError, Abandon, occupancyVars, vars
  <2>2. CASE Spawn \/ Terminate \/ Kill \/ Clean \/ TerminateRaises \/ \E s \in Slots : ProcessDies(s)
    BY <2>2 DEF Spawn, Terminate, Kill, Clean, TerminateRaises, ProcessDies, Dies, Crash, occupancyVars
  <2>3. CASE Resume
    <3>1. proc' = [proc EXCEPT ![Now.slot].life = IF proc[Now.slot].life = "suspended" THEN "running"
                                                  ELSE proc[Now.slot].life]
      BY <2>3 DEF Resume
    <3>2. QED
      BY <3>1
  <2>4. QED
    BY <2>1, <2>2, <2>3
<1>3. ASSUME NEW r \in Pair PROVE proc'[r].generation = proc[r].generation
  <2>1. r \in Slots /\ proc \in [Slots -> Processes]
    BY PairFacts DEF TypeInv
  <2>2. CASE UNCHANGED proc
    BY <2>2
  <2>3. ASSUME NEW s, NEW life, proc' = [proc EXCEPT ![s].life = life]
        PROVE  proc'[r].generation = proc[r].generation
    <3>1. CASE s = r
      <4>1. proc'[r] = [proc[r] EXCEPT !.life = life]
        BY <2>1, <2>3, <3>1
      <4>2. \A p \in Processes : [p EXCEPT !.life = life].generation = p.generation
        BY DEF Processes
      <4>3. QED
        BY <2>1, <4>1, <4>2
    <3>2. CASE s # r
      BY <2>1, <2>3, <3>2
    <3>3. QED
      BY <3>1, <3>2
  <2>4. QED
    BY <1>2, <2>2, <2>3
<1>4. QED
  BY <1>1, <1>3, LawStutters

LEMMA ResolveLaw == ASSUME IInv, ResolveDue PROVE Law!Resolve
<1>1. Executes("resolve") /\ Done /\ head' = Now.n /\ UNCHANGED <<guard, published, proc>>
  BY DEF ResolveDue, occupancyVars
<1>2. /\ Now.op = "resolve" /\ UNCHANGED case
      /\ \E v \in Views : Fits(v) /\ Allowed(v, Now)
  BY <1>1, Acting
<1>3. PICK v \in Views : Fits(v) /\ Allowed(v, Now)
  BY <1>2
<1>4. Now.n = head + 1 /\ Now.n <= 3 /\ head \in 1..3
  BY <1>2, <1>3 DEF Allowed, Fits, HeadFits, IInv, TypeInv
<1>5. head < 3 /\ head' = head + 1
  BY <1>1, <1>4
<1>6. QED
  BY <1>1, <1>2, <1>5 DEF Law!Resolve

\* The last stage of a publication is an observation, and any other none of the law's.
LEMMA PublishLaw == ASSUME IInv, PublishHead PROVE Law!Observe \/ UNCHANGED Law!lawVars
<1> DEFINE seenBy == 1 + Cardinality({h \in {2, 3} : published[h] = 9})
           seenThen == 1 + Cardinality({h \in {2, 3} : published'[h] = 9})
<1>1. /\ Executes("publish") /\ Done /\ published' = [published EXCEPT ![Now.n] = @ + 1]
      /\ UNCHANGED <<guard, head, proc>>
  BY DEF PublishHead, occupancyVars
<1>2. /\ Now.op = "publish" /\ UNCHANGED case
      /\ \E v \in Views : Fits(v) /\ Allowed(v, Now)
  BY <1>1, Acting
<1>3. PICK v \in Views : Fits(v) /\ Allowed(v, Now)
  BY <1>2
<1>4. /\ Now.n \in {2, 3} /\ Now.n <= head /\ published[Now.n] < 9 /\ head \in 1..3
      /\ published[3] # 0 => head = 3
      /\ published \in Heads
  BY <1>2, <1>3 DEF Allowed, Fits, HeadFits, IInv, TypeInv
<1>5. /\ published' \in Heads
      /\ \A h \in {2, 3} : published'[h] = IF h = Now.n THEN published[h] + 1 ELSE published[h]
  BY <1>1, <1>4 DEF Heads
<1>6. /\ seenBy = 1 + (IF published[2] = 9 THEN 1 ELSE 0) + (IF published[3] = 9 THEN 1 ELSE 0)
      /\ seenThen = 1 + (IF published'[2] = 9 THEN 1 ELSE 0) + (IF published'[3] = 9 THEN 1 ELSE 0)
  BY <1>4, <1>5, ObservedCounted
<1> HIDE DEF seenBy, seenThen
<1>7. /\ seenBy < head
      /\ seenThen = (IF published[Now.n] = 8 THEN seenBy + 1 ELSE seenBy)
  <2>1. \A h \in {2, 3} : published[h] \in 0..9
    BY <1>4 DEF Heads
  <2>2. published[3] = 9 => head = 3
    BY <1>4, 9 # 0
  <2>3. CASE Now.n = 2
    BY <1>4, <1>5, <1>6, <2>1, <2>2, <2>3
  <2>4. CASE Now.n = 3
    BY <1>4, <1>5, <1>6, <2>1, <2>2, <2>4
  <2>5. QED
    BY <1>4, <2>3, <2>4
<1>8. CASE published[Now.n] = 8
  <2>1. seenBy < head /\ seenThen = seenBy + 1
    BY <1>7, <1>8
  <2>2. QED
    BY <1>1, <1>2, <2>1 DEF Law!Observe, seenBy, seenThen
<1>9. CASE published[Now.n] # 8
  <2>1. seenThen = seenBy
    BY <1>7, <1>9
  <2>2. QED
    BY <1>1, <1>2, <2>1 DEF Law!lawVars, seenBy, seenThen
<1>10. QED
  BY <1>8, <1>9

\* The guard turns where the law has it: what the harness knows of the domains is so.
LEMMA GuardLaw == ASSUME IInv, GuardTransition PROVE Law!Transition
<1>1. /\ Executes("guard") /\ Done /\ LegalTransition(Now.tag) /\ guard' = Now.tag
      /\ UNCHANGED <<head, published, proc>>
  BY DEF GuardTransition, occupancyVars
<1>2. /\ Now.op = "guard" /\ UNCHANGED case
      /\ \E v \in Views : Fits(v) /\ Allowed(v, Now)
  BY <1>1, Acting
<1>3. PICK v \in Views : Fits(v) /\ Allowed(v, Now)
  BY <1>2
<1>4. MayTurn(v, Now.tag)
  BY <1>2, <1>3 DEF Allowed
<1>5. ASSUME NEW g \in 1..2, Both(v, g) PROVE \A d \in Pair : [s \in Pair |-> proc[s].generation][d] = g
  <2>1. ASSUME NEW d \in Pair PROVE proc[d].generation = g
    <3>1. proc[d].generation \in 0..3 /\ v.known[d] = g /\ v.sent[d] = g
      BY <1>5, PairFacts DEF Both, IInv, TypeInv, Processes
    <3>2. v.known[d] <= proc[d].generation /\ proc[d].generation <= v.sent[d]
      BY <1>3 DEF Fits, DomainFits
    <3>3. QED
      BY <3>1, <3>2
  <2>2. QED
    BY <2>1
<1>6. (Both(v, 1) => Law!All(1)) /\ (Both(v, 2) => Law!All(2))
  BY <1>5 DEF Law!All
<1>7. 1 + Cardinality({h \in {2, 3} : published[h] = 9}) = Observed(v)
  BY <1>3, ObservedFits DEF Fits, IInv
<1>8. Law!Legal(guard, Now.tag)
  <2>1. /\ Now.tag = "closed_for_R0_to_Rtransit" => guard = "open_for_R0"
        /\ Now.tag = "open_for_Rtransit" => guard = "closed_for_R0_to_Rtransit"
        /\ Now.tag = "closed_for_Rtransit_to_Rfinal" => guard = "open_for_Rtransit"
        /\ Now.tag = "closed_for_c1_Rtransit_to_Rfinal" => guard = "open_for_Rtransit"
        /\ Now.tag = "open_for_Rfinal" => guard = "closed_for_Rtransit_to_Rfinal"
        /\ Now.tag = "failed_closed" => guard # "failed_closed"
    BY <1>1 DEF LegalTransition
  <2>2. QED
    BY <1>4, <1>6, <1>7, <2>1 DEF Law!Legal, MayTurn
<1>9. Now.tag \in DOMAIN Law!Opened \cup {"closed_for_R0_to_Rtransit", "closed_for_Rtransit_to_Rfinal",
                                          "closed_for_c1_Rtransit_to_Rfinal", "failed_closed"}
  BY <1>4 DEF MayTurn, Law!Opened
<1>10. QED
  BY <1>1, <1>2, <1>8, <1>9 DEF Law!Transition

\* A domain represents a generation only as it handles a line, and then the next one.
LEMMA ProcessLaw ==
  ASSUME IInv, NEW s \in Slots, Process(s) \/ ProcessFails(s)
  PROVE  (s \in Pair /\ Law!Represent(s)) \/ UNCHANGED Law!lawVars
<1> DEFINE p == proc[s]
           c == Head(control[s])
           represents == [r \in Pair |-> proc[r].generation]
<1>1. (HandleLine(s) \/ EngineRefuses(s)) /\ UNCHANGED <<case, guard, head, published>>
  BY DEF Process, ProcessFails, runVars, headVars
<1>2. /\ p \in Processes /\ control[s] \in Seq(Lines) /\ Sound(s, p) /\ TypeInv
  BY DEF IInv, TypeInv, ProcessInv
<1>3. control[s] # <<>> /\ c \in Lines /\ HandledWell(s, c)
  BY <1>1, <1>2, LineHandled
<1>4. PICK q \in Running(s) : \E objects : Handled(s, q, objects) /\ Follows(s, p, c, q)
  BY <1>3 DEF HandledWell
<1>5. \A r \in Slots : proc'[r] = IF r = s THEN q ELSE proc[r]
  BY <1>2, <1>4 DEF Handled, TypeInv
<1>6. CASE q.generation = p.generation \/ s \notin Pair
  <2>1. \A r \in Pair : proc'[r].generation = proc[r].generation
    BY <1>5, <1>6, PairFacts
  <2>2. QED
    BY <1>1, <2>1, LawStutters
<1>7. CASE q.generation # p.generation /\ s \in Pair
  <2>1. Advancing(p, c) /\ q.generation = c.n
    BY <1>4, <1>7 DEF Follows
  <2>2. PICK v \in Views : Fits(v)
    BY DEF IInv, ViewInv
  <2>3. 1 \in DOMAIN control[s] /\ c = control[s][1]
    BY <1>2, <1>3
  <2>4. LineFits(v, s, c) /\ DomainFits(v, s) /\ HeadFits(v)
    BY <1>7, <2>2, <2>3 DEF Fits, LinesFit
  <2>5. /\ c.n = p.generation + 1 /\ c.n \in 1..3 /\ c.n <= Observed(v)
        /\ v.guarded => v.guard = OpenFor[c.n]
    BY <1>2, <1>3, <1>7, <2>1, <2>2, <2>4, Advances
  <2>6. 1 + Cardinality({h \in {2, 3} : published[h] = 9}) = Observed(v)
    BY <1>2, <2>2, <2>4, ObservedFits
  <2>7. Law!Allows(c.n)
    <3>1. SUFFICES ASSUME case.kind # "asymmetric"
                   PROVE  guard \in DOMAIN Law!Opened /\ Law!Opened[guard] = c.n
      BY DEF Law!Allows
    <3>2. guard = OpenFor[c.n]
      BY <2>4, <2>5, <3>1 DEF HeadFits
    <3>3. \/ c.n = 1 /\ guard = "open_for_R0"
          \/ c.n = 2 /\ guard = "open_for_Rtransit"
          \/ c.n = 3 /\ guard = "open_for_Rfinal"
      <4>1. c.n \in {1, 2, 3}
        BY <2>5
      <4>2. QED
        BY <3>2, <4>1 DEF OpenFor
    <3>4. QED
      BY <3>3 DEF Law!Opened
  <2>8. represents[s] = p.generation
    BY <1>7
  <2>9. [r \in Pair |-> proc'[r].generation] = [represents EXCEPT ![s] = c.n]
    <3>1. \A r \in Pair : proc'[r].generation = IF r = s THEN c.n ELSE proc[r].generation
      BY <1>5, <2>1, PairFacts
    <3> HIDE DEF c
    <3>2. QED
      BY <3>1
  <2> HIDE DEF c, represents
  <2>10. Law!Represent(s)
    <3>1. represents[s] + 1 = c.n
      BY <2>5, <2>8
    <3>2. represents[s] + 1 <= 1 + Cardinality({h \in {2, 3} : published[h] = 9})
      BY <2>5, <2>6, <3>1
    <3>3. Law!Allows(represents[s] + 1)
      BY <2>7, <3>1
    <3>4. [r \in Pair |-> proc'[r].generation] = [represents EXCEPT ![s] = represents[s] + 1]
      BY <2>9, <3>1
    <3>5. UNCHANGED <<head, published, guard, case>>
      BY <1>1
    <3>6. QED
      BY <3>2, <3>3, <3>4, <3>5 DEF Law!Represent, represents
  <2>11. QED
    BY <1>7, <2>10
<1>8. QED
  BY <1>6, <1>7

LEMMA LawInitially == Init => Law!LawInit
<1> SUFFICES ASSUME Init PROVE Law!LawInit
  OBVIOUS
<1>1. head = 1 /\ guard = "open_for_R0" /\ published = [h \in {2, 3} |-> 0]
  BY DEF Init
<1>2. published \in Heads /\ published[2] # 9 /\ published[3] # 9
  BY <1>1 DEF Heads
<1>3. 1 + Cardinality({h \in {2, 3} : published[h] = 9}) = 1
  BY <1>2, ObservedCounted
<1>4. \A s \in Slots : proc[s].generation = 0
  BY DEF Init, RouterInit, NewProcess
<1>5. [s \in Pair |-> proc[s].generation] = [s \in Pair |-> 0]
  BY <1>4, PairFacts
<1>6. (case.kind # "asymmetric") \in BOOLEAN
  OBVIOUS
<1>7. QED
  BY <1>1, <1>3, <1>5, <1>6 DEF Law!LawInit

LEMMA LawSteps == IInv /\ [Next]_vars => [Law!LawNext]_Law!lawVars
<1> SUFFICES ASSUME IInv, [Next]_vars PROVE Law!LawNext \/ UNCHANGED Law!lawVars
  OBVIOUS
<1>1. TypeInv
  BY DEF IInv
<1>2. CASE ResolveDue
  BY <1>2, ResolveLaw DEF Law!LawNext
<1>3. CASE PublishHead
  BY <1>3, PublishLaw DEF Law!LawNext
<1>4. CASE GuardTransition
  BY <1>4, GuardLaw DEF Law!LawNext
<1>5. ASSUME NEW s \in Slots, Process(s) \/ ProcessFails(s) PROVE Law!LawNext \/ UNCHANGED Law!lawVars
  BY <1>5, ProcessLaw DEF Law!LawNext
<1>6. CASE \/ Spawn \/ Identify \/ Resume \/ Send \/ Await \/ Discard \/ CompareWorlds \/ Watch
           \/ CaptureEvidence \/ Kill \/ Terminate \/ Poll \/ StageBundle \/ RecordDisposition
           \/ Raise \/ Return \/ Clean \/ Timeout \/ IoError \/ TerminateRaises
           \/ (\E s \in Slots : ProcessDies(s)) \/ UNCHANGED vars
  BY <1>1, <1>6, OtherSteps
<1>7. QED
  BY <1>2, <1>3, <1>4, <1>5, <1>6 DEF Next, Harness

\* Every step of the harness and the processes is a step the law allows of the head, its
\* observations, the guard and the generations, or leaves all of them as they are: no
\* domain shows a head that was not observed or not open to it
\* (PhysicalCurrentHeadGuard, _head_observation, FCrossDomainOccupancyCommandRouter).
THEOREM ObeysTheLaw == Spec => ImplementsOccupancyLaw
<1>1. QED
  BY LawInitially, LawSteps, InductiveInvariant, PTL DEF Spec, ImplementsOccupancyLaw, Law!LawSpec

=============================================================================
