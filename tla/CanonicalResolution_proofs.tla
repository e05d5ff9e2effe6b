---------------------- MODULE CanonicalResolution_proofs ----------------------
(***************************************************************************)
(* The runtimes over a canonical record, for any number of them and any    *)
(* inputs: they share one history, and its ledger explains every record.   *)
(* An untampered runtime stands on one of the frozen stages of its         *)
(* payload; a settlement keeps a record explained; and the stages of a     *)
(* payload lie on one line, but for the input that one has accepted.       *)
(***************************************************************************)
EXTENDS CanonicalResolution, FiniteSetTheorems, TLAPS

IsRecord(r) ==
  r = [payload |-> r.payload, clock |-> r.clock, schedule |-> r.schedule, slot |-> r.slot,
       token |-> r.token, unit |-> r.unit, outcome |-> r.outcome, accepted |-> r.accepted,
       ledger |-> r.ledger]

IsRuntime(r) ==
  r = [record |-> r.record, cursor |-> r.cursor, profile |-> r.profile, display |-> r.display,
       marked |-> r.marked, tampered |-> r.tampered]

\* Whatever is tried with a record, it stays one of the payload of the run; and who is not
\* tampered with stands on a stage.
Standing(r) ==
  /\ IsRuntime(r) /\ IsRecord(r.record) /\ r.record.payload = payload
  /\ r.tampered \in BOOLEAN
  /\ ~r.tampered => r.record \in Stages[payload]

IInv ==
  /\ payload \in Payloads
  /\ runtime = [h \in Live |-> runtime[h]]
  /\ \A h \in Live : Standing(runtime[h])

-----------------------------------------------------------------------------
(* What a settlement does to a record *)

Items == [time : Nat, phase : Nat, work : Works]
Outcomes == {"absent", "pending", "succeeded", "failed_gate"}

Created(r, w) == IF r.payload = "same_clock" /\ w = "x" THEN {Item(2, 20, "y")} ELSE {}

\* What is still scheduled when w is settled, and what then is.
Rest(r, w) == {i \in r.schedule : i.work # w} \cup Created(r, w)

\* Where a settlement creates work, it is not due earlier, and is new.
Room(r, t, w) == r.payload = "same_clock" /\ w = "x" => t <= 2 /\ r.outcome["y"] = "absent"

LEMMA SettledFields ==
  ASSUME NEW r, IsRecord(r), r.outcome \in [Works -> Outcomes], NEW t, NEW f, NEW w \in Works
  PROVE  LET s == Settled(r, t, f, w) IN
         /\ IsRecord(s)
         /\ s.payload = r.payload /\ s.clock = t /\ s.token = r.token /\ s.accepted = r.accepted
         /\ s.schedule = {i \in r.schedule : i.work # w} \cup Created(r, w)
         /\ s.slot = IF r.payload = "chronological" /\ w \in {"x", "y"} /\ Passes(r, w)
                     THEN "allocated_to_x" ELSE r.slot
         /\ s.outcome \in [Works -> Outcomes]
         /\ \A v \in Works :
              s.outcome[v] = IF \E i \in Created(r, w) : i.work = v THEN "pending"
                             ELSE IF v # w THEN r.outcome[v]
                             ELSE IF Passes(r, w) THEN "succeeded" ELSE "failed_gate"
         /\ s.ledger = Append(r.ledger, Entry(r, w, t, f, Passes(r, w)))
<1> DEFINE s == Settled(r, t, f, w)
           p == Passes(r, w)
           c == Created(r, w)
           o == [v \in Works |-> IF \E i \in c : i.work = v THEN "pending"
                                 ELSE [r.outcome EXCEPT ![w] = IF p THEN "succeeded" ELSE "failed_gate"][v]]
           unit == CASE r.payload = "same_clock" -> "consumed"
                   [] r.payload = "external_input" -> "available"
                   [] w \in {"alpha", "z"} /\ p -> "available"
                   [] OTHER -> r.unit
           slot == IF r.payload = "chronological" /\ w \in {"x", "y"} /\ p THEN "allocated_to_x" ELSE r.slot
<1>1. s = [r EXCEPT !.clock = t, !.schedule = {i \in @ : i.work # w} \cup c, !.slot = slot, !.unit = unit,
                    !.outcome = o, !.ledger = Append(@, Entry(r, w, t, f, p))]
  BY Zenon DEF Settled, Created
<1>2. /\ o \in [Works -> Outcomes]
      /\ \A v \in Works : o[v] = IF \E i \in c : i.work = v THEN "pending"
                                 ELSE IF v # w THEN r.outcome[v]
                                 ELSE IF p THEN "succeeded" ELSE "failed_gate"
  <2> HIDE DEF c, p
  <2>1. QED
    BY DEF Outcomes
<1> HIDE DEF o, unit, slot, p, c
<1>3. s = [payload |-> r.payload, clock |-> t, schedule |-> {i \in r.schedule : i.work # w} \cup c, slot |-> slot,
           token |-> r.token, unit |-> unit, outcome |-> o, accepted |-> r.accepted,
           ledger |-> Append(r.ledger, Entry(r, w, t, f, p))]
  BY <1>1 DEF IsRecord
<1> HIDE DEF s
<1>4. /\ IsRecord(s)
      /\ s.payload = r.payload /\ s.clock = t /\ s.token = r.token /\ s.accepted = r.accepted
      /\ s.schedule = {i \in r.schedule : i.work # w} \cup c
      /\ s.slot = slot /\ s.outcome = o /\ s.ledger = Append(r.ledger, Entry(r, w, t, f, p))
  BY <1>3 DEF IsRecord
<1>5. QED
  BY <1>2, <1>4 DEF s, c, p, slot

\* The work of i comes before all else that is scheduled.
ComesFirst(r, i) ==
  /\ i \in r.schedule /\ i.time >= r.clock
  /\ \A j \in r.schedule \ {i} : Before(i, j)

LEMMA FirstIsNext ==
  ASSUME NEW r, r.schedule \subseteq Items, r.clock \in Nat, NEW i, ComesFirst(r, i)
  PROVE  NextBoundary(r) = Boundary(r, i.time, i.phase, {i.work}, FALSE)
<1> DEFINE candidates == {k \in r.schedule : k.time >= r.clock}
           first == CHOOSE k \in candidates : \A j \in candidates : ~Before(j, k)
           due == {k.work : k \in {j \in candidates : ~Before(first, j)}}
<1>1. NextBoundary(r) = IF candidates = {} THEN NoBoundary
                        ELSE Boundary(r, first.time, first.phase, due, FALSE)
  BY Zenon DEF NextBoundary
<1>2. i \in candidates /\ i \in Items
  BY DEF ComesFirst
<1>3. \A j \in candidates : (j # i => Before(i, j)) /\ j \in Items
  BY DEF ComesFirst
<1>4. ~Before(i, i)
  BY <1>2 DEF Before, Items
<1>5. \A j \in candidates : ~Before(j, i)
  BY <1>2, <1>3, <1>4 DEF Before, Items
<1> HIDE DEF candidates
<1>6. first = i
  BY <1>2, <1>3, <1>5
<1> HIDE DEF first
<1>7. due = {i.work}
  BY <1>2, <1>3, <1>4, <1>6
<1>8. QED
  BY <1>1, <1>2, <1>6, <1>7

LEMMA NothingIsNext == ASSUME NEW r, r.schedule = {} PROVE NextBoundary(r) = NoBoundary
<1>1. {k \in r.schedule : k.time >= r.clock} = {}
  OBVIOUS
<1>2. QED
  BY <1>1 DEF NextBoundary

-----------------------------------------------------------------------------
(* A settlement keeps a record explained *)

Done(r) == {r.ledger[i].work : i \in DOMAIN r.ledger}

WellFormed(r) ==
  /\ IsRecord(r) /\ r.payload \in Payloads /\ r.clock \in Nat
  /\ r.schedule \subseteq Items
  /\ \A i \in r.schedule : i.time >= r.clock
  /\ r.outcome \in [Works -> Outcomes]
  /\ r.ledger \in Seq({r.ledger[i] : i \in DOMAIN r.ledger})
  /\ IsFiniteSet(Done(r))

\* How the gate of a work is to be judged.
Gate(r, w) == IF r.payload = "chronological" /\ w # "z" THEN r.slot = "available" ELSE r.accepted = {}

\* An entry at place n of the ledger of r, as LedgerExplains asks for it.
EntryExplained(r, n, e) ==
  /\ e.source[2].ledger = SubSeq(r.ledger, 1, n - 1)
  /\ \A j \in e.source[2].schedule : ~Before(j, e)
  /\ e.work \in Works => e.passes = (IF r.payload = "chronological" /\ e.work # "z"
                                     THEN e.source[2].slot = "available" ELSE e.source[2].accepted = {})

EntriesExplained(r) == \A n \in DOMAIN r.ledger : EntryExplained(r, n, r.ledger[n])

OutcomesAgree(r) ==
  /\ \A w \in Works : (r.outcome[w] = "pending") = (\E i \in r.schedule : i.work = w /\ i.time >= r.clock)
  /\ {w \in Works : r.outcome[w] \in {"succeeded", "failed_gate"}} = Done(r) \cap Works

Explained(r) == EntriesExplained(r) /\ Cardinality(Done(r)) = Len(r.ledger) /\ OutcomesAgree(r)

\* An entry joins a ledger behind the others.
LEMMA Appended ==
  ASSUME NEW l, l \in Seq({l[i] : i \in DOMAIN l}), NEW e
  PROVE  LET m == Append(l, e) IN
         /\ m \in Seq({m[i] : i \in DOMAIN m})
         /\ Len(m) = Len(l) + 1 /\ DOMAIN m = DOMAIN l \cup {Len(m)} /\ Len(l) \in Nat
         /\ DOMAIN l = 1..Len(l)
         /\ \A i \in DOMAIN l : m[i] = l[i]
         /\ m[Len(m)] = e
         /\ SubSeq(m, 1, Len(l)) = l
         /\ \A i \in DOMAIN l : SubSeq(m, 1, i - 1) = SubSeq(l, 1, i - 1)
<1> DEFINE S == {l[i] : i \in DOMAIN l} \cup {e}
           m == Append(l, e)
<1>1. l \in Seq(S) /\ e \in S
  <2>1. l \in Seq({l[i] : i \in DOMAIN l}) => DOMAIN l = 1..Len(l) /\ Len(l) \in Nat /\ l = [i \in 1..Len(l) |-> l[i]]
    OBVIOUS
  <2>2. QED
    BY <2>1
<1>2. m \in Seq(S)
  BY <1>1
<1>3. /\ Len(m) = Len(l) + 1 /\ Len(l) \in Nat /\ DOMAIN l = 1..Len(l) /\ DOMAIN m = 1..Len(m)
      /\ \A i \in DOMAIN l : m[i] = l[i]
      /\ m[Len(m)] = e
  BY <1>1
<1>4. DOMAIN m = DOMAIN l \cup {Len(m)}
  BY <1>3
<1>5. m \in Seq({m[i] : i \in DOMAIN m})
  BY <1>2, <1>3
<1>6. SubSeq(m, 1, Len(l)) = l
  <2>1. SubSeq(m, 1, Len(l)) = [i \in 1..Len(l) |-> m[i]]
    BY <1>2, <1>3
  <2>2. l = [i \in 1..Len(l) |-> l[i]]
    BY <1>1
  <2>3. QED
    BY <1>3, <2>1, <2>2
<1>7. ASSUME NEW i \in DOMAIN l PROVE SubSeq(m, 1, i - 1) = SubSeq(l, 1, i - 1)
  <2>1. i - 1 \in Nat /\ i - 1 <= Len(l)
    BY <1>3
  <2>2. PICK k \in Nat : k = i - 1
    BY <2>1
  <2>3. SubSeq(m, 1, k) = [j \in 1..k |-> m[j]] /\ SubSeq(l, 1, k) = [j \in 1..k |-> l[j]]
    BY <1>1, <1>2, <1>3, <2>1, <2>2
  <2>4. \A j \in 1..k : m[j] = l[j]
    BY <1>3, <2>1, <2>2
  <2>5. QED
    BY <2>2, <2>3, <2>4
<1>8. QED
  BY <1>3, <1>4, <1>5, <1>6, <1>7

\* The next due work of an explained record is settled into an explained record.
LEMMA SettledExplained ==
  ASSUME NEW r, WellFormed(r), Explained(r), NEW i, ComesFirst(r, i),
         Passes(r, i.work) = Gate(r, i.work),
         r.payload = "same_clock" /\ i.work = "x" => i.time <= 2 /\ r.outcome["y"] = "absent"
  PROVE  LET s == Settled(r, i.time, i.phase, i.work) IN WellFormed(s) /\ Explained(s)
<1> DEFINE t == i.time
           f == i.phase
           w == i.work
           e == Entry(r, w, t, f, Passes(r, w))
           c == Created(r, w)
           s == Settled(r, t, f, w)
<1>1. i \in Items /\ i \in r.schedule /\ t \in Nat /\ f \in Nat /\ w \in Works /\ t >= r.clock
  BY DEF ComesFirst, WellFormed, Items
<1>2. /\ IsRecord(s)
      /\ s.payload = r.payload /\ s.clock = t /\ s.accepted = r.accepted
      /\ s.schedule = {k \in r.schedule : k.work # w} \cup c
      /\ s.outcome \in [Works -> Outcomes]
      /\ \A v \in Works :
           s.outcome[v] = IF \E k \in c : k.work = v THEN "pending"
                          ELSE IF v # w THEN r.outcome[v]
                          ELSE IF Passes(r, w) THEN "succeeded" ELSE "failed_gate"
      /\ s.ledger = Append(r.ledger, e)
  BY <1>1, SettledFields DEF WellFormed
<1>3. e.source[2] = r /\ e.work = w /\ e.time = t /\ e.phase = f /\ e.passes = Passes(r, w)
  BY DEF Entry, Hash
<1>4. c \subseteq Items /\ \A k \in c : k.time >= t /\ k.work # w /\ k.work = "y" /\ r.outcome["y"] = "absent"
  BY DEF Created, Items, Item, Works
<1> HIDE DEF e, s, c
<1>5. /\ s.ledger \in Seq({s.ledger[n] : n \in DOMAIN s.ledger})
      /\ Len(s.ledger) = Len(r.ledger) + 1 /\ DOMAIN s.ledger = DOMAIN r.ledger \cup {Len(s.ledger)}
      /\ Len(r.ledger) \in Nat /\ DOMAIN r.ledger = 1..Len(r.ledger)
      /\ \A n \in DOMAIN r.ledger : s.ledger[n] = r.ledger[n]
      /\ s.ledger[Len(s.ledger)] = e
      /\ SubSeq(s.ledger, 1, Len(r.ledger)) = r.ledger
      /\ \A n \in DOMAIN r.ledger : SubSeq(s.ledger, 1, n - 1) = SubSeq(r.ledger, 1, n - 1)
  <2> DEFINE l == r.ledger
  <2>1. l \in Seq({l[n] : n \in DOMAIN l}) /\ s.ledger = Append(l, e)
    BY <1>2 DEF WellFormed
  <2> HIDE DEF l
  <2>2. LET m == Append(l, e) IN
        /\ m \in Seq({m[n] : n \in DOMAIN m})
        /\ Len(m) = Len(l) + 1 /\ DOMAIN m = DOMAIN l \cup {Len(m)} /\ Len(l) \in Nat
        /\ DOMAIN l = 1..Len(l)
        /\ \A n \in DOMAIN l : m[n] = l[n]
        /\ m[Len(m)] = e
        /\ SubSeq(m, 1, Len(l)) = l
        /\ \A n \in DOMAIN l : SubSeq(m, 1, n - 1) = SubSeq(l, 1, n - 1)
    BY <2>1, Appended
  <2>3. QED
    BY <2>1, <2>2 DEF l
<1>6. \A k \in r.schedule : ~Before(k, i) /\ k.time >= t /\ k \in Items
  <2>1. ASSUME NEW k \in r.schedule PROVE ~Before(k, i) /\ k.time >= t
    <3>1. k \in Items /\ (k = i \/ Before(i, k))
      BY DEF ComesFirst, WellFormed
    <3>2. QED
      BY <1>1, <3>1 DEF Before, Items
  <2>2. QED
    BY <2>1 DEF WellFormed
<1>7. \A k \in r.schedule : ~Before(k, e)
  BY <1>3, <1>6 DEF Before
<1>8. Done(s) = Done(r) \cup {w}
  <2>1. ASSUME NEW v \in Done(s) PROVE v \in Done(r) \cup {w}
    <3>1. PICK n \in DOMAIN s.ledger : v = s.ledger[n].work
      BY DEF Done
    <3>2. QED
      BY <1>3, <1>5, <3>1 DEF Done
  <2>2. ASSUME NEW v \in Done(r) PROVE v \in Done(s)
    <3>1. PICK n \in DOMAIN r.ledger : v = r.ledger[n].work
      BY DEF Done
    <3>2. n \in DOMAIN s.ledger /\ v = s.ledger[n].work
      BY <1>5, <3>1
    <3>3. QED
      BY <3>2 DEF Done
  <2>3. w \in Done(s)
    <3>1. Len(s.ledger) \in DOMAIN s.ledger /\ w = s.ledger[Len(s.ledger)].work
      BY <1>3, <1>5
    <3>2. QED
      BY <3>1 DEF Done
  <2>4. QED
    BY <2>1, <2>2, <2>3
<1>9. r.outcome[w] = "pending" /\ w \notin Done(r)
  <2>1. (r.outcome[w] = "pending") = (\E k \in r.schedule : k.work = w /\ k.time >= r.clock)
    BY <1>1 DEF Explained, OutcomesAgree
  <2>2. r.outcome[w] = "pending"
    BY <1>1, <2>1
  <2>3. QED
    BY <1>1, <2>2 DEF Explained, OutcomesAgree
<1>10. WellFormed(s)
  <2>1. s.schedule \subseteq Items /\ \A k \in s.schedule : k.time >= s.clock
    BY <1>2, <1>4, <1>6
  <2>2. IsFiniteSet(Done(s))
    BY <1>8, FS_AddElement DEF WellFormed
  <2>3. QED
    BY <1>1, <1>2, <1>5, <2>1, <2>2 DEF WellFormed
<1>11. EntriesExplained(s)
  <2>1. ASSUME NEW n \in DOMAIN r.ledger PROVE EntryExplained(s, n, s.ledger[n])
    <3>1. EntryExplained(r, n, r.ledger[n])
      BY DEF Explained, EntriesExplained
    <3>2. QED
      BY <1>2, <1>5, <3>1 DEF EntryExplained
  <2>2. EntryExplained(s, Len(s.ledger), e)
    <3>1. SubSeq(s.ledger, 1, Len(s.ledger) - 1) = r.ledger
      <4>1. Len(s.ledger) - 1 = Len(r.ledger)
        BY <1>5
      <4>2. QED
        BY <1>5, <4>1
    <3>2. e.passes = (IF s.payload = "chronological" /\ e.work # "z"
                      THEN e.source[2].slot = "available" ELSE e.source[2].accepted = {})
      BY <1>2, <1>3 DEF Gate
    <3>3. QED
      BY <1>3, <1>7, <3>1, <3>2 DEF EntryExplained
  <2>3. QED
    BY <1>5, <2>1, <2>2 DEF EntriesExplained
<1>12. Cardinality(Done(s)) = Len(s.ledger)
  BY <1>5, <1>8, <1>9, FS_AddElement DEF WellFormed, Explained
<1>13. OutcomesAgree(s)
  <2>1. ASSUME NEW v \in Works
        PROVE  (s.outcome[v] = "pending") <=> (\E k \in s.schedule : k.work = v /\ k.time >= s.clock)
    <3>1. (r.outcome[v] = "pending") = (\E k \in r.schedule : k.work = v /\ k.time >= r.clock)
      BY DEF Explained, OutcomesAgree
    <3>2. CASE \E k \in c : k.work = v
      BY <1>2, <1>4, <3>2
    <3>3. CASE v = w
      BY <1>2, <1>4, <3>3
    <3>4. CASE ~(\E k \in c : k.work = v) /\ v # w
      <4>1. s.outcome[v] = r.outcome[v]
        BY <1>2, <3>4
      <4>2. (\E k \in s.schedule : k.work = v /\ k.time >= s.clock) <=> (\E k \in r.schedule : k.work = v /\ k.time >= r.clock)
        BY <1>2, <1>6, <3>4 DEF WellFormed
      <4>3. QED
        BY <3>1, <4>1, <4>2
    <3>5. QED
      BY <3>2, <3>3, <3>4
  <2>2. ASSUME NEW v \in Works PROVE s.outcome[v] \in {"succeeded", "failed_gate"} <=> v \in Done(s)
    <3>1. r.outcome[v] \in {"succeeded", "failed_gate"} <=> v \in Done(r)
      BY DEF Explained, OutcomesAgree
    <3>2. CASE v = w
      BY <1>2, <1>4, <1>8, <3>2
    <3>3. CASE v # w /\ \E k \in c : k.work = v
      BY <1>2, <1>4, <1>8, <3>1, <3>3
    <3>4. CASE v # w /\ ~\E k \in c : k.work = v
      BY <1>2, <1>8, <3>1, <3>4
    <3>5. QED
      BY <3>2, <3>3, <3>4
  <2>3. \A v \in Works : (s.outcome[v] = "pending") = (\E k \in s.schedule : k.work = v /\ k.time >= s.clock)
    BY <2>1
  <2>4. {v \in Works : s.outcome[v] \in {"succeeded", "failed_gate"}} = Done(s) \cap Works
    BY <2>2
  <2>5. QED
    BY <2>3, <2>4 DEF OutcomesAgree
<1>14. QED
  BY <1>10, <1>11, <1>12, <1>13 DEF Explained, s

-----------------------------------------------------------------------------
(* The stages of the four payloads *)

LodDone == Settled(Genesis("lod"), 2, 0, "alpha")
SameX == Settled(Genesis("same_clock"), 2, 10, "x")
SameY == Settled(SameX, 2, 20, "y")
ChronX == Settled(Genesis("chronological"), 2, 0, "x")
ChronY == Settled(ChronX, 3, 0, "y")
ChronZ == Settled(ChronY, 4, 0, "z")
InputQ == InputSettled(Genesis("external_input"))
InputQDone == Settled(InputQ, 2, 0, "alpha")
InputDone == Settled(Genesis("external_input"), 2, 0, "alpha")

LEMMA StagesOf ==
  /\ Stages["lod"] = {Genesis("lod"), LodDone}
  /\ Stages["same_clock"] = {Genesis("same_clock"), SameX, SameY}
  /\ Stages["chronological"] = {Genesis("chronological"), ChronX, ChronY, ChronZ}
  /\ Stages["external_input"] = {Genesis("external_input"), InputQ, InputQDone, InputDone}
  BY DEF Stages, Payloads, LodDone, SameX, SameY, ChronX, ChronY, ChronZ, InputQ, InputQDone, InputDone

\* The ledger of s goes one entry further than the one of r.
Follows(r, s) ==
  /\ Len(r.ledger) \in Nat /\ Len(s.ledger) = Len(r.ledger) + 1
  /\ r.ledger = SubSeq(s.ledger, 1, Len(r.ledger))

LEMMA GenesisFacts ==
  ASSUME NEW p \in Payloads
  PROVE  LET r == Genesis(p) IN
         /\ WellFormed(r) /\ Explained(r)
         /\ r.payload = p /\ r.schedule = FirstSchedule(p) /\ r.accepted = {} /\ r.ledger = <<>>
         /\ r.clock = 0 /\ r.token = "enabled" /\ r.unit = (IF p = "same_clock" THEN "available" ELSE "reserved")
         /\ \A w \in Works : r.outcome[w] = IF \E i \in FirstSchedule(p) : i.work = w THEN "pending" ELSE "absent"
<1> DEFINE r == Genesis(p)
           o == [w \in Works |-> IF \E i \in FirstSchedule(p) : i.work = w THEN "pending" ELSE "absent"]
<1>1. /\ IsRecord(r) /\ r.payload = p /\ r.clock = 0 /\ r.schedule = FirstSchedule(p)
      /\ r.slot = "available" /\ r.token = "enabled"
      /\ r.unit = (IF p = "same_clock" THEN "available" ELSE "reserved")
      /\ r.outcome = o /\ r.accepted = {} /\ r.ledger = <<>>
  BY DEF Genesis, IsRecord
<1>2. /\ o \in [Works -> Outcomes]
      /\ \A w \in Works : o[w] = IF \E i \in FirstSchedule(p) : i.work = w THEN "pending" ELSE "absent"
  BY DEF Outcomes
<1>3. FirstSchedule(p) \subseteq Items /\ \A i \in FirstSchedule(p) : i.time >= 0
  BY DEF FirstSchedule, Payloads, Items, Item, Works
<1> HIDE DEF r, o
<1>4. Done(r) = {} /\ DOMAIN r.ledger = {} /\ Len(r.ledger) = 0
  BY <1>1 DEF Done
<1>5. r.ledger \in Seq({r.ledger[i] : i \in DOMAIN r.ledger})
  BY <1>1
<1>6. IsFiniteSet({}) /\ Cardinality({}) = 0
  BY FS_EmptySet
<1>7. WellFormed(r)
  BY <1>1, <1>2, <1>3, <1>4, <1>5, <1>6 DEF WellFormed
<1>8. Explained(r)
  <2>1. EntriesExplained(r) /\ Cardinality(Done(r)) = Len(r.ledger)
    BY <1>4, <1>6 DEF EntriesExplained
  <2>2. ASSUME NEW w \in Works PROVE (r.outcome[w] = "pending") <=> (\E i \in r.schedule : i.work = w /\ i.time >= r.clock)
    BY <1>1, <1>2, <1>3
  <2>3. {w \in Works : r.outcome[w] \in {"succeeded", "failed_gate"}} = Done(r) \cap Works
    BY <1>1, <1>2, <1>4
  <2>4. \A w \in Works : (r.outcome[w] = "pending") = (\E i \in r.schedule : i.work = w /\ i.time >= r.clock)
    BY <2>2
  <2>5. QED
    BY <2>1, <2>3, <2>4 DEF Explained, OutcomesAgree
<1>9. QED
  BY <1>1, <1>2, <1>7, <1>8 DEF r

\* The gate that a transition evaluates is the one that LedgerExplains names.
LEMMA PassesIsGate ==
  ASSUME NEW r, NEW w \in Works,
         r.payload = "chronological" => w # "alpha",
         r.payload = "external_input" => (r.token = "enabled" <=> r.accepted = {}),
         r.payload # "external_input" => r.accepted = {},
         r.payload = "same_clock" /\ w = "x" => r.unit = "available"
  PROVE  Passes(r, w) = Gate(r, w)
<1>1. CASE r.payload = "chronological" /\ w \in {"x", "y"}
  BY <1>1 DEF Passes, Gate
<1>2. CASE r.payload = "external_input"
  BY <1>2 DEF Passes, Gate
<1>3. CASE r.payload = "same_clock" /\ w = "x"
  BY <1>3 DEF Passes, Gate
<1>4. CASE /\ ~(r.payload = "chronological" /\ w \in {"x", "y"}) /\ r.payload # "external_input"
           /\ ~(r.payload = "same_clock" /\ w = "x")
  <2>1. r.payload = "chronological" => w = "z"
    BY <1>4 DEF Works
  <2>2. Passes(r, w) /\ Gate(r, w)
    BY <1>4, <2>1 DEF Passes, Gate
  <2>3. Passes(r, w) = TRUE /\ Gate(r, w) = TRUE
    BY <1>4, <2>1 DEF Passes, Gate
  <2>4. QED
    BY <2>3
<1>5. QED
  BY <1>1, <1>2, <1>3, <1>4

NextIs(r, t, f, w) == NextBoundary(r) = Boundary(r, t, f, {w}, FALSE)

\* A record that is settled, its next boundary, and what it is settled to.
LEMMA StageStep ==
  ASSUME NEW r, WellFormed(r), Explained(r),
         NEW t, NEW f, NEW w, ComesFirst(r, Item(t, f, w)), Passes(r, w) = Gate(r, w),
         Room(r, t, w),
         NEW s, s = Settled(r, t, f, w)
  PROVE  /\ WellFormed(s) /\ Explained(s) /\ Follows(r, s)
         /\ s.payload = r.payload /\ s.accepted = r.accepted /\ s.token = r.token /\ s.clock = t
         /\ s.schedule = Rest(r, w)
         /\ NextIs(r, t, f, w)
<1> DEFINE i == Item(t, f, w)
<1>1. i.time = t /\ i.phase = f /\ i.work = w
  BY DEF Item
<1>2. i \in Items /\ w \in Works
  BY DEF ComesFirst, WellFormed, Items, Item
<1> HIDE DEF i
<1>3. ComesFirst(r, i)
  BY DEF i
<1>4. WellFormed(s) /\ Explained(s)
  BY <1>1, <1>3, SettledExplained DEF Room
<1>5. NextIs(r, t, f, w)
  BY <1>1, <1>3, FirstIsNext DEF WellFormed, NextIs
<1>6. /\ s.payload = r.payload /\ s.accepted = r.accepted /\ s.token = r.token /\ s.clock = t
      /\ s.schedule = Rest(r, w)
      /\ s.ledger = Append(r.ledger, Entry(r, w, t, f, Passes(r, w)))
  BY <1>2, SettledFields DEF WellFormed, Rest
<1>7. Follows(r, s)
  BY <1>6, Appended DEF Follows, WellFormed
<1>8. QED
  BY <1>4, <1>5, <1>6, <1>7

LEMMA LodStages ==
  LET r == Genesis("lod") IN
  /\ NextIs(r, 2, 0, "alpha")
  /\ WellFormed(LodDone) /\ Explained(LodDone) /\ Follows(r, LodDone)
  /\ LodDone.payload = "lod" /\ LodDone.accepted = {} /\ NextBoundary(LodDone) = NoBoundary
<1> DEFINE r == Genesis("lod")
<1>1. /\ WellFormed(r) /\ Explained(r) /\ r.payload = "lod" /\ r.accepted = {} /\ r.clock = 0
      /\ r.schedule = {Item(2, 0, "alpha")}
  BY GenesisFacts DEF FirstSchedule, Payloads
<1>2. ComesFirst(r, Item(2, 0, "alpha"))
  BY <1>1 DEF ComesFirst, Item
<1>3. Passes(r, "alpha") = Gate(r, "alpha") /\ Room(r, 2, "alpha")
  BY <1>1, PassesIsGate DEF Works, Room
<1>4. LodDone = Settled(r, 2, 0, "alpha")
  BY DEF LodDone
<1> HIDE DEF r
<1>5. /\ WellFormed(LodDone) /\ Explained(LodDone) /\ Follows(r, LodDone)
      /\ LodDone.payload = r.payload /\ LodDone.accepted = r.accepted
      /\ LodDone.schedule = Rest(r, "alpha") /\ NextIs(r, 2, 0, "alpha")
  BY <1>1, <1>2, <1>3, <1>4, StageStep
<1>6. LodDone.schedule = {}
  BY <1>1, <1>5 DEF Rest, Created, Item
<1>7. QED
  BY <1>1, <1>5, <1>6, NothingIsNext DEF r

LEMMA SameClockStages ==
  LET r == Genesis("same_clock") IN
  /\ NextIs(r, 2, 10, "x")
  /\ WellFormed(SameX) /\ Explained(SameX) /\ Follows(r, SameX)
  /\ SameX.payload = "same_clock" /\ SameX.accepted = {} /\ NextIs(SameX, 2, 20, "y")
  /\ WellFormed(SameY) /\ Explained(SameY) /\ Follows(SameX, SameY)
  /\ SameY.payload = "same_clock" /\ SameY.accepted = {} /\ NextBoundary(SameY) = NoBoundary
<1> DEFINE r == Genesis("same_clock")
<1>1. /\ WellFormed(r) /\ Explained(r) /\ r.payload = "same_clock" /\ r.accepted = {} /\ r.clock = 0
      /\ r.schedule = {Item(2, 10, "x")} /\ r.unit = "available"
  BY GenesisFacts DEF FirstSchedule, Payloads
<1>2. r.outcome["y"] = "absent"
  <2>1. \A w \in Works : r.outcome[w] = IF \E i \in FirstSchedule("same_clock") : i.work = w THEN "pending" ELSE "absent"
    BY GenesisFacts DEF Payloads
  <2>2. QED
    BY <2>1 DEF FirstSchedule, Item, Works
<1>3. ComesFirst(r, Item(2, 10, "x"))
  BY <1>1 DEF ComesFirst, Item
<1>4. Passes(r, "x") = Gate(r, "x") /\ Room(r, 2, "x")
  BY <1>1, <1>2, PassesIsGate DEF Works, Room
<1>5. SameX = Settled(r, 2, 10, "x") /\ SameY = Settled(SameX, 2, 20, "y")
  BY DEF SameX, SameY
<1> HIDE DEF r
<1>6. /\ WellFormed(SameX) /\ Explained(SameX) /\ Follows(r, SameX)
      /\ SameX.payload = r.payload /\ SameX.accepted = r.accepted /\ SameX.clock = 2
      /\ SameX.schedule = Rest(r, "x") /\ NextIs(r, 2, 10, "x")
  BY <1>1, <1>3, <1>4, <1>5, StageStep
<1>7. SameX.schedule = {Item(2, 20, "y")}
  BY <1>1, <1>6 DEF Rest, Created, Item
<1>8. ComesFirst(SameX, Item(2, 20, "y"))
  BY <1>6, <1>7 DEF ComesFirst, Item
<1>9. Passes(SameX, "y") = Gate(SameX, "y") /\ Room(SameX, 2, "y")
  BY <1>1, <1>6, PassesIsGate DEF Works, Room
<1>10. /\ WellFormed(SameY) /\ Explained(SameY) /\ Follows(SameX, SameY)
       /\ SameY.payload = SameX.payload /\ SameY.accepted = SameX.accepted
       /\ SameY.schedule = Rest(SameX, "y") /\ NextIs(SameX, 2, 20, "y")
  BY <1>5, <1>6, <1>8, <1>9, StageStep
<1>11. SameY.schedule = {}
  BY <1>7, <1>10 DEF Rest, Created, Item
<1>12. QED
  BY <1>1, <1>6, <1>10, <1>11, NothingIsNext DEF r

LEMMA ChronologicalStages ==
  LET r == Genesis("chronological") IN
  /\ NextIs(r, 2, 0, "x")
  /\ WellFormed(ChronX) /\ Explained(ChronX) /\ Follows(r, ChronX)
  /\ ChronX.payload = "chronological" /\ ChronX.accepted = {} /\ NextIs(ChronX, 3, 0, "y")
  /\ WellFormed(ChronY) /\ Explained(ChronY) /\ Follows(ChronX, ChronY)
  /\ ChronY.payload = "chronological" /\ ChronY.accepted = {} /\ NextIs(ChronY, 4, 0, "z")
  /\ WellFormed(ChronZ) /\ Explained(ChronZ) /\ Follows(ChronY, ChronZ)
  /\ ChronZ.payload = "chronological" /\ ChronZ.accepted = {} /\ NextBoundary(ChronZ) = NoBoundary
<1> DEFINE r == Genesis("chronological")
<1>1. /\ WellFormed(r) /\ Explained(r) /\ r.payload = "chronological" /\ r.accepted = {} /\ r.clock = 0
      /\ r.schedule = {Item(2, 0, "x"), Item(3, 0, "y"), Item(4, 0, "z")}
  BY GenesisFacts DEF FirstSchedule, Payloads
<1>2. ComesFirst(r, Item(2, 0, "x"))
  BY <1>1 DEF ComesFirst, Item, Before
<1>3. Passes(r, "x") = Gate(r, "x") /\ Room(r, 2, "x")
  BY <1>1, PassesIsGate DEF Works, Room
<1>4. /\ ChronX = Settled(r, 2, 0, "x") /\ ChronY = Settled(ChronX, 3, 0, "y")
      /\ ChronZ = Settled(ChronY, 4, 0, "z")
  BY DEF ChronX, ChronY, ChronZ
<1> HIDE DEF r
<1>5. /\ WellFormed(ChronX) /\ Explained(ChronX) /\ Follows(r, ChronX)
      /\ ChronX.payload = r.payload /\ ChronX.accepted = r.accepted /\ ChronX.clock = 2
      /\ ChronX.schedule = Rest(r, "x") /\ NextIs(r, 2, 0, "x")
  BY <1>1, <1>2, <1>3, <1>4, StageStep
<1>6. ChronX.schedule = {Item(3, 0, "y"), Item(4, 0, "z")}
  BY <1>1, <1>5 DEF Rest, Created, Item
<1>7. ComesFirst(ChronX, Item(3, 0, "y"))
  BY <1>5, <1>6 DEF ComesFirst, Item, Before
<1>8. Passes(ChronX, "y") = Gate(ChronX, "y") /\ Room(ChronX, 3, "y")
  BY <1>1, <1>5, PassesIsGate DEF Works, Room
<1>9. /\ WellFormed(ChronY) /\ Explained(ChronY) /\ Follows(ChronX, ChronY)
      /\ ChronY.payload = ChronX.payload /\ ChronY.accepted = ChronX.accepted /\ ChronY.clock = 3
      /\ ChronY.schedule = Rest(ChronX, "y") /\ NextIs(ChronX, 3, 0, "y")
  BY <1>4, <1>5, <1>7, <1>8, StageStep
<1>10. ChronY.schedule = {Item(4, 0, "z")}
  BY <1>1, <1>5, <1>6, <1>9 DEF Rest, Created, Item
<1>11. ComesFirst(ChronY, Item(4, 0, "z"))
  BY <1>9, <1>10 DEF ComesFirst, Item
<1>12. Passes(ChronY, "z") = Gate(ChronY, "z") /\ Room(ChronY, 4, "z")
  BY <1>1, <1>5, <1>9, PassesIsGate DEF Works, Room
<1>13. /\ WellFormed(ChronZ) /\ Explained(ChronZ) /\ Follows(ChronY, ChronZ)
       /\ ChronZ.payload = ChronY.payload /\ ChronZ.accepted = ChronY.accepted
       /\ ChronZ.schedule = Rest(ChronY, "z") /\ NextIs(ChronY, 4, 0, "z")
  BY <1>4, <1>9, <1>11, <1>12, StageStep
<1>14. ChronZ.schedule = {}
  BY <1>1, <1>5, <1>9, <1>10, <1>13 DEF Rest, Created, Item
<1>15. QED
  BY <1>1, <1>5, <1>9, <1>13, <1>14, NothingIsNext DEF r

\* The admitted input: it was due before all that is scheduled, and is no work.
LEMMA AdmittedInput ==
  LET r == Genesis("external_input") IN
  /\ WellFormed(InputQ) /\ Explained(InputQ) /\ Follows(r, InputQ)
  /\ InputQ.payload = "external_input" /\ InputQ.accepted = {"Q"} /\ InputQ.token = "disabled"
  /\ InputQ.clock = 1 /\ InputQ.schedule = {Item(2, 0, "alpha")}
<1> DEFINE r == Genesis("external_input")
           q == InputQ
           e == Entry(r, "Q", TimeQ, 0, TRUE)
<1>1. /\ WellFormed(r) /\ Explained(r) /\ r.payload = "external_input" /\ r.clock = 0
      /\ r.schedule = {Item(2, 0, "alpha")} /\ r.ledger = <<>>
  BY GenesisFacts DEF FirstSchedule, Payloads
<1>2. q = [r EXCEPT !.clock = TimeQ, !.token = "disabled", !.accepted = {"Q"}, !.ledger = Append(@, e)]
  BY DEF InputQ, InputSettled
<1>3. e.source[2] = r /\ e.work = "Q" /\ e.time = 1 /\ e.phase = 0
  BY DEF Entry, Hash, TimeQ
<1> HIDE DEF r, q, e
<1>4. /\ IsRecord(q) /\ q.payload = "external_input" /\ q.clock = 1 /\ q.schedule = r.schedule
      /\ q.token = "disabled" /\ q.outcome = r.outcome /\ q.accepted = {"Q"} /\ q.ledger = Append(r.ledger, e)
  BY <1>1, <1>2 DEF WellFormed, IsRecord, TimeQ
<1>5. q.ledger = <<e>> /\ q.ledger \in Seq({q.ledger[i] : i \in DOMAIN q.ledger})
  BY <1>1, <1>4
<1>6. Done(q) = {"Q"} /\ Len(q.ledger) = 1 /\ DOMAIN q.ledger = {1} /\ q.ledger[1] = e
  BY <1>3, <1>5 DEF Done
<1>7. WellFormed(q)
  <2>1. IsFiniteSet(Done(q))
    BY <1>6, FS_Singleton
  <2>2. q.schedule \subseteq Items /\ \A i \in q.schedule : i.time >= q.clock
    BY <1>1, <1>4 DEF Items, Item, Works
  <2>3. QED
    BY <1>1, <1>4, <1>5, <2>1, <2>2 DEF WellFormed
<1>8. EntriesExplained(q)
  <2>1. r.ledger = SubSeq(q.ledger, 1, 0)
    BY <1>1, <1>5
  <2>2. \A j \in r.schedule : ~Before(j, e)
    BY <1>1, <1>3 DEF Before, Item
  <2>3. EntryExplained(q, 1, e)
    BY <1>3, <2>1, <2>2 DEF EntryExplained, Works
  <2>4. QED
    BY <1>6, <2>3 DEF EntriesExplained
<1>9. OutcomesAgree(q)
  <2>1. ASSUME NEW w \in Works
        PROVE  (q.outcome[w] = "pending") <=> (\E i \in q.schedule : i.work = w /\ i.time >= q.clock)
    <3>1. (r.outcome[w] = "pending") = (\E i \in r.schedule : i.work = w /\ i.time >= r.clock)
      BY <1>1 DEF Explained, OutcomesAgree
    <3>2. Item(2, 0, "alpha").time = 2 /\ Item(2, 0, "alpha").work = "alpha"
      BY DEF Item
    <3>3. \A i \in r.schedule : i.time >= r.clock /\ i.time >= q.clock
      BY <1>1, <1>4, <3>2
    <3>4. (\E i \in q.schedule : i.work = w /\ i.time >= q.clock) <=> (\E i \in r.schedule : i.work = w /\ i.time >= r.clock)
      BY <1>4, <3>3
    <3>5. QED
      BY <1>4, <3>1, <3>4
  <2>2. Done(r) = {}
    BY <1>1 DEF Done
  <2>3. {w \in Works : r.outcome[w] \in {"succeeded", "failed_gate"}} = Done(r) \cap Works
    BY <1>1 DEF Explained, OutcomesAgree
  <2>4. {w \in Works : q.outcome[w] \in {"succeeded", "failed_gate"}} = Done(q) \cap Works
    BY <1>4, <1>6, <2>2, <2>3 DEF Works
  <2>5. \A w \in Works : (q.outcome[w] = "pending") = (\E i \in q.schedule : i.work = w /\ i.time >= q.clock)
    BY <2>1
  <2>6. QED
    BY <2>4, <2>5 DEF OutcomesAgree
<1>10. Follows(r, q)
  BY <1>1, <1>5 DEF Follows
<1>11. Explained(q)
  BY <1>6, <1>8, <1>9, FS_Singleton DEF Explained
<1>12. QED
  BY <1>1, <1>4, <1>7, <1>10, <1>11 DEF r, q

LEMMA InputStages ==
  LET r == Genesis("external_input") IN
  /\ NextIs(r, 2, 0, "alpha")
  /\ WellFormed(InputDone) /\ Explained(InputDone) /\ Follows(r, InputDone)
  /\ InputDone.payload = "external_input" /\ InputDone.accepted = {} /\ NextBoundary(InputDone) = NoBoundary
  /\ NextIs(InputQ, 2, 0, "alpha")
  /\ WellFormed(InputQDone) /\ Explained(InputQDone) /\ Follows(InputQ, InputQDone)
  /\ InputQDone.payload = "external_input" /\ InputQDone.accepted = {"Q"} /\ NextBoundary(InputQDone) = NoBoundary
<1> DEFINE r == Genesis("external_input")
<1>1. /\ WellFormed(r) /\ Explained(r) /\ r.payload = "external_input" /\ r.clock = 0 /\ r.accepted = {}
      /\ r.schedule = {Item(2, 0, "alpha")} /\ r.token = "enabled"
  BY GenesisFacts DEF FirstSchedule, Payloads
<1>2. ComesFirst(r, Item(2, 0, "alpha"))
  BY <1>1 DEF ComesFirst, Item
<1>3. Passes(r, "alpha") = Gate(r, "alpha") /\ Room(r, 2, "alpha")
  BY <1>1, PassesIsGate DEF Works, Room
<1>4. InputDone = Settled(r, 2, 0, "alpha") /\ InputQDone = Settled(InputQ, 2, 0, "alpha")
  BY DEF InputDone, InputQDone
<1> HIDE DEF r
<1>5. /\ WellFormed(InputDone) /\ Explained(InputDone) /\ Follows(r, InputDone)
      /\ InputDone.payload = r.payload /\ InputDone.accepted = r.accepted
      /\ InputDone.schedule = Rest(r, "alpha") /\ NextIs(r, 2, 0, "alpha")
  BY <1>1, <1>2, <1>3, <1>4, StageStep
<1>6. InputDone.schedule = {}
  BY <1>1, <1>5 DEF Rest, Created, Item
<1>7. ComesFirst(InputQ, Item(2, 0, "alpha"))
  BY AdmittedInput DEF ComesFirst, Item
<1>8. Passes(InputQ, "alpha") = Gate(InputQ, "alpha") /\ Room(InputQ, 2, "alpha")
  BY AdmittedInput, PassesIsGate DEF Works, Room
<1>9. /\ WellFormed(InputQDone) /\ Explained(InputQDone) /\ Follows(InputQ, InputQDone)
      /\ InputQDone.payload = InputQ.payload /\ InputQDone.accepted = InputQ.accepted
      /\ InputQDone.schedule = Rest(InputQ, "alpha") /\ NextIs(InputQ, 2, 0, "alpha")
  BY <1>4, <1>7, <1>8, AdmittedInput, StageStep
<1>10. InputQDone.schedule = {}
  BY <1>9, AdmittedInput DEF Rest, Created, Item
<1>11. QED
  BY <1>1, <1>5, <1>6, <1>9, <1>10, AdmittedInput, NothingIsNext DEF r

LEMMA StagesExplained ==
  ASSUME NEW p \in Payloads, NEW r \in Stages[p]
  PROVE  WellFormed(r) /\ Explained(r) /\ r.payload = p
<1>1. p \in {"lod", "chronological", "same_clock", "external_input"}
  BY DEF Payloads
<1>2. WellFormed(Genesis(p)) /\ Explained(Genesis(p)) /\ Genesis(p).payload = p
  BY GenesisFacts
<1>3. CASE p = "lod"
  BY <1>2, <1>3, StagesOf, LodStages
<1>4. CASE p = "same_clock"
  BY <1>2, <1>4, StagesOf, SameClockStages
<1>5. CASE p = "chronological"
  BY <1>2, <1>5, StagesOf, ChronologicalStages
<1>6. CASE p = "external_input"
  BY <1>2, <1>6, StagesOf, AdmittedInput, InputStages
<1>7. QED
  BY <1>1, <1>3, <1>4, <1>5, <1>6

-----------------------------------------------------------------------------
(* One line of records *)

Agree(r, s) ==
  r.accepted = s.accepted /\ Len(r.ledger) <= Len(s.ledger) =>
    /\ r.ledger = SubSeq(s.ledger, 1, Len(r.ledger))
    /\ r.ledger = s.ledger => r = s

Prefix(l, m) == Len(l) <= Len(m) /\ l = SubSeq(m, 1, Len(l))
Ledger(l) == l \in Seq({l[i] : i \in DOMAIN l})

LEMMA PrefixSelf == ASSUME NEW l, Ledger(l) PROVE Prefix(l, l)
<1>1. Len(l) \in Nat /\ DOMAIN l = 1..Len(l) /\ l = [i \in 1..Len(l) |-> l[i]]
  BY DEF Ledger
<1>2. SubSeq(l, 1, Len(l)) = [i \in 1..Len(l) |-> l[i]]
  BY <1>1 DEF Ledger
<1>3. QED
  BY <1>1, <1>2 DEF Prefix

LEMMA PrefixGoesOn ==
  ASSUME NEW l, NEW m, NEW n, Ledger(l), Ledger(m), Ledger(n), Prefix(l, m), Prefix(m, n)
  PROVE  Prefix(l, n)
<1>1. PICK a \in Nat, b \in Nat, c \in Nat : a = Len(l) /\ b = Len(m) /\ c = Len(n)
  BY DEF Ledger
<1>2. a <= b /\ b <= c
  BY <1>1 DEF Prefix
<1>3. /\ SubSeq(m, 1, a) = [i \in 1..a |-> m[i]] /\ SubSeq(n, 1, a) = [i \in 1..a |-> n[i]]
      /\ SubSeq(n, 1, b) = [i \in 1..b |-> n[i]]
  BY <1>1, <1>2 DEF Ledger
<1>4. l = [i \in 1..a |-> m[i]] /\ m = [i \in 1..b |-> n[i]]
  BY <1>1, <1>3 DEF Prefix
<1>5. \A i \in 1..a : m[i] = n[i]
  BY <1>2, <1>4
<1>6. QED
  BY <1>1, <1>2, <1>3, <1>4, <1>5 DEF Prefix

LEMMA FollowsIsPrefix == ASSUME NEW r, NEW s, Follows(r, s) PROVE Prefix(r.ledger, s.ledger)
  BY DEF Follows, Prefix

\* Two records of which one has the longer ledger agree, in both directions.
LEMMA Along ==
  ASSUME NEW r, NEW s, Ledger(r.ledger), Ledger(s.ledger), Prefix(r.ledger, s.ledger), Len(r.ledger) < Len(s.ledger)
  PROVE  Agree(r, s) /\ Agree(s, r)
<1>1. Len(r.ledger) \in Nat /\ Len(s.ledger) \in Nat
  BY DEF Ledger
<1>2. QED
  BY <1>1 DEF Agree, Prefix

LEMMA AgreeSelf == ASSUME NEW r, Ledger(r.ledger) PROVE Agree(r, r)
  BY PrefixSelf DEF Agree, Prefix

\* The stages of a payload are on one line, but for the input.
LEMMA OneLine == ASSUME NEW p \in Payloads, NEW r \in Stages[p], NEW s \in Stages[p] PROVE Agree(r, s)
<1> DEFINE g == Genesis(p)
<1>1. p \in {"lod", "chronological", "same_clock", "external_input"}
  BY DEF Payloads
<1>2. \A q \in Stages[p] : Ledger(q.ledger) /\ Agree(q, q)
  <2>1. \A q \in Stages[p] : WellFormed(q)
    BY StagesExplained
  <2>2. \A q \in Stages[p] : Ledger(q.ledger)
    BY <2>1, Zenon DEF WellFormed, Ledger
  <2>3. QED
    BY <2>2, AgreeSelf
<1>3. g.accepted = {} /\ Len(g.ledger) = 0
  BY GenesisFacts
<1>4. ASSUME NEW a \in Stages[p], NEW b \in Stages[p], Follows(a, b)
      PROVE  Agree(a, b) /\ Agree(b, a) /\ Prefix(a.ledger, b.ledger) /\ Len(a.ledger) < Len(b.ledger)
             /\ Len(a.ledger) \in Nat /\ Len(b.ledger) \in Nat
  <2>1. Len(a.ledger) \in Nat /\ Len(b.ledger) \in Nat /\ Len(a.ledger) < Len(b.ledger)
    BY <1>4 DEF Follows
  <2>2. QED
    BY <1>2, <1>4, <2>1, FollowsIsPrefix, Along
<1>5. ASSUME NEW a \in Stages[p], NEW b \in Stages[p], NEW c \in Stages[p],
             Prefix(a.ledger, b.ledger), Len(a.ledger) < Len(b.ledger), Follows(b, c)
      PROVE  Agree(a, c) /\ Agree(c, a) /\ Prefix(a.ledger, c.ledger) /\ Len(a.ledger) < Len(c.ledger)
  <2>1. Prefix(b.ledger, c.ledger) /\ Len(b.ledger) < Len(c.ledger) /\ Len(b.ledger) \in Nat /\ Len(c.ledger) \in Nat
    BY <1>4, <1>5
  <2>2. Len(a.ledger) \in Nat
    BY <1>2 DEF Ledger
  <2>3. Prefix(a.ledger, c.ledger) /\ Len(a.ledger) < Len(c.ledger)
    BY <1>2, <1>5, <2>1, <2>2, PrefixGoesOn
  <2>4. QED
    BY <1>2, <2>3, Along
<1>6. CASE p = "lod"
  <2>1. Stages[p] = {g, LodDone} /\ Follows(g, LodDone)
    BY <1>6, StagesOf, LodStages
  <2>2. Agree(g, LodDone) /\ Agree(LodDone, g)
    BY <1>4, <2>1
  <2>3. QED
    BY <1>2, <2>1, <2>2
<1>7. CASE p = "same_clock"
  <2>1. Stages[p] = {g, SameX, SameY} /\ Follows(g, SameX) /\ Follows(SameX, SameY)
    BY <1>7, StagesOf, SameClockStages
  <2>2. /\ Agree(g, SameX) /\ Agree(SameX, g) /\ Agree(SameX, SameY) /\ Agree(SameY, SameX)
        /\ Prefix(g.ledger, SameX.ledger) /\ Len(g.ledger) < Len(SameX.ledger)
    BY <1>4, <2>1
  <2>3. Agree(g, SameY) /\ Agree(SameY, g)
    BY <1>5, <2>1, <2>2
  <2>4. QED
    BY <1>2, <2>1, <2>2, <2>3
<1>8. CASE p = "chronological"
  <2>1. /\ Stages[p] = {g, ChronX, ChronY, ChronZ}
        /\ Follows(g, ChronX) /\ Follows(ChronX, ChronY) /\ Follows(ChronY, ChronZ)
    BY <1>8, StagesOf, ChronologicalStages
  <2>2. /\ Agree(g, ChronX) /\ Agree(ChronX, g) /\ Prefix(g.ledger, ChronX.ledger) /\ Len(g.ledger) < Len(ChronX.ledger)
        /\ Agree(ChronX, ChronY) /\ Agree(ChronY, ChronX)
        /\ Prefix(ChronX.ledger, ChronY.ledger) /\ Len(ChronX.ledger) < Len(ChronY.ledger)
        /\ Agree(ChronY, ChronZ) /\ Agree(ChronZ, ChronY)
    BY <1>4, <2>1
  <2>3. /\ Agree(g, ChronY) /\ Agree(ChronY, g) /\ Prefix(g.ledger, ChronY.ledger) /\ Len(g.ledger) < Len(ChronY.ledger)
        /\ Agree(ChronX, ChronZ) /\ Agree(ChronZ, ChronX)
    BY <1>5, <2>1, <2>2
  <2>4. Agree(g, ChronZ) /\ Agree(ChronZ, g)
    BY <1>5, <2>1, <2>3
  <2>5. QED
    BY <1>2, <2>1, <2>2, <2>3, <2>4
<1>9. CASE p = "external_input"
  <2>1. /\ Stages[p] = {g, InputQ, InputQDone, InputDone}
        /\ Follows(g, InputDone) /\ Follows(InputQ, InputQDone)
        /\ InputQ.accepted = {"Q"} /\ InputQDone.accepted = {"Q"} /\ InputDone.accepted = {}
    BY <1>9, StagesOf, AdmittedInput, InputStages
  <2>2. Agree(g, InputDone) /\ Agree(InputDone, g) /\ Agree(InputQ, InputQDone) /\ Agree(InputQDone, InputQ)
    BY <1>4, <2>1
  <2>3. ASSUME NEW a \in {g, InputDone}, NEW b \in {InputQ, InputQDone} PROVE Agree(a, b) /\ Agree(b, a)
    BY <1>3, <2>1 DEF Agree
  <2>4. QED
    BY <1>2, <2>1, <2>2, <2>3
<1>10. QED
  BY <1>1, <1>6, <1>7, <1>8, <1>9

-----------------------------------------------------------------------------
(* The resolver *)

\* It resolves what is due, and waits for no input that cannot be admitted.
LEMMA ResolvesNext ==
  ASSUME NEW r, NEW b, NEW given, Resolves(r, b, given)
  PROVE  \/ r = Genesis("external_input") /\ Resolved(r, b) = InputSettled(r)
         \/ /\ b = NextBoundary(r) /\ b # NoBoundary
            /\ Resolved(r, b) = Settled(r, b.time, b.phase, CHOOSE w \in b.due : TRUE)
<1>1. /\ Executes(r, given, 0) /\ b = NextExecution(r, given, 0) /\ b # NoBoundary
  BY DEF Resolves
<1>2. CASE Waiting(r, given, 0)
  <2>1. r = Genesis("external_input")
    BY <1>1, <1>2 DEF Executes, Admits
  <2>2. b = Boundary(r, TimeQ, 0, {}, TRUE)
    BY <1>1, <1>2 DEF NextExecution
  <2>3. b.input
    BY <2>2 DEF Boundary
  <2>4. QED
    BY <2>1, <2>3 DEF Resolved
<1>3. CASE ~Waiting(r, given, 0)
  <2>1. b = NextBoundary(r)
    BY <1>1, <1>3 DEF NextExecution
  <2>2. ~b.input
    BY <2>1 DEF NextBoundary, Boundary, NoBoundary
  <2>3. QED
    BY <1>1, <2>1, <2>2 DEF Resolved
<1>4. QED
  BY <1>2, <1>3

LEMMA NextSettles ==
  ASSUME NEW r, NEW t, NEW f, NEW w, NextIs(r, t, f, w), NEW b, b = NextBoundary(r)
  PROVE  Settled(r, b.time, b.phase, CHOOSE v \in b.due : TRUE) = Settled(r, t, f, w)
<1>1. b.time = t /\ b.phase = f /\ b.due = {w}
  BY DEF NextIs, Boundary
<1>2. (CHOOSE v \in {w} : TRUE) = w
  OBVIOUS
<1>3. QED
  BY <1>1, <1>2

\* What a stage is resolved to is a stage.
LEMMA ResolvedIsStage ==
  ASSUME NEW p \in Payloads, NEW r \in Stages[p], NEW b, NEW given, Resolves(r, b, given)
  PROVE  Resolved(r, b) \in Stages[p]
<1> DEFINE s == Resolved(r, b)
<1>1. p \in {"lod", "chronological", "same_clock", "external_input"} /\ r.payload = p
  BY StagesExplained DEF Payloads
<1>2. CASE r = Genesis("external_input") /\ s = InputSettled(r)
  <2>1. p = "external_input"
    BY <1>1, <1>2, GenesisFacts DEF Payloads
  <2>2. QED
    BY <1>2, <2>1, StagesOf DEF InputQ
<1>3. CASE /\ b = NextBoundary(r) /\ b # NoBoundary
           /\ s = Settled(r, b.time, b.phase, CHOOSE w \in b.due : TRUE)
  <2>1. ASSUME NEW t, NEW f, NEW w, NextIs(r, t, f, w) PROVE s = Settled(r, t, f, w)
    BY <1>3, <2>1, NextSettles
  <2> HIDE DEF s
  <2>2. CASE p = "lod"
    <3>1. r = Genesis("lod") /\ NextIs(r, 2, 0, "alpha")
      BY <1>3, <2>2, StagesOf, LodStages
    <3>2. s = LodDone
      BY <2>1, <3>1 DEF LodDone
    <3>3. QED
      BY <2>2, <3>2, StagesOf DEF s
  <2>3. CASE p = "same_clock"
    <3>1. \/ r = Genesis("same_clock") /\ NextIs(r, 2, 10, "x")
          \/ r = SameX /\ NextIs(r, 2, 20, "y")
      BY <1>3, <2>3, StagesOf, SameClockStages
    <3>2. s \in {SameX, SameY}
      BY <2>1, <3>1 DEF SameX, SameY
    <3>3. QED
      BY <2>3, <3>2, StagesOf DEF s
  <2>4. CASE p = "chronological"
    <3>1. \/ r = Genesis("chronological") /\ NextIs(r, 2, 0, "x")
          \/ r = ChronX /\ NextIs(r, 3, 0, "y")
          \/ r = ChronY /\ NextIs(r, 4, 0, "z")
      BY <1>3, <2>4, StagesOf, ChronologicalStages
    <3>2. s \in {ChronX, ChronY, ChronZ}
      BY <2>1, <3>1 DEF ChronX, ChronY, ChronZ
    <3>3. QED
      BY <2>4, <3>2, StagesOf DEF s
  <2>5. CASE p = "external_input"
    <3>1. \/ r = Genesis("external_input") /\ NextIs(r, 2, 0, "alpha")
          \/ r = InputQ /\ NextIs(r, 2, 0, "alpha")
      BY <1>3, <2>5, StagesOf, InputStages
    <3>2. s \in {InputDone, InputQDone}
      BY <2>1, <3>1 DEF InputDone, InputQDone
    <3>3. QED
      BY <2>5, <3>2, StagesOf DEF s
  <2>6. QED
    BY <1>1, <2>2, <2>3, <2>4, <2>5 DEF s
<1>4. QED
  BY <1>2, <1>3, ResolvesNext

-----------------------------------------------------------------------------
(* The runtimes *)

\* A runtime is changed in a part that is not its record.
LEMMA Updated ==
  ASSUME IInv, NEW h \in Live, NEW s, Standing(s), Updates(h, s)
  PROVE  IInv'
<1>1. /\ payload \in Payloads /\ payload' = payload
      /\ runtime = [g \in Live |-> runtime[g]] /\ runtime' = [runtime EXCEPT ![h] = s]
  BY DEF IInv, Updates
<1>2. Live' = Live /\ runtime' = [g \in Live |-> runtime'[g]]
  BY <1>1 DEF Live
<1>3. ASSUME NEW g \in Live PROVE Standing(runtime[g])'
  <2>1. Standing(runtime[g])
    BY DEF IInv
  <2>2. CASE g = h
    <3>1. runtime'[g] = s
      BY <1>1, <2>2
    <3>2. QED
      BY <1>1, <3>1 DEF Standing
  <2>3. CASE g # h
    <3>1. runtime'[g] = runtime[g]
      BY <1>1, <2>3
    <3>2. QED
      BY <1>1, <2>1, <3>1 DEF Standing
  <2>4. QED
    BY <2>2, <2>3
<1>4. QED
  BY <1>1, <1>2, <1>3 DEF IInv

\* Who opens on a valid record of the payload stands on a stage.
LEMMA Opened ==
  ASSUME IInv, NEW h, NEW record, NEW cursor, record.payload = payload, Opens(h, record, cursor)
  PROVE  IInv'
<1> DEFINE s == MinimalRuntime(record, cursor)
<1>1. /\ payload \in Payloads /\ payload' = payload
      /\ runtime' = [g \in Live \cup {h} |-> IF g = h THEN s ELSE runtime[g]]
  BY DEF IInv, Opens
<1>2. Live' = Live \cup {h} /\ runtime' = [g \in Live \cup {h} |-> runtime'[g]]
  BY <1>1 DEF Live
<1>3. record \in Stages[payload]
  BY DEF Opens, Usable, Valid
<1>4. Standing(s)
  <2>1. IsRecord(record)
    BY <1>1, <1>3, StagesExplained DEF WellFormed
  <2>2. s.record = record /\ IsRuntime(s) /\ s.tampered = FALSE
    BY DEF MinimalRuntime, IsRuntime
  <2>3. QED
    BY <1>3, <2>1, <2>2 DEF Standing
<1> HIDE DEF s
<1>5. ASSUME NEW g \in Live \cup {h} PROVE Standing(runtime[g])'
  <2>1. CASE g = h
    <3>1. runtime'[g] = s
      BY <1>1, <2>1
    <3>2. QED
      BY <1>1, <1>4, <3>1 DEF Standing
  <2>2. CASE g # h
    <3>1. runtime'[g] = runtime[g] /\ g \in Live
      BY <1>1, <2>2
    <3>2. Standing(runtime[g])
      BY <3>1 DEF IInv
    <3>3. QED
      BY <1>1, <3>1, <3>2 DEF Standing
  <2>3. QED
    BY <2>1, <2>2
<1>6. QED
  BY <1>1, <1>2, <1>5 DEF IInv

\* The record that a clean runtime or a caller resolves is a stage, and so is the result.
LEMMA ResolvedStands ==
  ASSUME payload \in Payloads, NEW r, r.payload = payload, NEW b, NEW given, Resolves(r, b, given)
  PROVE  Resolved(r, b) \in Stages[payload] /\ Resolved(r, b).payload = payload /\ IsRecord(Resolved(r, b))
<1>1. r \in Stages[payload]
  BY DEF Resolves, Valid
<1>2. Resolved(r, b) \in Stages[payload]
  BY <1>1, ResolvedIsStage
<1>3. QED
  BY <1>2, StagesExplained DEF WellFormed

LEMMA InitIInv == Init => IInv
<1> SUFFICES ASSUME Init PROVE IInv
  OBVIOUS
<1>1. payload \in Payloads /\ runtime = [h \in {First} |-> MinimalRuntime(Genesis(payload), 0)]
  BY DEF Init
<1>2. Genesis(payload) \in Stages[payload]
  <2>1. payload \in {"lod", "chronological", "same_clock", "external_input"}
    BY <1>1 DEF Payloads
  <2>2. QED
    BY <2>1, StagesOf
<1> DEFINE s == MinimalRuntime(Genesis(payload), 0)
<1>3. Standing(s)
  <2>1. IsRecord(Genesis(payload)) /\ Genesis(payload).payload = payload
    BY <1>1, <1>2, StagesExplained DEF WellFormed
  <2>2. s.record = Genesis(payload) /\ IsRuntime(s) /\ s.tampered = FALSE
    BY DEF MinimalRuntime, IsRuntime
  <2>3. QED
    BY <1>2, <2>1, <2>2 DEF Standing
<1> HIDE DEF s
<1>4. Live = {First} /\ runtime = [h \in Live |-> runtime[h]] /\ \A h \in Live : runtime[h] = s
  BY <1>1 DEF Live, s
<1>5. QED
  BY <1>1, <1>3, <1>4 DEF IInv

LEMMA NextIInv == IInv /\ [Next]_vars => IInv'
<1> SUFFICES ASSUME IInv, [Next]_vars PROVE IInv'
  OBVIOUS
<1>1. CASE UNCHANGED vars
  BY <1>1 DEF vars, IInv, Live, Standing
<1>2. ASSUME NEW h \in Live, DenseInspection(h) \/ BoundaryJump(h) \/ Demote(h) \/ Promote(h) PROVE IInv'
  <2>1. Standing(runtime[h])
    BY DEF IInv
  <2>2. PICK profile, display, s :
          /\ s = [runtime[h] EXCEPT !.profile = profile, !.display = display]
          /\ Updates(h, s)
    <3>1. \A profile : [runtime[h] EXCEPT !.profile = profile]
                       = [runtime[h] EXCEPT !.profile = profile, !.display = runtime[h].display]
      BY <2>1 DEF Standing, IsRuntime
    <3>2. CASE DenseInspection(h)
      BY <3>1, <3>2, Zenon DEF DenseInspection
    <3>3. CASE BoundaryJump(h)
      BY <3>1, <3>3, Zenon DEF BoundaryJump
    <3>4. CASE Demote(h)
      BY <3>4, Zenon DEF Demote
    <3>5. CASE Promote(h)
      BY <3>5, Zenon DEF Promote
    <3>6. QED
      BY <1>2, <3>2, <3>3, <3>4, <3>5, Zenon
  <2>3. IsRuntime(s) /\ s.record = runtime[h].record /\ s.tampered = runtime[h].tampered
    BY <2>1, <2>2 DEF Standing, IsRuntime
  <2>4. Standing(s)
    BY <2>1, <2>3 DEF Standing
  <2>5. QED
    BY <2>2, <2>4, Updated
<1>3. ASSUME NEW h \in Live, Advance(h) PROVE IInv'
  <2>1. Standing(runtime[h]) /\ payload \in Payloads
    BY DEF IInv
  <2>2. PICK boundary, given, record, cursor, s :
          /\ Resolves(runtime[h].record, boundary, given)
          /\ record = Resolved(runtime[h].record, boundary)
          /\ s = [runtime[h] EXCEPT !.record = record, !.cursor = cursor]
          /\ Updates(h, s)
    BY <1>3, Zenon DEF Advance
  <2>3. record \in Stages[payload] /\ record.payload = payload /\ IsRecord(record)
    BY <2>1, <2>2, ResolvedStands DEF Standing
  <2>4. IsRuntime(s) /\ s.record = record /\ s.tampered = runtime[h].tampered
    BY <2>1, <2>2 DEF Standing, IsRuntime
  <2>5. Standing(s)
    BY <2>1, <2>3, <2>4 DEF Standing
  <2>6. QED
    BY <2>2, <2>5, Updated
<1>4. ASSUME NEW h \in Live, Tamper(h) PROVE IInv'
  <2>1. Standing(runtime[h])
    BY DEF IInv
  <2>2. PICK clock, s :
          /\ \/ s = [runtime[h] EXCEPT !.marked = TRUE, !.tampered = TRUE]
             \/ s = [runtime[h] EXCEPT !.record.clock = clock, !.tampered = TRUE]
          /\ Updates(h, s)
    BY <1>4, Zenon DEF Tamper
  <2>3. IsRuntime(s) /\ s.tampered = TRUE
        /\ (s.record = runtime[h].record \/ s.record = [runtime[h].record EXCEPT !.clock = clock])
    BY <2>1, <2>2 DEF Standing, IsRuntime
  <2>4. IsRecord(s.record) /\ s.record.payload = payload
    BY <2>1, <2>3 DEF Standing, IsRecord
  <2>5. Standing(s)
    BY <2>3, <2>4 DEF Standing
  <2>6. QED
    BY <2>2, <2>5, Updated
<1>5. ASSUME NEW h \in Live, NEW g \in Runtimes, Fork(h, g) PROVE IInv'
  <2>1. runtime[h].record.payload = payload
    BY DEF IInv, Standing
  <2>2. QED
    BY <1>5, <2>1, Opened DEF Fork
<1>6. ASSUME NEW h \in Live, NEW g \in Runtimes, Resume(h, g) PROVE IInv'
  <2>1. runtime[h].record.payload = payload /\ payload \in Payloads
    BY DEF IInv, Standing
  <2>2. PICK boundary, given : /\ Resolves(runtime[h].record, boundary, given)
                               /\ Opens(g, Resolved(runtime[h].record, boundary), 0)
    BY <1>6 DEF Resume
  <2>3. Resolved(runtime[h].record, boundary).payload = payload
    BY <2>1, <2>2, ResolvedStands
  <2>4. QED
    BY <2>2, <2>3, Opened
<1>7. QED
  BY <1>1, <1>2, <1>3, <1>4, <1>5, <1>6 DEF Next

-----------------------------------------------------------------------------
(* The theorems *)

\* Authentic runtimes stand on the one line of stages.
LEMMA OneHistoryFollows == IInv => OneHistory
<1> SUFFICES ASSUME IInv, NEW h \in Authentic, NEW g \in Authentic
             PROVE  Agree(runtime[h].record, runtime[g].record)
  BY Zenon DEF OneHistory, Agree
<1>1. runtime[h].record \in Stages[payload] /\ runtime[g].record \in Stages[payload] /\ payload \in Payloads
  BY DEF IInv, Standing, Authentic
<1>2. QED
  BY <1>1, OneLine

LEMMA LedgerExplainsFollows == IInv => LedgerExplains
<1> SUFFICES ASSUME IInv, NEW h \in Authentic, NEW r, r = runtime[h].record
             PROVE  /\ EntriesExplained(r) /\ r.payload = payload
                    /\ Cardinality(Done(r)) = Len(r.ledger)
                    /\ OutcomesAgree(r)
  <2>1. ASSUME IInv, NEW h \in Authentic
        PROVE  LET r == runtime[h].record
                   resolved == {r.ledger[i].work : i \in DOMAIN r.ledger}
               IN /\ \A i \in DOMAIN r.ledger :
                       LET e == r.ledger[i]  source == e.source[2] IN
                       /\ source.ledger = SubSeq(r.ledger, 1, i - 1)
                       /\ \A j \in source.schedule : ~Before(j, e)
                       /\ e.work \in Works =>
                            e.passes = (IF payload = "chronological" /\ e.work # "z"
                                        THEN source.slot = "available"
                                        ELSE source.accepted = {})
                  /\ Cardinality(resolved) = Len(r.ledger)
                  /\ \A w \in Works :
                       (r.outcome[w] = "pending") = (\E i \in r.schedule : i.work = w /\ i.time >= r.clock)
                  /\ {w \in Works : r.outcome[w] \in {"succeeded", "failed_gate"}} = resolved \cap Works
    <3> DEFINE r == runtime[h].record
    <3>1. /\ EntriesExplained(r) /\ r.payload = payload
          /\ Cardinality(Done(r)) = Len(r.ledger)
          /\ OutcomesAgree(r)
      BY <2>1
    <3>2. ASSUME NEW i \in DOMAIN r.ledger
          PROVE  LET e == r.ledger[i]  source == e.source[2] IN
                 /\ source.ledger = SubSeq(r.ledger, 1, i - 1)
                 /\ \A j \in source.schedule : ~Before(j, e)
                 /\ e.work \in Works =>
                      e.passes = (IF payload = "chronological" /\ e.work # "z"
                                  THEN source.slot = "available" ELSE source.accepted = {})
      BY <3>1, Zenon DEF EntriesExplained, EntryExplained
    <3>3. QED
      BY <3>1, <3>2, Zenon DEF OutcomesAgree, Done
  <2>2. QED
    BY <2>1, Zenon DEF LedgerExplains
<1>1. runtime[h].record \in Stages[payload] /\ payload \in Payloads
  BY DEF IInv, Standing, Authentic
<1>2. QED
  BY <1>1, StagesExplained DEF Explained

LEMMA SpecIInv == Spec => []IInv
  BY InitIInv, NextIInv, PTL DEF Spec

\* However many runtimes there are, and whatever inputs are offered in whatever order:
\* inspecting, jumping, promoting, demoting, forking and resuming leave one history,
\* which two runtimes share as far as both have gone.
THEOREM SpecOneHistory == Spec => []OneHistory
  BY SpecIInv, OneHistoryFollows, PTL

\* Whatever a runtime went through, its ledger explains its record: each entry names the
\* record before it, took what was due first, judged the gate by that record, and every
\* commitment was resolved once or is still scheduled.
THEOREM SpecLedgerExplains == Spec => []LedgerExplains
  BY SpecIInv, LedgerExplainsFollows, PTL

=============================================================================
