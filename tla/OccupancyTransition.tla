------------------------ MODULE OccupancyTransition ------------------------
\* One subject crosses one route (canonical_occupancy_transition.py): a start that reserves,
\* a completion that releases, and a start that fails because the route is blocked. A caller
\* hands in any boundary it has kept; the successor is built field by field on a copy.
EXTENDS CanonicalLedger

Transition == "occupancy_transition_0001"

TransitRecord(access) ==
  [schema |-> "occupancy", clock |-> 0, access |-> access, place |-> "origin",
   commitment |-> "planned", owned |-> {}, reason |-> "none", disposition |-> "none",
   reservation |-> "available", owner |-> "none", work |-> "start",
   history |-> <<>>, ancestry |-> NoSource]

\* The fixtures call the resolver twice at most; the adversaries call it once more.
TransitInit ==
  /\ plan = <<"transit", "transit", "transit">>
  /\ record \in {TransitRecord("available"), TransitRecord("blocked")}
  /\ ledger = <<>>

TimeOf(work) == IF work = "start" THEN 1 ELSE 2

\* _start_gate_observations
StartGates(rec) ==
  /\ rec.commitment = "planned" /\ rec.place = "origin"
  /\ rec.access = "available" /\ rec.reservation = "available"

\* _completion_gate_observations
CompletionGates(rec) ==
  /\ rec.commitment = "active" /\ rec.place = "in_transition"
  /\ rec.reservation = "reserved" /\ rec.owner = Transition /\ rec.owned = {"reservation"}

Boundary(rec, work) == [source |-> rec, work |-> work, time |-> TimeOf(work)]
NoBoundary == [source |-> NoSource, work |-> "none", time |-> 0]

LedgerEntry(source, work, result) ==
  [sequence |-> Len(source.history) + 1, boundary |-> Boundary(source, work), result |-> result]

\* The writes of a construction, in the order of the code, as <<field, value>> pairs.
CommonWrites(source, work, result) ==
  << <<"clock", TimeOf(work)>>,
     <<"history", Append(source.history, LedgerEntry(source, work, result))>>,
     <<"ancestry", source>> >>

\* _construct_start_successor
StartWrites(source) ==
  IF StartGates(source)
  THEN << <<"place", "in_transition">>, <<"commitment", "active">>, <<"owned", {"reservation"}>>,
          <<"reservation", "reserved">>, <<"owner", Transition>>, <<"work", "none">>,
          <<"work", "complete">> >> \o CommonWrites(source, "start", "started")
  ELSE << <<"commitment", "failed">>, <<"reason", "failed_gate">>,
          <<"disposition", "no_resource_acquired">>, <<"work", "none">> >>
       \o CommonWrites(source, "start", "failed_gate")

\* _construct_completion_successor
CompletionWrites(source) ==
  << <<"place", "destination">>, <<"commitment", "succeeded">>, <<"owned", {}>>,
     <<"disposition", "release">>, <<"reservation", "available">>, <<"owner", "none">>,
     <<"work", "none">> >> \o CommonWrites(source, "complete", "completed")

\* The candidate after its first n writes: what an injected fault leaves behind.
Candidate(source, writes, n) ==
  [f \in DOMAIN source |->
     LET mine == {i \in 1..n : writes[i][1] = f}
     IN IF mine = {} THEN source[f]
        ELSE writes[CHOOSE i \in mine : \A j \in mine : j <= i][2]]

\* _resolve_private, for a record that has work.
Writes(source) == IF source.work = "start" THEN StartWrites(source) ELSE CompletionWrites(source)
Successor(source) == Candidate(source, Writes(source), Len(Writes(source)))

\* _reference_records: the five rows of the lifecycle, and validate_canonical_record.
LifecycleRows ==
  LET Roots == {TransitRecord("available"), TransitRecord("blocked")}
      Started == {Successor(r) : r \in Roots}
  IN Roots \cup Started \cup {Successor(r) : r \in {s \in Started : s.work = "complete"}}
ValidRow(rec) == rec \in LifecycleRows

\* next_consequential_boundary
NextConsequentialBoundary(rec) ==
  IF rec.work = "none" THEN NoBoundary ELSE Boundary(rec, rec.work)

\* A boundary that can be written down: of a record of either root, or of none, for either work.
Boundaries == [source : LifecycleRows \cup {Unknown}, work : {"start", "complete"}, time : {1, 2}]

\* resolve_next_due: all that is refused is refused before the successor is built.
ResolveNextDue ==
  /\ record.schema = "occupancy"
  /\ \E boundary \in Boundaries :
       LET due == NextConsequentialBoundary(record)
           gates == ValidRow(record) /\ due # NoBoundary /\ boundary = due
       IN Resolve("transit", boundary.work, boundary.source, record, record, gates,
                  IF due = NoBoundary THEN record ELSE Successor(record), record)
=============================================================================
