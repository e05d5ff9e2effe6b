---------------------------- MODULE OccupancyLaw ----------------------------
(***************************************************************************)
(* What the occupancy proof promises of heads and worlds: the canonical    *)
(* record moves R0, Rtransit, Rfinal on its own; each head is observed     *)
(* after it is resolved; a domain represents one generation after the      *)
(* other and none before it is observed; and where a run has a guard, the  *)
(* guard opens for a generation only when every domain represents the one  *)
(* before it, and only an open guard lets a domain advance.  Generations   *)
(* are 1, 2, 3, and 0 is a domain that represents nothing yet.             *)
(***************************************************************************)
EXTENDS Naturals, TLAPS

CONSTANT Domains

VARIABLES head, observed, guard, represented,
          guarded   \* whether this run uses its guard at all

lawVars == <<head, observed, guard, represented, guarded>>

Opened == [open_for_R0 |-> 1, open_for_Rtransit |-> 2, open_for_Rfinal |-> 3]

LawInit ==
  /\ head = 1 /\ observed = 1
  /\ guard = "open_for_R0"
  /\ represented = [d \in Domains |-> 0]
  /\ guarded \in BOOLEAN

\* The guard never gates canonical resolution.
Resolve ==
  /\ head < 3
  /\ head' = head + 1
  /\ UNCHANGED <<observed, guard, represented, guarded>>

Observe ==
  /\ observed < head
  /\ observed' = observed + 1
  /\ UNCHANGED <<head, guard, represented, guarded>>

All(g) == \A d \in Domains : represented[d] = g

Legal(from, to) ==
  \/ from = "open_for_R0" /\ to = "closed_for_R0_to_Rtransit" /\ All(1)
  \/ from = "closed_for_R0_to_Rtransit" /\ to = "open_for_Rtransit" /\ All(1) /\ observed >= 2
  \/ from = "open_for_Rtransit" /\ to = "closed_for_Rtransit_to_Rfinal" /\ All(2)
  \/ from = "open_for_Rtransit" /\ to = "closed_for_c1_Rtransit_to_Rfinal" /\ All(1)
  \/ from = "closed_for_Rtransit_to_Rfinal" /\ to = "open_for_Rfinal" /\ All(2) /\ observed >= 3
  \/ from # "failed_closed" /\ to = "failed_closed"

Transition ==
  \E to \in DOMAIN Opened \cup {"closed_for_R0_to_Rtransit", "closed_for_Rtransit_to_Rfinal",
                                "closed_for_c1_Rtransit_to_Rfinal", "failed_closed"} :
    /\ Legal(guard, to)
    /\ guard' = to
    /\ UNCHANGED <<head, observed, represented, guarded>>

Allows(g) == guarded => guard \in DOMAIN Opened /\ Opened[guard] = g

Represent(d) ==
  LET g == represented[d] + 1 IN
  /\ g <= observed
  /\ Allows(g)
  /\ represented' = [represented EXCEPT ![d] = g]
  /\ UNCHANGED <<head, observed, guard, guarded>>

LawNext == Resolve \/ Observe \/ Transition \/ \E d \in Domains : Represent(d)

LawSpec == LawInit /\ [][LawNext]_lawVars

-----------------------------------------------------------------------------
(* What the law gives, for every set of domains: no domain is ahead of what has been       *)
(* observed, and where the run has a guard, no domain is more than one generation behind   *)
(* another.                                                                                *)

Closed == {"closed_for_R0_to_Rtransit", "closed_for_Rtransit_to_Rfinal",
           "closed_for_c1_Rtransit_to_Rfinal", "failed_closed"}

LawTypeOK ==
  /\ head \in 1..3 /\ observed \in 1..3
  /\ guard \in DOMAIN Opened \cup Closed
  /\ represented \in [Domains -> 0..3]
  /\ guarded \in BOOLEAN

\* Nothing is represented that has not been observed, nothing observed that has not been
\* resolved: the record is first, its proof second, its representations last.
NeverAhead == observed <= head /\ \A d \in Domains : represented[d] <= observed

\* Under a guard no domain ever represents a record that another has not at least the
\* predecessor of.
InStep == guarded => \A d, e \in Domains : represented[d] <= represented[e] + 1

\* What each state of the guard says of the domains.  A guard that has failed closed says
\* only what held when it failed.
Within(low, high) == \A d \in Domains : represented[d] \in low..high
GuardFits ==
  guarded =>
    /\ guard = "open_for_R0" => Within(0, 1)
    /\ guard = "closed_for_R0_to_Rtransit" => All(1)
    /\ guard = "open_for_Rtransit" => Within(1, 2)
    /\ guard = "closed_for_c1_Rtransit_to_Rfinal" => All(1)
    /\ guard = "closed_for_Rtransit_to_Rfinal" => All(2)
    /\ guard = "open_for_Rfinal" => Within(2, 3)

IInv == LawTypeOK /\ NeverAhead /\ GuardFits /\ InStep

-----------------------------------------------------------------------------

LEMMA InitIInv == LawInit => IInv
  BY DEF LawInit, IInv, LawTypeOK, NeverAhead, GuardFits, InStep, Within, Opened, Closed

\* The record or its observation moves: no domain and no guard does.
LEMMA RecordIInv == IInv /\ (Resolve \/ Observe) => IInv'
<1> SUFFICES ASSUME IInv, Resolve \/ Observe PROVE IInv'
  OBVIOUS
<1> USE DEF IInv, LawTypeOK, NeverAhead, GuardFits, InStep, Within, All
<1>1. CASE Resolve
  BY <1>1 DEF Resolve
<1>2. CASE Observe
  BY <1>2 DEF Observe
<1>3. QED
  BY <1>1, <1>2

\* A guard goes only where the domains allow.
LEMMA TransitionIInv == IInv /\ Transition => IInv'
<1> SUFFICES ASSUME IInv, Transition PROVE IInv'
  OBVIOUS
<1>1. PICK to \in DOMAIN Opened \cup Closed :
        Legal(guard, to) /\ guard' = to /\ UNCHANGED <<head, observed, represented, guarded>>
  BY DEF Transition, Closed
<1>2. LawTypeOK' /\ NeverAhead' /\ InStep'
  BY <1>1 DEF IInv, LawTypeOK, NeverAhead, InStep
<1>3. GuardFits'
  <2> SUFFICES ASSUME guarded PROVE GuardFits'
    BY <1>1 DEF GuardFits
  <2>1. \/ to = "closed_for_R0_to_Rtransit" /\ All(1)
        \/ to = "open_for_Rtransit" /\ All(1)
        \/ to = "closed_for_Rtransit_to_Rfinal" /\ All(2)
        \/ to = "closed_for_c1_Rtransit_to_Rfinal" /\ All(1)
        \/ to = "open_for_Rfinal" /\ All(2)
        \/ to = "failed_closed"
    BY <1>1 DEF Legal
  <2>2. (All(1) => Within(1, 2)) /\ (All(2) => Within(2, 3))
    BY DEF All, Within
  <2>3. QED
    BY <1>1, <2>1, <2>2 DEF GuardFits, All, Within
<1>4. QED
  BY <1>2, <1>3 DEF IInv

\* A domain takes the next generation: an open guard has every domain at it or just
\* before it, so the step leaves them so.
LEMMA RepresentIInv == ASSUME NEW d \in Domains, IInv, Represent(d) PROVE IInv'
<1> DEFINE g == represented[d] + 1
<1>1. g \in 1..3 /\ g <= observed /\ Allows(g)
  BY DEF Represent, IInv, LawTypeOK, NeverAhead
<1>2. /\ represented' \in [Domains -> 0..3]
      /\ \A e \in Domains : represented'[e] = IF e = d THEN g ELSE represented[e]
      /\ UNCHANGED <<head, observed, guard, guarded>>
  BY <1>1 DEF Represent, IInv, LawTypeOK
<1>3. LawTypeOK' /\ NeverAhead'
  BY <1>1, <1>2 DEF IInv, LawTypeOK, NeverAhead
<1>4. ASSUME guarded PROVE Within(g - 1, g) /\ guard \in DOMAIN Opened /\ Opened[guard] = g
  <2>1. guard \in DOMAIN Opened /\ Opened[guard] = g
    BY <1>1, <1>4 DEF Allows
  <2>2. DOMAIN Opened = {"open_for_R0", "open_for_Rtransit", "open_for_Rfinal"}
    BY DEF Opened
  <2>3. \/ guard = "open_for_R0" /\ g = 1
        \/ guard = "open_for_Rtransit" /\ g = 2
        \/ guard = "open_for_Rfinal" /\ g = 3
    BY <2>1, <2>2 DEF Opened
  <2>4. QED
    BY <1>4, <2>1, <2>3 DEF IInv, GuardFits, Within
<1>5. ASSUME guarded PROVE \A e \in Domains : represented'[e] \in (g - 1)..g
  BY <1>1, <1>2, <1>4, <1>5 DEF Within
<1>6. GuardFits'
  <2> SUFFICES ASSUME guarded PROVE GuardFits'
    BY <1>2 DEF GuardFits
  <2>1. \/ guard = "open_for_R0" /\ g = 1
        \/ guard = "open_for_Rtransit" /\ g = 2
        \/ guard = "open_for_Rfinal" /\ g = 3
    BY <1>4 DEF Opened
  <2>2. QED
    BY <1>2, <1>5, <2>1 DEF GuardFits, Within
<1>7. InStep'
  BY <1>1, <1>2, <1>5 DEF InStep
<1>8. QED
  BY <1>3, <1>6, <1>7 DEF IInv

LEMMA NextIInv == IInv /\ [LawNext]_lawVars => IInv'
<1> SUFFICES ASSUME IInv, [LawNext]_lawVars PROVE IInv'
  OBVIOUS
<1>1. CASE UNCHANGED lawVars
  BY <1>1 DEF lawVars, IInv, LawTypeOK, NeverAhead, GuardFits, InStep, Within, All
<1>2. QED
  BY <1>1, RecordIInv, TransitionIInv, RepresentIInv DEF LawNext

\* Every variable of the law has its type, for any set of domains.
THEOREM LawTyped == LawSpec => []LawTypeOK
<1>1. IInv => LawTypeOK
  BY DEF IInv
<1>2. QED
  BY <1>1, InitIInv, NextIInv, PTL DEF LawSpec

\* Canonical first, observed second, represented last, guarded or not: a domain never
\* shows a record before its observation (Resolve, Observe and Represent of the harness).
THEOREM RepresentedLast == LawSpec => []NeverAhead
<1>1. IInv => NeverAhead
  BY DEF IInv
<1>2. QED
  BY <1>1, InitIInv, NextIInv, PTL DEF LawSpec

\* With its guard in use no domain is ever two generations from another, for any number of
\* domains and wherever the guard has failed closed (PhysicalCurrentHeadGuard).
THEOREM DomainsInStep == LawSpec => []InStep
<1>1. IInv => InStep
  BY DEF IInv
<1>2. QED
  BY <1>1, InitIInv, NextIInv, PTL DEF LawSpec

=============================================================================
