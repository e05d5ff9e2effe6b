-------------------------- MODULE CurrentHeadGuard --------------------------
(***************************************************************************)
(* The law of the physical current-head guard, for any set of physical     *)
(* domains: the canonical head moves once from H0 to H1, whatever the      *)
(* guard says; the guard only decides which disposable representation may  *)
(* be claimed as current, and when a domain may be refreshed.              *)
(*                                                                         *)
(* The guard operations are the methods of PhysicalCurrentHeadGuard        *)
(* (simultaneous_physical_domains.py).  The actions on the head, on the    *)
(* observation file and on the representations are what those methods are  *)
(* called around; SimultaneousPhysicalDomains gives them in detail and is  *)
(* shown to implement this module.                                         *)
(*                                                                         *)
(* Operators named ...Mutated are the actions as a plausible mistake would *)
(* have them; they are in no specification and show that the properties    *)
(* below notice the mistake.                                               *)
(***************************************************************************)
EXTENDS TLAPS

CONSTANT Domains                   \* DOMAIN_ROLES

ASSUME DomainsAssumption == Domains # {}

VARIABLES
  guard,        \* PhysicalCurrentHeadGuard.state
  verified,     \* PhysicalCurrentHeadGuard.verified_head # None
  stale,        \* PhysicalCurrentHeadGuard.stale_domains
  head,         \* the head of the canonical record
  observed,     \* the observation of H1 is published, reread and reverified
  bypassed,     \* the head moved while the guard was still open for H0
  represented,  \* the head each domain's process represents
  claim         \* the head each domain was last accepted as synchronized with

vars == <<guard, verified, stale, head, observed, bypassed, represented, claim>>
guardVars == <<guard, verified, stale>>
headVars == <<head, observed, bypassed>>
domainVars == <<represented, claim>>

Heads == {"H0", "H1"}
GuardStates == {"open_for_H0", "closed_for_H0_to_H1", "open_for_H1", "failed_closed"}

OpenFor(h) == IF h = "H0" THEN "open_for_H0" ELSE "open_for_H1"

TypeOK ==
  /\ guard \in GuardStates
  /\ verified \in BOOLEAN
  /\ stale \subseteq Domains
  /\ head \in Heads
  /\ observed \in BOOLEAN
  /\ bypassed \in BOOLEAN
  /\ represented \in [Domains -> Heads \cup {"none"}]
  /\ claim \in [Domains -> Heads \cup {"none"}]

Init ==
  /\ guard = "open_for_H0"
  /\ verified = FALSE
  /\ stale = {}
  /\ head = "H0"
  /\ observed = FALSE
  /\ bypassed = FALSE
  /\ represented = [d \in Domains |-> "none"]
  /\ claim = [d \in Domains |-> "none"]

-----------------------------------------------------------------------------
(* The guard machine *)

CloseForH0ToH1 ==
  /\ guard = "open_for_H0"
  /\ guard' = "closed_for_H0_to_H1"
  /\ UNCHANGED <<verified, stale, headVars, domainVars>>

VerifyH1Observation ==
  /\ guard = "closed_for_H0_to_H1"
  /\ ~verified
  /\ observed
  /\ verified' = TRUE
  /\ UNCHANGED <<guard, stale, headVars, domainVars>>

\* The one call passes the constants H0 and H1 for the represented and the
\* observed head; the domain's own representation is not consulted.
ClassifyStale(d) ==
  /\ guard = "closed_for_H0_to_H1"
  /\ verified
  /\ d \notin stale
  /\ stale' = stale \cup {d}
  /\ UNCHANGED <<guard, verified, headVars, domainVars>>

\* One domain is enough.
OpenForH1Mutated ==
  /\ guard = "closed_for_H0_to_H1"
  /\ verified
  /\ stale # {}
  /\ guard' = "open_for_H1"
  /\ UNCHANGED <<verified, stale, headVars, domainVars>>

OpenForH1 ==
  /\ guard = "closed_for_H0_to_H1"
  /\ verified
  /\ stale = Domains
  /\ guard' = "open_for_H1"
  /\ UNCHANGED <<verified, stale, headVars, domainVars>>

FailClosed ==
  /\ guard # "failed_closed"
  /\ guard' = "failed_closed"
  /\ UNCHANGED <<verified, stale, headVars, domainVars>>

\* The record of staleness is taken for the permission.
RefreshEligibleMutated(d) == d \in stale

RefreshEligible(d) == guard = "open_for_H1" /\ d \in stale

-----------------------------------------------------------------------------
(* What the guard is kept around *)

\* The canonical transaction reads no guard: it is enabled in every state.
CommitHead ==
  /\ head = "H0"
  /\ head' = "H1"
  /\ bypassed' = (guard = "open_for_H0")
  /\ UNCHANGED <<guardVars, observed, domainVars>>

PublishObservation ==
  /\ head = "H1"
  /\ ~observed
  /\ observed' = TRUE
  /\ UNCHANGED <<guardVars, head, bypassed, domainVars>>

Materialize(d) ==
  /\ represented[d] = "none"
  /\ represented' = [represented EXCEPT ![d] = "H0"]
  /\ UNCHANGED <<guardVars, headVars, claim>>

Refresh(d) ==
  /\ RefreshEligible(d)
  /\ represented[d] = "H0"
  /\ represented' = [represented EXCEPT ![d] = "H1"]
  /\ UNCHANGED <<guardVars, headVars, claim>>

\* The represented head is not compared.
AcceptMutated(d, h) ==
  /\ guard = OpenFor(h)
  /\ claim' = [claim EXCEPT ![d] = h]
  /\ UNCHANGED <<guardVars, headVars, represented>>

\* head_disposition(..., head_state = "synchronized")
Accept(d, h) ==
  /\ represented[d] = h
  /\ guard = OpenFor(h)
  /\ claim' = [claim EXCEPT ![d] = h]
  /\ UNCHANGED <<guardVars, headVars, represented>>

\* head_disposition with any other head state
Withdraw(d) ==
  /\ claim' = [claim EXCEPT ![d] = "none"]
  /\ UNCHANGED <<guardVars, headVars, represented>>

Next ==
  \/ CloseForH0ToH1
  \/ VerifyH1Observation
  \/ \E d \in Domains : ClassifyStale(d)
  \/ OpenForH1
  \/ FailClosed
  \/ CommitHead
  \/ PublishObservation
  \/ \E d \in Domains : Materialize(d)
  \/ \E d \in Domains : Refresh(d)
  \/ \E d \in Domains, h \in Heads : Accept(d, h)
  \/ \E d \in Domains : Withdraw(d)

Spec == Init /\ [][Next]_vars

-----------------------------------------------------------------------------
(* Properties *)

\* A claim counts while the guard is open for the head it names.
InForce(d, h) == claim[d] = h /\ guard = OpenFor(h)

\* A claim in force is about what the process shows, and about the canonical
\* head, except in the guard-open control, whose H0 claims outlive H0 until the
\* guard is failed closed.  An H1 claim has no exception.  (head_disposition
\* never reads the canonical head: only the order of the guard calls gives it.)
ClaimsCurrent ==
  \A d \in Domains, h \in Heads :
    InForce(d, h) => /\ represented[d] = h
                     /\ head = h \/ (h = "H0" /\ bypassed)

\* No domain represents H1 before H1 is committed, durably observed, verified
\* and every domain, not only this one, is recorded stale
\* (open_for_h1, assert_refresh_eligible).
RefreshedAfterStale ==
  \A d \in Domains :
    represented[d] = "H1" =>
      head = "H1" /\ observed /\ verified /\ stale = Domains

\* After fail_closed there is no repair: the guard keeps its state, no domain is
\* refreshed and none is newly accepted as synchronized (_reject_transition,
\* assert_refresh_eligible, the guard test of head_disposition).
FailedClosedIsFinal ==
  [][ guard = "failed_closed" =>
        /\ UNCHANGED guardVars
        /\ \A d \in Domains : /\ represented'[d] = "H1" => represented[d] = "H1"
                               /\ claim'[d] \in {claim[d], "none"} ]_vars

-----------------------------------------------------------------------------
(* Proofs, for every set of domains *)

\* How far the guard has come decides what is recorded and what is known.
GuardInv ==
  /\ guard = "open_for_H0" => ~verified
  /\ guard = "open_for_H1" => stale = Domains
  /\ stale # {} => verified
  /\ verified => observed
  /\ observed => head = "H1"
  /\ guard = "open_for_H0" /\ head = "H1" => bypassed

\* What a domain represents and what it was accepted for, against the guard.
DomainInv ==
  \A d \in Domains :
    /\ represented[d] = "H1" =>
         verified /\ stale = Domains /\ guard \in {"open_for_H1", "failed_closed"}
    /\ claim[d] # "none" => represented[d] # "none"
    /\ claim[d] = "H1" => represented[d] = "H1"

\* Neither safety invariant is inductive by itself: both rest on the order in
\* which the guard is closed, verified, classified and opened.
IInv == TypeOK /\ GuardInv /\ DomainInv

-----------------------------------------------------------------------------

LEMMA InitIInv == Init => IInv
  BY DEF Init, IInv, TypeOK, GuardInv, DomainInv, Heads, GuardStates

LEMMA NextTypeOK == TypeOK /\ [Next]_vars => TypeOK'
<1> SUFFICES ASSUME TypeOK, [Next]_vars PROVE TypeOK'
  OBVIOUS
<1> USE DEF TypeOK, Heads, GuardStates, guardVars, headVars, domainVars
<1>1. CASE CloseForH0ToH1       BY <1>1 DEF CloseForH0ToH1
<1>2. CASE VerifyH1Observation  BY <1>2 DEF VerifyH1Observation
<1>3. CASE \E d \in Domains : ClassifyStale(d)  BY <1>3 DEF ClassifyStale
<1>4. CASE OpenForH1            BY <1>4 DEF OpenForH1
<1>5. CASE FailClosed           BY <1>5 DEF FailClosed
<1>6. CASE CommitHead           BY <1>6 DEF CommitHead
<1>7. CASE PublishObservation   BY <1>7 DEF PublishObservation
<1>8. CASE \E d \in Domains : Materialize(d)  BY <1>8 DEF Materialize
<1>9. CASE \E d \in Domains : Refresh(d)      BY <1>9 DEF Refresh
<1>10. CASE \E d \in Domains, h \in Heads : Accept(d, h)  BY <1>10 DEF Accept
<1>11. CASE \E d \in Domains : Withdraw(d)    BY <1>11 DEF Withdraw
<1>12. CASE UNCHANGED vars      BY <1>12 DEF vars
<1>13. QED
  BY <1>1, <1>2, <1>3, <1>4, <1>5, <1>6, <1>7, <1>8, <1>9, <1>10, <1>11, <1>12 DEF Next

LEMMA NextGuardInv == IInv /\ [Next]_vars => GuardInv'
<1> SUFFICES ASSUME IInv, [Next]_vars PROVE GuardInv'
  OBVIOUS
<1> USE DEF IInv, TypeOK, GuardInv, Heads, GuardStates, guardVars, headVars, domainVars
<1>1. CASE CloseForH0ToH1       BY <1>1 DEF CloseForH0ToH1
<1>2. CASE VerifyH1Observation  BY <1>2 DEF VerifyH1Observation
<1>3. CASE \E d \in Domains : ClassifyStale(d)  BY <1>3 DEF ClassifyStale
<1>4. CASE OpenForH1            BY <1>4 DEF OpenForH1
<1>5. CASE FailClosed           BY <1>5 DEF FailClosed
<1>6. CASE CommitHead           BY <1>6 DEF CommitHead
<1>7. CASE PublishObservation   BY <1>7 DEF PublishObservation
<1>8. CASE \E d \in Domains : Materialize(d)  BY <1>8 DEF Materialize
<1>9. CASE \E d \in Domains : Refresh(d)      BY <1>9 DEF Refresh
<1>10. CASE \E d \in Domains, h \in Heads : Accept(d, h)  BY <1>10 DEF Accept
<1>11. CASE \E d \in Domains : Withdraw(d)    BY <1>11 DEF Withdraw
<1>12. CASE UNCHANGED vars      BY <1>12 DEF vars
<1>13. QED
  BY <1>1, <1>2, <1>3, <1>4, <1>5, <1>6, <1>7, <1>8, <1>9, <1>10, <1>11, <1>12 DEF Next

\* A domain is stale only after verification, so a domain that represents H1
\* is disturbed by no later guard step but fail_closed.
LEMMA NextDomainInv == IInv /\ [Next]_vars => DomainInv'
<1> SUFFICES ASSUME IInv, [Next]_vars PROVE DomainInv'
  OBVIOUS
<1> USE DEF IInv, TypeOK, GuardInv, DomainInv, Heads, GuardStates,
            guardVars, headVars, domainVars
<1>1. CASE CloseForH0ToH1       BY <1>1 DEF CloseForH0ToH1
<1>2. CASE VerifyH1Observation  BY <1>2 DEF VerifyH1Observation
<1>3. CASE \E d \in Domains : ClassifyStale(d)  BY <1>3 DEF ClassifyStale
<1>4. CASE OpenForH1            BY <1>4 DEF OpenForH1
<1>5. CASE FailClosed           BY <1>5 DEF FailClosed
<1>6. CASE CommitHead           BY <1>6 DEF CommitHead
<1>7. CASE PublishObservation   BY <1>7 DEF PublishObservation
<1>8. CASE \E d \in Domains : Materialize(d)  BY <1>8 DEF Materialize
<1>9. CASE \E d \in Domains : Refresh(d)      BY <1>9 DEF Refresh, RefreshEligible
<1>10. CASE \E d \in Domains, h \in Heads : Accept(d, h)  BY <1>10 DEF Accept
<1>11. CASE \E d \in Domains : Withdraw(d)    BY <1>11 DEF Withdraw
<1>12. CASE UNCHANGED vars      BY <1>12 DEF vars
<1>13. QED
  BY <1>1, <1>2, <1>3, <1>4, <1>5, <1>6, <1>7, <1>8, <1>9, <1>10, <1>11, <1>12 DEF Next

\* The inductive invariant of the guard law.
THEOREM InductiveInvariant == Spec => []IInv
<1>1. Init => IInv
  BY InitIInv
<1>2. IInv /\ [Next]_vars => IInv'
  BY NextTypeOK, NextGuardInv, NextDomainInv DEF IInv
<1>3. QED
  BY <1>1, <1>2, PTL DEF Spec

\* Every variable of the guard law keeps its type.
THEOREM TypeCorrect == Spec => []TypeOK
<1>1. IInv => TypeOK
  BY DEF IInv
<1>2. QED
  BY <1>1, InductiveInvariant, PTL

\* A claim in force is about what its process represents and about the current
\* canonical head (head_disposition), for any number of domains.
THEOREM ClaimsAreCurrent == Spec => []ClaimsCurrent
<1>1. IInv => ClaimsCurrent
  BY DEF IInv, TypeOK, GuardInv, DomainInv, ClaimsCurrent, InForce, OpenFor, Heads, GuardStates
<1>2. QED
  BY <1>1, InductiveInvariant, PTL

\* No domain is refreshed before every domain is durably recorded stale
\* (open_for_h1, assert_refresh_eligible).
THEOREM RefreshFollowsStale == Spec => []RefreshedAfterStale
<1>1. IInv => RefreshedAfterStale
  BY DEF IInv, GuardInv, DomainInv, RefreshedAfterStale
<1>2. QED
  BY <1>1, InductiveInvariant, PTL

\* After fail_closed nothing is refreshed and nothing accepted any more.
THEOREM FailClosedIsFinal == Spec => FailedClosedIsFinal
<1> DEFINE Final == guard = "failed_closed" =>
                      /\ UNCHANGED guardVars
                      /\ \A d \in Domains : /\ represented'[d] = "H1" => represented[d] = "H1"
                                             /\ claim'[d] \in {claim[d], "none"}
<1>1. ASSUME TypeOK, [Next]_vars PROVE Final
  <2> USE TypeOK DEF TypeOK, Heads, GuardStates, guardVars, headVars, domainVars
  <2>1. CASE CloseForH0ToH1       BY <2>1 DEF CloseForH0ToH1
  <2>2. CASE VerifyH1Observation  BY <2>2 DEF VerifyH1Observation
  <2>3. CASE \E d \in Domains : ClassifyStale(d)  BY <2>3 DEF ClassifyStale
  <2>4. CASE OpenForH1            BY <2>4 DEF OpenForH1
  <2>5. CASE FailClosed           BY <2>5 DEF FailClosed
  <2>6. CASE CommitHead           BY <2>6 DEF CommitHead
  <2>7. CASE PublishObservation   BY <2>7 DEF PublishObservation
  <2>8. CASE \E d \in Domains : Materialize(d)  BY <2>8 DEF Materialize
  <2>9. CASE \E d \in Domains : Refresh(d)      BY <2>9 DEF Refresh, RefreshEligible
  <2>10. CASE \E d \in Domains, h \in Heads : Accept(d, h)  BY <2>10 DEF Accept, OpenFor
  <2>11. CASE \E d \in Domains : Withdraw(d)    BY <2>11 DEF Withdraw
  <2>12. CASE UNCHANGED vars      BY <2>12 DEF vars
  <2>13. QED
    BY <1>1, <2>1, <2>2, <2>3, <2>4, <2>5, <2>6, <2>7, <2>8, <2>9, <2>10, <2>11, <2>12 DEF Next
<1>2. TypeOK /\ [Next]_vars => [Final]_vars
  BY <1>1
<1>3. QED
  BY <1>2, TypeCorrect, PTL DEF Spec, FailedClosedIsFinal

=============================================================================
