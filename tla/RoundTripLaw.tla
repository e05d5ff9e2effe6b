---------------------------- MODULE RoundTripLaw ----------------------------
(***************************************************************************)
(* What a live round trip promises of its claims, whatever becomes of its  *)
(* processes: a canonical head that moves once, worlds that may change by  *)
(* themselves, and claims about worlds, each of which is true while it is  *)
(* made.                                                                   *)
(***************************************************************************)

CONSTANT Domains

VARIABLES
  head,     \* the canonical head, "R0" or "R1"
  shown,    \* the record each domain's world shows; "other" when it shows no record
  claim     \* the claim made of each domain: "none", "current" or "stale"

lawVars == <<head, shown, claim>>

Init ==
  /\ head = "R0"
  /\ shown = [d \in Domains |-> "other"]
  /\ claim = [d \in Domains |-> "none"]

\* Any number of claims is withdrawn.
Withdraw ==
  /\ claim' \in {[d \in Domains |-> IF d \in W THEN "none" ELSE claim[d]] : W \in SUBSET Domains}
  /\ UNCHANGED <<head, shown>>

\* A world may change while it is not said to be current.
Change(d) ==
  /\ claim[d] # "current"
  /\ \E r \in {"R0", "R1", "other"} : shown' = [shown EXCEPT ![d] = r]
  /\ UNCHANGED <<head, claim>>

ClaimCurrent(d) ==
  /\ shown[d] = head
  /\ claim' = [claim EXCEPT ![d] = "current"]
  /\ UNCHANGED <<head, shown>>

\* Only a superseded record is stale.
ClaimStale(d) ==
  /\ head = "R1"
  /\ claim' = [claim EXCEPT ![d] = "stale"]
  /\ UNCHANGED <<head, shown>>

Publish ==
  /\ head = "R0" /\ head' = "R1"
  /\ \A d \in Domains : claim[d] = "none" /\ shown[d] = "R0"
  /\ UNCHANGED <<shown, claim>>

Next == Withdraw \/ Publish \/ \E d \in Domains : Change(d) \/ ClaimCurrent(d) \/ ClaimStale(d)

Spec == Init /\ [][Next]_lawVars

-----------------------------------------------------------------------------
(* What the law is for: its claims are true while they are made, and the   *)
(* head moves once, under no claim.  LiveEvidenceCase_proofs proves both,  *)
(* and that the live case implements the law.                              *)

\* A domain said to be current shows the canonical head, and one said to be stale is
\* said so of a superseded record.
ClaimsTrue ==
  \A d \in Domains :
    /\ claim[d] = "current" => shown[d] = head
    /\ claim[d] = "stale" => head = "R1"

\* The head moves at most once, while no claim is made and every world shows R0.
MovesUnclaimed ==
  [][ head' # head =>
        /\ head = "R0" /\ head' = "R1"
        /\ \A d \in Domains : claim[d] = "none" /\ shown[d] = "R0" ]_lawVars

=============================================================================
