----------------------- MODULE ExternalArbitrationLaw -----------------------
(***************************************************************************)
(* What concurrent external evidence may do to the canonical record: one   *)
(* sealed set of inputs is adjudicated in one step, the first of them in   *)
(* the canonical order gets the shared slot, and all of them are spent.    *)
(***************************************************************************)
EXTENDS Naturals

CONSTANTS Inputs,     \* the input ids of the frozen domain table
          Rank        \* their canonical order, a number for each: the byte order

None == "none"   \* no owner; not an input

VARIABLES owner,   \* current_causal_state.shared_slot.allocation_owner
          spent,   \* the adjudicated input and physical event ids
          ledger   \* the inputs whose outcome the ledger records

First(S) == CHOOSE i \in S : \A j \in S : Rank[i] <= Rank[j]

\* The fixtures of the proof: both inputs, or one of them.
Fixtures == {Inputs} \cup {{i} : i \in Inputs}

Init == owner = None /\ spent = {} /\ ledger = {}

Adjudicate(S) ==
  /\ spent = {}
  /\ owner' = First(S)
  /\ spent' = S
  /\ ledger' = S

Next == \E S \in Fixtures : Adjudicate(S)

Spec == Init /\ [][Next]_<<owner, spent, ledger>>

=============================================================================
