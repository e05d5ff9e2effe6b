-------------------- MODULE MCExternalEvidenceArbitration --------------------
(***************************************************************************)
(* The two inputs of the frozen domain table, and presentations of up to   *)
(* three members: a missing, a doubled and a superfluous one.              *)
(***************************************************************************)
EXTENDS ExternalEvidenceArbitration

MCRank == [i \in Inputs |-> IF i = "A" THEN 1 ELSE 2]

=============================================================================
