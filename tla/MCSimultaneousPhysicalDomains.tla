------------------- MODULE MCSimultaneousPhysicalDomains -------------------
(***************************************************************************)
(* The two domains of the repository and its acquisitions.                 *)
(***************************************************************************)
EXTENDS SimultaneousPhysicalDomains

CONSTANTS domain_A, domain_B

MCRoleOrder == <<domain_A, domain_B>>

MCCases == AllCases

MCPublicationCases == Case("witness", {"w1_a_then_b", "w2_b_then_a"}, {"none"})

MCAllMishaps == {"crash", "timeout", "io"}
MCIo == {"io"}

=============================================================================
