CONSTANTS
  Labels = {"domain_A", "domain_B", "replacement"}
  Cases <- KindCases
  CalmCases <- AllCases
  MishapBound = 1
SPECIFICATION TracedSpec
INVARIANTS OneCommandAtATime VerifiedAsEarned IdentifiedAreKilled
PROPERTIES PublishedOnEvidence RoundTrip EveryCaseEnds NominalOutcome
