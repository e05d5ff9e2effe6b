SPECIFICATION Spec
CONSTANTS
  Inputs = {"A", "B"}
  Rank <- MCRank
  PresentationBound = 3
INVARIANTS
  PublishedIsLawful
  EvidenceIsSpent
PROPERTIES
  ImplementsLaw
