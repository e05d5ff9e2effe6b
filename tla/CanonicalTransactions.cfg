\* Every scenario, every proposal.
\* A run stops when its driver's plan is used up.
CHECK_DEADLOCK FALSE
SPECIFICATION Spec
INVARIANTS
  ResourcesAccounted
  LeasesFollowTraversal
  CausesDecideOutcome
  EvidenceSpentOnce
