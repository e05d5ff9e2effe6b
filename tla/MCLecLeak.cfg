CONSTANTS
  Labels = {"domain_A", "domain_B", "replacement"}
  Cases <- LeakCases
  MishapBound = 1
  CalmCases = {}
SPECIFICATION TracedSpec
INVARIANT NothingLeftRunning
