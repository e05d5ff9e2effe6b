\* One process under an arbitrary parent: the processes share no state. Two lines out of the
\* ordinary put any two mistakes of a parent together: an arm left out and a census piped
\* behind the pending replacement.
SPECIFICATION ClientSpec
CONSTANTS
  Labels = {"domain_A"}
  Launches = {"W1", "F13", "F15", "F16a", "F16b"}
  OddBound = 2
  PipeBound = 2
CHECK_DEADLOCK FALSE
INVARIANTS
  SucceedsOnce
  RepresentationWhole
  OldPairUntilSuccessor
