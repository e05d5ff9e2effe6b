\* One process under an arbitrary client: the processes share no state, so a second one would
\* only multiply the states. Six commands reach every branch: bind, inspect, arm, refresh,
\* inspect again, and one too many.
SPECIFICATION ClientSpec
CONSTANTS
  Domains = {domain_A}
  FaultTarget = domain_A
  CommandBound = 6
  PipeBound = 2
CHECK_DEADLOCK FALSE
INVARIANTS
  ReceiptsOnceInOrder
