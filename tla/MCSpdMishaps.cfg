SPECIFICATION HarnessSpec
CONSTANTS
  domain_A = domain_A
  domain_B = domain_B
  Domains = {domain_A, domain_B}
  FaultTarget = domain_A
  RoleOrder <- MCRoleOrder
  Cases <- MCCases
  Mishaps <- MCAllMishaps
CHECK_DEADLOCK FALSE
INVARIANTS
  RecordsMatchProcesses
  NoneLeftRunning
PROPERTIES
  ImplementsGuardLaw
  AcquisitionEnds
