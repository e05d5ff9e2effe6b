SPECIFICATION Spec
CONSTANTS
  domain_A = domain_A
  domain_B = domain_B
  Domains = {domain_A, domain_B}
  FaultTarget = domain_A
  RoleOrder <- MCRoleOrder
  Cases <- MCPublicationCases
  Mishaps <- MCIo
CHECK_DEADLOCK FALSE
INVARIANT PublicationFaultFailsClosed
