CONSTANTS
  A = domain_A
  B = domain_B
  Spare = replacement
  Slots = {domain_A, domain_B, replacement}
  InRoleA = {domain_A}
  Cases <- AllCases
  Mishaps = {"crash", "timeout", "io", "engine"}

SPECIFICATION HarnessSpec
CHECK_DEADLOCK FALSE

INVARIANTS
  OneBody
  SaysWhatItShows
  DispositionsMatchWorlds
  EvidenceIsOwn
  NoneLeftRunning

PROPERTIES
  ImplementsOccupancyLaw
  CaseEnds
