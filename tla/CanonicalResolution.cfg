\* One runtime and a fork of it.
SPECIFICATION Spec
CONSTANTS
  Runtimes = {"first", "second"}
  First = "first"
  InputBound = 2
INVARIANTS
  OneHistory
  LedgerExplains
PROPERTIES
  Settles
CHECK_DEADLOCK FALSE
