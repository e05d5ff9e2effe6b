\* Every scene, with one command killed at any point and one edit of the sources.
SPECIFICATION Spec
CONSTANTS
  CrashBound = 1
  EditBound = 1
INVARIANTS
  ReleaseIsTrue
  ReleaseIsClosed
  NothingLeftBehind
PROPERTIES
  Succession
  NothingLost
CHECK_DEADLOCK FALSE
