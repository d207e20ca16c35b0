CONSTANTS
  MaxRuns = 1
  MaxEvents = 6
  MaxDetours = 1
SPECIFICATION Spec
INVARIANTS
  ViewInv
  AgreesWhenCaughtUp
  NothingMissing
PROPERTIES
  RefreshKeepsMessages
  RefreshNeverRevives
CHECK_DEADLOCK FALSE
