CONSTANTS
  MaxRuns = 1
  MaxEvents = 3
  MaxDetours = 0
SPECIFICATION Spec
INVARIANTS
  StoppedStaysStopped
CHECK_DEADLOCK FALSE
