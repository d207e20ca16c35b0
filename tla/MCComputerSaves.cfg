\* Nothing fails and nobody asks for anything: runs and the idle job alone.
SPECIFICATION Spec
CONSTANTS
  Bots <- TwoBots
  Machines <- TwoMachines
  Scribes = {b1, b2}
  b1 = b1  b2 = b2  m1 = m1  m2 = m2
  None = None
  MaxRequests = 0
  MaxFaults = 0
PROPERTIES StoredWorkKept
CHECK_DEADLOCK FALSE
