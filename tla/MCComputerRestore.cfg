\* A machine is lost between two runs of one bot.
SPECIFICATION Spec
CONSTANTS
  Bots <- TwoBots
  Machines <- TwoMachines
  Scribes = {b1}
  b1 = b1  b2 = b2  m1 = m1  m2 = m2
  None = None
  MaxRequests = 0
  MaxFaults = 1
PROPERTIES WorkspaceBeforeUse
CHECK_DEADLOCK FALSE
