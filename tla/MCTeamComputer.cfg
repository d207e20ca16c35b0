CONSTANTS
  b1 = b1
  b2 = b2
  m1 = m1
  m2 = m2
  None = None
  Bots <- TwoBots
  Scribes = {}
  Machines <- TwoMachines
  MaxRequests = 1
  MaxFaults = 1
SYMMETRY LikeBotsAndMachines
SPECIFICATION Spec
INVARIANTS
  TypeOK
  OneTeardown
  LeasesAreReturned
PROPERTIES
  SparesWorkers
CHECK_DEADLOCK FALSE
