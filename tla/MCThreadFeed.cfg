CONSTANTS
  w1 = w1
  w2 = w2
  c1 = c1
  None = None
  Writers <- TwoWriters
  Clients <- OneClient
  BatchSize = 1
  MaxEvents = 2
  MaxDetours = 2
SPECIFICATION FairSpec
INVARIANTS
  FeedInv
  NoLostWakeup
PROPERTIES
  KeepsPromise
  EveryEventArrives
CHECK_DEADLOCK FALSE
