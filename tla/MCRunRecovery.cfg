CONSTANTS
  r1 = r1
  r2 = r2
  dm = dm
  group = group
  e1 = e1
  e2 = e2
  e3 = e3
  w1 = w1
  None = None
  Runs <- TwoRuns
  Execs <- OneSlot
  Threads <- TwoThreads
  BotThread = dm
  ThreadOf <- InTwoThreads
  Workers <- OneWorker
  WorkerOf <- InOneWorker
  MaxDetours = 1
SPECIFICATION FairSpec
PROPERTIES
  UnfinishedRunIsServed
CHECK_DEADLOCK FALSE
