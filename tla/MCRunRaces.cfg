CONSTANTS
  r1 = r1
  r2 = r2
  dm = dm
  group = group
  e1 = e1
  e2 = e2
  e3 = e3
  w1 = w1
  None = None
  Runs <- OneRun
  Execs <- ThreeSlots
  Threads <- OneThread
  BotThread = dm
  ThreadOf <- InOneThread
  Workers <- OneWorker
  WorkerOf <- InOneWorker
  MaxDetours = 2
SYMMETRY LikeSlots
SPECIFICATION Spec
INVARIANTS
  TypeOK
  FencesAndLocks
  OneHolderPerRun
  CompletedByOneAttempt
  ActiveRunHasItsMessage
  ClearedRunsStaySilent
  PausedRunIsAnswerable
PROPERTIES
  SettledIsFinal
  KeepsPromise
CHECK_DEADLOCK FALSE
