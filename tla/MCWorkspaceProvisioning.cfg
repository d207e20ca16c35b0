SPECIFICATION Spec
CONSTANTS
    c1 = c1
    c2 = c2
    Calls <- TwoCalls
    Steps <- TenSteps
    MaxRuns = 3
    MaxFaults = 3
SYMMETRY LikeCalls
CONSTRAINT Bounded
INVARIANTS
    TypeOK
    CompleteIsWhole
    KeysAreKnown
    FailureLeavesNothing
    RunningIsLive
PROPERTIES
    UndoesItsOwn
CHECK_DEADLOCK FALSE
