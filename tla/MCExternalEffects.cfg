SPECIFICATION Spec
CONSTANTS
    e1 = e1
    e2 = e2
    mail = mail
    note = note
    m1 = m1
    n1 = n1
    None = None
    Execs <- TwoSlots
    Tools <- TwoTools
    Consequential <- OnlyMail
    Requests <- TwoRequests
    ToolOf <- MailOrNote
    InitialRules <- NoneOrBroad
    MaxStarts = 3
    MaxCalls = 2
    MaxFaults = 1
    MaxEdits = 1
INVARIANTS
    TypeOK
    PerformedOnce
    ApprovedIsReplayed
PROPERTIES
    AsTheUserSays
    KeepsPromise
SYMMETRY Slots
CHECK_DEADLOCK FALSE
