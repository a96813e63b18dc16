CONSTANTS
    MaxPromptBytes = 4000
    System = 1000
    PlanPrompts = {1000, 1657, 1658, 1976, 1977, 3001}
    Diagnostics = {2, 512, 513}
    Lengths = {10, 11}
    Unknown = Unknown
    Missing = Missing
    Usages <- SmallUsages
    MaxU64 = 7
    MaxResponse = 10
    MaxRetries = 2
SPECIFICATION Spec
INVARIANTS
    IInv
    AcceptedPromptsCanBeRepaired
    RequestsBounded
    RetriesStayPossible
    UsageIsWhatWasHeard
CHECK_DEADLOCK FALSE
