CONSTANTS
    MaxUsize = 15
    Unshown = Unshown
    MaxLen = 1
    MaxBudget = 1
    Markers = {1}
    MaxStaged = 3
    DiffLengths = {0, 2, 12}
    StagedLengths = {3}
    Budgets = {3, 5}
    SourceWeights = {3}
    LowWeights = {1, 7}
    SmallDiffs = {3}
    FileContexts = {3}
    FileMarker = 1
SPECIFICATION EvidenceSpec
INVARIANTS
    EvidenceWithinBudget
CHECK_DEADLOCK FALSE
