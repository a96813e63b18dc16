CONSTANTS
    Names = {p, q, z}
    NotJson = NotJson
    MaxEntries = 2
    MaxFiles = 3
    Limits = {1, 2}
    MaxSubjectChars = 8
    MaxMessageBytes = 13
    MaxSubject = 8
    MaxLine = 4
    MaxLines = 5
    Unset = Unset
    NotUnicode = NotUnicode
    Malformed = Malformed
    Refused = Refused
    MaxUsize = 200000
    MaxTokenBytes = 2
    NoToken = NoToken
    NotGiven = NotGiven
    MaxBytes = 6
    NoPrompt = NoPrompt
    MaxPieces = 6
    Unshown = Unshown
    MaxLen = 13
    MaxBudget = 14
    Markers = {0, 1, 3}
    MaxStaged = 3
    DiffLengths = {0, 2, 15}
    StagedLengths = {15}
    Budgets = {1, 2, 5, 13, 24}
    SourceWeights = {1, 3}
    LowWeights = {1, 2}
    SmallDiffs = {3}
    FileContexts = {3, 20}
    FileMarker = 1
SYMMETRY Interchangeable
SPECIFICATION Spec
INVARIANTS
    AcceptsExactlyPartitions
    SubjectsAreConventional
    MessagesHoldNoTrailer
    CeilingLeavesHeadroom
    ChosenSettingsHold
    TokensAreWholeFiles
    EvidenceIsVerbatim
    ExcerptFits
    ExcerptKeepsBothEnds
    EvidenceWithinBudget
    AllocationIsFair
CHECK_DEADLOCK FALSE
