CONSTANTS
    None = None
    Absent = Absent
    Texts <- MCTexts
    LowValue = {1}
    Contents <- MCContents
    Binaries = {"b"}
    Links = {"l"}
    Configs <- MCConfigs
    Commits = 3
    MaxMoves = 2
    MaxCommits = 4
    CommitPaths = {1, 2, 3}
    MaxPaths = 4
SPECIFICATION MCSpec
INVARIANTS
    WindowIsWholeHistory
    NoInternalError
    SampleIdsDiffer
    RecordsAreAccepted
    GroupsAreComponents
    ValidRecordsScore
    PairCountsAreByPair
    ScoresAgree
    SegmentsAddUp
PROPERTIES
    NeverOverwrites
CHECK_DEADLOCK FALSE
