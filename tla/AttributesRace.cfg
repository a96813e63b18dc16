CONSTANTS
    None = None
    Absent = Absent
    Texts <- MCTexts
    LowValue = {1}
    Contents <- MCContents
    Binaries = {"b"}
    Links = {"l"}
    Configs <- MCConfigs
    Commits = 2
    MaxMoves = 1
    MaxCommits = 0
    CommitPaths = {1}
    MaxPaths = 0
SPECIFICATION MCSpec
INVARIANT
    RecordIsReproducible
CHECK_DEADLOCK FALSE
