CONSTANTS
    Paths = {p}
    Blobs = {x}
    Absent = Absent
    Garbled = Garbled
    Inside <- FlatPaths
    NotJson = NotJson
    Runs = {r1, r2}
    User = User
    Nobody = Nobody
    Branches = {main}
    Modes = {"no_review"}
    MaxCommits = 2
    SingleCommit = FALSE
    MaxEntries = 1
    Replies <- PlausibleReplies
    MaxExternal = 1
    MaxRetries = 0
    Faults = TRUE
SPECIFICATION FairSpec
PROPERTIES
    UnattendedRunsEnd
    LockGivenBack
