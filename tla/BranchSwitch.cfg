CONSTANTS
    Paths = {p, q}
    Blobs = {x}
    Absent = Absent
    Garbled = Garbled
    Inside <- FlatPaths
    NotJson = NotJson
    Runs = {r1}
    User = User
    Nobody = Nobody
    Branches = {main, topic}
    Modes = {"no_review"}
    MaxCommits = 2
    SingleCommit = FALSE
    MaxEntries = 2
    Replies <- PlausibleReplies
    MaxExternal = 1
    MaxRetries = 0
    Faults = FALSE
SPECIFICATION Spec
PROPERTIES
    PublishesToCapturedBranch
