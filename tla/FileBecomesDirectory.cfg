CONSTANTS
    Paths = {p, q}
    Blobs = {x}
    Absent = Absent
    Garbled = Garbled
    Inside <- NestedPaths
    NotJson = NotJson
    Runs = {r1}
    User = User
    Nobody = Nobody
    Branches = {main}
    Modes = {"review"}
    MaxCommits = 2
    SingleCommit = FALSE
    MaxEntries = 2
    Replies <- PlausibleReplies
    MaxExternal = 0
    MaxRetries = 0
    Faults = FALSE
SPECIFICATION Spec
INVARIANTS
    ApprovedPlanIsCommitted
