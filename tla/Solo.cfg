CONSTANTS
    Paths = {p, q}
    Blobs = {x, y}
    Absent = Absent
    Garbled = Garbled
    Inside <- FlatPaths
    NotJson = NotJson
    Runs = {r1}
    User = User
    Nobody = Nobody
    Branches = {main, topic}
    Modes = {"show_config", "show_prompt", "dry_run", "no_review", "review"}
    MaxCommits = 2
    SingleCommit = FALSE
    MaxEntries = 2
    Replies <- PlausibleReplies
    MaxExternal = 2
    MaxRetries = 1
    Faults = TRUE
SYMMETRY Interchangeable
SPECIFICATION Spec
INVARIANTS
    TypeOK
    CommitsFollowPlan
    RefusedOnlyIfDisturbed
