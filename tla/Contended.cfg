CONSTANTS
    Paths = {p, q}
    Blobs = {x}
    Absent = Absent
    Garbled = Garbled
    Inside <- NestedPaths
    NotJson = NotJson
    Runs = {r1, r2}
    User = User
    Nobody = Nobody
    Branches = {main, topic}
    Modes = {"no_review"}
    MaxCommits = 2
    SingleCommit = FALSE
    MaxEntries = 2
    Replies <- PlausibleReplies
    MaxExternal = 1
    MaxRetries = 0
    Faults = TRUE
SYMMETRY InterchangeableRunsAndBranches
SPECIFICATION Spec
INVARIANTS
    LockDiscipline
    AllOrNothing
    PublishesWhatIsStaged
    IInv
PROPERTIES
    PublishesAtomically
