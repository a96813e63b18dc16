--------------------------- MODULE DatasetExtract ---------------------------
(***************************************************************************)
(* extract and write_record of predictive_dataset.rs: one record for the   *)
(* window of commits between two revisions of a repository that others go  *)
(* on using.                                                               *)
(*                                                                         *)
(* A commit is an immutable object: its parents and its tree.  Those that  *)
(* others make meanwhile are in `history` from the start, unreferenced.    *)
(* What may change while the extractor runs is what the revisions resolve  *)
(* to, the file info/attributes and the output file, so there is one       *)
(* action per read of those; commands that only read objects are merged    *)
(* with the code around them.  Any command may fail.                       *)
(*                                                                         *)
(* Paths are numbers in the order of their bytes.  The hash of a sample id *)
(* is its preimage: `git hash-object` is taken to be injective.  The       *)
(* fields the preimage begins with are the same for all samples of one     *)
(* repository and are left out.                                            *)
(***************************************************************************)
EXTENDS CommitGroups, Baselines

CONSTANTS
    Texts,              \* the bytes of every path
    LowValue,           \* the paths is_low_value selects
    Contents,           \* what every path may hold
    Binaries,           \* the contents that are binary
    Links,              \* the contents that are symbolic links
    Absent,             \* no file at a path
    Configs,            \* values of ExtractConfig's bounds
    Commits,            \* bound: commits of the repository
    MaxMoves            \* bound: steps of other users

Paths == DOMAIN Texts

\* The bytes a path may have.
PathBytes == {"x", ".", "/", "bad"}

ASSUME ExtractAssumption ==
    /\ Paths \subseteq Nat /\ IsFiniteSet(Paths)
    /\ \A path \in Paths : Texts[path] \in Seq(PathBytes) \ {<< >>}
    /\ DOMAIN Contents = Paths
    /\ \A path \in Paths : Absent \notin Contents[path]
    /\ Configs \subseteq
          [min_commits : Nat, max_commits : Nat, max_paths : Nat,
           max_record_bytes : Nat]
    /\ Commits \in Nat \ {0}
    /\ MaxMoves \in Nat

VARIABLES
    history,            \* the commits, a parent before its children
    refs,               \* what the revisions base and tip resolve to
    attributes,         \* whether info/attributes exists
    output,             \* the output file
    moves,              \* steps of other users so far
    pc, config, base, tip, record

repository == <<history, refs, attributes, moves>>
locals == <<config, base, tip, record>>
vars == <<repository, locals, output, pc>>
-----------------------------------------------------------------------------
\* Git.

Parents(commit) == history[commit].parents
Tree(commit) == history[commit].tree

\* A commit and all it descends from.
Reachable(commit) ==
    LET from[c \in DOMAIN history] ==
            {c} \cup UNION {from[parent] : parent \in Range(Parents(c))}
    IN from[commit]

\* rev-list --first-parent --reverse from..to
RevList(from, to) ==
    LET back[c \in DOMAIN history] ==
            IF c \in Reachable(from) THEN << >>
            ELSE IF Parents(c) = << >> THEN <<c>>
            ELSE Append(back[Parents(c)[1]], c)
    IN back[to]

Changed(from, to) == {path \in Paths : Tree(from)[path] # Tree(to)[path]}

\* git diff --numstat: no count for a binary file, which info/attributes, if
\* there, calls every file.
NumStat(from, to, overridden) ==
    [path \in Changed(from, to) |->
        IF overridden \/ {Tree(from)[path], Tree(to)[path]} \cap Binaries # {}
        THEN None ELSE 1]
-----------------------------------------------------------------------------
Status(from, to, path) ==
    CASE Tree(from)[path] = Absent -> "added"
      [] Tree(to)[path] = Absent -> "deleted"
      [] (Tree(from)[path] \in Links) # (Tree(to)[path] \in Links) -> "type_changed"
      [] OTHER -> "modified"

ValidConfig(c) ==
    /\ c.min_commits > 0
    /\ c.max_commits >= c.min_commits
    /\ c.max_paths > 0
    /\ c.max_record_bytes > 0

\* Mutant: a merge is followed to its first parent like any other commit.
WindowAlongFirstParents(from, window, to) ==
    /\ window # << >>
    /\ \A k \in DOMAIN window :
          /\ Parents(window[k]) # << >>
          /\ Parents(window[k])[1] = IF k = 1 THEN from ELSE window[k - 1]
    /\ Last(window) = to

FirstParentWindow(from, window, to) ==
    /\ window # << >>
    /\ \A k \in DOMAIN window :
          Parents(window[k]) = <<IF k = 1 THEN from ELSE window[k - 1]>>
    /\ Last(window) = to

HistoricalCommitPaths(from, window) ==
    [k \in DOMAIN window |->
        Changed(IF k = 1 THEN from ELSE window[k - 1], window[k])]

\* Mutant: a path that came and went within the window is let pass.
TransientPathsPass(commitPaths, observed) ==
    \A k \in DOMAIN commitPaths : commitPaths[k] # {}

EligibleHistory(commitPaths, observed) ==
    \A k \in DOMAIN commitPaths :
        commitPaths[k] # {} /\ commitPaths[k] \subseteq observed

Decimal(n) == IF n < 10 THEN <<n>> ELSE <<n \div 10, n % 10>>

\* Mutant: the fields are concatenated.
AppendField(buffer, field) == buffer \o field

PushField(buffer, field) == Append(buffer, Len(field)) \o field

SampleId(from, window, c) ==
    FoldLeft(PushField, << >>,
             <<Decimal(from)>> \o [k \in DOMAIN window |-> Decimal(window[k])]
                 \o <<Decimal(c.min_commits), Decimal(c.max_commits),
                      Decimal(c.max_paths), Decimal(c.max_record_bytes)>>)

\* A path as the record has it; the base64 of one that is not UTF-8 is a
\* single token.
IsUtf8(text) == "bad" \notin Range(text)
EncodePath(text) ==
    IF IsUtf8(text) THEN [encoding |-> "utf8", value |-> text]
    ELSE [encoding |-> "base64", value |-> <<text>>]

PathDepth(text) == Cardinality(Occurrences(text, "/")) + 1

\* Mutant: the dot that a file name begins with is taken for that of a suffix.
SuffixOfHidden(text) ==
    LET name == FileName(text)
        dot == LastOccurrence(name, ".")
        suffix == SubSeq(name, dot, Len(name))
    IN IF dot \in {0, Len(name)} \/ ~ IsUtf8(suffix) THEN None ELSE suffix

PathSuffix(text) ==
    LET name == FileName(text)
        dot == LastOccurrence(name, ".")
        suffix == SubSeq(name, dot, Len(name))
    IN IF dot \in {0, 1, Len(name)} \/ ~ IsUtf8(suffix) THEN None ELSE suffix

\* Path ids are places in the order of the paths.
PathId(observed, path) == Cardinality({p \in observed : p <= path})

Observations(from, to, overridden) ==
    LET inOrder == Ascending(Changed(from, to))
        stat == NumStat(from, to, overridden)
    IN [i \in DOMAIN inOrder |->
           [id |-> i,
            path_depth |-> PathDepth(Texts[inOrder[i]]),
            suffix |-> PathSuffix(Texts[inOrder[i]]),
            encoding |-> EncodePath(Texts[inOrder[i]]).encoding,
            value |-> EncodePath(Texts[inOrder[i]]).value,
            status |-> Status(from, to, inOrder[i]),
            binary |-> stat[inOrder[i]] = None,
            lines |-> stat[inOrder[i]],
            low_value |-> inOrder[i] \in LowValue]]

TargetGroup(id, paths, observed, oids) ==
    [id |-> id, source_commit_oids |-> oids,
     paths |-> Ascending({PathId(observed, p) : p \in paths})]

\* Mutant: one group per commit, whatever they share.
GroupPerCommit(commitPaths, observed, window) ==
    [k \in DOMAIN window |->
        TargetGroup(k, commitPaths[k], observed, <<window[k]>>)]

TargetGroups(commitPaths, observed, window) ==
    LET groups == BuildGroups(commitPaths) IN
    [g \in DOMAIN groups |->
        TargetGroup(g, groups[g].paths, observed,
            [i \in DOMAIN groups[g].commits |-> window[groups[g].commits[i]]])]

\* The record of a window, read while info/attributes is there or not.
Record(from, to, c, overridden) ==
    LET window == RevList(from, to) IN
    [schema |-> "v1",
     sample_id |-> SampleId(from, window, c),
     paths |-> Observations(from, to, overridden),
     groups |-> TargetGroups(HistoricalCommitPaths(from, window),
                             Changed(from, to), window),
     window |-> window,
     low_value_profile |-> "default"]
-----------------------------------------------------------------------------
\* Every commit but the first has one or two parents among those before it.
Histories ==
    LET holds(path) == Contents[path] \cup {Absent}
        trees == {t \in [Paths -> UNION {holds(p) : p \in Paths}] :
                     \A path \in Paths : t[path] \in holds(path)}
        parents(n) == {IF first = second THEN <<first>> ELSE <<first, second>> :
                          first, second \in 1..(n - 1)}
        made[n \in 1..Commits] ==
            IF n = 1 THEN {<<[parents |-> << >>, tree |-> t]>> : t \in trees}
            ELSE {Append(h, commit) : h \in made[n - 1],
                     commit \in [parents : parents(n), tree : trees]}
    IN made[Commits]

\* Nothing read or written yet.
Fresh ==
    /\ refs = [base |-> 1, tip |-> Commits]
    /\ attributes = FALSE
    /\ output = "none"
    /\ moves = 0
    /\ pc = "start"
    /\ config = None /\ base = 0 /\ tip = 0
    /\ record = None

Init == Fresh /\ history \in Histories

End(result) ==
    /\ pc' = result
    /\ UNCHANGED <<repository, locals, output>>

\* A check of extract: go on, or end as ineligible.
Require(condition, next) ==
    pc' = IF condition THEN next ELSE "ineligible"

ResolveBase ==
    /\ pc = "start"
    /\ \E c \in Configs :
          /\ config' = c
          /\ base' = refs.base
          /\ Require(ValidConfig(c), "resolve_tip")
    /\ UNCHANGED <<repository, output, tip, record>>

ResolveTip ==
    /\ pc = "resolve_tip"
    /\ tip' = refs.tip
    /\ Require(base # tip', "attributes")
    /\ UNCHANGED <<repository, output, config, base, record>>

ValidateAttributeIsolation ==
    /\ pc = "attributes"
    /\ Require(~ attributes, "observe")
    /\ UNCHANGED <<repository, locals, output>>

\* The rest of extract reads commits, which do not change, and once, for
\* check-attr and numstat, the attributes.  Which paths have a diff driver is
\* up to .gitattributes, which is left out.
Observe ==
    /\ pc = "observe"
    /\ LET window == RevList(base, tip)
           observed == Changed(base, tip)
           commitPaths == HistoricalCommitPaths(base, window)
           eligible(driven) ==
               /\ FirstParentWindow(base, window, tip)
               /\ Len(window) \in config.min_commits..config.max_commits
               /\ Cardinality(observed) \in 1..config.max_paths
               /\ driven = {}
               /\ EligibleHistory(commitPaths, observed)
           broken == InternalError(BuildGroups(commitPaths), observed)
       IN \E driven \in SUBSET observed :
             /\ pc' = IF ~ eligible(driven) THEN "ineligible"
                      ELSE IF broken THEN "internal_error" ELSE "create"
             /\ record' = IF pc' = "create"
                          THEN Record(base, tip, config, attributes)
                          ELSE None
    /\ UNCHANGED <<repository, output, config, base, tip>>

\* Mutant: the file is opened for writing without create_new.
OpenOutput ==
    /\ pc = "create"
    /\ output' = "partial"
    /\ pc' = "write"
    /\ UNCHANGED <<repository, locals>>

CreateOutput ==
    /\ pc = "create"
    /\ output' = IF output = "none" THEN "partial" ELSE output
    /\ pc' = IF output = "none" THEN "write" ELSE "failed"
    /\ UNCHANGED <<repository, locals>>

WriteOutput ==
    /\ pc = "write"
    /\ output' = "complete"
    /\ pc' = "written"
    /\ UNCHANGED <<repository, locals>>

Ends == {"ineligible", "internal_error", "failed", "written"}

\* A Git command or a write fails, the encoded record is over
\* max_record_bytes, or the extractor is killed.
Fail ==
    /\ pc \notin Ends
    /\ End("failed")
-----------------------------------------------------------------------------
UserMovesRef ==
    /\ \E name \in {"base", "tip"}, commit \in DOMAIN history :
          /\ refs' = [refs EXCEPT ![name] = commit]
          /\ refs' # refs
    /\ UNCHANGED <<attributes, output>>

UserChangesAttributes ==
    /\ attributes' = ~ attributes
    /\ UNCHANGED <<refs, output>>

UserCreatesOutput ==
    /\ output = "none"
    /\ output' = "foreign"
    /\ UNCHANGED <<refs, attributes>>

User ==
    /\ moves < MaxMoves
    /\ pc \notin Ends
    /\ moves' = moves + 1
    /\ UNCHANGED <<history, locals, pc>>
    /\ \/ UserMovesRef
       \/ UserChangesAttributes
       \/ UserCreatesOutput

Extractor ==
    \/ ResolveBase
    \/ ResolveTip
    \/ ValidateAttributeIsolation
    \/ Observe
    \/ CreateOutput
    \/ WriteOutput

Next == Extractor \/ Fail \/ User

Spec == Init /\ [][Next]_vars
-----------------------------------------------------------------------------
\* docs/predictive-dataset.md: the record is about everything that happened
\* between base and tip: base is an ancestor of tip, and the window holds
\* every commit that tip descends from and base does not, whatever the
\* revisions did between the two reads.
WindowIsWholeHistory ==
    record # None =>
        /\ base \in Reachable(tip)
        /\ Range(record.window) = Reachable(tip) \ Reachable(base)

\* The errors build_groups calls internal cannot happen: what extract checked
\* before rules them out.
NoInternalError == pc # "internal_error"

\* docs/predictive-dataset.md:382-384, "The v1 extractor therefore fails closed
\* whenever that repository-local file is present": the record depends on the
\* commits and on nothing local, so it is the one without info/attributes.
RecordIsReproducible ==
    record # None => record = Record(base, tip, config, FALSE)

\* The sample id stands for the sample: no other window that extract accepts,
\* nor the same under other bounds, has it.
SampleIdsDiffer ==
    record # None =>
        \A from, to \in DOMAIN history, c \in Configs :
            LET window == RevList(from, to) IN
            /\ FirstParentWindow(from, window, to)
            /\ SampleId(from, window, c) = record.sample_id
            => from = base /\ to = tip /\ c = config

\* What extract writes, the baselines read: every record passes
\* validate_record, and its target is a partition of its paths.
RecordsAreAccepted ==
    record # None =>
        /\ ValidateRecord(record)
        /\ TargetPartition(record) # Failure

\* write_record: a file that is there, of others or of this run, stays as it is.
NeverOverwrites ==
    [][output' = output \/ output \notin {"foreign", "complete"}]_vars
=============================================================================
