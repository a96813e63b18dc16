----------------------------- MODULE MCResearch -----------------------------
(***************************************************************************)
(* The research tools on small instances.  `subject` says what a behaviour *)
(* is about: an extraction; the grouping of commits, given one at a time;  *)
(* or a data set read back, given path by path.  A record of the data set  *)
(* has at most one flaw, its last path or its heading, so that each check  *)
(* has to catch its own.                                                   *)
(***************************************************************************)
EXTENDS DatasetExtract

CONSTANTS
    MaxCommits,         \* bound: commits to group
    CommitPaths,        \* paths of the commits to group
    MaxPaths            \* bound: paths of a data set

ASSUME ResearchAssumption == CommitPaths \subseteq Nat /\ IsFiniteSet(CommitPaths)

VARIABLES subject, sample

mcvars == <<vars, subject, sample>>

\* A hidden file in a directory with a dot, and a name that is not UTF-8.
MCTexts == <<<<"x", ".", "x", "/", ".", "x">>, <<"bad", ".", "x">>>>
MCContents == <<{"t", "b", "l"}, {"t"}>>

\* The bounds of two extractions whose digits run together, and two that are
\* refused.
Bounds(min, max, paths, bytes) ==
    [min_commits |-> min, max_commits |-> max, max_paths |-> paths,
     max_record_bytes |-> bytes]
MCConfigs == {Bounds(1, 12, 2, 2), Bounds(1, 1, 2, 22),
              Bounds(2, 1, 2, 2), Bounds(1, 1, 2, 0)}

EmptyRecord(id, schema, profile) ==
    [schema |-> schema, sample_id |-> id, low_value_profile |-> profile,
     paths |-> << >>, groups |-> << >>]

MCInit ==
    /\ sample = << >>
    /\ \/ subject = "extraction" /\ Init
       \/ /\ subject \in {"groups", "dataset"}
          /\ Fresh /\ history = << >>

Extraction ==
    /\ subject = "extraction"
    /\ Next
    /\ UNCHANGED <<subject, sample>>

AddCommit ==
    /\ subject = "groups"
    /\ Len(sample) < MaxCommits
    /\ \E paths \in (SUBSET CommitPaths) \ {{}} : sample' = Append(sample, paths)
    /\ UNCHANGED <<vars, subject>>

\* The paths of all records, and the flaws of the last one.
PathCount == FoldSeq(+, 0, Column(sample, LAMBDA r : Len(r.paths)))

StartRecord ==
    /\ subject = "dataset"
    /\ Len(sample) < 2
    /\ sample # << >> => Last(sample).paths # << >>
    /\ \E id \in 1..(Len(sample) + 1), schema \in {"v0", "v1"}, profile \in {None, "default"} :
          /\ schema = "v1" \/ profile = "default"
          /\ sample' = Append(sample, EmptyRecord(id, schema, profile))
    /\ UNCHANGED <<vars, subject>>

\* A path joins one group of the record or opens one; a flawed one joins none
\* or two, has the id of another, no count of lines, no name, no depth or not
\* the suffix of its name.
ObservedPath(id, encoding, directory, lines) ==
    [id |-> id, encoding |-> encoding,
     value |-> IF encoding = "base64" \/ directory = 0 THEN <<"x">>
               ELSE <<"x", "/", "x">>,
     path_depth |-> directory + 1, suffix |-> None,
     status |-> "added", binary |-> encoding = "base64", lines |-> lines,
     low_value |-> directory = 1]

Misnamed(path) ==
    {[path EXCEPT !.value = << >>], [path EXCEPT !.path_depth = 0],
     [path EXCEPT !.suffix = <<".", "x">>],
     [path EXCEPT !.encoding = "base64", !.suffix = <<".">>]}

InGroups(groups, chosen, id) ==
    [g \in 1..Max({Len(groups)} \cup chosen) |->
        IF g > Len(groups)
        THEN [id |-> g, paths |-> <<id>>, source_commit_oids |-> <<g>>]
        ELSE IF g \in chosen
        THEN [groups[g] EXCEPT !.paths = Append(@, id)]
        ELSE groups[g]]

AddPath ==
    /\ subject = "dataset"
    /\ sample # << >>
    /\ PathCount < MaxPaths
    /\ \A k \in DOMAIN sample : sample[k].paths = << >> \/ ValidateRecord(sample[k])
    /\ LET r == Last(sample)
           n == Len(r.paths) + 1
           open == 1..(Len(r.groups) + 1)
           put(path, chosen) ==
               sample' = [sample EXCEPT ![Len(sample)] =
                   [r EXCEPT !.paths = Append(@, path),
                             !.groups = InGroups(@, chosen, path.id)]]
       IN \/ \E directory \in {0, 1}, g \in open :
                put(ObservedPath(n, "utf8", directory, 15), {g})
          \/ \E g \in open : put(ObservedPath(n, "base64", 0, None), {g})
          \/ put(ObservedPath(n, "utf8", 0, None), {1})
          \/ put(ObservedPath(1, "utf8", 0, 15), {1})
          \/ \E path \in Misnamed(ObservedPath(n, "utf8", 0, 15)) : put(path, {1})
          \/ \E chosen \in {{}, {1, Len(r.groups) + 1}} :
                put(ObservedPath(n, "utf8", 0, 15), chosen)
    /\ UNCHANGED <<vars, subject>>

\* The reports of the baselines on a data set, those that fail included.
Reports ==
    IF subject = "dataset" /\ sample # << >> /\ ValidateRecordSet(sample)
    THEN {Evaluate(sample, kind) : kind \in BaselineKinds}
    ELSE {}

\* The true partition and the predicted one of every record of the data set.
Comparisons ==
    IF subject = "dataset" /\ sample # << >> /\ ValidateRecordSet(sample)
    THEN {<<TargetPartition(r).ok, Predict(r.paths, kind)>> :
             r \in Range(sample), kind \in BaselineKinds}
    ELSE {}

MCNext == Extraction \/ AddCommit \/ StartRecord \/ AddPath

MCSpec == MCInit /\ [][MCNext]_mcvars
-----------------------------------------------------------------------------
\* docs/predictive-dataset.md:54-60: commits that share a path, also through
\* others, are one group; build_groups finds exactly the connected components.
GroupsAreComponents ==
    subject = "groups" => AreComponents(BuildGroups(sample), sample)

\* A data set that passes validate_record_set is evaluated: target_partition,
\* which checks the groups again, finds nothing wrong with it.
ValidRecordsScore == Failure \notin Reports

\* pair_counts, computed from class sizes, counts the pairs of paths that are
\* together in both partitions, in one, or in none.
PairCountsAreByPair ==
    \A c \in Comparisons :
        LET pairs == {p \in (DOMAIN c[1]) \X (DOMAIN c[1]) : p[1] < p[2]}
            count(true, predicted) ==
                Cardinality({p \in pairs : /\ (c[1][p[1]] = c[1][p[2]]) = true
                                           /\ (c[2][p[1]] = c[2][p[2]]) = predicted})
        IN PairCounts(c[1], c[2]) =
              [true_positive |-> count(TRUE, TRUE),
               false_positive |-> count(FALSE, TRUE),
               false_negative |-> count(TRUE, FALSE),
               true_negative |-> count(FALSE, FALSE)]

\* The scores agree on what a perfect prediction is: same_partition says so just
\* when no pair is wrong, just when the adjusted Rand index is 1, degenerate
\* samples included, and just when F1 is 1, where there is an F1.  Neither ever
\* exceeds 1.
ScoresAgree ==
    \A c \in Comparisons :
        LET exact == SamePartition(c[1], c[2])
            counts == PairCounts(c[1], c[2])
            ari == AdjustedRandIndex(c[1], c[2], exact)
            f1 == F1(counts)
        IN /\ exact <=> counts.false_positive + counts.false_negative = 0
           /\ exact <=> ari[1] = ari[2]
           /\ ari[1] <= ari[2]
           /\ f1 # None => /\ exact <=> f1[1] = f1[2]
                           /\ f1[1] <= f1[2]

\* Every segmentation of a report accounts for every sample once.
SegmentsAddUp ==
    \A report \in Reports \ {Failure} : \A by \in Segmentations :
        LET segments == report.ok.segments[by]
            whole == report.ok.aggregate
            total(metric(_)) ==
                SumFunction([key \in DOMAIN segments |-> metric(segments[key])])
        IN /\ total(LAMBDA m : m.samples) = whole.samples
           /\ total(LAMBDA m : m.exact) = whole.exact
           /\ total(LAMBDA m : m.group_count_error) = whole.group_count_error
           /\ \A kind \in PairKinds :
                 total(LAMBDA m : m.pair_counts[kind]) = whole.pair_counts[kind]
=============================================================================
