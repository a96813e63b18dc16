------------------------------ MODULE Baselines ------------------------------
(***************************************************************************)
(* predictive_baseline.rs: the checks on a data set of recorded samples,   *)
(* the three baselines, and the scores of their predictions.               *)
(*                                                                         *)
(* A record is [schema, sample_id, paths, groups, low_value_profile]; the  *)
(* schema and profile constants the code compares are one field.  A text   *)
(* is the sequence of its bytes, by what the code tells apart: "/", ".",   *)
(* "nul", "bad" for one that makes the text no UTF-8, "x" for any other.   *)
(* A partition is the sequence of the labels of the paths.  A ratio is the   *)
(* pair <<numerator, denominator>>, exact where the program has an f64.    *)
(* What a function that may fail returns is Ok(value) or Failure.          *)
(***************************************************************************)
EXTENDS Integers, Sequences, FiniteSets, SequencesExt, FiniteSetsExt

CONSTANT None           \* Option::None

Ok(value) == [ok |-> value]
Failure == [err |-> "failure"]

Column(seq, field(_)) == [i \in DOMAIN seq |-> field(seq[i])]

\* The places of a byte in a text, and the last of them or 0.
Occurrences(text, byte) == {i \in DOMAIN text : text[i] = byte}
LastOccurrence(text, byte) == Max({0} \cup Occurrences(text, byte))

\* What is after the last slash.
FileName(text) == SubSeq(text, LastOccurrence(text, "/") + 1, Len(text))

Utf8PathSuffix(value) ==
    LET name == FileName(value)
        dot == LastOccurrence(name, ".")
    IN IF dot \in {0, 1, Len(name)} THEN None ELSE SubSeq(name, dot, Len(name))

\* The suffix of a path that is not UTF-8 cannot be told from its base64, so
\* only its form is looked at.
ValidateSuffix(path) ==
    IF path.encoding = "utf8" THEN path.suffix = Utf8PathSuffix(path.value)
    ELSE path.suffix # None =>
             /\ Len(path.suffix) >= 2
             /\ path.suffix[1] = "."
             /\ {"/", "nul"} \cap Range(path.suffix) = {}

ValidateObservation(paths) ==
    /\ paths # << >>
    /\ IsInjective(Column(paths, LAMBDA p : p.id))
    /\ \A i \in DOMAIN paths :
          /\ paths[i].value # << >>
          /\ paths[i].encoding \in {"utf8", "base64"}
          /\ paths[i].binary = (paths[i].lines = None)
          /\ paths[i].status \in {"added", "modified", "deleted", "type_changed"}
          /\ paths[i].path_depth > 0
          /\ ValidateSuffix(paths[i])

\* The path ids of the groups, one after the other.
Assigned(groups) == FlattenSeq(Column(groups, LAMBDA g : g.paths))

ValidGroups(groups) ==
    /\ IsInjective(Column(groups, LAMBDA g : g.id))
    /\ \A g \in DOMAIN groups :
          /\ groups[g].paths # << >>
          /\ groups[g].source_commit_oids # << >>
          /\ IsInjective(groups[g].source_commit_oids)

\* Mutant: nothing says that the groups cover the paths.
CoverageUnchecked(record) ==
    /\ record.schema = "v1"
    /\ ValidateObservation(record.paths)
    /\ ValidGroups(record.groups)
    /\ IsInjective(Assigned(record.groups))

ValidateRecord(record) ==
    /\ record.schema = "v1"
    /\ ValidateObservation(record.paths)
    /\ ValidGroups(record.groups)
    /\ IsInjective(Assigned(record.groups))
    /\ Range(Assigned(record.groups)) = Range(Column(record.paths, LAMBDA p : p.id))

\* Sample ids differ, and there is one low-value profile.
ValidateRecordSet(records) ==
    /\ records # << >>
    /\ \A r \in DOMAIN records :
          /\ ValidateRecord(records[r])
          /\ records[r].low_value_profile # None
    /\ IsInjective(Column(records, LAMBDA r : r.sample_id))
    /\ Cardinality(Range(Column(records, LAMBDA r : r.low_value_profile))) = 1

TargetPartition(record) ==
    LET ids == Column(record.paths, LAMBDA p : p.id)
        groupsOf(id) == {g \in DOMAIN record.groups :
                            id \in Range(record.groups[g].paths)}
    IN IF /\ IsInjective(ids)
          /\ IsInjective(Assigned(record.groups))
          /\ Range(Assigned(record.groups)) \subseteq Range(ids)
          /\ \A i \in DOMAIN ids : groupsOf(ids[i]) # {}
       THEN Ok([i \in DOMAIN ids |-> Min(groupsOf(ids[i])) - 1])
       ELSE Failure
-----------------------------------------------------------------------------
ParentDirectoryKey(path) ==
    LET slash == LastOccurrence(path.value, "/") IN
    IF path.encoding = "base64" THEN <<"opaque", path.id>>
    ELSE IF slash \in {0, 1} THEN <<"root">>
    ELSE <<"directory", SubSeq(path.value, 1, slash - 1)>>

\* A key gets the number of keys before it.
LabelByKey(keys, i) ==
    LET first == Min({j \in DOMAIN keys : keys[j] = keys[i]})
    IN Cardinality({keys[j] : j \in 1..(first - 1)})

BaselineKinds == {"single-group", "singleton", "parent-directory"}

Predict(paths, kind) ==
    LET keys == Column(paths, ParentDirectoryKey) IN
    [i \in DOMAIN paths |->
        CASE kind = "single-group" -> 0
          [] kind = "singleton" -> i - 1
          [] kind = "parent-directory" -> LabelByKey(keys, i)]

GroupCount(labels) == IF labels = << >> THEN 0 ELSE Max(Range(labels)) + 1
-----------------------------------------------------------------------------
ChooseTwo(n) == (n * (n - 1)) \div 2

\* The pairs of paths that have the same label.
SamePairs(labels) ==
    SumFunction([label \in Range(labels) |->
        ChooseTwo(Cardinality({i \in DOMAIN labels : labels[i] = label}))])

Contingency(target, predicted) ==
    [i \in DOMAIN target |-> <<target[i], predicted[i]>>]

\* Mutant: the pairs are counted in both orders for the total only.
PairCountsDoubled(target, predicted) ==
    LET both == SamePairs(Contingency(target, predicted)) IN
    [true_positive |-> both,
     false_positive |-> SamePairs(predicted) - both,
     false_negative |-> SamePairs(target) - both,
     true_negative |-> Len(target) * (Len(target) - 1)
                           - SamePairs(predicted) - SamePairs(target) + both]

PairCounts(target, predicted) ==
    LET both == SamePairs(Contingency(target, predicted)) IN
    [true_positive |-> both,
     false_positive |-> SamePairs(predicted) - both,
     false_negative |-> SamePairs(target) - both,
     true_negative |-> ChooseTwo(Len(target))
                           - SamePairs(predicted) - SamePairs(target) + both]

\* Mutant: a label of the right may come from several of the left.
LeftToRight(left, right) ==
    \A i, j \in DOMAIN left : left[i] = left[j] => right[i] = right[j]

\* Each label of one goes with one label of the other.
SamePartition(left, right) ==
    LET pairs == Range(Contingency(left, right)) IN
    \A p, q \in pairs : p[1] = q[1] <=> p[2] = q[2]

AdjustedRandIndex(target, predicted, exact) ==
    LET cells == SamePairs(Contingency(target, predicted))
        t == SamePairs(target)
        p == SamePairs(predicted)
        total == ChooseTwo(Len(target))
        denominator == (t + p) * total - 2 * t * p
    IN IF Len(target) < 2 \/ denominator = 0
       THEN <<IF exact THEN 1 ELSE 0, 1>>
       ELSE <<2 * (cells * total - t * p), denominator>>

Ratio(numerator, denominator) ==
    IF denominator = 0 THEN None ELSE <<numerator, denominator>>

Precision(c) == Ratio(c.true_positive, c.true_positive + c.false_positive)
\* Mutant: pairs that were missed count for nothing.
RecallOfFound(c) == Ratio(c.true_positive, c.true_positive + c.false_positive)

Recall(c) == Ratio(c.true_positive, c.true_positive + c.false_negative)

F1(c) ==
    LET p == Precision(c)
        r == Recall(c)
    IN CASE None \in {p, r} -> None
         [] p # None /\ r # None /\ p[1] = 0 /\ r[1] = 0 -> <<0, 1>>
         [] OTHER -> <<2 * p[1] * r[1], p[1] * r[2] + r[1] * p[2]>>

ScoreSample(record, target, predicted) ==
    LET exact == SamePartition(target, predicted)
        text == {i \in DOMAIN record.paths : record.paths[i].lines # None}
    IN [path_count |-> Len(record.paths),
        target_group_count |-> GroupCount(target),
        group_count_error |-> LET error == GroupCount(target) - GroupCount(predicted)
                              IN Max({error, -error}),
        pair_counts |-> PairCounts(target, predicted),
        adjusted_rand_index |-> AdjustedRandIndex(target, predicted, exact),
        exact |-> exact,
        has_binary |-> \E i \in DOMAIN record.paths : record.paths[i].binary,
        has_low_value |-> \E i \in DOMAIN record.paths : record.paths[i].low_value,
        lines |-> SumFunction([i \in text |-> record.paths[i].lines])]
-----------------------------------------------------------------------------
PairKinds == {"true_positive", "false_positive", "false_negative", "true_negative"}

\* The metrics of the chosen samples together.
AggregateMetrics(samples, chosen) ==
    LET counts == [kind \in PairKinds |->
                      SumFunction([i \in chosen |-> samples[i].pair_counts[kind]])]
    IN [samples |-> Cardinality(chosen),
        pair_counts |-> counts,
        f1 |-> F1(counts),
        exact |-> Cardinality({i \in chosen : samples[i].exact}),
        group_count_error |->
            SumFunction([i \in chosen |-> samples[i].group_count_error])]

\* The bucket of a value: the number of bounds it exceeds.
Bucket(bounds, value) == Cardinality({b \in bounds : value > b})

Segmentations == {"path_count", "target_group_count", "binary_presence",
                  "low_value_presence", "change_size"}

SegmentKey(by, sample) ==
    CASE by = "path_count" -> Bucket({1, 4, 8, 16}, sample.path_count)
      [] by = "target_group_count" -> Bucket({1, 2, 4}, sample.target_group_count)
      [] by = "binary_presence" -> sample.has_binary
      [] by = "low_value_presence" -> sample.has_low_value
      [] by = "change_size" -> Bucket({20, 100, 500}, sample.lines)

\* The samples with a key.
Having(key, samples, by) ==
    {i \in DOMAIN samples : SegmentKey(by, samples[i]) = key}

\* Mutant: a segment keeps the last sample of its key only.
LastOfEach(samples, by) ==
    [key \in Range(Column(samples, LAMBDA s : SegmentKey(by, s))) |->
        AggregateMetrics(samples, {Max(Having(key, samples, by))})]

Segment(samples, by) ==
    [key \in Range(Column(samples, LAMBDA s : SegmentKey(by, s))) |->
        AggregateMetrics(samples, Having(key, samples, by))]

Evaluate(records, kind) ==
    IF ~ ValidateRecordSet(records) THEN Failure
    ELSE IF \E r \in DOMAIN records : TargetPartition(records[r]) = Failure
    THEN Failure
    ELSE LET samples == Column(records, LAMBDA record :
                 ScoreSample(record, TargetPartition(record).ok,
                             Predict(record.paths, kind)))
         IN Ok([samples |-> samples,
                aggregate |-> AggregateMetrics(samples, DOMAIN samples),
                segments |-> [by \in Segmentations |-> Segment(samples, by)]])
==============================================================================
