---------------------------- MODULE MCAutocommit ----------------------------
(***************************************************************************)
(* Instances of Autocommit for TLC.                                        *)
(***************************************************************************)
EXTENDS Autocommit, TLC

CONSTANT MaxEntries     \* bound: the longest plan the endpoint answers with

\* No path lies under the name of another.
FlatPaths == {}

\* One path lies under the name of another, as after `src` became `src/lib`.
NestedPaths ==
    LET dir == CHOOSE p \in Paths : TRUE
    IN {<<dir, CHOOSE p \in Paths : p # dir>>}

\* Every entry that names at most two paths, in every order.
SmallEntries ==
    [conventional : BOOLEAN, files : UNION {[1..n -> Paths] : n \in 0..2}]

\* Anything that is no plan, and every plan.
AllReplies ==
    {NotJson} \cup UNION {[1..n -> SmallEntries] : n \in 0..MaxEntries}

\* Something that is no plan, and every plan that is valid for some set of
\* staged paths: for another set it invents or omits.
PlausibleReplies ==
    {reply \in AllReplies :
        \/ reply = NotJson
        \/ reply # << >> /\ WellFormed(reply) /\ Duplicates(reply) = {}}

Interchangeable ==
    Permutations(Runs) \cup Permutations(Paths) \cup Permutations(Blobs)
        \cup Permutations(Branches)

\* The nested instances pick a path, so its paths are not interchangeable.
InterchangeableRunsAndBranches == Permutations(Runs) \cup Permutations(Branches)
=============================================================================
