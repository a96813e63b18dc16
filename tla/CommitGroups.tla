---------------------------- MODULE CommitGroups ----------------------------
(***************************************************************************)
(* The target partition of a dataset sample: build_groups of               *)
(* predictive_dataset.rs and its UnionFind.  Historical commits that touch *)
(* a common path end up in one group, since the program never splits a     *)
(* file across commits.                                                    *)
(*                                                                         *)
(* commitPaths is a sequence: the set of paths each commit of the window   *)
(* touches.  Paths are numbers, ordered as their bytes are.  A forest is   *)
(* the `parent` vector of UnionFind.                                       *)
(***************************************************************************)
EXTENDS Naturals, Sequences, FiniteSets, SequencesExt

\* A BTreeSet of numbers, as it is iterated over.
Ascending(numbers) ==
    [i \in 1..Cardinality(numbers) |->
        CHOOSE n \in numbers : Cardinality({m \in numbers : m <= n}) = i]

Forest(size) == [node \in 1..size |-> node]

\* The root of every node; a node's parent is never greater than the node.
RootOf(forest) ==
    LET root[node \in DOMAIN forest] ==
            IF forest[node] = node THEN node ELSE root[forest[node]]
    IN root

\* `root` makes every node on the way up point to the root.
Compressed(forest, node) ==
    LET way[n \in DOMAIN forest] ==
            IF forest[n] = n THEN {n} ELSE {n} \cup way[forest[n]]
        top == RootOf(forest)[node]
    IN [n \in DOMAIN forest |-> IF n \in way[node] THEN top ELSE forest[n]]

\* Mutant: the nodes are linked, not their roots.
JoinNodes(forest, left, right) ==
    [forest EXCEPT ![Max({left, right})] = Min({left, right})]

Join(forest, left, right) ==
    LET compressed == Compressed(Compressed(forest, left), right)
        roots == {compressed[left], compressed[right]}
    IN [compressed EXCEPT ![Max(roots)] = Min(roots)]

\* Every time a path is found to have an owner already: <<owner, commit>>.
Meetings(commitPaths) ==
    LET owners(k, path) == {j \in 1..(k - 1) : path \in commitPaths[j]}
        met(k) == {path \in commitPaths[k] : owners(k, path) # {}}
    IN FlattenSeq([k \in DOMAIN commitPaths |->
           LET inOrder == Ascending(met(k))
           IN [i \in DOMAIN inOrder |-> <<Max(owners(k, inOrder[i])), k>>]])

JoinAll(forest, meetings) ==
    LET JoinNext(f, meeting) == Join(f, meeting[1], meeting[2])
    IN FoldLeft(JoinNext, forest, meetings)

\* The nodes of each tree, in the order of their first nodes.
Components(forest) ==
    LET root == RootOf(forest)
        members == {{k \in DOMAIN root : root[k] = r} : r \in Range(root)}
        earliest == Ascending({Min(m) : m \in members})
    IN [g \in DOMAIN earliest |-> CHOOSE m \in members : Min(m) = earliest[g]]

BuildGroups(commitPaths) ==
    LET components == Components(JoinAll(Forest(Len(commitPaths)),
                                         Meetings(commitPaths)))
    IN [g \in DOMAIN components |->
           [commits |-> Ascending(components[g]),
            paths |-> UNION {commitPaths[k] : k \in components[g]}]]

\* The four errors of build_groups whose messages say "internal error".
InternalError(groups, observed) ==
    \/ \E g \in DOMAIN groups :
          groups[g].paths = {} \/ ~ groups[g].paths \subseteq observed
    \/ \E g, h \in DOMAIN groups :
          g # h /\ groups[g].paths \cap groups[h].paths # {}
    \/ UNION {groups[g].paths : g \in DOMAIN groups} # observed
-----------------------------------------------------------------------------
\* Closed under overlap: with a commit, all that touch one of its paths.
Closed(commitPaths, commits) ==
    \A j, k \in DOMAIN commitPaths :
        commitPaths[j] \cap commitPaths[k] # {} => (j \in commits <=> k \in commits)

\* Connected in the overlap graph: nothing closed has one and not the other.
Linked(commitPaths, j, k) ==
    \A commits \in SUBSET DOMAIN commitPaths :
        Closed(commitPaths, commits) => (j \in commits <=> k \in commits)

\* docs/predictive-dataset.md:54-60: the groups are the connected components
\* of the overlap graph, ordered by their earliest commits, and every path is
\* in exactly one of them.
AreComponents(groups, commitPaths) ==
    /\ \A j, k \in DOMAIN commitPaths :
          Linked(commitPaths, j, k) <=>
              \E g \in DOMAIN groups : {j, k} \subseteq Range(groups[g].commits)
    /\ \A g, h \in DOMAIN groups :
          g < h => groups[g].commits[1] < groups[h].commits[1]
    /\ ~ InternalError(groups, UNION Range(commitPaths))
=============================================================================
