------------------------------ MODULE GitTree ------------------------------
(***************************************************************************)
(* The part of Git's data model the program depends on, and the program's  *)
(* own build_commit_tree: a tree (or an index, which this module does not  *)
(* distinguish from the tree it would be written as) maps every path to a  *)
(* content or to Absent.                                                   *)
(*                                                                         *)
(* Inside holds the pairs <<d, c>> where path c lies under the name d, so  *)
(* that no tree can hold both: "src" and "src/main.rs".  Garbled stands    *)
(* for every tree that holds a name nobody staged; `git update-index       *)
(* --add --cacheinfo 040000,<oid>,d` writes one without reporting an error *)
(* (Git 2.39: the entry is taken for a sparse directory and expanded under *)
(* names spliced from d and its children).                                 *)
(***************************************************************************)
EXTENDS Naturals, Sequences, Functions

CONSTANTS Paths, Blobs, Absent, Garbled, Inside

Contents == Blobs \cup {Absent}

ASSUME GitTreeAssumption ==
    /\ Absent \notin Blobs
    /\ Inside \subseteq Paths \X Paths
    /\ Garbled \notin [Paths -> Contents]

\* The trees the index can hold.
Trees ==
    {t \in [Paths -> Contents] :
        \A pair \in Inside : t[pair[1]] = Absent \/ t[pair[2]] = Absent}

\* The trees a generated commit can hold.
CommitTrees == [Paths -> Contents] \cup {Garbled}

\* `git diff --cached --name-only --no-renames`: the staged paths.
Diff(old, new) == {p \in Paths : old[p] # new[p]}

\* `git ls-tree` names a directory where the snapshot has a file below p.
IsDirectory(tree, p) ==
    \E pair \in Inside : pair[1] = p /\ tree[pair[2]] # Absent

\* The temporary index once the first k of files have been copied into it.
Copied(parent, snapshot, files, k) ==
    [p \in Paths |->
        IF \E i \in 1..k : files[i] = p THEN snapshot[p] ELSE parent[p]]

\* `git update-index --add` refuses a file below, or above, another file.
Clashes(index, p) ==
    \E pair \in Inside :
        \/ pair[1] = p /\ index[pair[2]] # Absent
        \/ pair[2] = p /\ index[pair[1]] # Absent

\* No `git update-index` call of build_commit_tree is refused.  A path the
\* snapshot lacks is removed with --force-remove, which never is.
CanBuild(parent, snapshot, files) ==
    parent # Garbled =>
        \A k \in 1..Len(files) :
            snapshot[files[k]] # Absent =>
                ~Clashes(Copied(parent, snapshot, files, k - 1), files[k])

\* The tree build_commit_tree writes when it succeeds.
BuildCommitTree(parent, snapshot, files) ==
    IF parent = Garbled \/ \E p \in Range(files) : IsDirectory(snapshot, p)
    THEN Garbled
    ELSE Copied(parent, snapshot, files, Len(files))
=============================================================================
