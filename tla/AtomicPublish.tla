--------------------------- MODULE AtomicPublish ---------------------------
(***************************************************************************)
(* What git-autocommit promises, without how: a run either publishes all   *)
(* of its commits in one step, on top of what the branch holds at that     *)
(* very step and ending in exactly what is staged at that step, or it      *)
(* never changes the repository.                                           *)
(***************************************************************************)
EXTENDS Naturals, Sequences

CONSTANT Runs

VARIABLES
    refs,       \* the history each branch points to
    head,       \* the branch HEAD names
    index,      \* the staged tree
    outcome     \* per run: "pending", "committed" or "ended"

vars == <<refs, head, index, outcome>>

\* The commits reachable from a branch, each with its whole history (its
\* object id), that some run made.
MadeByRuns(branches) ==
    UNION {{SubSeq(branches[b], 1, n) :
              n \in {m \in DOMAIN branches[b] : branches[b][m].by \in Runs}} :
           b \in DOMAIN branches}

Init ==
    /\ outcome = [r \in Runs |-> "pending"]
    /\ MadeByRuns(refs) = {}

\* Commits of r alone, on top of the branch HEAD names, ending in the index.
Publish(r) ==
    LET old == refs[head]
        new == refs'[head]
    IN
    /\ outcome[r] = "pending"
    /\ outcome' = [outcome EXCEPT ![r] = "committed"]
    /\ Len(new) > Len(old)
    /\ SubSeq(new, 1, Len(old)) = old
    /\ \A n \in (Len(old) + 1)..Len(new) : new[n].by = r
    /\ new[Len(new)].tree = index
    /\ refs' = [refs EXCEPT ![head] = new]
    /\ UNCHANGED <<head, index>>

\* The run ends without having touched the repository.
End(r) ==
    /\ outcome[r] = "pending"
    /\ outcome' = [outcome EXCEPT ![r] = "ended"]
    /\ UNCHANGED <<refs, head, index>>

\* Others do as they please, but nobody else makes commits in a run's name.
Environment ==
    /\ MadeByRuns(refs') \subseteq MadeByRuns(refs)
    /\ UNCHANGED outcome

Next == (\E r \in Runs : Publish(r) \/ End(r)) \/ Environment

Spec == Init /\ [][Next]_vars
=============================================================================
