---------------------------- MODULE CommitProofs ----------------------------
(***************************************************************************)
(* The commits a run builds: each follows its entry of the plan, and, if   *)
(* nobody interferes, together they reproduce the captured tree.           *)
(***************************************************************************)
EXTENDS AutocommitProofs

-----------------------------------------------------------------------------
(* Each commit follows its entry of the plan. *)

\* A commit of build_commit_tree differs from its parent in listed paths only.
LEMMA BuiltTreeChangesListed ==
    ASSUME NEW parent, NEW snapshot, NEW paths \in Seq(Paths),
           BuildCommitTree(parent, snapshot, paths) # Garbled
    PROVE  Diff(parent, BuildCommitTree(parent, snapshot, paths))
              \subseteq Range(paths)
<1>1. BuildCommitTree(parent, snapshot, paths)
         = Copied(parent, snapshot, paths, Len(paths))
  BY DEF BuildCommitTree
<1>2. ASSUME NEW p \in Paths,
             parent[p] # Copied(parent, snapshot, paths, Len(paths))[p]
      PROVE  p \in Range(paths)
  <2>1. \E i \in 1..Len(paths) : paths[i] = p
    BY <1>2 DEF Copied
  <2> QED
    BY <2>1 DEF Range
<1> QED
  BY <1>1, <1>2 DEF Diff

\* Where a run may be that has built a commit: it asks for no plan any more.
Late(r) ==
    \/ pc[r] \in {"build", "verify", "lock", "unlock", "done", "crashed"}
    \/ Holding(r)

\* The entries of an accepted plan share no path.
EntriesDisjoint(entries) ==
    \A k, l \in DOMAIN entries :
        k # l => Range(entries[k].files) \cap Range(entries[l].files) = {}

\* CommitsFollowPlan, of one run and strengthened to an inductive invariant.
Follows(r) ==
    /\ EntriesDisjoint(plan[r])
    /\ chain[r] # << >> => Late(r)
    /\ \A n \in DOMAIN chain[r] :
          /\ n \in DOMAIN plan[r]
          /\ chain[r][n].tree # Garbled =>
                ChangedBy(r, n) \subseteq Range(plan[r][n].files)

\* A reply that passes validation has disjoint entries.
LEMMA ValidPlanDisjoint ==
    ASSUME NEW r \in Runs, NEW reply, Valid(r, reply)
    PROVE  EntriesDisjoint(reply)
<1>1. Duplicates(reply) = {}
  BY DEF Valid, ValidateRequestedPlan, ParsePlan
<1>2. ASSUME NEW k \in DOMAIN reply, NEW l \in DOMAIN reply, k # l, NEW path,
             path \in Range(reply[k].files), path \in Range(reply[l].files)
      PROVE  FALSE
  <2>1. PICK i \in DOMAIN reply[k].files : reply[k].files[i] = path
    BY <1>2 DEF Range
  <2>2. PICK j \in DOMAIN reply[l].files : reply[l].files[j] = path
    BY <1>2 DEF Range
  <2>3. <<k, i>> \in Mentions(reply, path) /\ <<l, j>> \in Mentions(reply, path)
    BY <2>1, <2>2 DEF Mentions
  <2>4. path \in Assigned(reply) /\ <<k, i>> # <<l, j>>
    BY <1>2 DEF Assigned
  <2>5. path \in Duplicates(reply)
    BY <2>3, <2>4 DEF Duplicates
  <2> QED
    BY <1>1, <2>5
<1> QED
  BY <1>2 DEF EntriesDisjoint

\* A step that changes neither base, plan nor chain keeps Follows.
LEMMA StillFollows ==
    ASSUME NEW r \in Runs, Follows(r),
           base'[r] = base[r], plan'[r] = plan[r], chain'[r] = chain[r],
           chain[r] # << >> => Late(r)'
    PROVE  Follows(r)'
<1>1. \A n \in DOMAIN chain[r] : ChangedBy(r, n)' = ChangedBy(r, n)
  BY DEF ChangedBy, Tip, Diff
<1> QED
  BY <1>1 DEF Follows, EntriesDisjoint

\* Without a commit, disjoint entries are all it takes.
LEMMA FollowsBeforeFirst ==
    ASSUME NEW r \in Runs, chain'[r] = << >>, EntriesDisjoint(plan'[r])
    PROVE  Follows(r)'
<1>1. DOMAIN chain'[r] = {}
  OBVIOUS
<1>2. EntriesDisjoint(plan[r])'
  BY DEF EntriesDisjoint
<1> QED
  BY <1>1, <1>2 DEF Follows

LEMMA RefuseStillFollows ==
    ASSUME TypeOK, NEW r \in Runs, Follows(r), NEW why, Refuse(r, why)
    PROVE  Follows(r)'
<1>1. /\ base'[r] = base[r] /\ plan'[r] = plan[r] /\ chain'[r] = chain[r]
      /\ pc'[r] \in {"unlock", "done"}
  BY DEF TypeOK, Refuse, Exit, Goto, capture, local
<1> QED
  BY <1>1, StillFollows DEF Late

\* The commit BuildCommit appends follows the next entry.
LEMMA BuildCommitFollows ==
    ASSUME TypeOK, NEW r \in Runs, Follows(r), BuildCommit(r)
    PROVE  Follows(r)'
<1>0. PICK next \in Nat : next = Len(chain[r]) + 1
  BY DEF TypeOK
<1> DEFINE listed == plan[r][next].files
           parent == ParentTree(r)
           tree == BuildCommitTree(parent, snap[r], listed)
           commit == [tree |-> tree, by |-> r]
           Before(n) == IF n = 1 THEN Tip(base[r]) ELSE chain'[r][n - 1].tree
           Changed(n) == Diff(Before(n), chain'[r][n].tree)
<1>1. CASE ~CanBuild(parent, snap[r], listed)
  BY <1>0, <1>1, RefuseStillFollows DEF BuildCommit
<1>2. CASE CanBuild(parent, snap[r], listed)
  <2>1. /\ chain[r] \in Seq(Commits) /\ plan[r] \in Seq(Entries(Paths))
        /\ Len(chain[r]) \in Nat /\ DOMAIN chain[r] = 1..Len(chain[r])
        /\ DOMAIN plan[r] = 1..Len(plan[r])
    BY DEF TypeOK, Plans
  <2>2. /\ Len(chain[r]) < Len(plan[r])
        /\ base'[r] = base[r] /\ plan'[r] = plan[r]
        /\ pc'[r] \in {"verify", "build"}
    BY <1>0, <1>2 DEF BuildCommit, TypeOK, Goto, capture
  <2>3. chain'[r] = Append(chain[r], commit)
    BY <1>0, <1>2 DEF BuildCommit, TypeOK
  <2>4. /\ DOMAIN chain'[r] = 1..next
        /\ chain'[r][next] = commit
        /\ \A n \in DOMAIN chain[r] : chain'[r][n] = chain[r][n]
    <3> HIDE DEF commit
    <3> QED
      BY <1>0, <2>1, <2>3
  <2>5. next \in DOMAIN plan[r] /\ listed \in Seq(Paths)
    <3>1. next \in DOMAIN plan[r]
      BY <1>0, <2>1, <2>2
    <3>2. plan[r][next] \in Entries(Paths)
      BY <2>1, <3>1
    <3> QED
      BY <3>1, <3>2 DEF Entries
  <2>6. Before(next) = parent
    <3>1. CASE chain[r] = << >>
      BY <1>0, <3>1 DEF ParentTree
    <3>2. CASE chain[r] # << >>
      <4>1. next # 1 /\ next - 1 = Len(chain[r]) /\ next - 1 \in DOMAIN chain[r]
        BY <1>0, <2>1, <3>2
      <4> QED
        BY <2>4, <3>2, <4>1 DEF ParentTree, Tip
    <3> QED
      BY <3>1, <3>2
  <2>7. tree # Garbled => Changed(next) \subseteq Range(listed)
    <3>1. chain'[r][next].tree = tree
      BY <2>4
    <3>2. tree # Garbled => Diff(parent, tree) \subseteq Range(listed)
      BY <2>5, BuiltTreeChangesListed
    <3> HIDE DEF tree, parent, Before
    <3> QED
      BY <2>6, <3>1, <3>2
  <2>8. ASSUME NEW n \in DOMAIN chain[r]
        PROVE  Changed(n) = ChangedBy(r, n)
    <3>1. n = 1 \/ n - 1 \in DOMAIN chain[r]
      BY <2>1
    <3> QED
      BY <2>4, <3>1 DEF ChangedBy
  <2>9. ASSUME NEW n \in DOMAIN chain'[r], chain'[r][n].tree # Garbled
        PROVE  Changed(n) \subseteq Range(plan[r][n].files)
    <3>1. CASE n \in DOMAIN chain[r]
      <4>1. chain[r][n].tree # Garbled
        BY <2>4, <2>9, <3>1
      <4>2. ChangedBy(r, n) \subseteq Range(plan[r][n].files)
        BY <3>1, <4>1 DEF Follows
      <4> HIDE DEF Changed
      <4> QED
        BY <2>8, <3>1, <4>2
    <3>2. CASE n = next
      <4>1. tree # Garbled
        BY <2>4, <2>9, <3>2
      <4> HIDE DEF Changed, tree
      <4> QED
        BY <2>7, <3>2, <4>1
    <3>3. n \in DOMAIN chain[r] \/ n = next
      BY <1>0, <2>1, <2>4
    <3> QED
      BY <3>1, <3>2, <3>3
  <2>10. \A n \in DOMAIN chain'[r] : n \in DOMAIN plan[r]
    BY <1>0, <2>1, <2>2, <2>4
  <2>11. \A n : ChangedBy(r, n)' = Changed(n)
    BY <2>2 DEF ChangedBy, Tip, Diff
  <2>12. Late(r)' /\ EntriesDisjoint(plan[r])'
    BY <2>2 DEF Late, Follows, EntriesDisjoint
  <2> HIDE DEF Changed
  <2> QED
    BY <2>2, <2>9, <2>10, <2>11, <2>12 DEF Follows
<1> QED
  BY <1>1, <1>2

\* A run's own step keeps Follows.
LEMMA RunStillFollows ==
    ASSUME TypeOK, NEW r \in Runs, RunStep(r), Follows(r)
    PROVE  Follows(r)'
<1> USE DEF TypeOK, Goto, capture, local
<1>a. ASSUME pc[r] \in {"start", "markers", "files", "head", "tree",
                        "context", "request", "repair", "write", "review"}
      PROVE  chain[r] = << >>
  BY <1>a DEF Follows, Late, Holding
<1>b. ASSUME chain[r] = << >>, chain' = chain, plan' = plan
      PROVE  Follows(r)'
  BY <1>b, FollowsBeforeFirst DEF Follows
<1>1. CASE Start(r)
  BY <1>1, <1>a, <1>b DEF Start
<1>2. CASE AssertSafeRepositoryState(r)
  BY <1>2, <1>a, <1>b DEF AssertSafeRepositoryState, Refuse
<1>3. CASE ListFiles(r)
  BY <1>3, <1>a, <1>b DEF ListFiles, Refuse
<1>4. CASE ReadHead(r)
  BY <1>4, <1>a, <1>b DEF ReadHead
<1>5. CASE WriteTree(r)
  BY <1>5, <1>a, <1>b DEF WriteTree, Refuse
<1>6. CASE BuildContext(r)
  BY <1>6, <1>a, <1>b DEF BuildContext, Refuse
<1>7. CASE RequestPlan(r)
  <2>1. PICK reply \in Replies :
           /\ IF Valid(r, reply)
              THEN plan' = [plan EXCEPT ![r] = reply] /\ Goto(r, "write")
              ELSE Goto(r, "repair") /\ UNCHANGED plan
           /\ UNCHANGED chain
    BY <1>7 DEF RequestPlan
  <2>2. chain'[r] = << >>
    BY <1>7, <1>a, <2>1 DEF RequestPlan
  <2>3. EntriesDisjoint(plan'[r])
    BY <2>1, ValidPlanDisjoint DEF Follows
  <2> QED
    BY <2>2, <2>3, FollowsBeforeFirst
<1>8. CASE RepairPlan(r)
  <2>1. PICK reply \in Replies :
           IF Valid(r, reply)
           THEN /\ plan' = [plan EXCEPT ![r] = reply]
                /\ UNCHANGED chain
           ELSE Refuse(r, "invalid_plan")
    BY <1>8 DEF RepairPlan
  <2>2. CASE Refuse(r, "invalid_plan")
    BY <2>2, RefuseStillFollows
  <2>3. CASE Valid(r, reply)
    <3>1. chain'[r] = << >>
      BY <1>8, <1>a, <2>1, <2>3 DEF RepairPlan
    <3>2. EntriesDisjoint(plan'[r])
      BY <2>1, <2>3, ValidPlanDisjoint
    <3> QED
      BY <3>1, <3>2, FollowsBeforeFirst
  <2> QED
    BY <2>1, <2>2, <2>3
<1>9. CASE WritePlan(r)
  BY <1>9, <1>a, <1>b DEF WritePlan, Refuse
<1>10. CASE AssertHead(r)
  <2>1. CASE refs[head] # base[r]
    BY <1>10, <2>1, RefuseStillFollows DEF AssertHead
  <2>2. CASE refs[head] = base[r]
    <3>1. /\ pc[r] = "assert_head" /\ pc'[r] = "assert_tree"
          /\ UNCHANGED <<base, plan, chain, goal>>
      BY <1>10, <2>2 DEF AssertHead
    <3> QED
      BY <3>1, StillFollows DEF Follows, Late, Holding
  <2> QED
    BY <2>1, <2>2
<1>11. CASE AssertStagedTree(r)
  <2>1. CASE index # snap[r]
    BY <1>11, <2>1, RefuseStillFollows DEF AssertStagedTree
  <2>2. CASE index = snap[r]
    <3>1. /\ pc[r] = "assert_tree"
          /\ \/ goal[r] = "retry"
             \/ goal[r] = "build"
             \/ goal[r] = "publish" /\ pc'[r] = "update_ref"
          /\ UNCHANGED <<base, plan, chain, goal>>
      BY <1>11, <2>2 DEF AssertStagedTree
    <3> QED
      BY <3>1, StillFollows DEF Follows, Late, Holding
  <2> QED
    BY <2>1, <2>2
<1>12. CASE BuildCommit(r)
  BY <1>12, BuildCommitFollows
<1>13. CASE VerifyTree(r)
  <2>1. CASE Tip(chain[r]) # snap[r]
    BY <1>13, <2>1, RefuseStillFollows DEF VerifyTree
  <2>2. CASE Tip(chain[r]) = snap[r]
    <3>1. pc'[r] = "lock" /\ UNCHANGED <<base, plan, chain>>
      BY <1>13, <2>2 DEF VerifyTree
    <3> QED
      BY <3>1, StillFollows DEF Late
  <2> QED
    BY <2>1, <2>2
<1>14. CASE AcquireIndexLock(r)
  <2>1. CASE lock # Nobody
    BY <1>14, <2>1, RefuseStillFollows DEF AcquireIndexLock
  <2>2. CASE lock = Nobody
    <3>1. /\ pc'[r] = "assert_head" /\ goal'[r] = "publish"
          /\ UNCHANGED <<base, plan, chain>>
      BY <1>14, <2>2 DEF AcquireIndexLock
    <3> QED
      BY <3>1, StillFollows DEF Late, Holding
  <2> QED
    BY <2>1, <2>2
<1>15. CASE UpdateRef(r)
  <2>1. CASE refs[head] # base[r]
    BY <1>15, <2>1, RefuseStillFollows DEF UpdateRef
  <2>2. CASE refs[head] = base[r]
    <3>1. pc'[r] \in {"unlock", "done"} /\ UNCHANGED <<base, plan, chain>>
      BY <1>15, <2>2 DEF UpdateRef, Exit
    <3> QED
      BY <3>1, StillFollows DEF Late
  <2> QED
    BY <2>1, <2>2
<1>16. CASE DropIndexLock(r)
  <2>1. pc'[r] = "done" /\ UNCHANGED <<base, plan, chain>>
    BY <1>16 DEF DropIndexLock
  <2> QED
    BY <2>1, StillFollows DEF Late
<1>17. CASE WritePlanBrokenPipe(r)
  BY <1>17, RefuseStillFollows DEF WritePlanBrokenPipe
<1>18. CASE Review(r)
  BY <1>18, <1>a, <1>b DEF Review, ReviewCommit, ReviewRetry, ReviewAbort, Answer, Refuse
<1>19. CASE Fail(r)
  BY <1>19, RefuseStillFollows DEF Fail
<1>20. CASE Crash(r)
  <2>1. pc'[r] = "crashed" /\ UNCHANGED <<base, plan, chain>>
    BY <1>20 DEF Crash
  <2> QED
    BY <2>1, StillFollows DEF Late
<1> QED
  BY <1>1, <1>2, <1>3, <1>4, <1>5, <1>6, <1>7, <1>8, <1>9, <1>10, <1>11,
     <1>12, <1>13, <1>14, <1>15, <1>16, <1>17, <1>18, <1>19, <1>20
  DEF RunStep, Proceed

LEMMA NextStillFollows ==
    ASSUME TypeOK, [Next]_vars, NEW q \in Runs, Follows(q)
    PROVE  Follows(q)'
<1>1. ASSUME NEW r \in Runs, RunStep(r)
      PROVE  Follows(q)'
  <2>1. CASE q = r
    BY <1>1, <2>1, RunStillFollows
  <2>2. CASE q # r
    <3>1. /\ pc'[q] = pc[q] /\ goal'[q] = goal[q]
          /\ base'[q] = base[q] /\ plan'[q] = plan[q] /\ chain'[q] = chain[q]
      BY <1>1, <2>2, RunLeavesOthers DEF Others
    <3>2. Late(q)' <=> Late(q)
      BY <3>1 DEF Late, Holding
    <3> QED
      BY <3>1, <3>2, StillFollows DEF Follows
  <2> QED
    BY <2>1, <2>2
<1>2. ASSUME UNCHANGED <<pc, goal, base, plan, chain>>
      PROVE  Follows(q)'
  <2>1. Late(q)' <=> Late(q)
    BY <1>2 DEF Late, Holding
  <2> QED
    BY <1>2, <2>1, StillFollows DEF Follows
<1>3. UserStep => UNCHANGED <<pc, goal, base, plan, chain>>
  BY UserIsUserRepositoryStep DEF UserRepositoryStep
<1>4. UNCHANGED vars => UNCHANGED <<pc, goal, base, plan, chain>>
  BY DEF vars, capture, local
<1> QED
  BY <1>1, <1>2, <1>3, <1>4 DEF Next, Terminated

\* create_commits builds what the plan says: each commit changes only what its
\* entry lists, and no path is changed by two commits.
THEOREM CommitsFollowThePlan == Spec => []CommitsFollowPlan
<1> DEFINE Inv == TypeOK /\ \A r \in Runs : Follows(r)
<1>1. Init => Inv
  <2> SUFFICES ASSUME Init PROVE Inv
    OBVIOUS
  <2>1. TypeOK
    BY InitType
  <2>2. ASSUME NEW r \in Runs
        PROVE  Follows(r)
    BY <2>2 DEF Init, Follows, EntriesDisjoint
  <2> QED
    BY <2>1, <2>2
<1>2. Inv /\ [Next]_vars => Inv'
  BY NextType, NextStillFollows
<1>3. Inv => CommitsFollowPlan
  <2> SUFFICES ASSUME Inv, NEW r \in Runs, NEW n \in DOMAIN chain[r],
                      chain[r][n].tree # Garbled
               PROVE  /\ ChangedBy(r, n) \subseteq Range(plan[r][n].files)
                      /\ \A m \in 1..(n - 1) :
                            chain[r][m].tree # Garbled =>
                                ChangedBy(r, m) \cap ChangedBy(r, n) = {}
    BY DEF CommitsFollowPlan
  <2>1. ChangedBy(r, n) \subseteq Range(plan[r][n].files) /\ n \in DOMAIN plan[r]
    BY DEF Follows
  <2>2. ASSUME NEW m \in 1..(n - 1), chain[r][m].tree # Garbled
        PROVE  ChangedBy(r, m) \cap ChangedBy(r, n) = {}
    <3>1. chain[r] \in Seq(Commits)
      BY DEF TypeOK
    <3>2. m \in DOMAIN chain[r] /\ m # n
      BY <3>1
    <3>3. ChangedBy(r, m) \subseteq Range(plan[r][m].files) /\ m \in DOMAIN plan[r]
      BY <2>2, <3>2 DEF Follows
    <3>4. Range(plan[r][m].files) \cap Range(plan[r][n].files) = {}
      BY <2>1, <3>2, <3>3 DEF Follows, EntriesDisjoint
    <3> QED
      BY <2>1, <3>3, <3>4
  <2> QED
    BY <2>1, <2>2
<1> QED
  BY <1>1, <1>2, <1>3, PTL DEF Spec
-----------------------------------------------------------------------------
(* A run nobody interferes with is not refused, unless a file takes the     *)
(* place of a directory.                                                    *)

Planned ==
    {"write", "review", "assert_head", "assert_tree", "build", "verify",
     "lock", "update_ref"}
AfterTree == {"context", "request", "repair"} \cup Planned
AfterHead == {"tree"} \cup AfterTree
AfterFiles == {"head"} \cup AfterHead

\* What an undisturbed run captured is what is there, and only it has the lock.
CapturedIsLive(r) ==
    ~disturbed[r] =>
        /\ pc[r] # "start" => lock \in {Nobody, r}
        /\ pc[r] \in AfterFiles => files[r] = Diff(Tip(refs[head]), index)
        /\ pc[r] \in AfterHead => base[r] = refs[head]
        /\ pc[r] \in AfterTree => snap[r] = index

\* The tree of commit n: the paths of the first n entries are as staged.
Partial(r, n) ==
    [p \in Paths |-> IF \E k \in 1..n : p \in Range(plan[r][k].files)
                     THEN snap[r][p] ELSE Tip(base[r])[p]]

Calm(r) ==
    /\ CapturedIsLive(r)
    /\ pc[r] \in Planned => Assigned(plan[r]) = files[r]
    /\ pc[r] = "verify" => Len(chain[r]) = Len(plan[r])
    /\ \A n \in DOMAIN chain[r] : chain[r][n].tree = Partial(r, n)
    /\ result[r] \in Refusals => disturbed[r]

NoneGarbled(history) == \A n \in DOMAIN history : history[n].tree # Garbled

Clean ==
    /\ \A b \in Branches : NoneGarbled(refs[b])
    /\ \A r \in Runs : NoneGarbled(base[r]) /\ NoneGarbled(chain[r])

\* What a step of a run may do beside what RepositoryStep and Others say.
Effects(r) ==
    /\ \A q \in Runs \ {r} :
          /\ files'[q] = files[q]
          /\ disturbed[q] => disturbed'[q]
          /\ ~disturbed'[q] => refs' = refs /\ lock' = lock
    /\ base' = base \/ base' = [base EXCEPT ![r] = refs[head]]
    /\ chain' = chain \/ BuildCommit(r)

LEMMA RunEffects ==
    ASSUME TypeOK, NEW r \in Runs, RunStep(r)
    PROVE  Effects(r)
<1> USE DEF TypeOK, Effects, Goto, repository, capture, local
<1>1. CASE Start(r)
  BY <1>1 DEF Start, Exit
<1>2. CASE AssertSafeRepositoryState(r)
  BY <1>2 DEF AssertSafeRepositoryState, Refuse, Exit
<1>3. CASE ListFiles(r)
  BY <1>3 DEF ListFiles, Refuse, Exit
<1>4. CASE ReadHead(r)
  BY <1>4 DEF ReadHead
<1>5. CASE WriteTree(r)
  BY <1>5 DEF WriteTree, Refuse, Exit
<1>6. CASE BuildContext(r)
  BY <1>6 DEF BuildContext, Refuse, Exit
<1>7. CASE RequestPlan(r)
  BY <1>7 DEF RequestPlan
<1>8. CASE RepairPlan(r)
  BY <1>8 DEF RepairPlan, Refuse, Exit
<1>9. CASE WritePlan(r)
  BY <1>9 DEF WritePlan, Refuse, Exit
<1>10. CASE AssertHead(r)
  BY <1>10 DEF AssertHead, Refuse, Exit
<1>11. CASE AssertStagedTree(r)
  BY <1>11 DEF AssertStagedTree, Refuse, Exit
<1>12. CASE BuildCommit(r)
  <2>1. UNCHANGED <<repository, capture, disturbed>>
    BY <1>12 DEF BuildCommit, Refuse
  <2> QED
    BY <1>12, <2>1
<1>13. CASE VerifyTree(r)
  BY <1>13 DEF VerifyTree, Refuse, Exit
<1>14. CASE AcquireIndexLock(r)
  BY <1>14 DEF AcquireIndexLock, Refuse, Exit, Disturb
<1>15. CASE UpdateRef(r)
  BY <1>15 DEF UpdateRef, Refuse, Exit, Disturb
<1>16. CASE DropIndexLock(r)
  BY <1>16 DEF DropIndexLock, Disturb
<1>17. CASE WritePlanBrokenPipe(r)
  BY <1>17 DEF WritePlanBrokenPipe, Refuse, Exit
<1>18. CASE Review(r)
  BY <1>18 DEF Review, ReviewCommit, ReviewRetry, ReviewAbort, Answer, Refuse, Exit
<1>19. CASE Fail(r)
  BY <1>19 DEF Fail, Refuse, Exit
<1>20. CASE Crash(r)
  BY <1>20 DEF Crash
<1> QED
  BY <1>1, <1>2, <1>3, <1>4, <1>5, <1>6, <1>7, <1>8, <1>9, <1>10, <1>11,
     <1>12, <1>13, <1>14, <1>15, <1>16, <1>17, <1>18, <1>19, <1>20
  DEF RunStep, Proceed

\* A step that leaves alone what a run has, and what it captured, keeps Calm.
LEMMA KeepsCalm ==
    ASSUME NEW r \in Runs, Calm(r),
           chain'[r] = chain[r], snap'[r] = snap[r], base'[r] = base[r],
           plan'[r] = plan[r], files'[r] = files[r],
           ~disturbed'[r] /\ pc'[r] # "start" => lock' \in {Nobody, r},
           ~disturbed'[r] /\ pc'[r] \in AfterFiles =>
               /\ ~disturbed[r]
               /\ refs' = refs /\ head' = head /\ index' = index,
           pc'[r] \in AfterFiles => pc[r] \in AfterFiles,
           pc'[r] \in AfterHead => pc[r] \in AfterHead,
           pc'[r] \in AfterTree => pc[r] \in AfterTree,
           pc'[r] \in Planned => pc[r] \in Planned,
           pc'[r] = "verify" => pc[r] = "verify",
           result'[r] \in Refusals => disturbed'[r]
    PROVE  Calm(r)'
<1>1. CapturedIsLive(r)'
  BY DEF Calm, CapturedIsLive, AfterFiles, AfterHead, Diff, Tip
<1>2. \A n : Partial(r, n)' = Partial(r, n)
  BY DEF Partial, Tip
<1> QED
  BY <1>1, <1>2 DEF Calm, Assigned

\* A reply that passes validation assigns just the captured files.
LEMMA ValidPlanCovers ==
    ASSUME NEW r \in Runs, NEW reply, Valid(r, reply)
    PROVE  Assigned(reply) = files[r]
BY DEF Valid, ValidateRequestedPlan, ParsePlan, Invented, Omitted

\* No action of another run disturbs an undisturbed one.
LEMMA OthersKeepCalm ==
    ASSUME TypeOK, NEW r \in Runs, RunStep(r), NEW q \in Runs \ {r}, Calm(q)
    PROVE  Calm(q)'
<1>1. /\ pc'[q] = pc[q] /\ chain'[q] = chain[q] /\ snap'[q] = snap[q]
      /\ base'[q] = base[q] /\ plan'[q] = plan[q] /\ result'[q] = result[q]
  BY RunLeavesOthers DEF Others
<1>2. /\ files'[q] = files[q]
      /\ disturbed[q] => disturbed'[q]
      /\ ~disturbed'[q] => refs' = refs /\ lock' = lock
  BY RunEffects DEF Effects
<1>3. head' = head /\ index' = index
  BY RunRepositoryStep DEF RepositoryStep
<1>4. ~disturbed[q] /\ pc[q] # "start" => lock \in {Nobody, q}
  BY DEF Calm, CapturedIsLive
<1>5. result[q] \in Refusals => disturbed[q]
  BY DEF Calm
<1> QED
  BY <1>1, <1>2, <1>3, <1>4, <1>5, KeepsCalm

LEMMA UserKeepsCalm ==
    ASSUME TypeOK, UserStep, NEW q \in Runs, Calm(q)
    PROVE  Calm(q)'
<1>1. UNCHANGED <<pc, chain, snap, base, plan, result>>
  BY UserIsUserRepositoryStep DEF UserRepositoryStep
<1>2. /\ files' = files
      /\ \/ disturbed' = disturbed /\ UNCHANGED <<refs, head, index, lock>>
         \/ Disturb(Runs)
  BY DEF UserStep, UserLocks, UserStages, UserCommits, UserResets,
         UserSwitches, UserTogglesOperation, UserClearsStaleLock, External,
         capture
<1>3. Disturb(Runs) => disturbed'[q]
  BY DEF Disturb
<1>4. ~disturbed'[q] =>
         ~disturbed[q] /\ UNCHANGED <<refs, head, index, lock>>
  BY <1>2, <1>3
<1>5. ~disturbed[q] /\ pc[q] # "start" => lock \in {Nobody, q}
  BY DEF Calm, CapturedIsLive
<1>6. (result[q] \in Refusals => disturbed[q])
         /\ (disturbed[q] => disturbed'[q])
  BY <1>2, <1>3 DEF Calm
<1> QED
  BY <1>1, <1>2, <1>4, <1>5, <1>6, KeepsCalm

\* An exit keeps Calm if someone is to blame for a refusal.
LEMMA RefuseKeepsCalm ==
    ASSUME TypeOK, NEW r \in Runs, Calm(r), pc[r] # "start",
           NEW why, Refuse(r, why), why \in Refusals => disturbed[r]
    PROVE  Calm(r)'
<1>1. /\ pc'[r] \in {"unlock", "done"} /\ result'[r] = why
      /\ UNCHANGED <<chain, snap, base, plan, files, lock, disturbed>>
  BY DEF TypeOK, Refuse, Exit, Goto, repository, capture, local
<1>2. ~disturbed[r] => lock \in {Nobody, r}
  BY DEF Calm, CapturedIsLive
<1> QED
  BY <1>1, <1>2, KeepsCalm DEF AfterFiles, AfterHead, AfterTree, Planned

\* Commits that are no garbled trees stay so.
LEMMA TreesAreClean ==
    ASSUME NEW t \in [Paths -> Contents]
    PROVE  t # Garbled
BY GitTreeAssumption

\* Without nested paths build_commit_tree copies, and is never refused.
LEMMA FlatBuild ==
    ASSUME Inside = {}, NEW parent, parent # Garbled, NEW snapshot, NEW paths
    PROVE  /\ CanBuild(parent, snapshot, paths)
           /\ BuildCommitTree(parent, snapshot, paths)
                 = Copied(parent, snapshot, paths, Len(paths))
BY DEF CanBuild, Clashes, BuildCommitTree, IsDirectory

LEMMA CopiedType ==
    ASSUME NEW parent \in [Paths -> Contents], NEW snapshot \in Trees,
           NEW paths, NEW k
    PROVE  Copied(parent, snapshot, paths, k) \in [Paths -> Contents]
BY DEF Copied, Trees

\* The parent of the next commit is no garbled tree.
LEMMA ParentIsClean ==
    ASSUME TypeOK, Clean, NEW r \in Runs
    PROVE  ParentTree(r) \in [Paths -> Contents]
<1>1. base[r] \in Histories /\ chain[r] \in Seq(Commits)
  BY DEF TypeOK
<1>2. NoneGarbled(base[r]) /\ NoneGarbled(chain[r])
  BY DEF Clean
<1>3. ASSUME NEW h \in Histories, NoneGarbled(h)
      PROVE  Tip(h) \in [Paths -> Contents]
  <2>1. Len(h) \in DOMAIN h
    BY DEF Histories
  <2>2. Tip(h) # Garbled
    BY <1>3, <2>1 DEF NoneGarbled, Tip
  <2> QED
    BY <2>2, TipType DEF CommitTrees
<1>4. chain[r] = << >> \/ chain[r] \in Histories
  BY <1>1 DEF Histories
<1> QED
  BY <1>1, <1>2, <1>3, <1>4 DEF ParentTree

\* What BuildCommit does where it cannot be refused.
LEMMA FlatBuildCommit ==
    ASSUME Inside = {}, TypeOK, Clean, NEW r \in Runs, BuildCommit(r)
    PROVE  LET next == Len(chain[r]) + 1
               tree == Copied(ParentTree(r), snap[r], plan[r][next].files,
                              Len(plan[r][next].files))
           IN /\ next \in DOMAIN plan[r]
              /\ chain' = [chain EXCEPT
                              ![r] = Append(@, [tree |-> tree, by |-> r])]
              /\ tree \in [Paths -> Contents]
              /\ pc'[r] = IF next = Len(plan[r]) THEN "verify" ELSE "build"
              /\ pc[r] = "build"
              /\ UNCHANGED <<repository, capture, plan, result, disturbed>>
<1> DEFINE next == Len(chain[r]) + 1
           listed == plan[r][next].files
<1>1. ParentTree(r) \in [Paths -> Contents] /\ ParentTree(r) # Garbled
  BY ParentIsClean, TreesAreClean
<1>2. /\ CanBuild(ParentTree(r), snap[r], listed)
      /\ BuildCommitTree(ParentTree(r), snap[r], listed)
            = Copied(ParentTree(r), snap[r], listed, Len(listed))
  BY <1>1, FlatBuild
<1>3. Copied(ParentTree(r), snap[r], listed, Len(listed))
         \in [Paths -> Contents]
  BY <1>1, CopiedType DEF TypeOK
<1>4. next \in DOMAIN plan[r]
  <2>1. Len(chain[r]) \in Nat /\ plan[r] \in Seq(Entries(Paths))
    BY DEF TypeOK, Plans
  <2>2. Len(chain[r]) < Len(plan[r])
    BY DEF BuildCommit
  <2> QED
    BY <2>1, <2>2
<1> QED
  BY <1>2, <1>3, <1>4 DEF BuildCommit, TypeOK, Goto

\* The next commit holds the paths of one more entry as they are staged.
LEMMA BuildKeepsCalm ==
    ASSUME Inside = {}, TypeOK, Clean, NEW r \in Runs, Calm(r), BuildCommit(r)
    PROVE  Calm(r)'
<1>0. PICK next \in Nat : next = Len(chain[r]) + 1
  BY DEF TypeOK
<1> DEFINE listed == plan[r][next].files
           tree == Copied(ParentTree(r), snap[r], listed, Len(listed))
           commit == [tree |-> tree, by |-> r]
<1>1. /\ next \in DOMAIN plan[r]
      /\ chain'[r] = Append(chain[r], commit)
      /\ pc'[r] = IF next = Len(plan[r]) THEN "verify" ELSE "build"
      /\ pc[r] = "build"
      /\ UNCHANGED <<repository, capture, plan, result, disturbed>>
  BY <1>0, FlatBuildCommit DEF TypeOK
<1>2. /\ chain[r] \in Seq(Commits)
      /\ DOMAIN chain[r] = 1..Len(chain[r]) /\ Len(chain[r]) \in Nat
      /\ listed \in Seq(Paths)
  <2>1. chain[r] \in Seq(Commits) /\ plan[r] \in Seq(Entries(Paths))
    BY DEF TypeOK, Plans
  <2>2. plan[r][next] \in Entries(Paths)
    BY <1>1, <2>1
  <2> QED
    BY <2>1, <2>2 DEF Entries
<1>3. /\ DOMAIN chain'[r] = 1..next /\ Len(chain'[r]) = next
      /\ chain'[r][next] = commit
      /\ \A n \in DOMAIN chain[r] : chain'[r][n] = chain[r][n]
  <2> HIDE DEF commit
  <2> QED
    BY <1>0, <1>1, <1>2
<1>4. \A p \in Paths :
         ParentTree(r)[p] = IF \E k \in 1..(next - 1) : p \in Range(plan[r][k].files)
                            THEN snap[r][p] ELSE Tip(base[r])[p]
  <2>1. CASE chain[r] = << >>
    <3>1. 1..(next - 1) = {} /\ ParentTree(r) = Tip(base[r])
      BY <1>0, <2>1 DEF ParentTree
    <3> QED
      BY <3>1
  <2>2. CASE chain[r] # << >>
    <3>1. Len(chain[r]) \in DOMAIN chain[r] /\ next - 1 = Len(chain[r])
      BY <1>0, <1>2, <2>2
    <3>2. ParentTree(r) = Partial(r, next - 1)
      BY <2>2, <3>1 DEF Calm, ParentTree, Tip
    <3> QED
      BY <3>2 DEF Partial
  <2> QED
    BY <2>1, <2>2
<1>5. tree = Partial(r, next)
  <2>1. ASSUME NEW p \in Paths
        PROVE  tree[p] = IF \E k \in 1..next : p \in Range(plan[r][k].files)
                         THEN snap[r][p] ELSE Tip(base[r])[p]
    <3>1. (\E i \in 1..Len(listed) : listed[i] = p) <=> p \in Range(listed)
      BY <1>2 DEF Range
    <3>2. tree[p] = IF p \in Range(listed) THEN snap[r][p] ELSE ParentTree(r)[p]
      BY <3>1 DEF Copied
    <3>3. 1..next = 1..(next - 1) \cup {next}
      BY <1>0, <1>2
    <3> HIDE DEF tree
    <3> QED
      BY <1>4, <3>2, <3>3
  <2>2. tree = [p \in Paths |-> tree[p]]
    BY DEF Copied
  <2> HIDE DEF tree
  <2> QED
    BY <2>1, <2>2 DEF Partial
<1>6. \A n : Partial(r, n)' = Partial(r, n)
  BY <1>1 DEF Partial, Tip, capture
<1>7. \A n \in DOMAIN chain'[r] : chain'[r][n].tree = Partial(r, n)
  <2> SUFFICES ASSUME NEW n \in DOMAIN chain'[r]
               PROVE  chain'[r][n].tree = Partial(r, n)
    OBVIOUS
  <2>1. CASE n = next
    <3>1. chain'[r][next].tree = tree
      BY <1>3
    <3> QED
      BY <1>5, <2>1, <3>1
  <2>2. CASE n # next
    BY <1>0, <1>2, <1>3, <2>2 DEF Calm
  <2> QED
    BY <2>1, <2>2
<1>8. CapturedIsLive(r)'
  <2>1. UNCHANGED <<files, base, snap, refs, head, index, lock, disturbed>>
    BY <1>1 DEF repository, capture
  <2>2. pc[r] \in AfterTree /\ pc[r] \in AfterHead /\ pc[r] \in AfterFiles
    BY <1>1 DEF AfterTree, AfterHead, AfterFiles, Planned
  <2> QED
    BY <1>1, <2>1, <2>2 DEF Calm, CapturedIsLive, Diff, Tip
<1>9. /\ Assigned(plan'[r]) = files'[r]
      /\ result'[r] \in Refusals => disturbed'[r]
      /\ pc'[r] = "verify" => Len(chain'[r]) = Len(plan'[r])
  BY <1>1, <1>3 DEF Calm, Planned, capture
<1> QED
  BY <1>6, <1>7, <1>8, <1>9 DEF Calm, Assigned

\* The whole plan reproduces the captured tree.
LEMMA PlanReproducesTree ==
    ASSUME TypeOK, NEW r \in Runs, Own(r), Calm(r), ~disturbed[r],
           pc[r] = "verify"
    PROVE  Tip(chain[r]) = snap[r]
<1>1. /\ chain[r] \in Seq(Commits) /\ chain[r] # << >>
      /\ Len(chain[r]) = Len(plan[r]) /\ plan[r] \in Seq(Entries(Paths))
  BY DEF TypeOK, Own, Calm, Plans
<1>2. Tip(chain[r]) = Partial(r, Len(plan[r]))
  <2>1. Len(chain[r]) \in DOMAIN chain[r]
    BY <1>1
  <2> QED
    BY <1>1, <2>1 DEF Calm, Tip
<1>3. Assigned(plan[r]) = Diff(Tip(base[r]), snap[r])
  BY DEF Calm, CapturedIsLive, AfterFiles, AfterHead, AfterTree, Planned
<1>4. ASSUME NEW p \in Paths
      PROVE  Partial(r, Len(plan[r]))[p] = snap[r][p]
  <2>1. (\E k \in 1..Len(plan[r]) : p \in Range(plan[r][k].files))
           <=> p \in Assigned(plan[r])
    BY <1>1 DEF Assigned
  <2> QED
    BY <1>3, <2>1 DEF Partial, Diff
<1>5. snap[r] = [p \in Paths |-> snap[r][p]]
  BY DEF TypeOK, Trees
<1>6. Partial(r, Len(plan[r])) = [p \in Paths |-> Partial(r, Len(plan[r]))[p]]
  BY DEF Partial
<1> HIDE DEF Partial
<1> QED
  BY <1>2, <1>4, <1>5, <1>6

\* With no commit built, Calm is about what was captured and what was planned.
LEMMA CalmBeforeFirst ==
    ASSUME NEW r \in Runs, CapturedIsLive(r)', chain'[r] = << >>,
           pc'[r] # "verify", pc'[r] \in Planned => Assigned(plan'[r]) = files'[r],
           result'[r] \in Refusals => disturbed'[r]
    PROVE  Calm(r)'
<1>1. DOMAIN chain'[r] = {}
  OBVIOUS
<1> QED
  BY <1>1 DEF Calm, Assigned

\* A run's own step keeps Calm: each of its checks compares what it captured
\* with what is there, and only a disturbance makes them differ.
LEMMA RunKeepsCalm ==
    ASSUME Inside = {}, TypeOK, Clean, NEW r \in Runs, RunStep(r), Own(r),
           Follows(r), Calm(r)
    PROVE  Calm(r)'
<1> USE DEF TypeOK, Goto, repository, capture, local, AfterFiles, AfterHead,
            AfterTree, Planned
<1>a. pc[r] \in {"start", "markers", "files", "head", "tree", "context",
                 "request", "repair", "write", "review"} => chain[r] = << >>
  BY DEF Follows, Late, Holding
<1>b. result[r] \in Refusals => disturbed[r]
  BY DEF Calm
<1>c. ~disturbed[r] /\ pc[r] # "start" => lock \in {Nobody, r}
  BY DEF Calm, CapturedIsLive
<1>d. "none" \notin Refusals /\ "declined" \notin Refusals /\ "committed" \notin Refusals
  BY DEF Refusals
<1>1. CASE Start(r)
  <2>1. /\ pc'[r] \notin AfterFiles /\ chain'[r] = << >>
        /\ result'[r] \notin Refusals
        /\ ~disturbed'[r] => lock' = Nobody
    BY <1>1, <1>a, <1>d DEF Start, Exit, Own
  <2> QED
    BY <2>1, CalmBeforeFirst DEF CapturedIsLive
<1>2. CASE AssertSafeRepositoryState(r)
  <2>1. CASE Refuse(r, "operation")
    BY <1>2, <2>1, RefuseKeepsCalm DEF AssertSafeRepositoryState, Refusals
  <2>2. CASE ~marker
    BY <1>2, <2>2, <1>b, <1>c, KeepsCalm DEF AssertSafeRepositoryState
  <2> QED
    BY <1>2, <2>1, <2>2 DEF AssertSafeRepositoryState
<1>3. CASE ListFiles(r)
  <2>1. CASE Refuse(r, "nothing_staged")
    BY <1>3, <2>1, RefuseKeepsCalm DEF ListFiles, Refusals
  <2>2. CASE ~Refuse(r, "nothing_staged")
    <3>1. /\ files'[r] = Diff(Tip(refs[head]), index) /\ pc[r] = "files"
          /\ pc'[r] = "head"
          /\ UNCHANGED <<repository, base, snap, plan, chain, result, disturbed>>
      BY <1>3, <2>2 DEF ListFiles
    <3>2. CapturedIsLive(r)'
      BY <3>1, <1>c DEF CapturedIsLive, Diff, Tip
    <3> QED
      BY <3>1, <3>2, <1>a, <1>b, CalmBeforeFirst
  <2> QED
    BY <2>1, <2>2
<1>4. CASE ReadHead(r)
  <2>1. /\ base'[r] = refs[head] /\ pc[r] = "head" /\ pc'[r] = "tree"
        /\ UNCHANGED <<repository, files, snap, plan, chain, result, disturbed>>
    BY <1>4 DEF ReadHead
  <2>2. CapturedIsLive(r)'
    BY <2>1, <1>c DEF Calm, CapturedIsLive, Diff, Tip
  <2> QED
    BY <2>1, <2>2, <1>a, <1>b, CalmBeforeFirst
<1>5. CASE WriteTree(r)
  <2>1. CASE lock # Nobody
    <3>1. ~UnderLock(r) /\ pc[r] \notin {"start", "crashed"}
      BY <1>5 DEF WriteTree, UnderLock, Holding
    <3>2. disturbed[r]
      BY <2>1, <3>1, <1>c DEF Own
    <3> QED
      BY <1>5, <2>1, <3>1, <3>2, RefuseKeepsCalm DEF WriteTree
  <2>2. CASE lock = Nobody
    <3>1. /\ snap'[r] = index /\ pc[r] = "tree" /\ pc'[r] = "context"
          /\ UNCHANGED <<repository, files, base, plan, chain, result, disturbed>>
      BY <1>5, <2>2 DEF WriteTree
    <3>2. CapturedIsLive(r)'
      BY <3>1, <1>c DEF Calm, CapturedIsLive, Diff, Tip
    <3> QED
      BY <3>1, <3>2, <1>a, <1>b, CalmBeforeFirst
  <2> QED
    BY <2>1, <2>2
<1>6. CASE BuildContext(r)
  <2>1. CASE Refuse(r, "declined")
    BY <1>6, <2>1, RefuseKeepsCalm DEF BuildContext, Refusals
  <2>2. CASE mode[r] # "show_prompt"
    BY <1>6, <2>2, <1>b, <1>c, KeepsCalm DEF BuildContext
  <2> QED
    BY <1>6, <2>1, <2>2 DEF BuildContext
<1>v. ASSUME NEW reply, Valid(r, reply), plan'[r] = reply, pc'[r] = "write",
             pc[r] \in {"request", "repair"},
             UNCHANGED <<repository, capture, chain, result, disturbed>>
      PROVE  Calm(r)'
  <2>1. CapturedIsLive(r)'
    BY <1>v, <1>c DEF Calm, CapturedIsLive, Diff, Tip
  <2>2. Assigned(plan'[r]) = files'[r]
    BY <1>v, ValidPlanCovers
  <2> QED
    BY <1>v, <2>1, <2>2, <1>a, <1>b, CalmBeforeFirst
<1>7. CASE RequestPlan(r)
  <2>1. PICK reply \in Replies :
           /\ IF Valid(r, reply)
              THEN plan' = [plan EXCEPT ![r] = reply] /\ Goto(r, "write")
              ELSE Goto(r, "repair") /\ UNCHANGED plan
           /\ pc[r] = "request"
           /\ UNCHANGED <<repository, capture, chain, result, disturbed>>
    BY <1>7 DEF RequestPlan
  <2>2. CASE Valid(r, reply)
    BY <2>1, <2>2, <1>v
  <2>3. CASE ~Valid(r, reply)
    BY <2>1, <2>3, <1>b, <1>c, KeepsCalm
  <2> QED
    BY <2>2, <2>3
<1>8. CASE RepairPlan(r)
  <2>1. PICK reply \in Replies :
           /\ IF Valid(r, reply)
              THEN /\ plan' = [plan EXCEPT ![r] = reply]
                   /\ Goto(r, "write")
                   /\ UNCHANGED <<repository, capture, chain, result, disturbed>>
              ELSE Refuse(r, "invalid_plan")
           /\ pc[r] = "repair"
    BY <1>8 DEF RepairPlan
  <2>2. CASE Valid(r, reply)
    BY <2>1, <2>2, <1>v
  <2>3. CASE ~Valid(r, reply)
    BY <2>1, <2>3, RefuseKeepsCalm DEF Refusals
  <2> QED
    BY <2>2, <2>3
<1>9. CASE WritePlan(r)
  <2>1. CASE Refuse(r, "declined")
    BY <1>9, <2>1, RefuseKeepsCalm DEF WritePlan, Refusals
  <2>2. CASE mode[r] \in {"review", "no_review"} /\ ~Refuse(r, "declined")
    <3>1. /\ pc[r] = "write" /\ pc'[r] \in {"review", "assert_head"}
          /\ UNCHANGED <<repository, capture, plan, chain, result, disturbed>>
      BY <1>9, <2>2 DEF WritePlan
    <3> QED
      BY <3>1, <1>b, <1>c, KeepsCalm
  <2> QED
    BY <1>9, <2>1, <2>2 DEF WritePlan
<1>10. CASE AssertHead(r)
  <2>1. CASE refs[head] # base[r]
    <3>1. disturbed[r]
      BY <1>10, <2>1 DEF AssertHead, Calm, CapturedIsLive
    <3> QED
      BY <1>10, <2>1, <3>1, RefuseKeepsCalm DEF AssertHead
  <2>2. CASE refs[head] = base[r]
    BY <1>10, <2>2, <1>b, <1>c, KeepsCalm DEF AssertHead
  <2> QED
    BY <2>1, <2>2
<1>11. CASE AssertStagedTree(r)
  <2>1. CASE index # snap[r]
    <3>1. disturbed[r]
      BY <1>11, <2>1 DEF AssertStagedTree, Calm, CapturedIsLive
    <3> QED
      BY <1>11, <2>1, <3>1, RefuseKeepsCalm DEF AssertStagedTree
  <2>2. CASE index = snap[r]
    <3>1. /\ pc[r] = "assert_tree" /\ pc'[r] \in {"request", "build", "update_ref"}
          /\ UNCHANGED <<repository, capture, plan, chain, result, disturbed>>
      BY <1>11, <2>2 DEF AssertStagedTree
    <3> QED
      BY <3>1, <1>b, <1>c, KeepsCalm
  <2> QED
    BY <2>1, <2>2
<1>12. CASE BuildCommit(r)
  BY <1>12, BuildKeepsCalm
<1>13. CASE VerifyTree(r)
  <2>1. CASE Tip(chain[r]) # snap[r]
    <3>1. disturbed[r]
      BY <1>13, <2>1, PlanReproducesTree DEF VerifyTree
    <3> QED
      BY <1>13, <2>1, <3>1, RefuseKeepsCalm DEF VerifyTree
  <2>2. CASE Tip(chain[r]) = snap[r]
    BY <1>13, <2>2, <1>b, <1>c, KeepsCalm DEF VerifyTree
  <2> QED
    BY <2>1, <2>2
<1>14. CASE AcquireIndexLock(r)
  <2>1. CASE lock # Nobody
    <3>1. ~UnderLock(r) /\ pc[r] \notin {"start", "crashed"}
      BY <1>14 DEF AcquireIndexLock, UnderLock, Holding
    <3>2. disturbed[r]
      BY <2>1, <3>1, <1>c DEF Own
    <3> QED
      BY <1>14, <2>1, <3>1, <3>2, RefuseKeepsCalm DEF AcquireIndexLock
  <2>2. CASE lock = Nobody
    <3>1. /\ pc[r] = "lock" /\ pc'[r] = "assert_head" /\ lock' = r
          /\ disturbed'[r] = disturbed[r]
          /\ UNCHANGED <<refs, head, index, capture, plan, chain, result>>
      BY <1>14, <2>2 DEF AcquireIndexLock, Disturb
    <3> QED
      BY <3>1, <1>b, KeepsCalm
  <2> QED
    BY <2>1, <2>2
<1>15. CASE UpdateRef(r)
  <2>1. CASE refs[head] # base[r]
    <3>1. disturbed[r]
      BY <1>15, <2>1 DEF UpdateRef, Calm, CapturedIsLive
    <3> QED
      BY <1>15, <2>1, <3>1, RefuseKeepsCalm DEF UpdateRef
  <2>2. CASE refs[head] = base[r]
    <3>1. /\ pc[r] = "update_ref" /\ pc'[r] \in {"unlock", "done"}
          /\ result'[r] = "committed"
          /\ disturbed'[r] = disturbed[r]
          /\ UNCHANGED <<lock, capture, plan, chain>>
      BY <1>15, <2>2 DEF UpdateRef, Exit, Disturb
    <3> QED
      BY <3>1, <1>c, <1>d, KeepsCalm
  <2> QED
    BY <2>1, <2>2
<1>16. CASE DropIndexLock(r)
  <2>1. /\ pc'[r] = "done" /\ lock' = Nobody
        /\ disturbed'[r] = disturbed[r]
        /\ UNCHANGED <<capture, plan, chain, result>>
    BY <1>16 DEF DropIndexLock, Disturb
  <2> QED
    BY <2>1, <1>b, KeepsCalm
<1>17. CASE WritePlanBrokenPipe(r)
  BY <1>17, RefuseKeepsCalm DEF WritePlanBrokenPipe, Refusals
<1>18. CASE Review(r)
  <2>1. CASE ReviewAbort(r)
    BY <2>1, RefuseKeepsCalm DEF ReviewAbort, Refusals
  <2>2. CASE ReviewCommit(r) \/ ReviewRetry(r)
    <3>1. /\ pc[r] = "review" /\ pc'[r] = "assert_head"
          /\ UNCHANGED <<repository, capture, plan, chain, result, disturbed>>
      BY <2>2 DEF ReviewCommit, ReviewRetry, Answer
    <3> QED
      BY <3>1, <1>b, <1>c, KeepsCalm
  <2> QED
    BY <1>18, <2>1, <2>2 DEF Review
<1>19. CASE Fail(r)
  BY <1>19, RefuseKeepsCalm DEF Fail, Refusals
<1>20. CASE Crash(r)
  <2>1. /\ pc[r] # "start" /\ pc'[r] = "crashed"
        /\ result'[r] \in {"killed", result[r]}
        /\ UNCHANGED <<repository, capture, plan, chain, disturbed>>
    BY <1>20 DEF Crash
  <2>2. "killed" \notin Refusals
    BY DEF Refusals
  <2> QED
    BY <2>1, <2>2, <1>b, <1>c, KeepsCalm
<1> QED
  BY <1>1, <1>2, <1>3, <1>4, <1>5, <1>6, <1>7, <1>8, <1>9, <1>10, <1>11,
     <1>12, <1>13, <1>14, <1>15, <1>16, <1>17, <1>18, <1>19, <1>20
  DEF RunStep, Proceed

\* Moving HEAD joins two clean histories.
LEMMA JoinsClean ==
    ASSUME NEW h \in Histories, NEW c \in Seq(Commits),
           NoneGarbled(h), NoneGarbled(c)
    PROVE  NoneGarbled(h \o c)
BY ConcatElement DEF NoneGarbled

LEMMA AppendsClean ==
    ASSUME NEW h \in Seq(Commits), NoneGarbled(h),
           NEW c \in Commits, c.tree # Garbled
    PROVE  NoneGarbled(Append(h, c))
<1>1. DOMAIN Append(h, c) = 1..(Len(h) + 1) /\ DOMAIN h = 1..Len(h)
  BY AppendHistory DEF Histories
<1>2. Len(h) \in Nat
  OBVIOUS
<1>3. ASSUME NEW n \in 1..(Len(h) + 1)
      PROVE  Append(h, c)[n].tree # Garbled
  <2>1. CASE n \in 1..Len(h)
    BY <1>1, <2>1, AppendHistory DEF NoneGarbled
  <2>2. CASE n = Len(h) + 1
    BY <2>2, AppendHistory
  <2> QED
    BY <1>2, <1>3, <2>1, <2>2
<1> QED
  BY <1>1, <1>3 DEF NoneGarbled

\* Where no path lies inside another, no garbled tree is ever committed.
LEMMA RunKeepsClean ==
    ASSUME Inside = {}, TypeOK, Clean, NEW r \in Runs, RunStep(r)
    PROVE  Clean'
<1>1. \A b \in Branches : NoneGarbled(refs'[b])
  <2>1. CASE refs' = refs
    BY <2>1 DEF Clean
  <2>2. CASE refs' = [refs EXCEPT ![head] = base[r] \o chain[r]]
    <3>1. NoneGarbled(base[r] \o chain[r])
      BY JoinsClean DEF TypeOK, Clean
    <3> QED
      BY <2>2, <3>1 DEF TypeOK, Clean
  <2> QED
    BY <2>1, <2>2, RunRepositoryStep DEF RepositoryStep
<1>2. \A q \in Runs : NoneGarbled(base'[q])
  BY RunEffects DEF Effects, TypeOK, Clean
<1>3. \A q \in Runs : NoneGarbled(chain'[q])
  <2>1. CASE chain' = chain
    BY <2>1 DEF Clean
  <2>2. CASE BuildCommit(r)
    <3>1. PICK tree \in [Paths -> Contents] :
             chain' = [chain EXCEPT ![r] = Append(@, [tree |-> tree, by |-> r])]
      BY <2>2, FlatBuildCommit
    <3>2. tree # Garbled /\ [tree |-> tree, by |-> r] \in Commits
      BY TreesAreClean DEF Commits, CommitTrees
    <3>3. NoneGarbled(Append(chain[r], [tree |-> tree, by |-> r]))
      <4> DEFINE c == [tree |-> tree, by |-> r]
      <4>1. c \in Commits /\ c.tree # Garbled
        BY <3>2
      <4>2. chain[r] \in Seq(Commits) /\ NoneGarbled(chain[r])
        BY DEF TypeOK, Clean
      <4> HIDE DEF c
      <4> QED
        BY <4>1, <4>2, AppendsClean DEF c
    <3> QED
      BY <3>1, <3>3 DEF TypeOK, Clean
  <2> QED
    BY <2>1, <2>2, RunEffects DEF Effects
<1> QED
  BY <1>1, <1>2, <1>3 DEF Clean, NoneGarbled

LEMMA UserKeepsClean ==
    ASSUME TypeOK, Clean, UserStep
    PROVE  Clean'
<1>1. UNCHANGED <<base, chain>>
  BY UserIsUserRepositoryStep DEF UserRepositoryStep
<1>2. \A b \in Branches : NoneGarbled(refs'[b])
  <2>1. CASE refs' = refs
    BY <2>1 DEF Clean
  <2>2. CASE UserCommits
    <3> DEFINE c == [tree |-> index, by |-> User]
    <3>1. refs' = [refs EXCEPT ![head] = Append(@, c)]
      BY <2>2 DEF UserCommits
    <3>2. c \in Commits /\ c.tree # Garbled
      BY TreesAreClean DEF TypeOK, Trees, Commits, CommitTrees
    <3>3. refs[head] \in Seq(Commits) /\ NoneGarbled(refs[head])
      BY DEF TypeOK, Histories, Clean
    <3> HIDE DEF c
    <3>4. NoneGarbled(Append(refs[head], c))
      BY <3>2, <3>3, AppendsClean
    <3> QED
      BY <3>1, <3>4 DEF TypeOK, Clean
  <2>3. CASE UserResets
    <3>1. PICK n \in 1..(Len(refs[head]) - 1) :
             refs' = [refs EXCEPT ![head] = SubSeq(@, 1, n)]
      BY <2>3 DEF UserResets
    <3>2. refs[head] \in Histories /\ NoneGarbled(refs[head])
      BY DEF TypeOK, Clean
    <3>3. n \in 1..Len(refs[head]) /\ DOMAIN refs[head] = 1..Len(refs[head])
          /\ Len(refs[head]) \in Nat
      BY <3>2 DEF Histories
    <3> DEFINE shorter == SubSeq(refs[head], 1, n)
    <3>4. /\ shorter \in Seq(Commits) /\ Len(shorter) = n
          /\ \A m \in 1..n : shorter[m] = refs[head][m]
      BY <3>2, <3>3, PrefixHistory DEF Histories
    <3>5. NoneGarbled(shorter)
      <4> HIDE DEF shorter
      <4>1. DOMAIN shorter = 1..n /\ 1..n \subseteq DOMAIN refs[head]
        BY <3>3, <3>4
      <4> QED
        BY <3>2, <3>4, <4>1 DEF NoneGarbled
    <3> QED
      BY <3>1, <3>5 DEF TypeOK, Clean
  <2> QED
    BY <2>1, <2>2, <2>3
    DEF UserStep, UserLocks, UserStages, UserSwitches, UserTogglesOperation,
        UserClearsStaleLock
<1> QED
  BY <1>1, <1>2 DEF Clean, NoneGarbled

\* What makes RefusedOnlyIfDisturbed inductive.
Undisturbed == Clean /\ \A r \in Runs : Follows(r) /\ Calm(r)

LEMMA InitUndisturbed ==
    ASSUME Init
    PROVE  Undisturbed
<1>1. PICK root \in Trees :
         refs = [b \in Branches |-> << [tree |-> root, by |-> User] >>]
  BY DEF Init
<1>2. \A b \in Branches : NoneGarbled(refs[b])
  BY <1>1, TreesAreClean DEF NoneGarbled, Trees
<1>3. \A r \in Runs : NoneGarbled(base[r]) /\ NoneGarbled(chain[r])
  BY <1>2 DEF Init, NoneGarbled
<1>4. ASSUME NEW r \in Runs
      PROVE  Follows(r) /\ Calm(r)
  <2>1. pc[r] = "start" /\ chain[r] = << >> /\ plan[r] = << >>
        /\ result[r] = "none"
    BY DEF Init
  <2> QED
    BY <2>1 DEF Follows, EntriesDisjoint, Calm, CapturedIsLive, Refusals,
                AfterFiles, AfterHead, AfterTree, Planned
<1> QED
  BY <1>2, <1>3, <1>4 DEF Undisturbed, Clean

LEMMA NextUndisturbed ==
    ASSUME Inside = {}, IInv, Undisturbed, [Next]_vars
    PROVE  Undisturbed'
<1>1. TypeOK /\ \A r \in Runs : Own(r)
  BY IInvByRun
<1>2. \A q \in Runs : Follows(q)'
  BY <1>1, NextStillFollows DEF Undisturbed
<1>3. ASSUME NEW r \in Runs, RunStep(r)
      PROVE  Clean' /\ \A q \in Runs : Calm(q)'
  BY <1>1, <1>3, RunKeepsClean, RunKeepsCalm, OthersKeepCalm DEF Undisturbed
<1>4. ASSUME UserStep
      PROVE  Clean' /\ \A q \in Runs : Calm(q)'
  BY <1>1, <1>4, UserKeepsClean, UserKeepsCalm DEF Undisturbed
<1>5. ASSUME UNCHANGED vars
      PROVE  Clean' /\ \A q \in Runs : Calm(q)'
  BY <1>5 DEF Undisturbed, Clean, NoneGarbled, Calm, CapturedIsLive, Partial,
              Assigned, Diff, Tip, vars, repository, capture, local
<1> QED
  BY <1>2, <1>3, <1>4, <1>5 DEF Next, Terminated, Undisturbed

\* Where no path is both a file and a directory, the snapshot and create_commits
\* refuse to go on only after another actor took the index lock,
\* moved HEAD or changed the index: the checks of the program never fail by
\* themselves.  Where a file takes the place of a directory they do, as
\* ApprovedPlanIsCommitted shows.
THEOREM RefusalsHaveACause ==
    Inside = {} => (Spec => []RefusedOnlyIfDisturbed)
<1> SUFFICES ASSUME Inside = {} PROVE Spec => []RefusedOnlyIfDisturbed
  OBVIOUS
<1>1. Init => IInv /\ Undisturbed
  BY InitIInv, InitUndisturbed
<1>2. (IInv /\ Undisturbed) /\ [Next]_vars => (IInv /\ Undisturbed)'
  BY NextIInv, NextUndisturbed
<1>3. IInv /\ Undisturbed => RefusedOnlyIfDisturbed
  BY DEF Undisturbed, Calm, RefusedOnlyIfDisturbed
<1> QED
  BY <1>1, <1>2, <1>3, PTL DEF Spec
=============================================================================
