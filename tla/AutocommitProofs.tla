-------------------------- MODULE AutocommitProofs --------------------------
(***************************************************************************)
(* Proofs about Autocommit, for any number of runs, paths, branches and    *)
(* external changes.                                                       *)
(***************************************************************************)
EXTENDS Autocommit, TLAPS

-----------------------------------------------------------------------------
(* Types. *)

\* build_commit_tree returns a tree.
LEMMA BuildCommitTreeType ==
    ASSUME NEW parent \in CommitTrees, NEW snapshot \in Trees, NEW paths
    PROVE  BuildCommitTree(parent, snapshot, paths) \in CommitTrees
<1>1. CASE parent = Garbled
  BY <1>1 DEF BuildCommitTree, CommitTrees
<1>2. CASE parent # Garbled
  <2>1. parent \in [Paths -> Contents] /\ snapshot \in [Paths -> Contents]
    BY <1>2 DEF CommitTrees, Trees
  <2>2. Copied(parent, snapshot, paths, Len(paths)) \in [Paths -> Contents]
    BY <2>1 DEF Copied
  <2> QED
    BY <2>2 DEF BuildCommitTree, CommitTrees
<1> QED
  BY <1>1, <1>2

\* The last tree of a history is a commit's tree.
LEMMA TipType ==
    ASSUME NEW h \in Histories
    PROVE  Tip(h) \in CommitTrees
<1>1. h \in Seq(Commits) /\ h # << >>
  BY DEF Histories
<1>2. Len(h) \in 1..Len(h)
  BY <1>1
<1>3. h[Len(h)] \in Commits
  BY <1>1, <1>2
<1> QED
  BY <1>3 DEF Tip, Commits

LEMMA AppendHistory ==
    ASSUME NEW h \in Seq(Commits), NEW c \in Commits
    PROVE  /\ Append(h, c) \in Histories
           /\ Len(Append(h, c)) = Len(h) + 1
           /\ Append(h, c)[Len(h) + 1] = c
           /\ \A n \in 1..Len(h) : Append(h, c)[n] = h[n]
BY DEF Histories

LEMMA ConcatHistory ==
    ASSUME NEW h \in Histories, NEW c \in Seq(Commits)
    PROVE  /\ h \o c \in Histories
           /\ Len(h \o c) = Len(h) + Len(c)
           /\ \A n \in 1..Len(h) : (h \o c)[n] = h[n]
           /\ \A n \in 1..Len(c) : (h \o c)[Len(h) + n] = c[n]
BY DEF Histories

\* A commit of a concatenation is a commit of one part.
LEMMA ConcatElement ==
    ASSUME NEW h \in Histories, NEW c \in Seq(Commits),
           NEW n \in DOMAIN (h \o c)
    PROVE  \/ n \in DOMAIN h /\ (h \o c)[n] = h[n]
           \/ \E m \in DOMAIN c : (h \o c)[n] = c[m]
<1> DEFINE both == h \o c
<1>1. both \in Seq(Commits) /\ Len(both) = Len(h) + Len(c)
  BY ConcatHistory DEF Histories
<1>2. Len(h) \in Nat /\ Len(c) \in Nat
  BY DEF Histories
<1>3. DOMAIN h = 1..Len(h) /\ DOMAIN c = 1..Len(c)
  BY DEF Histories
<1>4. n \in 1..(Len(h) + Len(c))
  <2> HIDE DEF both
  <2>1. DOMAIN both = 1..Len(both)
    BY <1>1
  <2>2. n \in DOMAIN both
    BY DEF both
  <2> QED
    BY <1>1, <2>1, <2>2
<1>5. CASE n <= Len(h)
  BY <1>2, <1>3, <1>4, <1>5, ConcatHistory
<1>6. CASE n > Len(h)
  <2>1. n - Len(h) \in 1..Len(c) /\ n = Len(h) + (n - Len(h))
    BY <1>2, <1>4, <1>6
  <2> QED
    BY <1>3, <2>1, ConcatHistory
<1> QED
  BY <1>2, <1>4, <1>5, <1>6

LEMMA PrefixHistory ==
    ASSUME NEW h \in Histories, NEW n \in 1..Len(h)
    PROVE  /\ SubSeq(h, 1, n) \in Histories
           /\ Len(SubSeq(h, 1, n)) = n
           /\ \A m \in 1..n : SubSeq(h, 1, n)[m] = h[m]
BY DEF Histories

LEMMA DisturbType ==
    ASSUME NEW others, Disturb(others)
    PROVE  disturbed' \in [Runs -> BOOLEAN]
BY Zenon DEF Disturb

\* Every exit keeps the types.
LEMMA RefuseType ==
    ASSUME TypeOK, NEW r \in Runs, NEW why \in Results, Refuse(r, why)
    PROVE  TypeOK'
BY DEF TypeOK, Refuse, Exit, Goto, Labels, repository, capture, local

\* An answer of the endpoint that passes validation is a plan.
LEMMA ValidPlanType ==
    ASSUME NEW r \in Runs, NEW reply \in Replies, Valid(r, reply)
    PROVE  reply \in Plans
BY AutocommitAssumption DEF Valid, ValidateRequestedPlan, ParsePlan

\* Every step of a run that is not an exit keeps the types.
LEMMA RunStepType ==
    ASSUME TypeOK, NEW r \in Runs, RunStep(r)
    PROVE  TypeOK'
<1> USE DEF repository, capture, local, Goto, Results, Labels
<1>1. CASE Start(r)
  BY <1>1 DEF TypeOK, Start, Exit
<1>2. CASE AssertSafeRepositoryState(r)
  BY <1>2, RefuseType DEF TypeOK, AssertSafeRepositoryState
<1>3. CASE ListFiles(r)
  <2>1. Diff(Tip(refs[head]), index) \in SUBSET Paths
    BY DEF Diff
  <2> QED
    BY <1>3, <2>1, RefuseType DEF TypeOK, ListFiles
<1>4. CASE ReadHead(r)
  BY <1>4 DEF TypeOK, ReadHead
<1>5. CASE WriteTree(r)
  BY <1>5, RefuseType DEF TypeOK, WriteTree
<1>6. CASE BuildContext(r)
  BY <1>6, RefuseType DEF TypeOK, BuildContext
<1>7. CASE RequestPlan(r)
  <2>1. PICK reply \in Replies :
           /\ IF Valid(r, reply)
              THEN plan' = [plan EXCEPT ![r] = reply] /\ Goto(r, "write")
              ELSE Goto(r, "repair") /\ UNCHANGED plan
           /\ UNCHANGED <<repository, capture, mode, chain, goal, attempt,
                          result, disturbed>>
    BY <1>7 DEF RequestPlan
  <2>2. plan' \in [Runs -> Plans]
    BY <2>1, ValidPlanType DEF TypeOK
  <2> QED
    BY <2>1, <2>2 DEF TypeOK
<1>8. CASE RepairPlan(r)
  <2>1. PICK reply \in Replies :
           IF Valid(r, reply)
           THEN /\ plan' = [plan EXCEPT ![r] = reply]
                /\ Goto(r, "write")
                /\ UNCHANGED <<repository, capture, mode, chain, goal,
                               attempt, result, disturbed>>
           ELSE Refuse(r, "invalid_plan")
    BY <1>8 DEF RepairPlan
  <2>2. CASE Valid(r, reply)
    BY <2>1, <2>2, ValidPlanType DEF TypeOK
  <2>3. CASE ~Valid(r, reply)
    BY <2>1, <2>3, RefuseType
  <2> QED
    BY <2>2, <2>3
<1>9. CASE WritePlan(r)
  BY <1>9, RefuseType DEF TypeOK, WritePlan
<1>10. CASE AssertHead(r)
  BY <1>10, RefuseType DEF TypeOK, AssertHead
<1>11. CASE AssertStagedTree(r)
  <2>1. CASE index # snap[r]
    BY <1>11, <2>1, RefuseType DEF AssertStagedTree
  <2>2. CASE index = snap[r]
    <3>a. \/ attempt' = attempt
          \/ attempt' = [attempt EXCEPT ![r] = attempt[r] + 1]
      BY <1>11, <2>2 DEF AssertStagedTree
    <3>b. attempt \in [Runs -> Nat] /\ attempt[r] + 1 \in Nat
      BY DEF TypeOK
    <3>1. attempt' \in [Runs -> Nat]
      BY <3>a, <3>b
    <3>2. pc' \in [Runs -> Labels]
      BY <1>11, <2>2 DEF TypeOK, AssertStagedTree
    <3> QED
      BY <1>11, <2>2, <3>1, <3>2 DEF TypeOK, AssertStagedTree
  <2> QED
    BY <2>1, <2>2
<1>12. CASE BuildCommit(r)
  <2> DEFINE entry == plan[r][Len(chain[r]) + 1]
             parent == ParentTree(r)
             commit == [tree |-> BuildCommitTree(parent, snap[r], entry.files),
                        by |-> r]
  <2>1. CASE ~CanBuild(parent, snap[r], entry.files)
    BY <1>12, <2>1, RefuseType DEF BuildCommit
  <2>2. CASE CanBuild(parent, snap[r], entry.files)
    <3>1. chain[r] \in Seq(Commits) /\ base[r] \in Histories
      BY DEF TypeOK
    <3>2. parent \in CommitTrees
      BY <3>1, TipType DEF ParentTree, Histories
    <3>3. commit \in Commits
      BY <3>2, BuildCommitTreeType DEF Commits, TypeOK
    <3>4. Append(chain[r], commit) \in Seq(Commits)
      BY <3>1, <3>3
    <3>5. /\ chain' = [chain EXCEPT ![r] = Append(@, commit)]
          /\ \E label \in Labels : Goto(r, label)
          /\ UNCHANGED <<repository, capture, mode, plan, goal, attempt,
                         result, disturbed>>
      BY <1>12, <2>2 DEF BuildCommit
    <3>6. chain' \in [Runs -> Seq(Commits)]
      BY <3>4, <3>5 DEF TypeOK
    <3> QED
      BY <3>5, <3>6 DEF TypeOK
  <2> QED
    BY <2>1, <2>2
<1>13. CASE VerifyTree(r)
  BY <1>13, RefuseType DEF TypeOK, VerifyTree
<1>14. CASE AcquireIndexLock(r)
  <2>1. CASE lock # Nobody
    BY <1>14, <2>1, RefuseType DEF AcquireIndexLock
  <2>2. CASE lock = Nobody
    <3>1. disturbed' \in [Runs -> BOOLEAN]
      BY <1>14, <2>2, DisturbType DEF AcquireIndexLock
    <3> QED
      BY <1>14, <2>2, <3>1 DEF TypeOK, AcquireIndexLock
  <2> QED
    BY <2>1, <2>2
<1>15. CASE UpdateRef(r)
  <2>1. CASE refs[head] # base[r]
    BY <1>15, <2>1, RefuseType DEF UpdateRef
  <2>2. CASE refs[head] = base[r]
    <3>1. base[r] \o chain[r] \in Histories
      BY ConcatHistory DEF TypeOK
    <3>2. refs' \in [Branches -> Histories]
      BY <1>15, <2>2, <3>1 DEF TypeOK, UpdateRef
    <3>3. disturbed' \in [Runs -> BOOLEAN]
      BY <1>15, <2>2, DisturbType DEF UpdateRef
    <3>4. pc' \in [Runs -> Labels] /\ result' \in [Runs -> Results]
      BY <1>15, <2>2 DEF TypeOK, UpdateRef, Exit
    <3> QED
      BY <1>15, <2>2, <3>2, <3>3, <3>4 DEF TypeOK, UpdateRef
  <2> QED
    BY <2>1, <2>2
<1>16. CASE DropIndexLock(r)
  BY <1>16 DEF TypeOK, DropIndexLock, Disturb
<1>17. CASE WritePlanBrokenPipe(r)
  BY <1>17, RefuseType DEF WritePlanBrokenPipe
<1>18. CASE Review(r)
  BY <1>18, RefuseType
  DEF TypeOK, Review, ReviewCommit, ReviewRetry, ReviewAbort, Answer
<1>19. CASE Fail(r)
  BY <1>19, RefuseType DEF Fail
<1>20. CASE Crash(r)
  BY <1>20 DEF TypeOK, Crash
<1> QED
  BY <1>1, <1>2, <1>3, <1>4, <1>5, <1>6, <1>7, <1>8, <1>9, <1>10, <1>11,
     <1>12, <1>13, <1>14, <1>15, <1>16, <1>17, <1>18, <1>19, <1>20
  DEF RunStep, Proceed

\* So does every step of the user.
LEMMA UserStepType ==
    ASSUME TypeOK, UserStep
    PROVE  TypeOK'
<1> USE DEF repository, capture, local, External, Disturb
<1>1. CASE UserLocks
  BY <1>1, AutocommitAssumption DEF TypeOK, UserLocks
<1>2. CASE UserStages
  BY <1>2 DEF TypeOK, UserStages
<1>3. CASE UserCommits
  <2>1. refs[head] \in Seq(Commits)
    BY DEF TypeOK, Histories
  <2>2. [tree |-> index, by |-> User] \in Commits
    BY DEF TypeOK, Commits, CommitTrees, Trees
  <2>3. Append(refs[head], [tree |-> index, by |-> User]) \in Histories
    BY <2>1, <2>2, AppendHistory
  <2>4. refs' \in [Branches -> Histories]
    BY <1>3, <2>3 DEF TypeOK, UserCommits
  <2> QED
    BY <1>3, <2>4 DEF TypeOK, UserCommits
<1>4. CASE UserResets
  <2>1. PICK n \in 1..(Len(refs[head]) - 1) :
           /\ refs' = [refs EXCEPT ![head] = SubSeq(@, 1, n)]
           /\ External
           /\ Disturb(Runs)
           /\ UNCHANGED <<head, index, lock, marker>>
    BY <1>4 DEF UserResets
  <2>2. refs[head] \in Histories
    BY DEF TypeOK
  <2>3. n \in 1..Len(refs[head])
    BY <2>2 DEF Histories
  <2>4. SubSeq(refs[head], 1, n) \in Histories
    BY <2>2, <2>3, PrefixHistory
  <2>5. refs' \in [Branches -> Histories]
    BY <2>1, <2>4 DEF TypeOK
  <2> QED
    BY <2>1, <2>5, AutocommitAssumption DEF TypeOK
<1>5. CASE UserSwitches
  BY <1>5, AutocommitAssumption DEF TypeOK, UserSwitches
<1>6. CASE UserTogglesOperation
  BY <1>6, AutocommitAssumption DEF TypeOK, UserTogglesOperation
<1>7. CASE UserClearsStaleLock
  BY <1>7 DEF TypeOK, UserClearsStaleLock
<1> QED
  BY <1>1, <1>2, <1>3, <1>4, <1>5, <1>6, <1>7 DEF UserStep

\* The initial states are well typed: every branch starts at one commit.
LEMMA InitType ==
    ASSUME Init
    PROVE  TypeOK
<1>1. PICK root \in Trees :
         refs = [b \in Branches |-> << [tree |-> root, by |-> User] >>]
  BY DEF Init
<1>2. [tree |-> root, by |-> User] \in Commits
  BY DEF Commits, CommitTrees, Trees
<1>3. << [tree |-> root, by |-> User] >> \in Histories
  BY <1>2 DEF Histories
<1>4. refs \in [Branches -> Histories]
  BY <1>1, <1>3
<1>5. base \in [Runs -> Histories]
  BY <1>4 DEF Init
<1>6. << >> \in Plans /\ << >> \in Seq(Commits)
  BY DEF Plans
<1> QED
  BY <1>4, <1>5, <1>6, AutocommitAssumption DEF Init, TypeOK, Labels, Results

\* Every step keeps the types.
LEMMA NextType ==
    ASSUME TypeOK, [Next]_vars
    PROVE  TypeOK'
<1>1. CASE UNCHANGED vars
  BY <1>1 DEF TypeOK, vars, repository, capture, local
<1>2. CASE Terminated
  BY <1>1, <1>2 DEF Terminated
<1> QED
  BY <1>1, <1>2, RunStepType, UserStepType DEF Next

\* Type correctness of the specification.
THEOREM TypeCorrect == Spec => []TypeOK
<1>1. Init => TypeOK
  BY InitType
<1>2. TypeOK /\ [Next]_vars => TypeOK'
  BY NextType
<1> QED
  BY <1>1, <1>2, PTL DEF Spec
-----------------------------------------------------------------------------
(* The inductive invariant, one run at a time. *)

\* What IInv says of one run, apart from its type and its commits on branches.
Own(r) ==
    /\ UnderLock(r) => lock = r
    /\ lock = r => UnderLock(r) \/ pc[r] = "crashed"
    /\ result[r] = "none" <=> pc[r] \notin {"unlock", "done", "crashed"}
    /\ \A n \in DOMAIN chain[r] : chain[r][n].by = r
    /\ pc[r] = "verify" => chain[r] # << >>
    /\ pc[r] = "lock" \/ Holding(r) =>
          chain[r] # << >> /\ Tip(chain[r]) = snap[r]
    /\ pc[r] = "update_ref" => index = snap[r]

LEMMA IInvByRun ==
    IInv <=> TypeOK /\ (\A r \in Runs : Own(r)) /\ AllOrNothing
BY DEF IInv, Own, LockDiscipline, ResultKnown, ChainOwned, ChainVerified,
       PublishesWhatIsStaged, Holding

\* What the other runs, and the repository, see of a step of a run.
Others(r) ==
    \A q \in Runs \ {r} :
        /\ pc'[q] = pc[q]
        /\ goal'[q] = goal[q]
        /\ chain'[q] = chain[q]
        /\ snap'[q] = snap[q]
        /\ base'[q] = base[q]
        /\ plan'[q] = plan[q]
        /\ result'[q] = result[q]

LEMMA RunLeavesOthers ==
    ASSUME TypeOK, NEW r \in Runs, RunStep(r)
    PROVE  Others(r)
<1> USE DEF TypeOK, Others, Goto, repository, capture, local
<1>1. CASE Start(r)
  BY <1>1 DEF Start, Exit
<1>2. CASE AssertSafeRepositoryState(r)
  BY <1>2 DEF AssertSafeRepositoryState, Refuse, Exit
<1>3. CASE ListFiles(r)
  BY <1>3 DEF ListFiles, Refuse, Exit
<1>4. CASE ReadHead(r)
  BY <1>4 DEF ReadHead
<1>5. CASE WriteTree(r)
  BY <1>5 DEF WriteTree, Refuse, Exit
<1>6. CASE BuildContext(r)
  BY <1>6 DEF BuildContext, Refuse, Exit
<1>7. CASE RequestPlan(r)
  BY <1>7 DEF RequestPlan
<1>8. CASE RepairPlan(r)
  BY <1>8 DEF RepairPlan, Refuse, Exit
<1>9. CASE WritePlan(r)
  BY <1>9 DEF WritePlan, Refuse, Exit
<1>10. CASE AssertHead(r)
  BY <1>10 DEF AssertHead, Refuse, Exit
<1>11. CASE AssertStagedTree(r)
  BY <1>11 DEF AssertStagedTree, Refuse, Exit
<1>12. CASE BuildCommit(r)
  BY <1>12 DEF BuildCommit, Refuse, Exit
<1>13. CASE VerifyTree(r)
  BY <1>13 DEF VerifyTree, Refuse, Exit
<1>14. CASE AcquireIndexLock(r)
  BY <1>14 DEF AcquireIndexLock, Refuse, Exit
<1>15. CASE UpdateRef(r)
  BY <1>15 DEF UpdateRef, Refuse, Exit
<1>16. CASE DropIndexLock(r)
  BY <1>16 DEF DropIndexLock
<1>17. CASE WritePlanBrokenPipe(r)
  BY <1>17 DEF WritePlanBrokenPipe, Refuse, Exit
<1>18. CASE Review(r)
  BY <1>18 DEF Review, ReviewCommit, ReviewRetry, ReviewAbort, Answer, Refuse, Exit
<1>19. CASE Fail(r)
  BY <1>19 DEF Fail, Refuse, Exit
<1>20. CASE Crash(r)
  BY <1>20 DEF Crash
<1> QED
  BY <1>1, <1>2, <1>3, <1>4, <1>5, <1>6, <1>7, <1>8, <1>9, <1>10, <1>11,
     <1>12, <1>13, <1>14, <1>15, <1>16, <1>17, <1>18, <1>19, <1>20
  DEF RunStep, Proceed

\* A run changes the index and HEAD never, the lock only to take it and to
\* drop it, and a branch only by update-ref.
RepositoryStep(r) ==
    /\ index' = index
    /\ head' = head
    /\ \/ lock' = lock
       \/ lock = Nobody /\ lock' = r
       \/ pc[r] = "unlock" /\ lock' = Nobody
    /\ \/ refs' = refs
       \/ /\ pc[r] = "update_ref"
          /\ result'[r] = "committed"
          /\ refs[head] = base[r]
          /\ refs' = [refs EXCEPT ![head] = base[r] \o chain[r]]

LEMMA RunRepositoryStep ==
    ASSUME TypeOK, NEW r \in Runs, RunStep(r)
    PROVE  RepositoryStep(r)
<1> USE DEF TypeOK, RepositoryStep, repository
<1>1. CASE Start(r)
  BY <1>1 DEF Start, Exit
<1>2. CASE AssertSafeRepositoryState(r)
  BY <1>2 DEF AssertSafeRepositoryState, Refuse, Exit
<1>3. CASE ListFiles(r)
  BY <1>3 DEF ListFiles, Refuse, Exit
<1>4. CASE ReadHead(r)
  BY <1>4 DEF ReadHead
<1>5. CASE WriteTree(r)
  BY <1>5 DEF WriteTree, Refuse, Exit
<1>6. CASE BuildContext(r)
  BY <1>6 DEF BuildContext, Refuse, Exit
<1>7. CASE RequestPlan(r)
  BY <1>7 DEF RequestPlan
<1>8. CASE RepairPlan(r)
  BY <1>8 DEF RepairPlan, Refuse, Exit
<1>9. CASE WritePlan(r)
  BY <1>9 DEF WritePlan, Refuse, Exit
<1>10. CASE AssertHead(r)
  BY <1>10 DEF AssertHead, Refuse, Exit
<1>11. CASE AssertStagedTree(r)
  BY <1>11 DEF AssertStagedTree, Refuse, Exit
<1>12. CASE BuildCommit(r)
  BY <1>12 DEF BuildCommit, Refuse, Exit
<1>13. CASE VerifyTree(r)
  BY <1>13 DEF VerifyTree, Refuse, Exit
<1>14. CASE AcquireIndexLock(r)
  BY <1>14 DEF AcquireIndexLock, Refuse, Exit
<1>15. CASE UpdateRef(r)
  BY <1>15 DEF UpdateRef, Refuse, Exit
<1>16. CASE DropIndexLock(r)
  BY <1>16 DEF DropIndexLock
<1>17. CASE WritePlanBrokenPipe(r)
  BY <1>17 DEF WritePlanBrokenPipe, Refuse, Exit
<1>18. CASE Review(r)
  BY <1>18 DEF Review, ReviewCommit, ReviewRetry, ReviewAbort, Answer, Refuse, Exit
<1>19. CASE Fail(r)
  BY <1>19 DEF Fail, Refuse, Exit
<1>20. CASE Crash(r)
  BY <1>20 DEF Crash
<1> QED
  BY <1>1, <1>2, <1>3, <1>4, <1>5, <1>6, <1>7, <1>8, <1>9, <1>10, <1>11,
     <1>12, <1>13, <1>14, <1>15, <1>16, <1>17, <1>18, <1>19, <1>20
  DEF RunStep, Proceed

\* A step of a run keeps what IInv says of the others: they cannot lose the
\* lock, nor the index they checked under it.
LEMMA OthersKeepOwn ==
    ASSUME TypeOK, NEW r \in Runs, RunStep(r), Own(r),
           NEW q \in Runs \ {r}, Own(q)
    PROVE  Own(q)'
<1>1. /\ pc'[q] = pc[q] /\ goal'[q] = goal[q] /\ chain'[q] = chain[q]
      /\ snap'[q] = snap[q] /\ result'[q] = result[q]
  BY RunLeavesOthers DEF Others
<1>2. index' = index /\ lock \in Runs \cup {User, Nobody}
  BY RunRepositoryStep DEF RepositoryStep, TypeOK
<1>3. (UnderLock(q)' <=> UnderLock(q)) /\ (Holding(q)' <=> Holding(q))
  BY <1>1 DEF UnderLock, Holding
<1>4. (lock' = q <=> lock = q)
  <2>1. pc[r] = "unlock" => lock = r
    BY DEF Own, UnderLock
  <2>2. \/ lock' = lock
        \/ lock = Nobody /\ lock' = r
        \/ pc[r] = "unlock" /\ lock' = Nobody
    BY RunRepositoryStep DEF RepositoryStep
  <2>3. q # Nobody /\ r # q
    BY AutocommitAssumption
  <2> QED
    BY <2>1, <2>2, <2>3
<1>5. (Tip(chain[q]))' = Tip(chain[q])
  BY <1>1 DEF Tip
<1> QED
  BY <1>1, <1>2, <1>3, <1>4, <1>5 DEF Own

\* An exit keeps what IInv says of the run.
LEMMA RefuseKeepsOwn ==
    ASSUME TypeOK, NEW r \in Runs, Own(r), NEW why \in Results \ {"none"},
           Refuse(r, why), pc[r] \notin Ended
    PROVE  Own(r)'
<1>1. /\ pc'[r] = (IF lock = r THEN "unlock" ELSE "done")
      /\ result'[r] = why
      /\ UNCHANGED <<lock, index, goal, chain, snap>>
  BY DEF Refuse, Exit, Goto, TypeOK, repository, capture, local
<1> QED
  BY <1>1 DEF Own, UnderLock, Holding

\* So does a step that takes no lock and does not touch the chain, as long as
\* it leads neither to the end of create_commits nor out of the run.
LEMMA MoveKeepsOwn ==
    ASSUME TypeOK, NEW r \in Runs, Own(r),
           ~Holding(r), pc[r] \notin Ended \cup {"unlock"},
           pc'[r] \in {"markers", "files", "head", "tree", "context",
                       "request", "repair", "write", "review", "assert_head",
                       "assert_tree", "build"},
           pc'[r] \in {"assert_head", "assert_tree"} => goal'[r] # "publish",
           UNCHANGED <<lock, chain, result>>
    PROVE  Own(r)'
BY DEF Own, UnderLock, Holding, Ended

\* And so does every other step of it.
LEMMA RunKeepsOwn ==
    ASSUME TypeOK, NEW r \in Runs, RunStep(r), Own(r)
    PROVE  Own(r)'
<1> USE DEF Goto, Ended, Results, repository, capture, local
<1>a. pc \in [Runs -> Labels] /\ goal \in [Runs -> {"retry", "build", "publish"}]
  BY DEF TypeOK
<1>b. pc[r] \notin {"assert_head", "assert_tree", "update_ref"} => ~Holding(r)
  BY DEF Holding
<1>c. pc[r] # "update_ref" /\ goal[r] # "publish" => ~Holding(r)
  BY DEF Holding
<1>1. CASE Start(r)
  <2>1. CASE mode[r] = "show_config"
    <3>1. /\ pc[r] = "start"
          /\ pc'[r] = (IF lock = r THEN "unlock" ELSE "done")
          /\ result'[r] = "declined"
          /\ UNCHANGED <<lock, chain>>
      BY <1>1, <1>a, <2>1 DEF Start, Exit, TypeOK
    <3> QED
      BY <3>1 DEF Own, UnderLock, Holding
  <2>2. CASE mode[r] # "show_config"
    BY <1>1, <1>a, <1>b, <2>2, MoveKeepsOwn DEF Start
  <2> QED
    BY <2>1, <2>2
<1>2. CASE AssertSafeRepositoryState(r)
  <2>1. CASE marker
    BY <1>2, <2>1, RefuseKeepsOwn DEF AssertSafeRepositoryState
  <2>2. CASE ~(marker)
    BY <1>2, <1>a, <1>b, <2>2, MoveKeepsOwn DEF AssertSafeRepositoryState
  <2> QED
    BY <2>1, <2>2
<1>3. CASE ListFiles(r)
  <2>1. CASE Diff(Tip(refs[head]), index) = {}
    BY <1>3, <2>1, RefuseKeepsOwn DEF ListFiles
  <2>2. CASE ~(Diff(Tip(refs[head]), index) = {})
    BY <1>3, <1>a, <1>b, <2>2, MoveKeepsOwn DEF ListFiles
  <2> QED
    BY <2>1, <2>2
<1>4. CASE ReadHead(r)
  BY <1>4, <1>a, <1>b, MoveKeepsOwn DEF ReadHead
<1>5. CASE WriteTree(r)
  <2>1. CASE lock # Nobody
    BY <1>5, <2>1, RefuseKeepsOwn DEF WriteTree
  <2>2. CASE ~(lock # Nobody)
    BY <1>5, <1>a, <1>b, <2>2, MoveKeepsOwn DEF WriteTree
  <2> QED
    BY <2>1, <2>2
<1>6. CASE BuildContext(r)
  <2>1. CASE mode[r] = "show_prompt"
    BY <1>6, <2>1, RefuseKeepsOwn DEF BuildContext
  <2>2. CASE ~(mode[r] = "show_prompt")
    BY <1>6, <1>a, <1>b, <2>2, MoveKeepsOwn DEF BuildContext
  <2> QED
    BY <2>1, <2>2
<1>7. CASE RequestPlan(r)
  <2>1. /\ pc[r] = "request"
        /\ pc'[r] \in {"write", "repair"}
        /\ UNCHANGED <<lock, chain, result>>
    BY <1>7, <1>a DEF RequestPlan
  <2> QED
    BY <1>b, <2>1, MoveKeepsOwn
<1>8. CASE RepairPlan(r)
  <2>1. /\ pc[r] = "repair"
        /\ \/ Refuse(r, "invalid_plan")
           \/ pc'[r] = "write" /\ UNCHANGED <<lock, chain, result>>
    BY <1>8, <1>a DEF RepairPlan
  <2>2. CASE Refuse(r, "invalid_plan")
    BY <2>1, <2>2, RefuseKeepsOwn
  <2>3. CASE pc'[r] = "write" /\ UNCHANGED <<lock, chain, result>>
    BY <1>b, <2>1, <2>3, MoveKeepsOwn
  <2> QED
    BY <2>1, <2>2, <2>3
<1>9. CASE WritePlan(r)
  <2>1. /\ pc[r] = "write"
        /\ \/ Refuse(r, "declined")
           \/ /\ pc'[r] \in {"review", "assert_head"}
              /\ pc'[r] = "assert_head" => goal'[r] = "build"
              /\ UNCHANGED <<lock, chain, result>>
    BY <1>9, <1>a DEF WritePlan
  <2>2. CASE Refuse(r, "declined")
    BY <2>1, <2>2, RefuseKeepsOwn
  <2>3. CASE ~Refuse(r, "declined")
    BY <1>b, <2>1, <2>3, MoveKeepsOwn
  <2> QED
    BY <2>2, <2>3
<1>10. CASE AssertHead(r)
  <2>1. CASE refs[head] # base[r]
    BY <1>10, <2>1, RefuseKeepsOwn DEF AssertHead
  <2>2. CASE refs[head] = base[r]
    <3>1. /\ pc[r] = "assert_head"
          /\ pc'[r] = "assert_tree"
          /\ UNCHANGED <<lock, index, goal, chain, snap, result>>
      BY <1>10, <1>a, <2>2 DEF AssertHead
    <3> QED
      BY <3>1 DEF Own, UnderLock, Holding
  <2> QED
    BY <2>1, <2>2
<1>11. CASE AssertStagedTree(r)
  <2>1. CASE index # snap[r]
    BY <1>11, <2>1, RefuseKeepsOwn DEF AssertStagedTree
  <2>2. CASE index = snap[r]
    <3>1. /\ pc[r] = "assert_tree"
          /\ \/ goal[r] = "retry" /\ pc'[r] = "request"
             \/ goal[r] = "build" /\ pc'[r] = "build"
             \/ goal[r] = "publish" /\ pc'[r] = "update_ref"
          /\ UNCHANGED <<lock, index, goal, chain, snap, result>>
      BY <1>11, <1>a, <2>2 DEF AssertStagedTree
    <3>2. CASE goal[r] # "publish"
      BY <1>c, <3>1, <3>2, MoveKeepsOwn
    <3>3. CASE goal[r] = "publish"
      BY <2>2, <3>1, <3>3 DEF Own, UnderLock, Holding
    <3> QED
      BY <3>2, <3>3
  <2> QED
    BY <2>1, <2>2
<1>12. CASE BuildCommit(r)
  <2> DEFINE entry == plan[r][Len(chain[r]) + 1]
             parent == ParentTree(r)
             commit == [tree |-> BuildCommitTree(parent, snap[r], entry.files),
                        by |-> r]
  <2>1. CASE ~CanBuild(parent, snap[r], entry.files)
    BY <1>12, <2>1, RefuseKeepsOwn DEF BuildCommit
  <2>2. CASE CanBuild(parent, snap[r], entry.files)
    <3>1. chain[r] \in Seq(Commits)
      BY DEF TypeOK
    <3>2. /\ pc[r] = "build"
          /\ pc'[r] \in {"verify", "build"}
          /\ UNCHANGED <<lock, result>>
      BY <1>12, <1>a, <2>2 DEF BuildCommit
    <3>3. chain'[r] = Append(chain[r], commit)
      BY <1>12, <2>2 DEF BuildCommit, TypeOK
    <3>4. /\ chain'[r] # << >>
          /\ \A n \in DOMAIN chain'[r] :
                chain'[r][n] = IF n = Len(chain[r]) + 1 THEN commit
                               ELSE chain[r][n]
          /\ DOMAIN chain'[r] = 1..(Len(chain[r]) + 1)
          /\ DOMAIN chain[r] = 1..Len(chain[r])
      <4> HIDE DEF commit
      <4> QED
        BY <3>1, <3>3
    <3>5. \A n \in DOMAIN chain'[r] : chain'[r][n].by = r
      BY <3>1, <3>4 DEF Own
    <3> HIDE DEF commit
    <3> QED
      BY <3>2, <3>4, <3>5 DEF Own, UnderLock, Holding
  <2> QED
    BY <2>1, <2>2
<1>13. CASE VerifyTree(r)
  <2>1. CASE Tip(chain[r]) # snap[r]
    BY <1>13, <2>1, RefuseKeepsOwn DEF VerifyTree
  <2>2. CASE Tip(chain[r]) = snap[r]
    <3>1. /\ pc[r] = "verify"
          /\ pc'[r] = "lock"
          /\ UNCHANGED <<lock, chain, snap, result>>
      BY <1>13, <1>a, <2>2 DEF VerifyTree
    <3> QED
      BY <2>2, <3>1 DEF Own, UnderLock, Holding, Tip
  <2> QED
    BY <2>1, <2>2
<1>14. CASE AcquireIndexLock(r)
  <2>1. CASE lock # Nobody
    BY <1>14, <2>1, RefuseKeepsOwn DEF AcquireIndexLock
  <2>2. CASE lock = Nobody
    <3>1. /\ pc[r] = "lock"
          /\ pc'[r] = "assert_head" /\ goal'[r] = "publish"
          /\ lock' = r
          /\ UNCHANGED <<chain, snap, result>>
      BY <1>14, <1>a, <2>2 DEF AcquireIndexLock
    <3> QED
      BY <3>1 DEF Own, UnderLock, Holding, Tip
  <2> QED
    BY <2>1, <2>2
<1>15. CASE UpdateRef(r)
  <2>1. CASE refs[head] # base[r]
    BY <1>15, <2>1, RefuseKeepsOwn DEF UpdateRef
  <2>2. CASE refs[head] = base[r]
    <3>1. /\ pc[r] = "update_ref"
          /\ pc'[r] = (IF lock = r THEN "unlock" ELSE "done")
          /\ result'[r] = "committed"
          /\ UNCHANGED <<lock, chain>>
      BY <1>15, <1>a, <2>2 DEF UpdateRef, Exit, TypeOK
    <3> QED
      BY <3>1 DEF Own, UnderLock, Holding
  <2> QED
    BY <2>1, <2>2
<1>16. CASE DropIndexLock(r)
  <2>1. /\ pc[r] = "unlock"
        /\ pc'[r] = "done"
        /\ lock' = Nobody
        /\ UNCHANGED <<chain, result>>
    BY <1>16, <1>a DEF DropIndexLock
  <2> QED
    BY <2>1, AutocommitAssumption DEF Own, UnderLock, Holding
<1>17. CASE WritePlanBrokenPipe(r)
  BY <1>17, RefuseKeepsOwn DEF WritePlanBrokenPipe
<1>18. CASE Review(r)
  <2>1. CASE ReviewAbort(r)
    BY <2>1, RefuseKeepsOwn DEF ReviewAbort
  <2>2. CASE ReviewCommit(r) \/ ReviewRetry(r)
    <3>1. /\ pc[r] = "review"
          /\ pc'[r] = "assert_head"
          /\ goal'[r] \in {"build", "retry"}
          /\ UNCHANGED <<lock, chain, result>>
      BY <1>a, <2>2 DEF ReviewCommit, ReviewRetry, Answer
    <3> QED
      BY <1>b, <3>1, MoveKeepsOwn
  <2> QED
    BY <1>18, <2>1, <2>2 DEF Review
<1>19. CASE Fail(r)
  BY <1>19, RefuseKeepsOwn DEF Fail
<1>20. CASE Crash(r)
  <2>1. /\ pc[r] \notin Ended
        /\ pc'[r] = "crashed"
        /\ result'[r] = IF result[r] = "none" THEN "killed" ELSE result[r]
        /\ UNCHANGED <<lock, chain>>
    BY <1>20, <1>a DEF Crash, TypeOK
  <2> QED
    BY <2>1 DEF Own, UnderLock, Holding
<1> QED
  BY <1>1, <1>2, <1>3, <1>4, <1>5, <1>6, <1>7, <1>8, <1>9, <1>10, <1>11,
     <1>12, <1>13, <1>14, <1>15, <1>16, <1>17, <1>18, <1>19, <1>20
  DEF RunStep, Proceed

\* What the runs see of a step of the user: its index writers hold the lock.
UserRepositoryStep ==
    /\ UNCHANGED <<pc, goal, chain, snap, result, base, plan>>
    /\ \/ lock' = lock
       \/ lock = Nobody /\ lock' = User
       \/ lock = User /\ lock' = Nobody
       \/ lock' = Nobody /\ \E q \in Runs : lock = q /\ pc[q] = "crashed"
    /\ index' = index \/ lock = User

LEMMA UserIsUserRepositoryStep ==
    ASSUME UserStep
    PROVE  UserRepositoryStep
BY DEF UserStep, UserLocks, UserStages, UserCommits, UserResets,
       UserSwitches, UserTogglesOperation, UserClearsStaleLock, External,
       UserRepositoryStep, capture, local

\* A step of the user takes from a live run neither its lock nor the index it
\* checked under that lock.
LEMMA UserKeepsOwn ==
    ASSUME TypeOK, UserStep, NEW r \in Runs, Own(r)
    PROVE  Own(r)'
<1>1. /\ UNCHANGED <<pc, goal, chain, snap, result>>
      /\ \/ lock' = lock
         \/ lock = Nobody /\ lock' = User
         \/ lock = User /\ lock' = Nobody
         \/ lock' = Nobody /\ \E q \in Runs : lock = q /\ pc[q] = "crashed"
      /\ index' = index \/ lock = User
  BY UserIsUserRepositoryStep DEF UserRepositoryStep
<1>2. r # User /\ r # Nobody
  BY AutocommitAssumption
<1>3. lock' = r <=> lock = r /\ lock' = lock
  BY <1>1, <1>2
<1>4. UnderLock(r) => pc[r] # "crashed"
  BY DEF UnderLock, Holding
<1>5. UnderLock(r) => lock' = lock /\ index' = index
  BY <1>1, <1>2, <1>4 DEF Own
<1>6. pc[r] = "update_ref" => UnderLock(r)
  BY DEF UnderLock, Holding
<1> QED
  BY <1>1, <1>3, <1>5, <1>6 DEF Own, UnderLock, Holding, Tip

\* A run that reported success keeps doing so.
LEMMA SuccessStays ==
    ASSUME TypeOK, NEW r \in Runs, RunStep(r), Own(r),
           result[r] = "committed"
    PROVE  result'[r] = "committed"
<1>a. pc[r] \in {"unlock", "done", "crashed"}
  BY DEF Own
<1>1. CASE Start(r)
  BY <1>a, <1>1 DEF Start
<1>2. CASE AssertSafeRepositoryState(r)
  BY <1>a, <1>2 DEF AssertSafeRepositoryState
<1>3. CASE ListFiles(r)
  BY <1>a, <1>3 DEF ListFiles
<1>4. CASE ReadHead(r)
  BY <1>a, <1>4 DEF ReadHead
<1>5. CASE WriteTree(r)
  BY <1>a, <1>5 DEF WriteTree
<1>6. CASE BuildContext(r)
  BY <1>a, <1>6 DEF BuildContext
<1>7. CASE RequestPlan(r)
  BY <1>a, <1>7 DEF RequestPlan
<1>8. CASE RepairPlan(r)
  BY <1>a, <1>8 DEF RepairPlan
<1>9. CASE WritePlan(r)
  BY <1>a, <1>9 DEF WritePlan
<1>10. CASE AssertHead(r)
  BY <1>a, <1>10 DEF AssertHead
<1>11. CASE AssertStagedTree(r)
  BY <1>a, <1>11 DEF AssertStagedTree
<1>12. CASE BuildCommit(r)
  BY <1>a, <1>12 DEF BuildCommit
<1>13. CASE VerifyTree(r)
  BY <1>a, <1>13 DEF VerifyTree
<1>14. CASE AcquireIndexLock(r)
  BY <1>a, <1>14 DEF AcquireIndexLock
<1>15. CASE UpdateRef(r)
  BY <1>a, <1>15 DEF UpdateRef
<1>16. CASE DropIndexLock(r)
  BY <1>a, <1>16 DEF DropIndexLock
<1>17. CASE WritePlanBrokenPipe(r)
  BY <1>a, <1>17 DEF WritePlanBrokenPipe
<1>18. CASE Review(r)
  BY <1>a, <1>18 DEF Review, ReviewCommit, ReviewRetry, ReviewAbort, Answer
<1>19. CASE Fail(r)
  BY <1>a, <1>19 DEF Fail, Ended
<1>20. CASE Crash(r)
  BY <1>a, <1>20 DEF Crash, TypeOK
<1> QED
  BY <1>1, <1>2, <1>3, <1>4, <1>5, <1>6, <1>7, <1>8, <1>9, <1>10, <1>11,
     <1>12, <1>13, <1>14, <1>15, <1>16, <1>17, <1>18, <1>19, <1>20
  DEF RunStep, Proceed

\* No branch holds a commit of a run that did not report success.
LEMMA NextKeepsAllOrNothing ==
    ASSUME IInv, TypeOK', [Next]_vars
    PROVE  AllOrNothing'
<1>a. TypeOK /\ AllOrNothing /\ \A r \in Runs : Own(r)
  BY IInvByRun
<1>1. ASSUME NEW r \in Runs, RunStep(r)
      PROVE  AllOrNothing'
  <2>1. ASSUME NEW q \in Runs, result'[q] # "committed"
        PROVE  result[q] # "committed"
    <3>1. CASE q = r
      BY <1>1, <1>a, <2>1, <3>1, SuccessStays
    <3>2. CASE q # r
      BY <1>1, <1>a, <2>1, <3>2, RunLeavesOthers DEF Others
    <3> QED
      BY <3>1, <3>2
  <2>2. CASE refs' = refs
    BY <1>a, <2>1, <2>2 DEF AllOrNothing
  <2>3. CASE refs' # refs
    <3>1. /\ result'[r] = "committed"
          /\ refs[head] = base[r]
          /\ refs' = [refs EXCEPT ![head] = base[r] \o chain[r]]
      BY <1>1, <1>a, <2>3, RunRepositoryStep DEF RepositoryStep
    <3>2. /\ base[r] \in Histories /\ chain[r] \in Seq(Commits)
          /\ head \in Branches /\ refs \in [Branches -> Histories]
      BY <1>a DEF TypeOK
    <3>3. ASSUME NEW q \in Runs, result'[q] # "committed",
                 NEW b \in Branches, NEW n \in DOMAIN refs'[b]
          PROVE  refs'[b][n].by # q
      <4>1. result[q] # "committed" /\ q # r
        BY <2>1, <3>1, <3>3
      <4>2. CASE b # head
        BY <1>a, <3>1, <3>2, <3>3, <4>1, <4>2 DEF AllOrNothing
      <4>3. CASE b = head
        <5>1. refs'[b] = base[r] \o chain[r] /\ refs[b] = base[r]
          BY <3>1, <3>2, <4>3
        <5>2. CASE n \in DOMAIN base[r] /\ refs'[b][n] = base[r][n]
          BY <1>a, <4>1, <5>1, <5>2 DEF AllOrNothing
        <5>3. CASE \E m \in DOMAIN chain[r] : refs'[b][n] = chain[r][m]
          BY <1>a, <4>1, <5>3 DEF Own
        <5>4. n \in DOMAIN (base[r] \o chain[r])
          BY <3>3, <5>1
        <5>5. \/ /\ n \in DOMAIN base[r]
                 /\ (base[r] \o chain[r])[n] = base[r][n]
              \/ \E m \in DOMAIN chain[r] :
                    (base[r] \o chain[r])[n] = chain[r][m]
          BY <3>2, <5>4, ConcatElement, Zenon
        <5> QED
          BY <5>1, <5>2, <5>3, <5>5, Zenon
      <4> QED
        BY <4>2, <4>3
    <3> QED
      BY <3>3 DEF AllOrNothing
  <2> QED
    BY <2>2, <2>3
<1>2. ASSUME UserStep
      PROVE  AllOrNothing'
  <2>1. UNCHANGED result
    BY <1>2, UserIsUserRepositoryStep DEF UserRepositoryStep
  <2>2. CASE UserCommits
    <3> DEFINE commit == [tree |-> index, by |-> User]
    <3>1. refs \in [Branches -> Histories] /\ head \in Branches
      BY <1>a DEF TypeOK
    <3>2. refs' = [refs EXCEPT ![head] = Append(refs[head], commit)]
      BY <2>2 DEF UserCommits
    <3>3. refs[head] \in Seq(Commits)
      BY <3>1 DEF Histories
    <3>4. ASSUME NEW b \in Branches, NEW n \in DOMAIN refs'[b]
          PROVE  \/ n \in DOMAIN refs[b] /\ refs'[b][n] = refs[b][n]
                 \/ refs'[b][n] = commit
      <4> HIDE DEF commit
      <4>1. CASE b = head
        BY <3>1, <3>2, <3>3, <3>4, <4>1
      <4>2. CASE b # head
        BY <3>1, <3>2, <3>4, <4>2
      <4> QED
        BY <4>1, <4>2
    <3>5. \A q \in Runs : commit.by # q
      BY AutocommitAssumption
    <3> QED
      BY <1>a, <2>1, <3>4, <3>5 DEF AllOrNothing
  <2>3. CASE UserResets
    <3>1. refs \in [Branches -> Histories] /\ head \in Branches
      BY <1>a DEF TypeOK
    <3>2. PICK k \in 1..(Len(refs[head]) - 1) :
              refs' = [refs EXCEPT ![head] = SubSeq(@, 1, k)]
      BY <2>3 DEF UserResets
    <3>3. refs[head] \in Histories /\ k \in 1..Len(refs[head])
      BY <3>1 DEF Histories
    <3>4. ASSUME NEW b \in Branches, NEW n \in DOMAIN refs'[b]
          PROVE  n \in DOMAIN refs[b] /\ refs'[b][n] = refs[b][n]
      <4>1. CASE b = head
        BY <3>1, <3>2, <3>3, <3>4, <4>1 DEF Histories
      <4>2. CASE b # head
        BY <3>1, <3>2, <3>4, <4>2
      <4> QED
        BY <4>1, <4>2
    <3> QED
      BY <1>a, <2>1, <3>4 DEF AllOrNothing
  <2>4. CASE refs' = refs
    BY <1>a, <2>1, <2>4 DEF AllOrNothing
  <2> QED
    BY <1>2, <2>2, <2>3, <2>4
    DEF UserStep, UserLocks, UserStages, UserSwitches, UserTogglesOperation,
        UserClearsStaleLock
<1>3. ASSUME UNCHANGED vars
      PROVE  AllOrNothing'
  BY <1>3, <1>a DEF AllOrNothing, vars, repository
<1> QED
  BY <1>1, <1>2, <1>3 DEF Next, Terminated

\* The inductive invariant is one.
LEMMA InitIInv ==
    ASSUME Init
    PROVE  IInv
<1>1. TypeOK
  BY InitType
<1>2. ASSUME NEW r \in Runs
      PROVE  Own(r)
  BY AutocommitAssumption DEF Init, Own, UnderLock, Holding
<1>3. AllOrNothing
  <2>1. PICK root \in Trees :
           refs = [b \in Branches |-> << [tree |-> root, by |-> User] >>]
    BY DEF Init
  <2> QED
    BY <2>1, AutocommitAssumption DEF AllOrNothing
<1> QED
  BY <1>1, <1>2, <1>3, IInvByRun

LEMMA NextIInv ==
    ASSUME IInv, [Next]_vars
    PROVE  IInv'
<1>1. TypeOK /\ \A r \in Runs : Own(r)
  BY IInvByRun
<1>2. TypeOK'
  BY <1>1, NextType
<1>3. AllOrNothing'
  BY <1>2, NextKeepsAllOrNothing
<1>4. ASSUME NEW q \in Runs
      PROVE  Own(q)'
  <2>1. ASSUME NEW r \in Runs, RunStep(r)
        PROVE  Own(q)'
    BY <1>1, <2>1, RunKeepsOwn, OthersKeepOwn
  <2>2. ASSUME UserStep
        PROVE  Own(q)'
    BY <1>1, <2>2, UserKeepsOwn
  <2>3. ASSUME UNCHANGED vars
        PROVE  Own(q)'
    BY <1>1, <2>3
    DEF Own, UnderLock, Holding, Tip, vars, repository, capture, local
  <2> QED
    BY <2>1, <2>2, <2>3 DEF Next, Terminated
<1>5. (IInv <=> TypeOK /\ (\A r \in Runs : Own(r)) /\ AllOrNothing)'
  BY DEF IInv, Own, LockDiscipline, ResultKnown, ChainOwned, ChainVerified,
         PublishesWhatIsStaged, Holding
<1> QED
  BY <1>2, <1>3, <1>4, <1>5

THEOREM Safety == Spec => []IInv
<1>1. Init => IInv
  BY InitIInv
<1>2. IInv /\ [Next]_vars => IInv'
  BY NextIInv
<1> QED
  BY <1>1, <1>2, PTL DEF Spec

\* The index lock belongs to a run exactly while it is between its acquire
\* and its drop, or was killed there.
THEOREM LockIsDisciplined == Spec => []LockDiscipline
<1>1. IInv => LockDiscipline
  BY DEF IInv
<1> QED
  BY <1>1, Safety, PTL

\* A run about to move HEAD publishes exactly what is staged at that moment.
THEOREM StagedTreeIsPublished == Spec => []PublishesWhatIsStaged
<1>1. IInv => PublishesWhatIsStaged
  BY DEF IInv
<1> QED
  BY <1>1, Safety, PTL

\* A run that did not succeed left no commit on any branch.
THEOREM NothingHalfPublished == Spec => []AllOrNothing
<1>1. IInv => AllOrNothing
  BY DEF IInv
<1> QED
  BY <1>1, Safety, PTL

-----------------------------------------------------------------------------
(* Autocommit implements AtomicPublish: whatever the interleaving, a run   *)
(* changes the repository in one step, or not at all.                      *)

\* A step of a run leaves its result alone, gives it one other than success
\* without moving a branch, or is the update-ref that moves the branch.
ResultStep(r) ==
    \/ result' = result /\ refs' = refs
    \/ /\ result[r] = "none"
       /\ \E why \in Results \ {"none", "committed"} :
              result' = [result EXCEPT ![r] = why]
       /\ refs' = refs
    \/ /\ pc[r] = "update_ref"
       /\ result' = [result EXCEPT ![r] = "committed"]
       /\ refs[head] = base[r]
       /\ refs' = [refs EXCEPT ![head] = base[r] \o chain[r]]

LEMMA RefuseResultStep ==
    ASSUME NEW r \in Runs, NEW why \in Results \ {"none", "committed"},
           Refuse(r, why), result[r] = "none"
    PROVE  ResultStep(r)
BY DEF Refuse, Exit, ResultStep, repository

LEMMA RunResultStep ==
    ASSUME TypeOK, NEW r \in Runs, RunStep(r), Own(r)
    PROVE  ResultStep(r)
<1> USE DEF repository, Results
<1>a. pc[r] \notin {"unlock", "done", "crashed"} => result[r] = "none"
  BY DEF Own
<1>b. result \in [Runs -> Results]
  BY DEF TypeOK
<1>1. CASE Start(r)
  BY <1>a, <1>b, <1>1, RefuseResultStep
  DEF Start, Exit, ResultStep
<1>2. CASE AssertSafeRepositoryState(r)
  BY <1>a, <1>b, <1>2, RefuseResultStep
  DEF AssertSafeRepositoryState, ResultStep
<1>3. CASE ListFiles(r)
  BY <1>a, <1>b, <1>3, RefuseResultStep
  DEF ListFiles, ResultStep
<1>4. CASE ReadHead(r)
  BY <1>a, <1>b, <1>4, RefuseResultStep
  DEF ReadHead, ResultStep
<1>5. CASE WriteTree(r)
  BY <1>a, <1>b, <1>5, RefuseResultStep
  DEF WriteTree, ResultStep
<1>6. CASE BuildContext(r)
  BY <1>a, <1>b, <1>6, RefuseResultStep
  DEF BuildContext, ResultStep
<1>7. CASE RequestPlan(r)
  BY <1>a, <1>b, <1>7, RefuseResultStep
  DEF RequestPlan, ResultStep
<1>8. CASE RepairPlan(r)
  BY <1>a, <1>b, <1>8, RefuseResultStep
  DEF RepairPlan, ResultStep
<1>9. CASE WritePlan(r)
  BY <1>a, <1>b, <1>9, RefuseResultStep
  DEF WritePlan, ResultStep
<1>10. CASE AssertHead(r)
  BY <1>a, <1>b, <1>10, RefuseResultStep
  DEF AssertHead, ResultStep
<1>11. CASE AssertStagedTree(r)
  BY <1>a, <1>b, <1>11, RefuseResultStep
  DEF AssertStagedTree, ResultStep
<1>12. CASE BuildCommit(r)
  BY <1>a, <1>b, <1>12, RefuseResultStep
  DEF BuildCommit, ResultStep
<1>13. CASE VerifyTree(r)
  BY <1>a, <1>b, <1>13, RefuseResultStep
  DEF VerifyTree, ResultStep
<1>14. CASE AcquireIndexLock(r)
  BY <1>a, <1>b, <1>14, RefuseResultStep
  DEF AcquireIndexLock, ResultStep
<1>15. CASE UpdateRef(r)
  BY <1>a, <1>b, <1>15, RefuseResultStep
  DEF UpdateRef, Exit, ResultStep
<1>16. CASE DropIndexLock(r)
  BY <1>a, <1>b, <1>16, RefuseResultStep
  DEF DropIndexLock, ResultStep
<1>17. CASE WritePlanBrokenPipe(r)
  BY <1>a, <1>b, <1>17, RefuseResultStep
  DEF WritePlanBrokenPipe
<1>18. CASE Review(r)
  BY <1>a, <1>b, <1>18, RefuseResultStep
  DEF Review, ReviewCommit, ReviewRetry, ReviewAbort, Answer, ResultStep
<1>19. CASE Fail(r)
  BY <1>a, <1>b, <1>19, RefuseResultStep
  DEF Fail, Ended
<1>20. CASE Crash(r)
  BY <1>a, <1>b, <1>20, RefuseResultStep
  DEF Crash, Ended, ResultStep
<1> QED
  BY <1>1, <1>2, <1>3, <1>4, <1>5, <1>6, <1>7, <1>8, <1>9, <1>10, <1>11,
     <1>12, <1>13, <1>14, <1>15, <1>16, <1>17, <1>18, <1>19, <1>20
  DEF RunStep, Proceed

-----------------------------------------------------------------------------
(* The commits of runs that branches hold. *)

\* A prefix of a longer history that stops within the shorter one.
LEMMA PrefixOfAppend ==
    ASSUME NEW h \in Histories, NEW c \in Commits, NEW n \in 1..Len(h)
    PROVE  SubSeq(Append(h, c), 1, n) = SubSeq(h, 1, n)
BY DEF Histories

LEMMA PrefixOfPrefix ==
    ASSUME NEW h \in Histories, NEW k \in 1..Len(h), NEW n \in 1..k
    PROVE  SubSeq(SubSeq(h, 1, k), 1, n) = SubSeq(h, 1, n)
BY DEF Histories

LEMMA PrefixOfConcat ==
    ASSUME NEW h \in Histories, NEW c \in Seq(Commits)
    PROVE  SubSeq(h \o c, 1, Len(h)) = h
BY DEF Histories

\* Nothing a user does puts a commit in a run's name on a branch.
LEMMA UserMakesNoRunCommit ==
    ASSUME TypeOK, UserStep
    PROVE  Promise!MadeByRuns(refs') \subseteq Promise!MadeByRuns(refs)
<1>1. refs \in [Branches -> Histories] /\ head \in Branches
  BY DEF TypeOK
<1>2. CASE UserCommits
  <2> DEFINE commit == [tree |-> index, by |-> User]
             h == refs[head]
  <2>1. refs' = [refs EXCEPT ![head] = Append(h, commit)]
    BY <1>2 DEF UserCommits
  <2>2. h \in Histories /\ h \in Seq(Commits) /\ commit \in Commits
    BY <1>1 DEF Histories, Commits, CommitTrees, Trees, TypeOK
  <2>3. commit.by \notin Runs
    BY AutocommitAssumption
  <2> HIDE DEF commit
  <2>4. ASSUME NEW b \in Branches, NEW n \in DOMAIN refs'[b],
               refs'[b][n].by \in Runs
        PROVE  /\ n \in DOMAIN refs[b] /\ refs[b][n].by \in Runs
               /\ SubSeq(refs'[b], 1, n) = SubSeq(refs[b], 1, n)
    <3>1. CASE b # head
      BY <1>1, <2>1, <2>4, <3>1
    <3>2. CASE b = head
      <4>1. refs'[b] = Append(h, commit)
        BY <1>1, <2>1, <3>2
      <4>2. /\ Len(h) \in Nat /\ DOMAIN h = 1..Len(h)
            /\ DOMAIN Append(h, commit) = 1..(Len(h) + 1)
        BY <2>2
      <4>3. n # Len(h) + 1
        BY <2>2, <2>3, <2>4, <4>1, AppendHistory
      <4>4. n \in 1..Len(h)
        BY <2>4, <4>1, <4>2, <4>3
      <4>5. Append(h, commit)[n] = h[n]
        BY <2>2, <4>4, AppendHistory
      <4> QED
        BY <2>2, <2>4, <3>2, <4>1, <4>2, <4>4, <4>5, PrefixOfAppend
    <3> QED
      BY <3>1, <3>2
  <2> QED
    BY <1>1, <2>1, <2>4 DEF Promise!MadeByRuns
<1>3. CASE UserResets
  <2> DEFINE h == refs[head]
  <2>1. PICK k \in 1..(Len(h) - 1) :
            refs' = [refs EXCEPT ![head] = SubSeq(h, 1, k)]
    BY <1>3 DEF UserResets
  <2>2. h \in Histories /\ k \in 1..Len(h)
    BY <1>1, <2>1 DEF Histories
  <2>3. ASSUME NEW b \in Branches, NEW n \in DOMAIN refs'[b],
               refs'[b][n].by \in Runs
        PROVE  /\ n \in DOMAIN refs[b] /\ refs[b][n].by \in Runs
               /\ SubSeq(refs'[b], 1, n) = SubSeq(refs[b], 1, n)
    <3>1. CASE b # head
      BY <1>1, <2>1, <2>3, <3>1
    <3>2. CASE b = head
      <4>1. refs'[b] = SubSeq(h, 1, k)
        BY <1>1, <2>1, <3>2
      <4>2. /\ Len(h) \in Nat /\ DOMAIN h = 1..Len(h)
            /\ DOMAIN SubSeq(h, 1, k) = 1..k
        BY <2>2 DEF Histories
      <4>3. n \in 1..k /\ n \in 1..Len(h)
        BY <2>2, <2>3, <4>1, <4>2
      <4>4. SubSeq(h, 1, k)[n] = h[n]
        BY <2>2, <4>3, PrefixHistory
      <4> QED
        BY <2>2, <2>3, <3>2, <4>1, <4>2, <4>3, <4>4, PrefixOfPrefix
    <3> QED
      BY <3>1, <3>2
  <2> QED
    BY <1>1, <2>1, <2>3 DEF Promise!MadeByRuns
<1>4. CASE refs' = refs
  BY <1>4
<1> QED
  BY <1>2, <1>3, <1>4
  DEF UserStep, UserLocks, UserStages, UserSwitches, UserTogglesOperation,
      UserClearsStaleLock
-----------------------------------------------------------------------------
(* The refinement. *)

LEMMA InitRefines ==
    ASSUME Init
    PROVE  Promise!Init
<1>1. PICK root \in Trees :
         refs = [b \in Branches |-> << [tree |-> root, by |-> User] >>]
  BY DEF Init
<1>2. Promise!MadeByRuns(refs) = {}
  BY <1>1, AutocommitAssumption DEF Promise!MadeByRuns
<1>3. Outcome = [r \in Runs |-> "pending"]
  BY DEF Init, Outcome
<1> QED
  BY <1>2, <1>3 DEF Promise!Init

\* A run that moves a branch publishes; one that gets another result ends;
\* every other step of it is invisible.
LEMMA RunStepRefines ==
    ASSUME IInv, NEW r \in Runs, RunStep(r)
    PROVE  Promise!Next
<1>a. TypeOK /\ Own(r)
  BY IInvByRun
<1>b. ResultStep(r)
  BY <1>a, RunResultStep
<1>c. index' = index /\ head' = head
  BY <1>a, RunRepositoryStep DEF RepositoryStep
<1>d. result \in [Runs -> Results]
  BY <1>a DEF TypeOK
<1>1. CASE result' = result /\ refs' = refs
  <2>1. Outcome' = Outcome
    BY <1>1 DEF Outcome
  <2> QED
    BY <1>1, <2>1 DEF Promise!Next, Promise!Environment
<1>2. ASSUME NEW why \in Results \ {"none", "committed"},
             result[r] = "none",
             result' = [result EXCEPT ![r] = why],
             refs' = refs
      PROVE  Promise!Next
  <2>1. Outcome[r] = "pending"
    BY <1>2 DEF Outcome
  <2>2. Outcome' = [Outcome EXCEPT ![r] = "ended"]
    BY <1>2, <1>d DEF Outcome, Results
  <2> QED
    BY <1>2, <1>c, <2>1, <2>2 DEF Promise!Next, Promise!End
<1>3. CASE /\ pc[r] = "update_ref"
           /\ result' = [result EXCEPT ![r] = "committed"]
           /\ refs[head] = base[r]
           /\ refs' = [refs EXCEPT ![head] = base[r] \o chain[r]]
  <2> DEFINE old == base[r]
             new == base[r] \o chain[r]
  <2>1. /\ result[r] = "none"
        /\ chain[r] # << >>
        /\ Tip(chain[r]) = index
        /\ \A n \in DOMAIN chain[r] : chain[r][n].by = r
    BY <1>3, <1>a DEF Own, Holding
  <2>2. /\ refs \in [Branches -> Histories] /\ head \in Branches
        /\ base[r] \in Histories /\ chain[r] \in Seq(Commits)
    BY <1>a DEF TypeOK
  <2>3. Outcome[r] = "pending"
    BY <2>1 DEF Outcome
  <2>4. Outcome' = [Outcome EXCEPT ![r] = "committed"]
    BY <1>3, <1>d, <2>1 DEF Outcome
  <2>5. refs[head] = old /\ refs'[head] = new
    BY <1>3, <2>2
  <2>6. refs' = [refs EXCEPT ![head] = new]
    BY <1>3
  <2>7. /\ Len(old) \in Nat
        /\ Len(chain[r]) \in Nat \ {0}
        /\ DOMAIN chain[r] = 1..Len(chain[r])
    BY <2>1, <2>2 DEF Histories
  <2>8. Len(new) = Len(old) + Len(chain[r])
    BY <2>2, ConcatHistory
  <2>9. \A m \in 1..Len(chain[r]) : new[Len(old) + m] = chain[r][m]
    BY <2>2, ConcatHistory
  <2> HIDE DEF old, new
  <2>10. Len(new) > Len(old)
    BY <2>7, <2>8
  <2>11. SubSeq(new, 1, Len(old)) = old
    BY <2>2, PrefixOfConcat DEF old, new
  <2>12. ASSUME NEW n \in (Len(old) + 1)..Len(new)
         PROVE  new[n].by = r
    <3>1. n - Len(old) \in 1..Len(chain[r]) /\ n = Len(old) + (n - Len(old))
      BY <2>7, <2>8
    <3> DEFINE m == n - Len(old)
    <3>2. m \in 1..Len(chain[r]) /\ n = Len(old) + m
      BY <3>1
    <3> HIDE DEF m
    <3>3. new[n] = chain[r][m]
      BY <2>9, <3>2
    <3>4. m \in DOMAIN chain[r]
      BY <2>7, <3>2
    <3> QED
      BY <2>1, <3>3, <3>4
  <2>13. new[Len(new)].tree = index
    <3>1. Len(chain[r]) \in 1..Len(chain[r])
      BY <2>7
    <3>2. new[Len(new)] = chain[r][Len(chain[r])]
      BY <2>8, <2>9, <3>1
    <3> QED
      BY <2>1, <3>2 DEF Tip
  <2>14. Promise!Publish(r)
    BY <1>c, <2>3, <2>4, <2>5, <2>6, <2>10, <2>11, <2>12, <2>13
    DEF Promise!Publish
  <2> QED
    BY <2>14 DEF Promise!Next
<1> QED
  BY <1>1, <1>2, <1>3, <1>b DEF ResultStep

LEMMA UserStepRefines ==
    ASSUME TypeOK, UserStep
    PROVE  Promise!Next
<1>1. result' = result
  BY UserIsUserRepositoryStep DEF UserRepositoryStep
<1>2. Outcome' = Outcome
  BY <1>1 DEF Outcome
<1> QED
  BY <1>2, UserMakesNoRunCommit DEF Promise!Next, Promise!Environment

\* Every run publishes in one step, on top of what the branch holds at that
\* step and ending in what is staged at that step, or never changes the
\* repository.
THEOREM Refinement == Spec => PublishesAtomically
<1>1. Init => Promise!Init
  BY InitRefines
<1>2. IInv /\ [Next]_vars => [Promise!Next]_(Promise!vars)
  <2>1. ASSUME IInv, UNCHANGED vars
        PROVE  UNCHANGED Promise!vars
    BY <2>1 DEF vars, repository, Outcome, Promise!vars
  <2>2. ASSUME IInv, Next
        PROVE  Promise!Next \/ UNCHANGED Promise!vars
    <3>1. TypeOK
      BY <2>2 DEF IInv
    <3> QED
      BY <2>1, <2>2, <3>1, RunStepRefines, UserStepRefines DEF Next, Terminated
  <2> QED
    BY <2>1, <2>2
<1> QED
  BY <1>1, <1>2, Safety, PTL DEF Spec, PublishesAtomically, Promise!Spec
=============================================================================
