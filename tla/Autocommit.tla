----------------------------- MODULE Autocommit -----------------------------
(***************************************************************************)
(* Runs of git-autocommit in one repository, beside a user (or any other   *)
(* program) that changes the same repository while they work.              *)
(*                                                                         *)
(* Every Git command a run issues is an action of its own, because another *)
(* actor may act between any two of them.  A commit's object id is         *)
(* its whole history, so a branch holds a sequence of commits.             *)
(***************************************************************************)
EXTENDS GitTree, PlanValidation

CONSTANTS
    Runs,           \* invocations of git-autocommit
    User,           \* whoever else changes the repository
    Nobody,         \* holder of a free index lock
    Branches,
    Modes,          \* the modes the runs are started in
    MaxCommits,     \* settings.max_commits
    SingleCommit,   \* settings.single_commit
    Replies,        \* what the model endpoint may answer
    MaxExternal,    \* bound: changes made by User
    MaxRetries,     \* bound: retries a reviewer asks for, per run
    Faults          \* whether commands fail and runs are killed

AllModes == {"show_config", "show_prompt", "dry_run", "no_review", "review"}

Plans == Seq(Entries(Paths))

ASSUME AutocommitAssumption ==
    /\ User \notin Runs
    /\ Nobody \notin Runs \cup {User}
    /\ Modes \subseteq AllModes
    /\ MaxCommits \in Nat \ {0}
    /\ SingleCommit \in BOOLEAN
    /\ Replies \subseteq Plans \cup {NotJson}
    /\ NotJson \notin Plans
    /\ MaxExternal \in Nat
    /\ MaxRetries \in Nat
    /\ Faults \in BOOLEAN

VARIABLES
    refs,       \* refs/heads: the history each branch points to
    head,       \* .git/HEAD: the branch it names
    index,      \* .git/index
    lock,       \* .git/index.lock: who created it
    marker,     \* whether MERGE_HEAD, BISECT_START, ... exists
    external,   \* how many changes User has made
    pc,         \* the next command of each run
    mode,       \* how the run was started
    files,      \* run: files
    base,       \* run: head
    snap,       \* run: snapshot
    plan,       \* run: plan
    chain,      \* the commit objects create_commits has written
    goal,       \* what assert_snapshot was called for
    attempt,    \* run: retry_attempt
    result,     \* how the run ended, "none" until then
    branch,     \* history: the branch HEAD named when base was read
    disturbed   \* history: whether others changed what the run depends on

repository == <<refs, head, index, lock, marker, external>>
capture == <<files, base, snap, branch>>
local == <<mode, plan, chain, goal, attempt>>
vars == <<repository, pc, capture, local, result, disturbed>>

Commits == [tree : CommitTrees, by : Runs \cup {User}]
Histories == Seq(Commits) \ {<< >>}
Tip(history) == history[Len(history)].tree

Labels ==
    {"start", "markers", "files", "head", "tree", "context", "request",
     "repair", "write", "review", "assert_head", "assert_tree", "build",
     "verify", "lock", "update_ref", "unlock", "done", "crashed"}

Ended == {"done", "crashed"}

Results ==
    {"none", "committed", "declined", "operation", "nothing_staged",
     "locked", "invalid_plan", "head_changed", "index_changed", "refused_path",
     "not_reproduced", "update_refused", "error", "killed"}

TypeOK ==
    /\ refs \in [Branches -> Histories]
    /\ head \in Branches
    /\ index \in Trees
    /\ lock \in Runs \cup {User, Nobody}
    /\ marker \in BOOLEAN
    /\ external \in 0..MaxExternal
    /\ pc \in [Runs -> Labels]
    /\ mode \in [Runs -> Modes]
    /\ files \in [Runs -> SUBSET Paths]
    /\ base \in [Runs -> Histories]
    /\ snap \in [Runs -> Trees]
    /\ plan \in [Runs -> Plans]
    /\ chain \in [Runs -> Seq(Commits)]
    /\ goal \in [Runs -> {"retry", "build", "publish"}]
    /\ attempt \in [Runs -> Nat]
    /\ result \in [Runs -> Results]
    /\ branch \in [Runs -> Branches]
    /\ disturbed \in [Runs -> BOOLEAN]

\* Every branch starts at one commit, whatever is staged on top of it.
Init ==
    /\ \E root \in Trees :
          refs = [b \in Branches |-> << [tree |-> root, by |-> User] >>]
    /\ head \in Branches
    /\ index \in Trees
    /\ lock = Nobody
    /\ marker \in BOOLEAN
    /\ external = 0
    /\ pc = [r \in Runs |-> "start"]
    /\ mode \in [Runs -> Modes]
    /\ files = [r \in Runs |-> {}]
    /\ base = [r \in Runs |-> refs[head]]
    /\ snap = [r \in Runs |-> index]
    /\ plan = [r \in Runs |-> << >>]
    /\ chain = [r \in Runs |-> << >>]
    /\ goal = [r \in Runs |-> "build"]
    /\ attempt = [r \in Runs |-> 0]
    /\ result = [r \in Runs |-> "none"]
    /\ branch = [r \in Runs |-> head]
    /\ disturbed = [r \in Runs |-> FALSE]
-----------------------------------------------------------------------------
Goto(r, label) == pc' = [pc EXCEPT ![r] = label]

Disturb(others) ==
    disturbed' = [q \in Runs |-> disturbed[q] \/ q \in others]

\* Mutant: the lock outlives create_commits.
ExitKeepsLock(r, why) ==
    /\ result' = [result EXCEPT ![r] = why]
    /\ Goto(r, "done")

\* An exit leaves create_commits, whose IndexLock is then dropped.
Exit(r, why) ==
    /\ result' = [result EXCEPT ![r] = why]
    /\ Goto(r, IF lock = r THEN "unlock" ELSE "done")

Refuse(r, why) ==
    /\ Exit(r, why)
    /\ UNCHANGED <<repository, capture, local, disturbed>>

Start(r) ==
    /\ pc[r] = "start"
    /\ disturbed' = [disturbed EXCEPT ![r] = lock # Nobody]
    /\ IF mode[r] = "show_config"
       THEN Exit(r, "declined")
       ELSE Goto(r, "markers") /\ UNCHANGED result
    /\ UNCHANGED <<repository, capture, local>>

AssertSafeRepositoryState(r) ==
    /\ pc[r] = "markers"
    /\ IF marker
       THEN Refuse(r, "operation")
       ELSE /\ Goto(r, "files")
            /\ UNCHANGED <<repository, capture, local, result, disturbed>>
-----------------------------------------------------------------------------
(* repository_snapshot: three commands, one after the other. *)

ListFiles(r) ==
    LET staged == Diff(Tip(refs[head]), index) IN
    /\ pc[r] = "files"
    /\ IF staged = {}
       THEN Refuse(r, "nothing_staged")
       ELSE /\ files' = [files EXCEPT ![r] = staged]
            /\ Goto(r, "head")
            /\ UNCHANGED <<repository, base, snap, branch, local, result,
                           disturbed>>

ReadHead(r) ==
    /\ pc[r] = "head"
    /\ base' = [base EXCEPT ![r] = refs[head]]
    /\ branch' = [branch EXCEPT ![r] = head]
    /\ Goto(r, "tree")
    /\ UNCHANGED <<repository, files, snap, local, result, disturbed>>

\* `git write-tree` takes the index lock for itself and dies if it is held.
WriteTree(r) ==
    /\ pc[r] = "tree"
    /\ IF lock # Nobody
       THEN Refuse(r, "locked")
       ELSE /\ snap' = [snap EXCEPT ![r] = index]
            /\ Goto(r, "context")
            /\ UNCHANGED <<repository, files, base, branch, local, result,
                           disturbed>>
-----------------------------------------------------------------------------
(* From the evidence to a displayed plan. *)

\* Reads the diffs, renders the prompt and checks its size.
BuildContext(r) ==
    /\ pc[r] = "context"
    /\ IF mode[r] = "show_prompt"
       THEN Refuse(r, "declined")
       ELSE /\ Goto(r, "request")
            /\ UNCHANGED <<repository, capture, local, result, disturbed>>

Valid(r, reply) ==
    ValidateRequestedPlan(reply, files[r], MaxCommits, SingleCommit)

\* Mutant: the first reply is taken as it is.
RequestUnvalidatedPlan(r) ==
    \E reply \in Replies :
        /\ pc[r] = "request"
        /\ plan' = [plan EXCEPT ![r] = reply]
        /\ Goto(r, "write")
        /\ UNCHANGED <<repository, capture, mode, chain, goal, attempt,
                       result, disturbed>>

\* request_validated_plan: the first request, and one repair if it is invalid.
RequestPlan(r) ==
    \E reply \in Replies :
        /\ pc[r] = "request"
        /\ IF Valid(r, reply)
           THEN plan' = [plan EXCEPT ![r] = reply] /\ Goto(r, "write")
           ELSE Goto(r, "repair") /\ UNCHANGED plan
        /\ UNCHANGED <<repository, capture, mode, chain, goal, attempt,
                       result, disturbed>>

\* Mutant: a repair that is invalid starts over.
RepairForever(r) ==
    \E reply \in Replies :
        /\ pc[r] = "repair"
        /\ IF Valid(r, reply)
           THEN plan' = [plan EXCEPT ![r] = reply] /\ Goto(r, "write")
           ELSE Goto(r, "request") /\ UNCHANGED plan
        /\ UNCHANGED <<repository, capture, mode, chain, goal, attempt,
                       result, disturbed>>

RepairPlan(r) ==
    \E reply \in Replies :
        /\ pc[r] = "repair"
        /\ IF Valid(r, reply)
           THEN /\ plan' = [plan EXCEPT ![r] = reply]
                /\ Goto(r, "write")
                /\ UNCHANGED <<repository, capture, mode, chain, goal,
                               attempt, result, disturbed>>
           ELSE Refuse(r, "invalid_plan")

\* The plan is printed; a dry run ends here, an unattended run goes on.
WritePlan(r) ==
    /\ pc[r] = "write"
    /\ \/ mode[r] = "dry_run" /\ Refuse(r, "declined")
       \/ /\ mode[r] = "review"
          /\ Goto(r, "review")
          /\ UNCHANGED <<repository, capture, local, result, disturbed>>
       \/ /\ mode[r] = "no_review"
          /\ goal' = [goal EXCEPT ![r] = "build"]
          /\ Goto(r, "assert_head")
          /\ UNCHANGED <<repository, capture, mode, plan, chain, attempt,
                         result, disturbed>>

\* Standard output was closed: the run ends without an error.
WritePlanBrokenPipe(r) ==
    /\ pc[r] = "write"
    /\ Refuse(r, "declined")

Answer(r, choice) ==
    /\ pc[r] = "review"
    /\ goal' = [goal EXCEPT ![r] = choice]
    /\ Goto(r, "assert_head")
    /\ UNCHANGED <<repository, capture, mode, plan, chain, attempt, result,
                   disturbed>>

ReviewCommit(r) == Answer(r, "build")

ReviewRetry(r) == attempt[r] < MaxRetries /\ Answer(r, "retry")

\* "a", "q" or the end of standard input.
ReviewAbort(r) == pc[r] = "review" /\ Refuse(r, "declined")
-----------------------------------------------------------------------------
(* assert_snapshot: two commands; called before a retry, before the commits *)
(* are built, and again under the index lock.                               *)

AssertHead(r) ==
    /\ pc[r] = "assert_head"
    /\ IF refs[head] # base[r]
       THEN Refuse(r, "head_changed")
       ELSE /\ Goto(r, "assert_tree")
            /\ UNCHANGED <<repository, capture, local, result, disturbed>>

AssertStagedTree(r) ==
    /\ pc[r] = "assert_tree"
    /\ IF index # snap[r]
       THEN Refuse(r, "index_changed")
       ELSE /\ \/ /\ goal[r] = "retry"
                  /\ attempt' = [attempt EXCEPT ![r] = @ + 1]
                  /\ Goto(r, "request")
               \/ goal[r] = "build" /\ Goto(r, "build") /\ UNCHANGED attempt
               \/ /\ goal[r] = "publish"
                  /\ Goto(r, "update_ref")
                  /\ UNCHANGED attempt
            /\ UNCHANGED <<repository, capture, mode, plan, chain, goal,
                           result, disturbed>>
-----------------------------------------------------------------------------
(* create_commits *)

\* Mutant: every commit is built on the captured HEAD.
ParentIsBase(r) == Tip(base[r])

ParentTree(r) == IF chain[r] = << >> THEN Tip(base[r]) ELSE Tip(chain[r])

\* build_commit_tree and create_commit for the next entry of the plan.
BuildCommit(r) ==
    LET entry == plan[r][Len(chain[r]) + 1]
        parent == ParentTree(r)
    IN
    /\ pc[r] = "build"
    /\ Len(chain[r]) < Len(plan[r])
    /\ IF ~CanBuild(parent, snap[r], entry.files)
       THEN Refuse(r, "refused_path")
       ELSE /\ chain' = [chain EXCEPT ![r] = Append(@,
                  [tree |-> BuildCommitTree(parent, snap[r], entry.files),
                   by |-> r])]
            /\ Goto(r, IF Len(chain[r]) + 1 = Len(plan[r])
                       THEN "verify" ELSE "build")
            /\ UNCHANGED <<repository, capture, mode, plan, goal, attempt,
                           result, disturbed>>

\* Mutant: the chain is not compared with the snapshot.
VerifyNothing(r) ==
    /\ pc[r] = "verify"
    /\ Goto(r, "lock")
    /\ UNCHANGED <<repository, capture, local, result, disturbed>>

\* Mutant: HEAD moves before the lock is taken and the snapshot rechecked.
VerifyAndMove(r) ==
    /\ pc[r] = "verify"
    /\ refs' = [refs EXCEPT ![head] = base[r] \o chain[r]]
    /\ Goto(r, "lock")
    /\ UNCHANGED <<head, index, lock, marker, external, capture, local,
                   result, disturbed>>

VerifyTree(r) ==
    /\ pc[r] = "verify"
    /\ IF Tip(chain[r]) # snap[r]
       THEN Refuse(r, "not_reproduced")
       ELSE /\ Goto(r, "lock")
            /\ UNCHANGED <<repository, capture, local, result, disturbed>>

\* Mutant: the snapshot is not checked again under the lock.
AcquireWithoutRecheck(r) ==
    /\ pc[r] = "lock"
    /\ lock = Nobody
    /\ lock' = r
    /\ goal' = [goal EXCEPT ![r] = "publish"]
    /\ Disturb(Runs \ {r})
    /\ Goto(r, "update_ref")
    /\ UNCHANGED <<refs, head, index, marker, external, capture, mode,
                   plan, chain, attempt, result>>

\* create_new: fails at once if the lock file exists.
AcquireIndexLock(r) ==
    /\ pc[r] = "lock"
    /\ IF lock # Nobody
       THEN Refuse(r, "locked")
       ELSE /\ lock' = r
            /\ goal' = [goal EXCEPT ![r] = "publish"]
            /\ Disturb(Runs \ {r})
            /\ Goto(r, "assert_head")
            /\ UNCHANGED <<refs, head, index, marker, external, capture, mode,
                           plan, chain, attempt, result>>

\* Mutant: `git update-ref HEAD <new>`, without the expected old value.
UpdateRefBlindly(r) ==
    /\ pc[r] = "update_ref"
    /\ refs' = [refs EXCEPT ![head] = base[r] \o chain[r]]
    /\ Disturb(Runs \ {r})
    /\ Exit(r, "committed")
    /\ UNCHANGED <<head, index, lock, marker, external, capture, local>>

\* `git update-ref HEAD <new> <old>` compares and swaps whatever branch HEAD
\* names now.
UpdateRef(r) ==
    /\ pc[r] = "update_ref"
    /\ IF refs[head] # base[r]
       THEN Refuse(r, "update_refused")
       ELSE /\ refs' = [refs EXCEPT ![head] = base[r] \o chain[r]]
            /\ Disturb(Runs \ {r})
            /\ Exit(r, "committed")
            /\ UNCHANGED <<head, index, lock, marker, external, capture,
                           local>>

\* Mutant: the lock file is closed but not removed.
CloseIndexLock(r) ==
    /\ pc[r] = "unlock"
    /\ Goto(r, "done")
    /\ UNCHANGED <<repository, capture, local, result, disturbed>>

\* IndexLock::drop removes the lock file.
DropIndexLock(r) ==
    /\ pc[r] = "unlock"
    /\ lock' = Nobody
    /\ Disturb(Runs \ {r})
    /\ Goto(r, "done")
    /\ UNCHANGED <<refs, head, index, marker, external, capture, local,
                   result>>

\* What a run does of its own accord, without a fault or a reviewer.
Proceed(r) ==
    \/ Start(r) \/ AssertSafeRepositoryState(r)
    \/ ListFiles(r) \/ ReadHead(r) \/ WriteTree(r)
    \/ BuildContext(r) \/ RequestPlan(r) \/ RepairPlan(r) \/ WritePlan(r)
    \/ AssertHead(r) \/ AssertStagedTree(r)
    \/ BuildCommit(r) \/ VerifyTree(r)
    \/ AcquireIndexLock(r) \/ UpdateRef(r) \/ DropIndexLock(r)

Review(r) == ReviewCommit(r) \/ ReviewRetry(r) \/ ReviewAbort(r)
-----------------------------------------------------------------------------
(* Faults of a run. *)

\* A command, the endpoint or an I/O operation fails; `?` ends the run.
Fail(r) ==
    /\ Faults
    /\ pc[r] \notin Ended \cup {"start", "unlock"}
    /\ Refuse(r, "error")

\* The process is killed: nothing is dropped, a lock file stays behind.
Crash(r) ==
    /\ Faults
    /\ pc[r] \notin Ended \cup {"start"}
    /\ Goto(r, "crashed")
    /\ result' = [result EXCEPT ![r] = IF @ = "none" THEN "killed" ELSE @]
    /\ UNCHANGED <<repository, capture, local, disturbed>>
-----------------------------------------------------------------------------
(* The user and other programs.  Commands that write the index hold its     *)
(* lock; commands that only move refs do not.                               *)

External ==
    /\ external < MaxExternal
    /\ external' = external + 1
    /\ UNCHANGED <<pc, capture, local, result>>

\* `git add`, `git commit`, ... begins.
UserLocks ==
    /\ lock = Nobody
    /\ lock' = User
    /\ External
    /\ Disturb(Runs)
    /\ UNCHANGED <<refs, head, index, marker>>

\* `git add`, `git reset -- path`: the lock file becomes the index.
UserStages ==
    /\ lock = User
    /\ index' \in Trees
    /\ lock' = Nobody
    /\ Disturb(Runs)
    /\ UNCHANGED <<refs, head, marker, external, pc, capture, local, result>>

\* `git commit` of what is staged.
UserCommits ==
    /\ lock = User
    /\ refs' = [refs EXCEPT ![head] =
                   Append(@, [tree |-> index, by |-> User])]
    /\ lock' = Nobody
    /\ Disturb(Runs)
    /\ UNCHANGED <<head, index, marker, external, pc, capture, local, result>>

\* `git reset --soft HEAD~n`: moves the branch back, leaves the index.
UserResets ==
    \E n \in 1..(Len(refs[head]) - 1) :
        /\ refs' = [refs EXCEPT ![head] = SubSeq(@, 1, n)]
        /\ External
        /\ Disturb(Runs)
        /\ UNCHANGED <<head, index, lock, marker>>

\* `git symbolic-ref HEAD`, or `git switch -c` at the current commit.
UserSwitches ==
    /\ head' \in Branches \ {head}
    /\ External
    /\ Disturb(Runs)
    /\ UNCHANGED <<refs, index, lock, marker>>

\* `git bisect start`, `git merge --abort`, ...
UserTogglesOperation ==
    /\ marker' = ~marker
    /\ External
    /\ UNCHANGED <<refs, head, index, lock, disturbed>>

\* The lock file a killed run left behind is removed by hand.
UserClearsStaleLock ==
    /\ \E r \in Runs : lock = r /\ pc[r] = "crashed"
    /\ lock' = Nobody
    /\ Disturb(Runs)
    /\ UNCHANGED <<refs, head, index, marker, external, pc, capture, local,
                   result>>

UserStep ==
    \/ UserLocks \/ UserStages \/ UserCommits \/ UserResets \/ UserSwitches
    \/ UserTogglesOperation \/ UserClearsStaleLock

\* Every run has ended and stays so.
Terminated ==
    /\ \A r \in Runs : pc[r] \in Ended
    /\ UNCHANGED vars

RunStep(r) ==
    Proceed(r) \/ WritePlanBrokenPipe(r) \/ Review(r) \/ Fail(r) \/ Crash(r)

Next == (\E r \in Runs : RunStep(r)) \/ UserStep \/ Terminated

Spec == Init /\ [][Next]_vars

\* A run's next command is eventually executed: Git commands return, and the
\* HTTP client gives up after settings.timeout.  Nobody promises an answer to
\* the review prompt, nor that the user does anything.
FairSpec == Spec /\ \A r \in Runs : WF_vars(Proceed(r))
-----------------------------------------------------------------------------
(* Properties. *)

\* create_commits holds the lock and has not left it.
Holding(r) ==
    \/ pc[r] = "update_ref"
    \/ pc[r] \in {"assert_head", "assert_tree"} /\ goal[r] = "publish"

UnderLock(r) == pc[r] = "unlock" \/ Holding(r)

\* The index lock is a run's exactly from IndexLock::acquire to its drop, on
\* every path out of create_commits, and only a killed run leaves it behind.
LockDiscipline ==
    \A r \in Runs :
        /\ UnderLock(r) => lock = r
        /\ lock = r => UnderLock(r) \/ pc[r] = "crashed"

\* A run about to move HEAD holds commits that extend its base and end in the
\* captured tree, and that tree is still what is staged: no index writer can
\* come between the check under the lock and update-ref.
PublishesWhatIsStaged ==
    \A r \in Runs :
        pc[r] = "update_ref" =>
            /\ chain[r] # << >>
            /\ Tip(chain[r]) = snap[r]
            /\ index = snap[r]

\* A run that did not report success has no commit on any branch, wherever
\* between two commands it stopped.
AllOrNothing ==
    \A r \in Runs :
        result[r] # "committed" =>
            \A b \in Branches : \A n \in DOMAIN refs[b] : refs[b][n].by # r

\* The paths commit n of a run changes, against its parent.
ChangedBy(r, n) ==
    Diff(IF n = 1 THEN Tip(base[r]) ELSE chain[r][n - 1].tree,
         chain[r][n].tree)

\* Commit n changes only paths the plan's entry n lists, and no path changes
\* in two commits of the chain.
CommitsFollowPlan ==
    \A r \in Runs :
        \A n \in DOMAIN chain[r] :
            chain[r][n].tree # Garbled =>
                /\ ChangedBy(r, n) \subseteq Range(plan[r][n].files)
                /\ \A m \in 1..(n - 1) :
                      chain[r][m].tree # Garbled =>
                          ChangedBy(r, m) \cap ChangedBy(r, n) = {}

Refusals ==
    {"locked", "head_changed", "index_changed", "refused_path",
     "not_reproduced", "update_refused"}

\* A run nobody interfered with is not refused: every check of the program
\* that can stop an accepted plan has a concurrent change as its cause.
RefusedOnlyIfDisturbed ==
    \A r \in Runs : result[r] \in Refusals => disturbed[r]

\* How far a run is, as the README's "Repository mutation" has it.
Outcome ==
    [r \in Runs |-> CASE result[r] = "none" -> "pending"
                      [] result[r] = "committed" -> "committed"
                      [] OTHER -> "ended"]

Promise == INSTANCE AtomicPublish WITH outcome <- Outcome

\* Whatever the interleaving of its commands, every run changes the repository
\* in one step or not at all, and that step publishes what is staged then.
PublishesAtomically == Promise!Spec

\* Once started, a run no reviewer is asked about ends.
UnattendedRunsEnd ==
    \A r \in Runs :
        pc[r] = "markers" /\ mode[r] # "review" ~> pc[r] \in Ended

\* A run that holds the index lock gives it back, or was killed.
LockGivenBack ==
    \A r \in Runs : lock = r ~> lock # r \/ pc[r] = "crashed"
-----------------------------------------------------------------------------
(* What makes the invariants above inductive. *)

\* A run has a result exactly when it has left `run`.
ResultKnown ==
    \A r \in Runs :
        result[r] = "none" <=> pc[r] \notin {"unlock", "done", "crashed"}

\* The commit objects of a run are its own.
ChainOwned ==
    \A r \in Runs : \A n \in DOMAIN chain[r] : chain[r][n].by = r

\* From the comparison with the snapshot on, the chain ends in it.
ChainVerified ==
    \A r \in Runs :
        /\ pc[r] = "verify" => chain[r] # << >>
        /\ pc[r] = "lock" \/ Holding(r) =>
              chain[r] # << >> /\ Tip(chain[r]) = snap[r]

IInv ==
    /\ TypeOK
    /\ LockDiscipline
    /\ ResultKnown
    /\ ChainOwned
    /\ ChainVerified
    /\ PublishesWhatIsStaged
    /\ AllOrNothing
-----------------------------------------------------------------------------
(* What the documentation says and the program does not do. *)

\* man/git-autocommit.1:13, "every staged path must appear exactly once,
\* invented paths are rejected": the paths a published plan lists are those
\* staged between the captured HEAD and the captured tree.
PlanListsWhatIsStaged ==
    \A r \in Runs :
        pc[r] = "update_ref" => files[r] = Diff(Tip(base[r]), snap[r])

\* README.md:99, "concurrent ref changes still cause the operation to fail":
\* the commits go to the branch whose tip was captured.
PublishesToCapturedBranch ==
    [][\A r \in Runs :
          result[r] = "none" /\ result'[r] = "committed" =>
              head = branch[r]]_vars

\* README.md:87, "`c` commits the displayed plan": with nothing else going
\* on, what stops an approved plan is never the program's own check of it.
ApprovedPlanIsCommitted ==
    \A r \in Runs :
        mode[r] = "review" /\ ~disturbed[r] =>
            result[r] \notin {"refused_path", "not_reproduced"}
=============================================================================
