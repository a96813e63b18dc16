# A formal model of git-autocommit

git-autocommit asks a language model to split what is staged in a Git
repository into commits, validates the answer, shows it, and then publishes
the commits.  This directory holds TLA+ modules translated from its source,
TLC configurations that check them on small instances, and proofs checked by
TLAPS.  Paths below are relative to the repository's root (`src/app.rs` is the
program, `src/app/runtime.rs` its run loop, `src/validation.rs` the check of
the model's answer, `research/` the offline research tools).

## The system

| part | state it keeps | operations | what is hard about it |
|---|---|---|---|
| Run loop (`runtime.rs`) | captured `files`, `head`, `snapshot`; the plan; the retry attempt | mode selection, request, review (commit, retry, abort), exit | every Git command is a process of its own; the repository may change between any two of them |
| Repository snapshot (`app.rs`) | none beside the captured values | `repository_snapshot`, `assert_snapshot` | three reads that are not atomic; the check must not be separated from the use |
| Commit construction (`app.rs`) | a temporary index per commit; unreferenced commit objects | `tree_entry`, `build_commit_tree`, `create_commit`, `create_commits` | a chain of commits that must end in the captured tree; failure half way |
| Index lock (`app.rs`) | `.git/index.lock` | `IndexLock::acquire`, its `Drop` | given back on every exit; left behind by a kill |
| Operation markers (`runtime.rs`) | files in `.git` written by others | `assert_safe_repository_state` | read once |
| Plan validation (`validation.rs`) | none | `parse_plan`, `validate_requested_plan`, the message policy | must accept exactly the partitions of the staged paths |
| Evidence budget (`app.rs`, `runtime.rs`) | none | `adaptive_diff_budget`, `allocate_diff_budgets`, `excerpt`, `split_evidence_budget`, `staged_file_excerpt` | integer division, saturation, byte boundaries |
| Prompts (`app.rs`) | none | `render_plan_prompt`, `validate_repairable_prompt_size`, `repair_plan_prompt`, `retry_plan_prompt` | a repair of a prompt that just fitted must fit as well |
| Model endpoint (`app.rs`) | none | `request_plan`, `request_validated_plan` | invalid and late answers, redirects, oversized bodies |
| Message policy (`validation.rs`) | none | `validate_conventional_message` | a grammar read by cutting at the first colon and parenthesis; trailers anywhere in a body |
| Settings and token (`app.rs`, `runtime.rs`) | none | `resolve_settings`, `resolve_toggle`, `apply_default_context_ceilings`, `BearerToken::from_sources` | precedence of flag, environment, file, default; whether a limit was chosen is decided a second time |
| Usage totals (`runtime.rs`) | seven counters | `record`, `summary` | partial reports, saturation |
| Dataset extractor (`research/predictive_dataset.rs`) | the window, the observation, a union-find, the output file | `extract`, `build_groups`, `write_record`, `git_bytes` | two revisions resolved by two commands; grouping is a transitive closure; both ends of a pipe |
| Baselines (`research/predictive_baseline.rs`) | none | `validate_record_set`, `predict`, the scores, `segment` | a record is checked by three readers that must agree; degenerate partitions |

A run, a reviewer, the model endpoint, Git's own files and whoever else uses
the repository interact only through the repository: `refs/heads`, `HEAD`, the
index, `index.lock` and the operation markers.  There is no lock from capture
to publication; the program captures an object id for `HEAD` and one for the
index, and compares again later.

### What makes each part correct

* A run publishes all its commits in one step or none, on top of the commit it
  captured, and ends in what is staged at that very step.
* Each commit changes only the paths its entry lists.
* The index lock is a run's exactly within `create_commits`, on every exit.
* Nothing but a concurrent change makes the program refuse an approved plan.
* Validation accepts exactly the plans that assign each staged path once.
* A run nobody is asked about ends, whatever the endpoint answers.
* A prompt that was accepted can be repaired within `max_prompt_bytes`, every
  attempt makes at most two requests, how often one retried does not use up the
  room for a retry, and the usage printed is the sum of what the endpoint
  reported.
* The evidence of all staged files fits `max_diff_bytes`, which is shared out
  fully and in proportion; an excerpt keeps both ends and whole characters.
* The default prompt ceiling leaves room above every diff limit; what a user
  chose, wherever, is what the run goes by.
* An accepted commit message follows the grammar and holds no trailer; a token
  is a whole file; evidence comes into the prompt word for word.
* A dataset record covers every commit between its base and its tip, has an id
  of its own, groups commits by the transitive closure of shared paths, and is
  accepted by the baselines.  (That it is the same whoever extracts it holds
  only up to a race, see `attributes_race`.)
* The scores of a prediction agree with each other, with a count of pairs, and
  over all segments.
* The extractor's call of Git never hangs on a pipe, and what it returns as a
  success is complete.

## Modules

| module | models | EXTENDS / INSTANCE |
|---|---|---|
| `GitTree` | trees, the index, `nul_paths`, `tree_entry`, `build_commit_tree` | |
| `PlanValidation` | `parse_plan`, `validate_requested_plan` | |
| `Autocommit` | the run loop, the snapshot, the commits, the lock, faults and other users | `GitTree`, `PlanValidation`; `AtomicPublish` by refinement |
| `AtomicPublish` | the promise: a run publishes in one step or never | |
| `RequestLoop` | prompts, replies and `UsageTotals` over the loop of `run` | |
| `Usize` | the machine integer of sizes | |
| `Excerpt` | `utf8_prefix_len`, `excerpt` | |
| `EvidenceBudget` | `diff_weight`, `allocate_diff_budgets`, `split_evidence_budget`, `staged_file_excerpt`, `staged_context` | `Excerpt`, `Usize` |
| `MessagePolicy` | `validate_conventional_message` and what it calls | |
| `Settings` | `resolve_settings`, the default ceilings, `adaptive_diff_budget` | `Usize` |
| `BearerToken` | the two sources of a credential | |
| `PromptTemplate` | `render_plan_prompt` | |
| `GitPipe` | `git_bytes` of the dataset extractor | |
| `CommitGroups` | `build_groups` and its `UnionFind` | |
| `Baselines` | the checks of a data set, the baselines, the scores | |
| `DatasetExtract` | `extract` and `write_record`, beside other users of the repository | `CommitGroups`, `Baselines` |
| `RecursionProofs` | lemmas about recursion, sums, folds and sequences | |
| `AutocommitProofs`, `CommitProofs`, `RequestLoopProofs`, `GitPipeProofs` | proofs | the module they are about, or its proofs |
| `EvidenceProofs`, `InputProofs`, `ResearchProofs` | proofs | `MCInputs` (the first two), `MCResearch`, and `RecursionProofs` |
| `MCAutocommit`, `MCRequestLoop`, `MCEvidenceBudget` | instances for TLC | the module they check |
| `MCInputs` | everything a run is given from outside, in one state space | `MCEvidenceBudget`, `PlanValidation`, `MessagePolicy`, `Settings`, `BearerToken`, `PromptTemplate` |
| `MCResearch` | extractions, groupings and data sets | `DatasetExtract` |

### Autocommit

Every Git command a run issues is one action, since anything may happen
between two commands; what the program computes between them is part of the
action.  `pc` names the next command:

| action | code |
|---|---|
| `Start`, `AssertSafeRepositoryState` | `run` up to the capture; `--show-config` ends here |
| `ListFiles`, `ReadHead`, `WriteTree` | `repository_snapshot`: `git diff`, `git rev-parse HEAD`, `git write-tree` |
| `BuildContext` | `staged_context`, prompt and size check; `--show-prompt` ends here |
| `RequestPlan`, `RepairPlan` | `request_validated_plan`: one request, one repair |
| `WritePlan`, `WritePlanBrokenPipe` | `write_plan`; `--dry-run` and a closed standard output end here |
| `ReviewCommit`, `ReviewRetry`, `ReviewAbort` | `read_review_choice` and the match on it |
| `AssertHead`, `AssertStagedTree` | `assert_snapshot`; `goal` says for which of its three callers |
| `BuildCommit` | one turn of the loop of `create_commits` |
| `VerifyTree` | the comparison of the chain's tree with the snapshot |
| `AcquireIndexLock`, `UpdateRef`, `DropIndexLock` | the rest of `create_commits` and `IndexLock` |
| `Fail` | any command, request or I/O operation failing |
| `Crash` | a kill: nothing is dropped |
| `User...` | Git commands of others, with the locks Git takes for them |

Abstractions.  A tree maps paths to contents; a commit is its tree and who made
it; an object id is the whole history, so that equal ids are equal histories.
An entry that `update-index` writes with mode 040000 makes the tree `Garbled`,
a value equal to no snapshot.  The message of an entry is a Boolean, and a
reply that is no JSON plan is `NotJson`.  `git write-tree` is one step: its own
short hold of the lock is visible only as its failure while another holds it.
The seven markers are one flag.  An unborn branch (no commit yet), on which
`rev-parse HEAD` fails, is left out.  `branch` and `disturbed` are history
variables that no action reads.

Users change the index only while they hold the lock and refs at any time,
which is what Git's commands do.  A user may clear the lock file of a killed
run, never that of a live one.

### The other modules

* `RequestLoop` is the same loop seen from the endpoint: a prompt is its
  length, a reply its status, length, shape and usage.  `CheckPrompt` is
  `validate_repairable_prompt_size`, `FirstRequest` and `RepairRequest` are the
  two requests of `request_validated_plan`, `Retry` is `retry_plan_prompt` and
  the jump back, `Decide` every way on.
* `Excerpt` and `EvidenceBudget` are operators over lengths: a text is its
  length and the set of positions between two characters.
* `MessagePolicy` reads a line as a sequence of classes of characters, by the
  same cuts as the code; the grammar it is compared with is written without
  cuts.  The hyphen has a class of its own, since the tokens of trailers hold
  it (`Signed-off-by`), and so has the slash, which a scope may hold and the
  token of a trailer may not.
* `Settings` maps what each source says to the settings a run goes by.
  `BearerToken` does so for the bytes of a credential, `PromptTemplate` for the
  pieces of a template.  `MCInputs` puts these, the message policy, the
  plans and the staged files of `MCEvidenceBudget` into one state space in
  which a text grows by a piece at a time.
* `GitPipe` is the thread that writes Git's input, Git itself, and the caller
  that reads two outputs, over pipes of `Capacity` bytes.
* `DatasetExtract` has one action for each read of what may change while the
  extractor works: `ResolveBase`, `ResolveTip`, `ValidateAttributeIsolation`,
  `Observe`, and `CreateOutput` and `WriteOutput` for `write_record`.  Commits
  are immutable, so the commands that only read objects are part of `Observe`.
  The commits of the repository are given; other users move the two revisions,
  create or remove `info/attributes`, and take the output's name.  A path is a
  sequence of bytes of which the slash, the dot and one that is not UTF-8 are
  told apart, so that encoding, depth and suffix of a path are computed as the
  code does, by the writer (`DatasetExtract`) and by the reader (`Baselines`).
* `CommitGroups` is the union-find, its path compression included;
  `Baselines` is every check, prediction and score, with ratios as pairs of
  integers.

Operators whose comment says "Mutant" are not part of the model: each is a
definition with a plausible mistake, under which the property it was written
for is violated.  `PROJECT.json` says which one stands for which definition.

## Runs

| run | question | bounds |
|---|---|---|
| `solo` | One run in every mode beside a user: do commits follow the plan, and is a refusal always someone else's doing? | 1 run, 2 paths, 2 contents, 2 branches, 2 external changes, 1 retry, faults |
| `contended` | Two unattended runs and a user: the lock, all-or-nothing publication of what is staged, the inductive invariant, and `AtomicPublish` | 2 runs, 2 paths of which one lies under the other, 1 content, 2 branches, 1 external change, faults |
| `progress` | Do unattended runs end and locks come back? | 2 runs, 1 path, 1 external change, faults, fairness |
| `inputs` | Is everything a run is given from outside taken as it was meant, and is what it shows of the staged files within limits? | plans of 2 entries and 3 paths; subjects of 8 characters, messages of 5 lines, of which those of the body have 4 characters; 6 bytes of a credential; 6 pieces of a template; settings around each threshold; texts of 13 bytes, budgets to 14, 3 files of every kind |
| `request_loop` | Do prompts and retries stay sendable, requests bounded, and usage exact? | lengths on both sides of each limit, usage up to a 3-bit "u64", 2 retries |
| `git_pipe` | Does a call return, complete or as a failure? | pipes of 1 byte, 4 bytes of input, 2 of each output |
| `research` | Are records complete, unique and readable, and do the scores agree? | histories of 3 commits over 2 paths, one a hidden file below a directory with a dot and one with a name that is not UTF-8, 2 steps of others; 4 commits over 3 paths to group; 2 records with 4 paths |
| `capture_race`, `branch_switch`, `file_becomes_directory`, `weight_overflow`, `attributes_race` | Violated: see below | the least that shows it |

Why the bounds are enough.  Two runs are the least that contend for the lock,
and a third could only wait behind the second.  One path cannot be split, two
can, in either order; a path under another needs two.  Two contents let a path
change and change back; two branches let `HEAD` move without a new tip.  One
external change can hit each gap between two commands, a second one can undo
it.  A history of three commits holds a window of two, a merge, and a path that
is touched and restored; four commits over three paths are the least in which
two groups are joined by a third commit after the fact.  `MaxU64`, `MaxUsize`
and the limits of lengths are small so that they are passed; sizes lie one
below, at and one above each threshold.

Fairness.  `progress` assumes weak fairness of each run's own next command:
Git commands return, and the HTTP client has a timeout.  Nothing is assumed of
a reviewer, of faults, or of users, so `UnattendedRunsEnd` is about runs
nobody is asked about.  `git_pipe` assumes that the thread, the caller and Git
go on whenever a pipe lets them; Git stopping early is not assumed.

### What holds

* `PublishesAtomically`: a run is a single atomic step that publishes what is
  staged, or no step, whatever happens between its commands.  The lock between
  the last comparison and `update-ref` is what makes it so; without the second
  comparison, or the expected old value, the refinement fails.
* `CommitsFollowPlan`: each commit of a chain, and not only the last tree,
  changes what its entry lists.
* `RefusedOnlyIfDisturbed`: retry, build and publish compare with values that
  only others can have changed.
* `RetriesStayPossible`: the note of a retry is put on the plan prompt and not
  on the prompt before, so a retry is too large only if the first one was or
  its number is longer.
* `UsageIsWhatWasHeard`: the printed totals are those of all replies that held
  a text, invalid plans included.
* `AcceptsExactlyPartitions`, `SubjectsAreConventional`,
  `MessagesHoldNoTrailer`: validation against a definition written differently.
  A trailer, for the last, is what Git reads as one: a token of letters, digits
  and hyphens, indented or not, a colon or an equals sign with spaces around it
  or not, and a value.
* `ChosenSettingsHold`, `CeilingLeavesHeadroom`: a value someone chose is used,
  although whether it was chosen is decided in another place than its value.
* `EvidenceIsVerbatim`: replacing one token after the other is harmless for the
  staged text, because it goes in last.  A staged *path* that holds the token
  of the context is rewritten; the property leaves paths out.
* `WindowIsWholeHistory`: the window is whole for whatever two commits the two
  revisions resolved to, each at its own time.
* `GroupsAreComponents`, `RecordsAreAccepted`, `ValidRecordsScore`: the
  grouping, the record and the two checks of the reader agree, the suffix of a
  name included, which writer and reader compute by different code.
* `PairCountsAreByPair`, `ScoresAgree`, `SegmentsAddUp`: the closed forms of
  the scores count pairs, and the exact match, the adjusted Rand index and F1
  agree on what is perfect, degenerate partitions included.

### Where the documentation and the program disagree

* `capture_race`: `repository_snapshot` lists the staged paths before it reads
  `HEAD` and writes the tree.  A change in between is captured by the later
  reads, and the plan is validated against the earlier list.
* `branch_switch`: `HEAD` is captured as an object id.  After a switch to
  another branch with the same tip the commits go to that branch.
* `file_becomes_directory`: a path that replaces a directory, or is replaced by
  one, cannot be expressed by copies of single entries; an approved plan that
  nobody disturbed is refused.
* `weight_overflow`: the weights of the staged files are added unchecked; with
  extreme settings the sum wraps in a release build, and the evidence exceeds
  `max_diff_bytes`.
* `attributes_race`: the extractor is said to fail closed whenever
  `info/attributes` is present, so that a record depends on the commits alone.
  It looks once, before it reads the diffs; a file created after the look
  changes what is counted, and the record is written.

## Proofs

Every theorem holds for all values of the constants that satisfy the
assumptions named in the modules (`GitTreeAssumption`, `AutocommitAssumption`,
`RequestAssumption`, ...); these only give constants their types, say that
special values differ from ordinary ones, and that a repository touches finitely
many paths (`ExtractAssumption`, `ResearchAssumption`).

* `AutocommitProofs`.  `TypeCorrect` is by induction over all actions.
  `Safety` proves `IInv`, which adds to the promises what they need to be
  inductive: a run has a result exactly when it is over, its chain is its own,
  and from the comparison on the chain ends in the captured tree.  The
  invariant is taken apart by run (`Own`): a run's own step keeps its part
  (`RunKeepsOwn`), another run's cannot take its lock or change the index
  (`OthersKeepOwn`), and a user's writer of the index would hold the lock
  (`UserKeepsOwn`).  `LockIsDisciplined`, `StagedTreeIsPublished` and
  `NothingHalfPublished` follow.
* `AutocommitProofs` also proves `Refinement`, that every step of `Autocommit`
  is a step or a stutter of `AtomicPublish`, from `IInv`.
* `CommitProofs`.  `CommitsFollowThePlan` has an invariant of its own,
  `Follows`: entries of the plan are disjoint (from validation, by
  `ValidPlanDisjoint`), a run that has built a commit asks for no other plan,
  and every commit so far follows its entry.
  `RefusalsHaveACause` proves `RefusedOnlyIfDisturbed` where no path lies
  inside another (`Inside = {}`; otherwise `file_becomes_directory` shows a
  program that refuses by itself).  Its invariant `Calm` says that what an
  undisturbed run captured is what is there, and that the tree of commit `n` is
  the base with the paths of the first `n` entries as captured (`Partial`);
  since the plan assigns exactly the captured difference, the last tree is the
  captured one (`PlanReproducesTree`).
* `RequestLoopProofs`: `LoopInvariant`, from which `RepairsAlwaysFit` and
  `OneRepairAtMost` follow (what was checked with the reserve in hand can be
  repaired; what is past the check was).  `RetriesAreAlwaysPossible` has an
  invariant of its own, `RetryInv`: past its check, the prompt of a retry was
  within the limit, and two such prompts differ by the digits of their numbers
  alone (`OnlyDigitsDiffer`).
  `UsageAddsUp`: the invariant relates each counter to the whole sequence of
  replies heard; a saturated sum is the least of the sum and the limit, so that
  saturating at every step or once at the end is the same.
* `EvidenceProofs`: an excerpt of any text fits any budget
  (`ExcerptAlwaysFits`), shows both ends (`BothEndsAlwaysKept`), and the two
  excerpts of a file fit the file's share (`FileEvidenceAlwaysFits`).  Over all
  files: the shares and the remainder come to at most the budget (`BudgetsFit`),
  to all of it and in proportion (`BudgetsAreProportional`), and the evidence of
  any number of files fits `max_diff_bytes` (`EvidenceAlwaysFits`).  The
  theorems of the run follow: `ExcerptsFit` and `ExcerptsKeepBothEnds` as they
  are, `EvidenceStaysWithinBudget` if the sum of the weights is a `usize`
  (`WeightsFit`), `AllocationStaysFair` if the products with the budget are as
  well (`ProductsFit`).  These two hypotheses hold of every realistic
  configuration and of the `inputs` run; `weight_overflow` shows that the
  first cannot be dropped, and with a saturated product the shares are no
  longer proportional.
* `InputProofs` is about everything a run is given, of any size.
  `ExactlyPartitionsAreAccepted` rests on `ValidationIsExact`: acceptance means
  a partition.  `ChosenSettingsAreKept` and `CeilingsLeaveHeadroom` go through
  the sources of each setting; `HeadroomAlwaysLeft` has the sizes.
  `CredentialsAreWholeFiles`: a read that is cut at the limit is longer than any
  token.  `PromptsQuoteEvidence`: each replacement leaves the pieces that are no
  token alone, and the context goes in after the last one.
  `AcceptedMessagesHoldNoTrailer`: the lines of the body are those of the
  message after the blank line, and each line that Git could read as a trailer,
  hyphens and indentation included, is one the program refuses
  (`TrailersAreTrailerLike`).
  `SubjectsFollowTheGrammar`: what stands before the first colon, and in the
  parentheses before it, is what the grammar calls the head, in both directions.
* `ResearchProofs`, of an extraction.  `RecordIsOfWholeWindow`: a first-parent list in which no
  commit has a parent outside it but its predecessor holds every commit of the
  history between the two; the proof follows the list from its end to its
  beginning.  `SampleIdsAreUnique`: fields that carry their length can be read
  back one after the other, decimals included, so the preimage determines the
  two commits and the bounds.  `OutputIsNeverOverwritten` is by the
  steps of the extractor and of others.
* `ResearchProofs`, of the grouping.  A forest is well formed if no parent is
  greater than its child, so every way up ends in a root; compression and joins
  keep that (`CompressedIs`, `JoinIs`), and a join makes one tree of two and
  touches no other.  `JoinAllIs` is the invariant of the loop over meetings: two
  commits are in one tree exactly if the meetings so far link them.  Each
  meeting is of the latest earlier owner of a path and the next one, so the
  meetings link what overlap links (`MeetingsAre`, `TreesAreLinks`,
  `OverlapLinks`), and `GroupsAreConnectedComponents` follows, once the trees
  are known to come in the order of their first commits (`ComponentsIs`).
  "Connected" is stated without paths through a graph: no set that is closed
  under overlap holds the one and not the other.
* `ResearchProofs`, of the record.  `AcceptedIInv` adds to the window's
  invariant that a record is accepted.  What makes it so: each path changed
  between base and tip is touched by a commit of the window (`WindowChanges`),
  eligibility demands the converse, no commit occurs twice (`WindowIncreases`),
  the groups are then non-empty, disjoint
  and cover the observed paths (`TargetGroupsAreValid`), and the suffix that is
  recorded of a name is one the reader accepts (`SuffixesAgree`).
  `InternalErrorsCannotHappen` and `WrittenRecordsAreAccepted` are both read off
  it.
* `ResearchProofs`, of the scores.  `DataIInv` gives every data set its type.
  `ValidDataSetsScore`: a record with disjoint groups that cover its paths has
  exactly one group for each path.  `PairCountsCountPairs`: of `n` things there
  are `n` choose 2 pairs (`CountOfPairs`, one element at a time), and the
  pairs of equal label are a disjoint union over labels (`SamePairsIs`); the
  four counts are then differences of cardinalities.  `ScoresAgreeOnPerfection`
  is left with the arithmetic of the adjusted Rand index (`IndexArithmetic`: its
  denominator less its numerator is the number of false pairs times the number
  of pairs), that of F1 (`F1OfPerfection`), and with the two-way map of
  `same_partition` (`ExactIs`).
  `SegmentsAccountForAll`: a sum over all samples is the sum, key by key, over
  the samples with that key (`SegmentsAddUpTo`).
* `GitPipeProofs`: `CallInvariant` and `CompleteOutput`, for every capacity.
* `RecursionProofs` is what these rest on.  The prover has no rule of
  induction that it can apply to a formula, but it knows that `<` on the
  naturals is well founded: the least number of a set of counterexamples
  (`LeastNumber`) does the same, for numbers and for the lengths of sequences.
  A recursive function is chosen among those that satisfy its equation, so one
  is constructed first (`RecursionExists`, `FoldExists`, `LeftFoldExists`);
  then sums over a function (`SumFunction`), folds, flattened sequences and
  sorted sets compute what one expects, for every argument.

Only model-checked: liveness (`UnattendedRunsEnd`, `LockGivenBack`,
`CallReturns`), which is out of the prover's reach.  Every other property of a
passing run has a theorem; `EvidenceStaysWithinBudget`, `AllocationStaysFair` and
`RefusalsHaveACause` have the hypothesis named above, which the run's constants
satisfy and without which a violated run shows the property false.

## Plan

Done: the modules of the table above.  Left, in order:

1. The URL policy of the endpoint client (`model_request_url`).
2. The legacy variables of the base URL and the model, and `load_file_config`.

## Not modelled

* Argument parsing, the rendering of plans as text and JSON, `strip_fence`,
  signing, the wire format of HTTP and JSON, the URL check and the refusal of
  redirects beyond its status, packaging, CI, the fuzz targets.  They keep no
  state of their own and no property above depends on them; a failure of any of
  them is `Fail`.
* Of the settings: strings with their legacy variables, the TOML file's parsing.
* Of the research tools: JSON and its unknown fields, a record that is over
  `max_record_bytes` (part of `Fail`; the bound itself is checked and is in the
  sample id), `.gitattributes` (a free choice), output to standard output, the
  fields of a sample id that are the same for all samples of a repository, the
  rounding of `f64`, the mean of the adjusted Rand index, collisions of the
  hash behind a sample id, the unchecked 64-bit sums of pair counts.
* Texts: characters of several bytes in messages, tokens spelled across pieces
  of a prompt.
