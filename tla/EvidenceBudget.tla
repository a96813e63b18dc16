--------------------------- MODULE EvidenceBudget ---------------------------
(***************************************************************************)
(* How staged_context of app.rs divides max_diff_bytes among the staged    *)
(* files, and what of each file it shows.                                  *)
(*                                                                         *)
(* A file is whether Git calls it binary, whether it is of low value (a    *)
(* lockfile, generated, vendored or minified), its diff and its staged     *)
(* content, which is Unshown when `git show` fails or it holds a NUL byte. *)
(* Headings and the notes on truncation are left out: the budget never     *)
(* counts them.                                                            *)
(*                                                                         *)
(* Machine integers are usize: sums wrap as in a release build, and        *)
(* saturating_mul stops at MaxUsize.                                       *)
(***************************************************************************)
EXTENDS Excerpt, Usize, Sequences, FiniteSets, Functions

CONSTANT Unshown        \* no staged content to show

ASSUME EvidenceAssumption == Unshown \notin Texts

File ==
    [binary : BOOLEAN, low : BOOLEAN, diff : Texts,
     staged : Texts \cup {Unshown}]

Settings ==
    [max_diff_bytes : Nat, source_diff_weight : Nat \ {0},
     low_value_diff_weight : Nat \ {0}, small_diff_bytes : Nat \ {0},
     staged_file_context_bytes : Nat \ {0}, marker : Nat]

Least(a, b) == IF a <= b THEN a ELSE b

Wrapped(n) == n % (MaxUsize + 1)

DiffWeight(file, settings) ==
    IF file.low THEN settings.low_value_diff_weight
    ELSE settings.source_diff_weight

Weights(files, settings) ==
    [i \in DOMAIN files |->
        IF files[i].binary THEN 0 ELSE DiffWeight(files[i], settings)]

\* What integer division leaves over, one byte each for the first files that
\* have a weight.
GetsRemainder(weights, i, remainder) ==
    /\ weights[i] > 0
    /\ Cardinality({j \in 1..i : weights[j] > 0}) <= remainder

Share(weight, total, maxBytes) ==
    Least(maxBytes * weight, MaxUsize) \div total

\* Mutant: the first files take all, in Git's order.
FirstComeFirstServed(weights, maxBytes) ==
    [i \in DOMAIN weights |->
        IF weights[i] > 0 /\ \A j \in 1..(i - 1) : weights[j] = 0
        THEN maxBytes ELSE 0]

AllocateDiffBudgets(weights, maxBytes) ==
    LET total == Wrapped(SumFunction(weights))
        share == [i \in DOMAIN weights |-> Share(weights[i], total, maxBytes)]
        assigned == Wrapped(SumFunction(share))
        remainder == maxBytes - Least(assigned, maxBytes)
    IN
    IF total = 0
    THEN [i \in DOMAIN weights |-> 0]
    ELSE [i \in DOMAIN weights |->
             IF GetsRemainder(weights, i, remainder)
             THEN share[i] + 1 ELSE share[i]]

\* A small diff of a file that matters gives up to half of its budget to the
\* staged content.
FileBudget(file, budget, settings) ==
    IF file.diff.len < settings.small_diff_bytes /\ ~file.low
    THEN Least(budget, settings.staged_file_context_bytes) \div 2
    ELSE 0

\* Mutant: the staged content comes on top of the diff.
DiffBudgetInFull(file, budget, settings) == budget

DiffBudget(file, budget, settings) ==
    budget - FileBudget(file, budget, settings)

DiffBytes(file, budget, settings) ==
    LET kept == Keep(file.diff, DiffBudget(file, budget, settings),
                     settings.marker)
    IN Size(file.diff, kept, settings.marker)

StagedFileBytes(file, budget, settings) ==
    LET most == FileBudget(file, budget, settings) IN
    IF most = 0 \/ file.low \/ file.staged = Unshown
    THEN 0
    ELSE Size(file.staged, Keep(file.staged, most, settings.marker),
              settings.marker)

\* The evidence staged_context shows of each file, in bytes.
StagedContext(files, settings) ==
    LET budgets == AllocateDiffBudgets(Weights(files, settings),
                                       settings.max_diff_bytes)
    IN [i \in DOMAIN files |->
           IF files[i].binary
           THEN 0
           ELSE DiffBytes(files[i], budgets[i], settings)
                    + StagedFileBytes(files[i], budgets[i], settings)]
-----------------------------------------------------------------------------
\* The bytes a file may take are never exceeded by its two excerpts together.
FileEvidenceFits(file, budget, settings) ==
    DiffBytes(file, budget, settings)
        + StagedFileBytes(file, budget, settings) <= budget

\* docs/large-change-context.md:7, "combined diff and file evidence never
\* exceed the active max_diff_bytes budget".
EvidenceFits(files, settings) ==
    SumFunction(StagedContext(files, settings)) <= settings.max_diff_bytes

\* docs/large-change-context.md:3, the budget "is distributed across every
\* changed path": nothing is left over, every share is the proportional one or
\* one byte more, and a heavier file never gets less than a lighter one that
\* comes later.
BudgetsAreFair(weights, maxBytes) ==
    LET total == SumFunction(weights)
        budgets == AllocateDiffBudgets(weights, maxBytes)
    IN
    total > 0 =>
        /\ SumFunction(budgets) = maxBytes
        /\ \A i \in DOMAIN weights :
              budgets[i] * total - maxBytes * weights[i] \in (1 - total)..total
        /\ \A i, j \in DOMAIN weights :
              i < j /\ weights[i] >= weights[j] => budgets[i] >= budgets[j]
        /\ maxBytes >= total =>
              \A i \in DOMAIN weights :
                  weights[i] > 0 => budgets[i] >= weights[i]
=============================================================================
