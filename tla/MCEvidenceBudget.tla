-------------------------- MODULE MCEvidenceBudget --------------------------
(***************************************************************************)
(* Texts against every small budget and marker, grown one character of one *)
(* to four bytes at a time; and staged sets of a few files against every   *)
(* small budget and setting, grown one file at a time.  `subject` says     *)
(* which of the two a behaviour grows.                                     *)
(***************************************************************************)
EXTENDS EvidenceBudget

CONSTANTS
    MaxLen,             \* bound: bytes of a text
    MaxBudget,          \* bound: bytes of a text's budget
    Markers,            \* lengths of the truncation marker of a text
    MaxStaged,           \* bound: staged files
    DiffLengths,        \* lengths of a diff
    StagedLengths,      \* lengths of a staged file
    Budgets,            \* values of max_diff_bytes
    SourceWeights,      \* values of source_diff_weight
    LowWeights,         \* values of low_value_diff_weight
    SmallDiffs,         \* values of small_diff_bytes
    FileContexts,       \* values of staged_file_context_bytes
    FileMarker          \* length of the truncation marker of the files

ASSUME BoundsAssumption ==
    /\ {MaxBudget, MaxStaged} \subseteq Nat
    /\ Markers \cup {FileMarker} \subseteq Nat
    /\ DiffLengths \cup StagedLengths \subseteq Nat
    /\ Budgets \subseteq 0..MaxUsize
    /\ SourceWeights \cup LowWeights \cup SmallDiffs \cup FileContexts
           \subseteq Nat \ {0}

VARIABLES subject, input

vars == <<subject, input>>

\* A text of one-byte characters; longer ones are the other subject's matter.
Ascii(n) == [len |-> n, cuts |-> 0..n]

SmallSettings ==
    [max_diff_bytes : Budgets, source_diff_weight : SourceWeights,
     low_value_diff_weight : LowWeights, small_diff_bytes : SmallDiffs,
     staged_file_context_bytes : FileContexts, marker : {FileMarker}]

EvidenceInit ==
    \/ /\ subject = "text"
       /\ input \in [text : {Ascii(0)}, budget : 0..MaxBudget, marker : Markers]
    \/ /\ subject = "files"
       /\ input \in [files : {<< >>}, settings : SmallSettings]

AddChar ==
    /\ subject = "text"
    /\ \E width \in 1..4 :
          /\ input.text.len + width <= MaxLen
          /\ input' = [input EXCEPT
                !.text = [len |-> @.len + width,
                          cuts |-> @.cuts \cup {@.len + width}]]
    /\ UNCHANGED subject

StageFile ==
    /\ subject = "files"
    /\ Len(input.files) < MaxStaged
    /\ \E binary, low \in BOOLEAN, n \in DiffLengths,
          staged \in {Unshown} \cup {Ascii(m) : m \in StagedLengths} :
          input' = [input EXCEPT
             !.files = Append(@, [binary |-> binary, low |-> low,
                                  diff |-> Ascii(n), staged |-> staged])]
    /\ UNCHANGED subject

EvidenceNext == AddChar \/ StageFile

EvidenceSpec == EvidenceInit /\ [][EvidenceNext]_vars

\* excerpt returns at most max_bytes bytes, cuts no character in two and
\* repeats none, and leaves alone what fits.
ExcerptFits ==
    subject = "text" => Fits(input.text, input.budget, input.marker)

\* excerpt keeps something of the beginning and of the end of what it cuts.
ExcerptKeepsBothEnds ==
    subject = "text" => KeepsBothEnds(input.text, input.budget, input.marker)

\* The diffs and staged contents shown are together within max_diff_bytes.
EvidenceWithinBudget ==
    subject = "files" => EvidenceFits(input.files, input.settings)

\* allocate_diff_budgets divides all of max_diff_bytes in proportion.
AllocationIsFair ==
    subject = "files" =>
        BudgetsAreFair(Weights(input.files, input.settings),
                       input.settings.max_diff_bytes)
=============================================================================
