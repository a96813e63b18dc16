------------------------------ MODULE MCInputs ------------------------------
(***************************************************************************)
(* What a run is given from outside, in every small form: replies of the   *)
(* model, commit messages, settings, credential files, prompt templates,   *)
(* and the staged files of MCEvidenceBudget.  `subject` says which of these*)
(* `input` is; texts grow by a piece at a time.                            *)
(***************************************************************************)
EXTENDS MCEvidenceBudget, PlanValidation, MessagePolicy, Settings, BearerToken,
        PromptTemplate, FiniteSets, TLC

CONSTANTS
    Names,          \* paths, staged or invented
    MaxEntries,     \* bound: entries of a reply
    MaxFiles,       \* bound: paths of an entry
    Limits,         \* values of max_commits
    MaxSubject,     \* bound: characters of a subject
    MaxLine,        \* bound: characters of a body line
    MaxLines,       \* bound: lines of a message
    MaxBytes,       \* bound: bytes of a credential file
    MaxPieces       \* bound: pieces of a template

ASSUME InputsAssumption ==
    /\ {MaxEntries, MaxFiles, MaxSubject, MaxLine, MaxLines, MaxBytes, MaxPieces}
           \subseteq Nat
    /\ Limits \subseteq Nat \ {0}

SeqsUpTo(set, n) == UNION {[1..k -> set] : k \in 0..n}

Replies ==
    LET entries == [conventional : BOOLEAN, files : SeqsUpTo(Names, MaxFiles)]
    IN [reply : {NotJson} \cup SeqsUpTo(entries, MaxEntries),
        staged : (SUBSET Names) \ {{}}, maxCommits : Limits, single : BOOLEAN]

\* Each source unset, unusable, too small or large enough to matter.
Sizes == {Unset, NotUnicode, Malformed, 50000, 100000, MaxUsize}
FileSizes == {Unset, 0, 150000}
AllAsked ==
    [numbers :
        [timeout : [cli : {Unset, 7}, env : {Unset, 5, Malformed}, file : {Unset}],
         max_diff_bytes : [cli : {Unset}, env : Sizes, file : FileSizes],
         max_prompt_bytes : [cli : {Unset}, env : Sizes, file : FileSizes],
         max_commits : [cli : {Unset}, env : {Unset}, file : {3}]],
     review : [enabled : BOOLEAN, disabled : BOOLEAN,
               env : {Unset, Malformed}, file : {Unset, FALSE}]]
StagedSizes == {16000, 96001}

\* The evidence and the path list of a prompt may quote a token.
Templates ==
    [template : {<< >>}, files : {<<"text">>, <<"max_commits">>, <<"context">>},
     context : {<<"text">>, <<"files_json", "text">>, <<"context">>}]

Init ==
    \/ EvidenceInit
    \/ subject = "reply" /\ input \in Replies
    \/ subject = "settings"
       /\ input \in [asked : AllAsked, staged : StagedSizes]
    \/ subject = "token" /\ input = << >>
    \/ subject = "line" /\ input \in {<<"type">>, <<"x">>}
    \/ subject = "message" /\ input = <<<<"type", ":", " ", "x">>>>
    \/ subject = "template" /\ input \in Templates

AddCharacter ==
    /\ subject = "line"
    /\ Len(input) < MaxSubject
    /\ \E c \in {"x", ":", " ", "(", ")", "!"} : input' = Append(input, c)
    /\ UNCHANGED subject

\* A message in which no line of the body could be of interest so far.
Plain(message) == \A k \in 2..Len(message) : message[k] \in {<< >>, <<"x">>}

\* One line of the body is anything, and the others show where it stands; the
\* line after the subject has to be empty or not.
AddLine ==
    /\ subject = "message"
    /\ Len(input) < MaxLines
    /\ \E line \in IF Len(input) > 1 /\ Plain(input)
                   THEN SeqsUpTo({"x", "-", ".", "/", ":", "=", " ", "bad"}, MaxLine)
                   ELSE {<< >>, <<"x">>} :
          input' = Append(input, line)
    /\ UNCHANGED subject

AddByte ==
    /\ subject = "token"
    /\ Len(input) < MaxBytes
    /\ \E byte \in TokenBytes : input' = Append(input, byte)
    /\ UNCHANGED subject

AddPiece ==
    /\ subject = "template"
    /\ Len(input.template) < MaxPieces
    /\ \E piece \in TokenNames \cup {"text"} :
          input' = [input EXCEPT !.template = Append(@, piece)]
    /\ UNCHANGED subject

Next == EvidenceNext \/ AddCharacter \/ AddLine \/ AddByte \/ AddPiece

Spec == Init /\ [][Next]_vars

\* parse_plan and validate_requested_plan accept a reply if and only if it is
\* a plan of at most max_commits entries (one in single mode) with valid
\* messages that assigns every staged path once and nothing else.
AcceptsExactlyPartitions ==
    subject = "reply" =>
        AcceptsExactly(input.reply, input.staged, input.maxCommits, input.single)

\* validate_conventional_subject reads every line as the grammar does.
SubjectsAreConventional == subject = "line" => SubjectIsConventional(input)

\* No message that is accepted smuggles in a trailer or passes the limits.
MessagesHoldNoTrailer == subject = "message" => NoTrailerPasses(input)

\* A prompt ceiling nobody chose leaves room for all evidence and more.
CeilingLeavesHeadroom ==
    subject = "settings" => LeavesHeadroom(input.asked, input.staged)

\* What the user chose, in whatever place, is what the run goes by.
ChosenSettingsHold ==
    subject = "settings" => ChoicesHold(input.asked, input.staged)

\* A credential file is taken whole or not at all.
TokensAreWholeFiles == subject = "token" => TokenIsWholeFile(input)

\* Tokens quoted in the evidence stay as they are.
EvidenceIsVerbatim ==
    subject = "template" =>
        RendersInOneGo(input.template, input.files, input.context)

Interchangeable == Permutations(Names)
=============================================================================
