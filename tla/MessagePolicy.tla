---------------------------- MODULE MessagePolicy ----------------------------
(***************************************************************************)
(* validate_conventional_message of validation.rs, which decides what text *)
(* may become a commit message.                                            *)
(*                                                                         *)
(* A trimmed message is the sequence of its lines, a line the sequence of  *)
(* its characters, by what the policy tells apart: "type" is one of the    *)
(* eleven commit types (counted as one character), "x" a letter or digit,  *)
(* "-" the hyphen, "." the underscore or the full stop, "/" the slash,     *)
(* which a scope may hold and the token of a trailer may not, "," one that *)
(* neither may hold, "bad" a control, bidirectional or zero-width          *)
(* character, and " ", ":", "=", "(", ")", "!" themselves.                 *)
(***************************************************************************)
EXTENDS Naturals, Sequences, SequencesExt, FiniteSetsExt

CONSTANTS
    MaxSubjectChars,    \* MAX_COMMIT_SUBJECT_CHARS
    MaxMessageBytes     \* MAX_COMMIT_MESSAGE_BYTES

ASSUME MessageAssumption ==
    /\ MaxSubjectChars \in Nat \ {0} /\ MaxMessageBytes \in Nat
    /\ MaxSubjectChars < MaxMessageBytes

\* What comes before and after the place of a line where `mark` first is.
Places(line, mark) ==
    {i \in 1..(Len(line) - Len(mark) + 1) :
        SubSeq(line, i, i + Len(mark) - 1) = mark}
Before(line, mark) == SubSeq(line, 1, Min(Places(line, mark)) - 1)
After(line, mark) ==
    SubSeq(line, Min(Places(line, mark)) + Len(mark), Len(line))

Without(line, ending) ==
    IF line # << >> /\ Last(line) = ending THEN Front(line) ELSE line

ScopeCharacters == {"type", "x", "-", ".", "/"}
ValidScope(scope) == scope # << >> /\ Range(scope) \subseteq ScopeCharacters

\* Mutant: what is between the parentheses is not looked at.
AnyScope(prefix) ==
    IF Places(prefix, <<"(">>) = {} THEN prefix = <<"type">>
    ELSE Before(prefix, <<"(">>) = <<"type">> /\ Last(prefix) = ")"

\* What is before the colon, without the exclamation mark of a breaking change.
ValidPrefix(prefix) ==
    IF Places(prefix, <<"(">>) = {} THEN prefix = <<"type">>
    ELSE LET scope == After(prefix, <<"(">>) IN
         /\ Before(prefix, <<"(">>) = <<"type">>
         /\ scope # << >> /\ Last(scope) = ")"
         /\ ValidScope(Front(scope))

ValidSubject(subject) ==
    /\ Places(subject, <<":", " ">>) # {}
    /\ LET summary == After(subject, <<":", " ">>) IN
          summary # << >> /\ summary[1] # " " /\ Last(summary) # " "
    /\ ValidPrefix(Without(Before(subject, <<":", " ">>), "!"))

\* A line without the spaces it begins with.
Unindented(line) ==
    LET text == {i \in DOMAIN line : line[i] # " "} IN
    IF text = {} THEN << >> ELSE SubSeq(line, Min(text), Len(line))

\* Mutant: a hyphen is no part of a trailer's token.
WordsOnly == {"type", "x", ".", " "}

\* What may be before the separator of a line that reads as a trailer.
TokenCharacters == {"type", "x", "-", ".", " "}

TrailerLike(line) ==
    LET content == Unindented(line)
        separators == {i \in DOMAIN content : content[i] \in {":", "="}}
    IN /\ separators # {}
       /\ LET at == Min(separators) IN
             /\ at > 1
             /\ Range(SubSeq(content, 1, at - 1)) \subseteq TokenCharacters
             /\ \E i \in (at + 1)..Len(content) : content[i] # " "

\* Mutant: only the first line of the body is looked at for a trailer.
FirstLineChecked(body) ==
    body = << >> \/ /\ body[1] = << >>
                    /\ Len(body) > 1 /\ body[2] # << >>
                    /\ ~ TrailerLike(body[2])

ValidBody(body) ==
    body = << >> \/ /\ body[1] = << >>
                    /\ Len(body) > 1 /\ body[2] # << >>
                    /\ \A k \in 2..Len(body) : ~ TrailerLike(body[k])

\* The bytes of a message: its characters and the ends of its lines.
Bytes(message) ==
    FoldLeft(LAMBDA total, line : total + Len(line), Len(message) - 1, message)

ValidMessage(message) ==
    /\ message # << >>
    /\ Bytes(message) <= MaxMessageBytes
    /\ \A k \in DOMAIN message :
          /\ "bad" \notin Range(message[k])
          /\ message[k] # << >> => Last(message[k]) # " "
    /\ Len(message[1]) <= MaxSubjectChars
    /\ ValidSubject(message[1])
    /\ ValidBody(Tail(message))
-----------------------------------------------------------------------------
\* A line that Git could read as a trailer, like "Signed-off-by: x": a token of
\* letters, digits and hyphens without spaces in it, a separator and a value,
\* with spaces allowed around each, and in front of the token too.
IsGitTrailer(line) ==
    \E at \in DOMAIN line :
        /\ line[at] \in {":", "="}
        /\ LET token == {i \in 1..(at - 1) : line[i] # " "} IN
              /\ token # {}
              /\ token = Min(token)..Max(token)
              /\ \A i \in token : line[i] \in {"type", "x", "-"}
        /\ \E i \in (at + 1)..Len(line) : line[i] # " "

InParentheses(text) == <<"(">> \o text \o <<")">>
Marks == {<< >>, <<"!">>}

\* The scopes a subject can have, and what it begins with, up to its summary.
Scopes(subject) ==
    {<< >>} \cup {InParentheses(s) :
        s \in {SubSeq(subject, 3, i) : i \in DOMAIN subject}
                  \cap (Seq(ScopeCharacters) \ {<< >>})}
HeadOf(scope, mark) == <<"type">> \o scope \o mark \o <<":", " ">>

Continues(subject, head) ==
    /\ IsStrictPrefix(head, subject)
    /\ subject[Len(head) + 1] # " "
    /\ Last(subject) # " "

\* README.md:71: the subjects accepted are exactly those that can be read as a
\* type, a scope or none, a mark of a breaking change or none, and a summary,
\* whatever parentheses, marks and colons the summary holds.
SubjectIsConventional(subject) ==
    ValidSubject(subject) <=>
        \E scope \in Scopes(subject), mark \in Marks :
            Continues(subject, HeadOf(scope, mark))

\* README.md:73: nothing that Git would take for a trailer gets into a commit,
\* and what gets in fits the limits with no unsafe character.
NoTrailerPasses(message) ==
    ValidMessage(message) =>
        /\ \A k \in 2..Len(message) : ~ IsGitTrailer(message[k])
        /\ Len(message) > 1 => message[2] = << >> /\ message[3] # << >>
        /\ Len(FlattenSeq(message)) < MaxMessageBytes
        /\ "bad" \notin UNION {Range(message[k]) : k \in DOMAIN message}
=============================================================================
