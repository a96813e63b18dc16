--------------------------- MODULE PromptTemplate ---------------------------
(***************************************************************************)
(* render_plan_prompt of app.rs: the tokens of the plan template are       *)
(* replaced one after the other, each everywhere in what the replacements  *)
(* before it have made.                                                    *)
(*                                                                         *)
(* A text is a sequence of pieces: the name of a token stands for the      *)
(* token, anything else for text without one.  What two neighbouring       *)
(* pieces might spell together is left out.                                *)
(***************************************************************************)
EXTENDS Naturals, Sequences, SequencesExt

CONSTANT NoPrompt       \* an error: a token is missing

TokenNames == {"grouping_instruction", "max_commits", "files_json", "context"}

Pieces == TokenNames \cup {"text", "instruction", "number"}

ASSUME PromptAssumption == NoPrompt \notin Seq(Pieces)

\* Mutant: the context goes in first.
ContextFirst(files, context) ==
    << <<"context", context>>,
       <<"grouping_instruction", <<"instruction">> >>,
       <<"max_commits", <<"number">> >>,
       <<"files_json", files>> >>

\* The names and values, in the order of their replacement.
Values(files, context) ==
    << <<"grouping_instruction", <<"instruction">> >>,
       <<"max_commits", <<"number">> >>,
       <<"files_json", files>>,
       <<"context", context>> >>

Substitute(text, name, value) ==
    FlattenSeq([i \in DOMAIN text |->
                   IF text[i] = name THEN value ELSE <<text[i]>>])

RenderPlanPrompt(template, files, context) ==
    FoldLeft(LAMBDA rendered, v :
                 IF rendered # NoPrompt /\ v[1] \in Range(rendered)
                 THEN Substitute(rendered, v[1], v[2])
                 ELSE NoPrompt,
             template, Values(files, context))
-----------------------------------------------------------------------------
\* All tokens of the template replaced at once.
Substituted(template, files, context) ==
    LET value(piece) ==
            CASE piece = "grouping_instruction" -> <<"instruction">>
              [] piece = "max_commits" -> <<"number">>
              [] piece = "files_json" -> files
              [] piece = "context" -> context
              [] OTHER -> <<piece>>
    IN FlattenSeq([i \in DOMAIN template |-> value(template[i])])

\* README.md:346-353: a template without one of the tokens is refused, and the
\* evidence comes through word for word, the tokens that staged text may quote
\* included - as long as no staged path holds the token that is replaced last.
RendersInOneGo(template, files, context) ==
    "context" \notin Range(files) =>
        RenderPlanPrompt(template, files, context) =
            IF TokenNames \subseteq Range(template)
            THEN Substituted(template, files, context)
            ELSE NoPrompt
=============================================================================
