------------------------------ MODULE Settings ------------------------------
(***************************************************************************)
(* resolve_settings of app.rs and the default context limits of            *)
(* runtime.rs: what a run asks for, from its command line, environment and *)
(* file, and what it then may send.                                        *)
(*                                                                         *)
(* `asked` holds, for each numeric setting, what each source says, and for *)
(* the toggle its two flags, its variable and its entry of the file.       *)
(* Settings resolved alike (model and base URL, the toggles) have one      *)
(* representative.  A size is at most MaxUsize, where addition saturates.  *)
(***************************************************************************)
EXTENDS Integers, Sequences, Usize

CONSTANTS
    Unset,              \* a source that says nothing
    NotUnicode,         \* a variable whose value is not UTF-8
    Malformed,          \* a variable whose value does not parse
    Refused             \* an error

ASSUME SettingsAssumption ==
    /\ {Unset, NotUnicode, Malformed, Refused} \cap Nat = {}
    /\ Unset \notin {NotUnicode, Malformed, Refused}
    /\ NotUnicode # Malformed /\ Refused \notin {NotUnicode, Malformed}

Numeric == {"timeout", "max_diff_bytes", "max_prompt_bytes", "max_commits"}

\* What the sources of a number may say.
Sources ==
    [cli : Nat \cup {Unset},
     env : Nat \cup {Unset, NotUnicode, Malformed},
     file : Nat \cup {Unset}]

\* Of the numbers, only the timeout has a flag.
Asked ==
    [numbers : {numbers \in [Numeric -> Sources] :
                   \A n \in Numeric \ {"timeout"} : numbers[n].cli = Unset},
     review : [enabled : BOOLEAN, disabled : BOOLEAN,
               env : BOOLEAN \cup {Unset, NotUnicode, Malformed},
               file : BOOLEAN \cup {Unset}]]

Default ==
    [timeout |-> 120, max_diff_bytes |-> 120000, max_prompt_bytes |-> 160000,
     max_commits |-> 8]

\* env::var(..).ok(): a value that is not Unicode is as good as none.
EnvParse(variable) ==
    CASE variable = Malformed -> Refused
      [] variable \in {Unset, NotUnicode} -> Unset
      [] OTHER -> variable

OrElse(first, second) == IF first = Unset THEN second ELSE first

\* The variable is parsed whatever the command line says.
ResolveNumber(source, default) ==
    LET parsed == EnvParse(source.env)
        value == OrElse(source.cli, OrElse(parsed, OrElse(source.file, default)))
    IN IF parsed = Refused \/ value <= 0 THEN Refused ELSE value

\* The variable is parsed only if no flag decides.
ResolveToggle(source, default) ==
    CASE source.enabled /\ source.disabled -> Refused
      [] source.enabled # source.disabled -> source.enabled
      [] OTHER -> OrElse(EnvParse(source.env), OrElse(source.file, default))

ResolveSettings(asked) ==
    LET numbers == [n \in Numeric |-> ResolveNumber(asked.numbers[n], Default[n])]
        review == ResolveToggle(asked.review, TRUE)
    IN IF review = Refused \/ \E n \in Numeric : numbers[n] = Refused
       THEN Refused
       ELSE [numbers |-> numbers, review |-> review]

\* Mutant: only the file is asked whether a limit was chosen.
FileSaysNothing(source) == source.file = Unset

\* env::var_os(..).is_none(): here a value that is not Unicode counts.
UsesDefaultLimit(source) == source.env = Unset /\ source.file = Unset

SaturatingAdd(a, b) == IF a + b > MaxUsize THEN MaxUsize ELSE a + b

ContextMaxDiff == 64000
ContextMaxPrompt == 96000
PromptHeadroom == 40000
AdaptiveHeadroom == ContextMaxPrompt - ContextMaxDiff

\* Mutant: the ceiling is the default, whatever diff limit was asked for.
FixedPromptCeiling(diffLimit, adaptive) == ContextMaxPrompt

PromptCeiling(diffLimit, adaptive) ==
    LET above == SaturatingAdd(diffLimit, PromptHeadroom) IN
    IF adaptive \/ above < ContextMaxPrompt THEN ContextMaxPrompt ELSE above

AdaptiveDiffBudget(staged) ==
    CASE staged <= 16000 -> 12000
      [] staged > 16000 /\ staged <= 96000 -> 32000
      [] OTHER -> ContextMaxDiff

\* The settings of a run with so many bytes of staged diff: run_cli resolves
\* them, then come apply_default_context_ceilings and the adaptive budget.
RunSettings(asked, staged) ==
    LET settings == ResolveSettings(asked)
        diff == settings.numbers.max_diff_bytes
        adaptive == UsesDefaultLimit(asked.numbers.max_diff_bytes)
        implicit == UsesDefaultLimit(asked.numbers.max_prompt_bytes)
    IN IF settings = Refused THEN Refused
       ELSE [settings EXCEPT
                !.numbers.max_diff_bytes =
                    IF adaptive THEN AdaptiveDiffBudget(staged) ELSE @,
                !.numbers.max_prompt_bytes =
                    IF implicit THEN PromptCeiling(diff, adaptive) ELSE @]
-----------------------------------------------------------------------------
\* README.md:129, 312: a prompt ceiling nobody chose leaves at least 32 KB above
\* all evidence the run may show, 40 KB if the diff limit was chosen.
LeavesHeadroom(asked, staged) ==
    LET numbers == RunSettings(asked, staged).numbers
        leaves(room) == numbers.max_prompt_bytes
                            >= SaturatingAdd(numbers.max_diff_bytes, room)
    IN /\ RunSettings(asked, staged) # Refused
       /\ UsesDefaultLimit(asked.numbers.max_prompt_bytes)
       => IF UsesDefaultLimit(asked.numbers.max_diff_bytes)
          THEN leaves(AdaptiveHeadroom)
          ELSE leaves(PromptHeadroom)

\* README.md:127-129, 291-294: what someone chose is what the run goes by,
\* whatever is staged: the command line before the variable before the file.
ChoicesHold(asked, staged) ==
    LET settings == RunSettings(asked, staged)
        said(source) == <<source.cli, source.env, source.file>>
        silent == {Unset, NotUnicode}
    IN settings # Refused =>
          /\ \A n \in Numeric, i \in 1..3 :
                /\ said(asked.numbers[n])[i] \notin silent
                /\ \A j \in 1..(i - 1) : said(asked.numbers[n])[j] \in silent
                => settings.numbers[n] = said(asked.numbers[n])[i]
          /\ asked.review.enabled => settings.review
          /\ asked.review.disabled => ~ settings.review
=============================================================================
