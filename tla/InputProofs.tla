----------------------------- MODULE InputProofs -----------------------------
(***************************************************************************)
(* What a run makes of its inputs, for inputs of any size: validation      *)
(* accepts exactly the partitions of what is staged, with messages that    *)
(* follow the grammar and hold no trailer; the settings chosen are the     *)
(* settings used; a credential file is taken whole; and the prompt quotes  *)
(* the evidence word for word.                                             *)
(***************************************************************************)
EXTENDS MCInputs, RecursionProofs

-----------------------------------------------------------------------------
(* Plan validation. *)

\* A path is mentioned at <<k, i>> exactly if entry k has it at position i.
LEMMA MentionsAt ==
    ASSUME NEW plan, NEW path, NEW k, NEW i
    PROVE  <<k, i>> \in Mentions(plan, path) <=>
              /\ k \in DOMAIN plan
              /\ i \in DOMAIN plan[k].files
              /\ plan[k].files[i] = path
BY DEF Mentions

\* Every mention is such a pair.
LEMMA MentionIsPair ==
    ASSUME NEW plan, NEW path, NEW m \in Mentions(plan, path)
    PROVE  \E k \in DOMAIN plan : \E i \in DOMAIN plan[k].files :
              m = <<k, i>> /\ plan[k].files[i] = path
BY DEF Mentions

\* Without duplicates, the place of a path in a plan is unique.
LEMMA NoDuplicates ==
    ASSUME NEW plan
    PROVE  Duplicates(plan) = {} <=>
              \A k, l \in DOMAIN plan :
                  \A i \in DOMAIN plan[k].files, j \in DOMAIN plan[l].files :
                      plan[k].files[i] = plan[l].files[j] => k = l /\ i = j
<1>1. ASSUME Duplicates(plan) = {},
             NEW k \in DOMAIN plan, NEW l \in DOMAIN plan,
             NEW i \in DOMAIN plan[k].files, NEW j \in DOMAIN plan[l].files,
             plan[k].files[i] = plan[l].files[j]
      PROVE  k = l /\ i = j
  <2> DEFINE path == plan[k].files[i]
  <2>1. path \in Assigned(plan)
    BY DEF Assigned, Range
  <2>2. <<k, i>> \in Mentions(plan, path) /\ <<l, j>> \in Mentions(plan, path)
    BY <1>1, MentionsAt
  <2>3. <<k, i>> = <<l, j>>
    BY <1>1, <2>1, <2>2 DEF Duplicates
  <2> QED
    BY <2>3
<1>2. ASSUME \A k, l \in DOMAIN plan :
                 \A i \in DOMAIN plan[k].files, j \in DOMAIN plan[l].files :
                     plan[k].files[i] = plan[l].files[j] => k = l /\ i = j,
             NEW path \in Assigned(plan),
             NEW m \in Mentions(plan, path), NEW n \in Mentions(plan, path)
      PROVE  m = n
  <2>1. PICK k \in DOMAIN plan : \E i \in DOMAIN plan[k].files :
                m = <<k, i>> /\ plan[k].files[i] = path
    BY MentionIsPair
  <2>2. PICK l \in DOMAIN plan : \E j \in DOMAIN plan[l].files :
                n = <<l, j>> /\ plan[l].files[j] = path
    BY MentionIsPair
  <2> QED
    BY <1>2, <2>1, <2>2
<1> QED
  BY <1>1, <1>2 DEF Duplicates

\* The three path checks of parse_plan together say that each staged path is
\* assigned exactly once, and nothing else is.
LEMMA PathChecksMeanAssignsOnce ==
    ASSUME NEW plan, NEW staged
    PROVE  AssignsOnce(plan, staged) <=>
              /\ \A k \in DOMAIN plan : plan[k].files # << >>
              /\ Duplicates(plan) = {}
              /\ Invented(plan, staged) = {}
              /\ Omitted(plan, staged) = {}
<1>1. ASSUME AssignsOnce(plan, staged)
      PROVE  /\ \A k \in DOMAIN plan : plan[k].files # << >>
             /\ Duplicates(plan) = {}
             /\ Invented(plan, staged) = {}
             /\ Omitted(plan, staged) = {}
  <2>1. \A k \in DOMAIN plan : plan[k].files # << >>
    BY <1>1 DEF AssignsOnce
  <2>2. ASSUME NEW k \in DOMAIN plan, NEW l \in DOMAIN plan,
               NEW i \in DOMAIN plan[k].files, NEW j \in DOMAIN plan[l].files,
               plan[k].files[i] = plan[l].files[j]
        PROVE  k = l /\ i = j
    <3>1. plan[k].files[i] \in staged
      BY <1>1 DEF AssignsOnce
    <3>2. plan[k].files[i] \in Range(plan[k].files)
      BY DEF Range
    <3>3. plan[k].files[i] \in Range(plan[l].files)
      BY <2>2 DEF Range
    <3> QED
      BY <1>1, <2>2, <3>1, <3>2, <3>3 DEF AssignsOnce
  <2>3. Duplicates(plan) = {}
    BY <2>2, NoDuplicates
  <2>4. Invented(plan, staged) = {}
    BY <1>1 DEF AssignsOnce, Invented, Assigned, Range
  <2>5. Omitted(plan, staged) = {}
    BY <1>1 DEF AssignsOnce, Omitted, Assigned, Range
  <2> QED
    BY <2>1, <2>3, <2>4, <2>5
<1>2. ASSUME \A k \in DOMAIN plan : plan[k].files # << >>,
             Duplicates(plan) = {},
             Invented(plan, staged) = {},
             Omitted(plan, staged) = {}
      PROVE  AssignsOnce(plan, staged)
  <2>1. ASSUME NEW k \in DOMAIN plan, NEW i \in DOMAIN plan[k].files
        PROVE  plan[k].files[i] \in staged
    <3>1. plan[k].files[i] \in Assigned(plan)
      BY DEF Assigned, Range
    <3> QED
      BY <1>2, <3>1 DEF Invented
  <2>2. ASSUME NEW path \in staged
        PROVE  \E k \in DOMAIN plan :
                  /\ \E i \in DOMAIN plan[k].files :
                        /\ plan[k].files[i] = path
                        /\ \A j \in DOMAIN plan[k].files :
                              plan[k].files[j] = path => j = i
                  /\ \A l \in DOMAIN plan :
                        path \in Range(plan[l].files) => l = k
    <3>1. path \in Assigned(plan)
      BY <1>2, <2>2 DEF Omitted
    <3>2. PICK k \in DOMAIN plan : path \in Range(plan[k].files)
      BY <3>1 DEF Assigned
    <3>3. PICK i \in DOMAIN plan[k].files : plan[k].files[i] = path
      BY <3>2 DEF Range
    <3>4. \A j \in DOMAIN plan[k].files : plan[k].files[j] = path => j = i
      BY <1>2, <3>3, NoDuplicates
    <3>5. ASSUME NEW l \in DOMAIN plan, path \in Range(plan[l].files)
          PROVE  l = k
      <4>1. PICK j \in DOMAIN plan[l].files : plan[l].files[j] = path
        BY <3>5 DEF Range
      <4> QED
        BY <1>2, <3>3, <4>1, NoDuplicates
    <3> QED
      BY <3>3, <3>4, <3>5
  <2> QED
    BY <1>2, <2>1, <2>2 DEF AssignsOnce
<1> QED
  BY <1>1, <1>2

LEMMA Bounds ==
    \A n \in Nat, max \in Nat \ {0} :
        /\ n \in 1..1 <=> n # 0 /\ n <= max /\ n = 1
        /\ n \in 1..max <=> n # 0 /\ n <= max
OBVIOUS

\* parse_plan and validate_requested_plan accept a reply if and only if it is
\* a plan within the limit whose messages are valid and which assigns every
\* staged path once and no other path.
THEOREM ValidationIsExact ==
    ASSUME NEW names, NEW reply \in Seq(Entries(names)) \cup {NotJson},
           NEW staged, NEW maxCommits \in Nat \ {0}, NEW single \in BOOLEAN
    PROVE  AcceptsExactly(reply, staged, maxCommits, single)
<1>1. CASE reply = NotJson
  BY <1>1 DEF AcceptsExactly, ValidateRequestedPlan, ParsePlan
<1>2. CASE reply # NotJson
  <2>1. reply \in Seq(Entries(names))
    BY <1>2
  <2>2. Len(reply) \in Nat /\ (reply # << >> <=> Len(reply) # 0)
    BY <2>1
  <2> DEFINE WithinLimit == /\ reply # << >>
                            /\ Len(reply) <= maxCommits
                            /\ single => Len(reply) = 1
  <2>3. WithinLimit <=> Len(reply) \in 1..(IF single THEN 1 ELSE maxCommits)
    <3>1. CASE single
      <4>1. (IF single THEN 1 ELSE maxCommits) = 1
        BY <3>1
      <4>2. Len(reply) \in 1..1 <=> Len(reply) # 0 /\ Len(reply) <= maxCommits
                                      /\ Len(reply) = 1
        BY <2>2, Bounds
      <4> QED
        BY <2>2, <3>1, <4>1, <4>2, Zenon
    <3>2. CASE ~single
      <4>1. (IF single THEN 1 ELSE maxCommits) = maxCommits
        BY <3>2
      <4>2. Len(reply) \in 1..maxCommits <=>
              Len(reply) # 0 /\ Len(reply) <= maxCommits
        BY <2>2, Bounds
      <4> QED
        BY <2>2, <3>2, <4>1, <4>2, Zenon
    <3> QED
      BY <3>1, <3>2
  <2> QED
    BY <1>2, <2>3, PathChecksMeanAssignsOnce
    DEF AcceptsExactly, ValidateRequestedPlan, ParsePlan, WellFormed
<1> QED
  BY <1>1, <1>2

-----------------------------------------------------------------------------
(* Settings. *)

\* A number that resolves is a natural number, wherever it came from.
LEMMA NumberType ==
    ASSUME NEW source \in Sources, NEW default \in Nat,
           ResolveNumber(source, default) # Refused
    PROVE  ResolveNumber(source, default) \in Nat
<1>1. EnvParse(source.env) \in Nat \cup {Unset, Refused}
  BY SettingsAssumption DEF Sources, EnvParse
<1>2. EnvParse(source.env) # Refused
  BY DEF ResolveNumber
<1>3. OrElse(source.file, default) \in Nat
  BY SettingsAssumption DEF Sources, OrElse
<1>4. OrElse(EnvParse(source.env), OrElse(source.file, default)) \in Nat
  BY <1>1, <1>2, <1>3, SettingsAssumption DEF OrElse
<1>5. source.cli \in Nat \cup {Unset}
  BY DEF Sources
<1>6. OrElse(source.cli, OrElse(EnvParse(source.env),
                               OrElse(source.file, default))) \in Nat
  BY <1>4, <1>5, SettingsAssumption DEF OrElse
<1> QED
  BY <1>6 DEF ResolveNumber

\* The ceiling leaves 32 KB above any adaptive budget.
LEMMA CeilingAboveAdaptive ==
    ASSUME NEW diff \in Nat, NEW staged \in Nat, NEW adaptive \in BOOLEAN, adaptive
    PROVE  PromptCeiling(diff, adaptive)
               >= SaturatingAdd(AdaptiveDiffBudget(staged), AdaptiveHeadroom)
<1>1. AdaptiveDiffBudget(staged) \in {12000, 32000, 64000}
  BY DEF AdaptiveDiffBudget, ContextMaxDiff
<1>2. /\ SaturatingAdd(AdaptiveDiffBudget(staged), AdaptiveHeadroom) \in Nat
      /\ SaturatingAdd(AdaptiveDiffBudget(staged), AdaptiveHeadroom) <= 96000
  BY <1>1, UsizeAssumption
  DEF SaturatingAdd, AdaptiveHeadroom, ContextMaxDiff, ContextMaxPrompt
<1> QED
  BY <1>2 DEF PromptCeiling, ContextMaxPrompt

\* The ceiling leaves 40 KB above a chosen diff limit.
LEMMA CeilingAboveChosen ==
    ASSUME NEW diff \in Nat, NEW adaptive \in BOOLEAN, ~ adaptive
    PROVE  PromptCeiling(diff, adaptive) >= SaturatingAdd(diff, PromptHeadroom)
<1>1. SaturatingAdd(diff, PromptHeadroom) \in Nat
  BY UsizeAssumption DEF SaturatingAdd, PromptHeadroom
<1> QED
  BY <1>1 DEF PromptCeiling, ContextMaxPrompt

\* Whatever is asked for and staged, a run whose prompt ceiling nobody chose
\* has room in its prompts for all the evidence its diff limit allows, with 32
\* KB to spare, or 40 KB if the diff limit was chosen (README.md:129).
THEOREM HeadroomAlwaysLeft ==
    \A asked \in Asked, staged \in Nat : LeavesHeadroom(asked, staged)
<1> SUFFICES ASSUME NEW asked \in Asked, NEW staged \in Nat,
                    RunSettings(asked, staged) # Refused,
                    UsesDefaultLimit(asked.numbers.max_prompt_bytes)
             PROVE  LeavesHeadroom(asked, staged)
  BY DEF LeavesHeadroom
<1> DEFINE settings == ResolveSettings(asked)
           diff == ResolveNumber(asked.numbers["max_diff_bytes"],
                                 Default["max_diff_bytes"])
           adaptive == UsesDefaultLimit(asked.numbers["max_diff_bytes"])
           run == RunSettings(asked, staged)
<1>1. settings # Refused
  BY DEF RunSettings
<1>2. \A n \in Numeric :
         /\ ResolveNumber(asked.numbers[n], Default[n]) # Refused
         /\ settings.numbers[n] = ResolveNumber(asked.numbers[n], Default[n])
  BY <1>1 DEF ResolveSettings
<1>3. settings.numbers \in [Numeric -> {settings.numbers[n] : n \in Numeric}]
  BY <1>1 DEF ResolveSettings
<1>4. diff \in Nat /\ settings.numbers["max_diff_bytes"] = diff
  <2>1. asked.numbers["max_diff_bytes"] \in Sources
    BY DEF Asked, Numeric
  <2>2. Default["max_diff_bytes"] \in Nat
    BY DEF Default
  <2>3. "max_diff_bytes" \in Numeric
    BY DEF Numeric
  <2> QED
    BY <1>2, <2>1, <2>2, <2>3, NumberType
<1>5. /\ run.numbers["max_diff_bytes"]
            = IF adaptive THEN AdaptiveDiffBudget(staged) ELSE diff
      /\ run.numbers["max_prompt_bytes"] = PromptCeiling(diff, adaptive)
  BY <1>1, <1>3, <1>4 DEF RunSettings, ResolveSettings, Numeric
<1>6. adaptive \in BOOLEAN
  BY DEF UsesDefaultLimit
<1> HIDE DEF diff, settings
<1>7. CASE adaptive
  <2>1. run.numbers["max_diff_bytes"] = AdaptiveDiffBudget(staged)
    BY <1>5, <1>7
  <2>2. run.numbers["max_prompt_bytes"]
            >= SaturatingAdd(AdaptiveDiffBudget(staged), AdaptiveHeadroom)
    BY <1>4, <1>5, <1>6, <1>7, CeilingAboveAdaptive
  <2> QED
    BY <1>7, <2>1, <2>2 DEF LeavesHeadroom
<1>8. CASE ~ adaptive
  <2>1. run.numbers["max_diff_bytes"] = diff
    BY <1>5, <1>8
  <2>2. run.numbers["max_prompt_bytes"] >= SaturatingAdd(diff, PromptHeadroom)
    BY <1>4, <1>5, <1>6, <1>8, CeilingAboveChosen
  <2> QED
    BY <1>8, <2>1, <2>2 DEF LeavesHeadroom
<1> QED
  BY <1>7, <1>8

\* A number comes from the first of its sources that says anything.
LEMMA NumberChosen ==
    ASSUME NEW source \in Sources, NEW default \in Nat,
           ResolveNumber(source, default) # Refused
    PROVE  LET said == <<source.cli, source.env, source.file>>
               silent == {Unset, NotUnicode}
           IN \A i \in 1..3 :
                 /\ said[i] \notin silent
                 /\ \A j \in 1..(i - 1) : said[j] \in silent
                 => ResolveNumber(source, default) = said[i]
<1> DEFINE said == <<source.cli, source.env, source.file>>
           silent == {Unset, NotUnicode}
           value == ResolveNumber(source, default)
<1>0. /\ source.cli \in Nat \cup {Unset}
      /\ source.env \in Nat \cup {Unset, NotUnicode, Malformed}
      /\ source.file \in Nat \cup {Unset}
  BY DEF Sources
<1>1. source.env # Malformed
  <2> SUFFICES ASSUME source.env = Malformed PROVE FALSE
    OBVIOUS
  <2>1. EnvParse(source.env) = Refused
    BY SettingsAssumption DEF EnvParse
  <2> QED
    BY <2>1 DEF ResolveNumber
<1>2. EnvParse(source.env) = IF source.env \in silent THEN Unset ELSE source.env
  BY <1>0, <1>1, SettingsAssumption DEF EnvParse
<1>3. value = OrElse(source.cli, OrElse(EnvParse(source.env),
                                        OrElse(source.file, default)))
  BY DEF ResolveNumber
<1>4. \A m \in Nat : m # Unset /\ m # NotUnicode
  BY SettingsAssumption
<1>5. CASE source.cli \notin silent
  <2>1. value = source.cli
    BY <1>3, <1>5 DEF OrElse
  <2> HIDE DEF value
  <2> SUFFICES ASSUME NEW i \in 1..3, said[i] \notin silent,
                      \A j \in 1..(i - 1) : said[j] \in silent
               PROVE  value = said[i]
    BY DEF value
  <2>2. i = 1
    <3> SUFFICES ASSUME i # 1 PROVE FALSE
      OBVIOUS
    <3>1. 1 \in 1..(i - 1)
      OBVIOUS
    <3> QED
      BY <1>5, <3>1
  <2> QED
    BY <2>1, <2>2
<1>6. CASE source.cli \in silent /\ source.env \notin silent
  <2>1. source.cli = Unset
    BY <1>0, <1>4, <1>6
  <2>2. value = source.env
    BY <1>2, <1>3, <1>6, <2>1 DEF OrElse
  <2> HIDE DEF value
  <2> SUFFICES ASSUME NEW i \in 1..3, said[i] \notin silent,
                      \A j \in 1..(i - 1) : said[j] \in silent
               PROVE  value = said[i]
    BY DEF value
  <2>3. i = 2
    <3>1. i # 1
      BY <1>6
    <3>2. i # 3
      <4> SUFFICES ASSUME i = 3 PROVE FALSE
        OBVIOUS
      <4>1. 2 \in 1..(i - 1)
        OBVIOUS
      <4> QED
        BY <1>6, <4>1
    <3> QED
      BY <3>1, <3>2
  <2> QED
    BY <2>2, <2>3
<1>7. CASE source.cli \in silent /\ source.env \in silent
  <2>1. source.cli = Unset
    BY <1>0, <1>4, <1>7
  <2>2. value = OrElse(source.file, default)
    BY <1>2, <1>3, <1>7, <2>1 DEF OrElse
  <2> HIDE DEF value
  <2> SUFFICES ASSUME NEW i \in 1..3, said[i] \notin silent
               PROVE  value = said[i]
    BY DEF value
  <2>3. i = 3
    BY <1>7
  <2>4. source.file # Unset
    BY <2>3
  <2> QED
    BY <2>2, <2>3, <2>4 DEF OrElse
<1> QED
  BY <1>5, <1>6, <1>7

\* What a run goes by is what was chosen, on the command line before the
\* variable before the file, whatever is staged.
THEOREM ChoicesAlwaysHold ==
    \A asked \in Asked, staged \in Nat : ChoicesHold(asked, staged)
<1> SUFFICES ASSUME NEW asked \in Asked, NEW staged \in Nat
             PROVE  ChoicesHold(asked, staged)
  OBVIOUS
<1> DEFINE settings == ResolveSettings(asked)
           run == RunSettings(asked, staged)
           number(n) == ResolveNumber(asked.numbers[n], Default[n])
           said(source) == <<source.cli, source.env, source.file>>
           silent == {Unset, NotUnicode}
<1> SUFFICES ASSUME run # Refused
             PROVE  /\ \A n \in Numeric, i \in 1..3 :
                          /\ said(asked.numbers[n])[i] \notin silent
                          /\ \A j \in 1..(i - 1) :
                                said(asked.numbers[n])[j] \in silent
                          => run.numbers[n] = said(asked.numbers[n])[i]
                    /\ asked.review.enabled => run.review
                    /\ asked.review.disabled => ~ run.review
  BY DEF ChoicesHold
<1>1. settings # Refused
  BY DEF RunSettings
<1>2. /\ settings.numbers = [n \in Numeric |-> number(n)]
      /\ \A n \in Numeric : number(n) # Refused
      /\ settings.review = ResolveToggle(asked.review, TRUE)
      /\ settings.review # Refused
  BY <1>1 DEF ResolveSettings
<1>3. \A n \in Numeric : asked.numbers[n] \in Sources /\ Default[n] \in Nat
  <2>1. asked.numbers \in [Numeric -> Sources]
    BY DEF Asked
  <2>2. Default["timeout"] \in Nat /\ Default["max_diff_bytes"] \in Nat
        /\ Default["max_prompt_bytes"] \in Nat /\ Default["max_commits"] \in Nat
    BY DEF Default
  <2> QED
    BY <2>1, <2>2 DEF Numeric
<1>4. run.review = settings.review
  BY <1>1 DEF RunSettings, ResolveSettings
<1>5. ASSUME NEW n \in Numeric,
             \/ n \notin {"max_diff_bytes", "max_prompt_bytes"}
             \/ ~ UsesDefaultLimit(asked.numbers[n])
      PROVE  run.numbers[n] = number(n)
  BY <1>1, <1>2, <1>5 DEF RunSettings, ResolveSettings, Numeric
<1>6. ASSUME NEW n \in Numeric, NEW i \in 1..3,
             said(asked.numbers[n])[i] \notin silent,
             \A j \in 1..(i - 1) : said(asked.numbers[n])[j] \in silent
      PROVE  run.numbers[n] = said(asked.numbers[n])[i]
  <2>1. number(n) = said(asked.numbers[n])[i]
    BY <1>2, <1>3, <1>6, NumberChosen
  <2>2. CASE n \notin {"max_diff_bytes", "max_prompt_bytes"}
             \/ ~ UsesDefaultLimit(asked.numbers[n])
    BY <1>5, <2>1, <2>2
  <2>3. CASE n \in {"max_diff_bytes", "max_prompt_bytes"}
             /\ UsesDefaultLimit(asked.numbers[n])
    <3>1. asked.numbers[n].env = Unset /\ asked.numbers[n].file = Unset
      BY <2>3 DEF UsesDefaultLimit
    <3>2. asked.numbers[n].cli = Unset
      BY <2>3 DEF Asked
    <3>3. i \notin {1, 2, 3}
      BY <1>6, <3>1, <3>2
    <3> QED
      BY <3>3
  <2> QED
    BY <2>2, <2>3
<1>7. /\ asked.review.enabled => run.review
      /\ asked.review.disabled => ~ run.review
  <2>1. asked.review.enabled \in BOOLEAN /\ asked.review.disabled \in BOOLEAN
    BY DEF Asked
  <2> QED
    BY <1>2, <1>4, <2>1 DEF ResolveToggle
<1> QED
  BY <1>6, <1>7
-----------------------------------------------------------------------------
(* The invariants of the run, for every bound on what is enumerated. *)

Characters == {"type", "x", "-", ".", "/", ",", ":", "=", "(", ")", "!", " ", "bad"}

Lines == Seq(Characters)

\* Inputs of any size, of the kind the subject says.
Given ==
    /\ subject = "reply" => input \in Replies
    /\ subject = "settings" => input \in [asked : AllAsked, staged : StagedSizes]
    /\ subject = "token" => input \in Seq(TokenBytes)
    /\ subject = "line" => input \in Lines
    /\ subject = "message" => input \in Seq(Lines)
    /\ subject = "template" =>
          input \in [template : Seq(Pieces), files : Seq(Pieces), context : Seq(Pieces)]

\* A sequence of one element.
LEMMA SingleElement ==
    ASSUME NEW S, NEW x \in S
    PROVE  <<x>> \in Seq(S)
OBVIOUS

\* The inputs are such inputs at first, ...
LEMMA GivenInit == Init => Given
<1> SUFFICES ASSUME Init PROVE Given
  OBVIOUS
<1>1. CASE subject = "reply" \/ subject = "settings"
  BY <1>1 DEF Init, EvidenceInit, Given
<1>2. CASE subject = "token"
  BY <1>2 DEF Init, EvidenceInit, Given
<1>3. CASE subject = "line"
  <2>1. input \in {<<"type">>, <<"x">>}
    BY <1>3 DEF Init, EvidenceInit
  <2>2. "type" \in Characters /\ "x" \in Characters
    BY DEF Characters
  <2>3. input \in Lines
    BY <2>1, <2>2, SingleElement DEF Lines
  <2> QED
    BY <1>3, <2>3 DEF Given
<1>4. CASE subject = "message"
  <2> DEFINE line == <<"type", ":", " ", "x">>
  <2>1. line \in Lines
    BY DEF Lines, Characters
  <2>2. input = <<line>>
    BY <1>4 DEF Init, EvidenceInit
  <2> HIDE DEF line
  <2>3. input \in Seq(Lines)
    BY <2>1, <2>2
  <2> QED
    BY <1>4, <2>3 DEF Given
<1>5. CASE subject = "template"
  <2>1. input \in Templates
    BY <1>5 DEF Init, EvidenceInit
  <2>2. /\ << >> \in Seq(Pieces)
        /\ {<<"text">>, <<"max_commits">>, <<"context">>} \subseteq Seq(Pieces)
        /\ {<<"text">>, <<"files_json", "text">>, <<"context">>} \subseteq Seq(Pieces)
    BY DEF Pieces, TokenNames
  <2> DEFINE T == Seq(Pieces)
             F == Seq(Pieces)
  <2>3. input \in [template : T, files : F, context : T]
    <3>1. << >> \in T /\ {<<"text">>, <<"max_commits">>, <<"context">>} \subseteq F
          /\ {<<"text">>, <<"files_json", "text">>, <<"context">>} \subseteq T
      BY <2>2
    <3> HIDE DEF T, F
    <3> QED
      BY <2>1, <3>1 DEF Templates
  <2> QED
    BY <1>5, <2>3 DEF Given
<1>6. CASE subject \in {"text", "files"}
  BY <1>6 DEF Given
<1> QED
  BY <1>1, <1>2, <1>3, <1>4, <1>5, <1>6 DEF Init, EvidenceInit

\* Bounded sequences are sequences.
LEMMA SeqsUpToAreSeqs ==
    ASSUME NEW S, NEW n \in Nat
    PROVE  SeqsUpTo(S, n) \subseteq Seq(S)
BY DEF SeqsUpTo

\* ... stay such inputs as they grow, ...
LEMMA GivenStep == Given /\ [Next]_vars => Given'
<1> SUFFICES ASSUME Given, [Next]_vars PROVE Given'
  OBVIOUS
<1>1. CASE AddCharacter
  <2>1. PICK c \in {"x", ":", " ", "(", ")", "!"} : input' = Append(input, c)
    BY <1>1 DEF AddCharacter
  <2>2. subject = "line" /\ subject' = "line" /\ input \in Lines
    BY <1>1 DEF AddCharacter, Given
  <2>3. c \in Characters
    BY DEF Characters
  <2>4. input' \in Lines
    BY <2>1, <2>2, <2>3, AppendProperties DEF Lines
  <2> QED
    BY <2>2, <2>4 DEF Given
<1>2. CASE AddLine
  <2>1. PICK line \in IF Len(input) > 1 /\ Plain(input)
                      THEN SeqsUpTo({"x", "-", ".", "/", ":", "=", " ", "bad"}, MaxLine)
                      ELSE {<< >>, <<"x">>} :
           input' = Append(input, line)
    BY <1>2 DEF AddLine
  <2>2. subject = "message" /\ subject' = "message" /\ input \in Seq(Lines)
    BY <1>2 DEF AddLine, Given
  <2>3. line \in Lines
    <3> DEFINE S == {"x", "-", ".", "/", ":", "=", " ", "bad"}
    <3>0. "x" \in Characters /\ S \subseteq Characters /\ MaxLine \in Nat
      BY InputsAssumption DEF Characters
    <3>1. {<< >>, <<"x">>} \subseteq Lines
      <4>1. << >> \in Seq(Characters) /\ <<"x">> \in Seq(Characters)
        BY <3>0, EmptySeq, SingleElement
      <4> QED
        BY <4>1 DEF Lines
    <3>2. SeqsUpTo(S, MaxLine) \subseteq Lines
      <4> HIDE DEF S
      <4>1. SeqsUpTo(S, MaxLine) \subseteq Seq(S)
        BY <3>0, SeqsUpToAreSeqs
      <4>2. Seq(S) \subseteq Seq(Characters)
        BY <3>0, SeqMonotonic
      <4> QED
        BY <4>1, <4>2 DEF Lines
    <3> QED
      BY <2>1, <3>1, <3>2
  <2>4. input' \in Seq(Lines)
    BY <2>1, <2>2, <2>3, AppendProperties
  <2> QED
    BY <2>2, <2>4 DEF Given
<1>3. CASE AddByte
  <2>1. PICK byte \in TokenBytes : input' = Append(input, byte)
    BY <1>3 DEF AddByte
  <2>2. subject = "token" /\ subject' = "token" /\ input \in Seq(TokenBytes)
    BY <1>3 DEF AddByte, Given
  <2>3. input' \in Seq(TokenBytes)
    BY <2>1, <2>2, AppendProperties
  <2> QED
    BY <2>2, <2>3 DEF Given
<1>4. CASE AddPiece
  <2>1. PICK piece \in TokenNames \cup {"text"} :
           input' = [input EXCEPT !.template = Append(@, piece)]
    BY <1>4 DEF AddPiece
  <2> DEFINE T == Seq(Pieces)
             F == Seq(Pieces)
             C == Seq(Pieces)
             t == Append(input.template, piece)
  <2>2. /\ subject = "template" /\ subject' = "template"
        /\ input \in [template : T, files : F, context : C]
    BY <1>4 DEF AddPiece, Given
  <2>3. t \in T
    <3>1. input.template \in Seq(Pieces) /\ piece \in Pieces
      BY <2>2 DEF Pieces
    <3> QED
      BY <3>1, AppendProperties
  <2>4. input' = [input EXCEPT !.template = t]
    BY <2>1
  <2>5. input' \in [template : T, files : F, context : C]
    <3> HIDE DEF T, F, C, t
    <3> QED
      BY <2>2, <2>3, <2>4
  <2> QED
    BY <2>2, <2>5 DEF Given
<1>5. CASE UNCHANGED vars
  BY <1>5 DEF vars, Given
<1>6. CASE EvidenceNext
  <2>1. subject' = subject /\ subject \in {"text", "files"}
    BY <1>6 DEF EvidenceNext, AddChar, StageFile
  <2> QED
    BY <2>1 DEF Given
<1> QED
  BY <1>1, <1>2, <1>3, <1>4, <1>5, <1>6 DEF Next

\* ... and are in every reachable state.
LEMMA AlwaysGiven == Spec => []Given
<1>1. Init => Given
  BY GivenInit
<1>2. Given /\ [Next]_vars => Given'
  BY GivenStep
<1> QED
  BY <1>1, <1>2, PTL DEF Spec

\* Validation accepts exactly the plans the documentation describes, whatever
\* the number of paths, entries and commits.
THEOREM ExactlyPartitionsAreAccepted == Spec => []AcceptsExactlyPartitions
<1>1. Given => AcceptsExactlyPartitions
  <2> SUFFICES ASSUME input \in Replies
               PROVE  AcceptsExactly(input.reply, input.staged,
                                     input.maxCommits, input.single)
    BY DEF Given, AcceptsExactlyPartitions
  <2> DEFINE entries == [conventional : BOOLEAN, files : SeqsUpTo(Names, MaxFiles)]
  <2>1. /\ input.reply \in {NotJson} \cup SeqsUpTo(entries, MaxEntries)
        /\ input.maxCommits \in Nat \ {0} /\ input.single \in BOOLEAN
    <3> DEFINE R == {NotJson} \cup SeqsUpTo(entries, MaxEntries)
               G == (SUBSET Names) \ {{}}
    <3>1. input \in [reply : R, staged : G, maxCommits : Limits, single : BOOLEAN]
      BY DEF Replies
    <3> HIDE DEF R, G
    <3>2. /\ input.reply \in R /\ input.maxCommits \in Limits
          /\ input.single \in BOOLEAN
      BY <3>1
    <3> QED
      BY <3>2, InputsAssumption DEF R
  <2>2. SeqsUpTo(entries, MaxEntries) \subseteq Seq(entries)
    <3> HIDE DEF entries
    <3> QED
      BY InputsAssumption, SeqsUpToAreSeqs
  <2>3. Seq(entries) \subseteq Seq(Entries(Names))
    <3>1. SeqsUpTo(Names, MaxFiles) \subseteq Seq(Names)
      BY InputsAssumption, SeqsUpToAreSeqs
    <3> DEFINE F == SeqsUpTo(Names, MaxFiles)
               G == Seq(Names)
    <3>2. [conventional : BOOLEAN, files : F] \subseteq [conventional : BOOLEAN, files : G]
      <4>1. F \subseteq G
        BY <3>1
      <4> HIDE DEF F, G
      <4> QED
        BY <4>1
    <3>3. entries \subseteq Entries(Names)
      BY <3>2 DEF Entries
    <3> HIDE DEF entries
    <3> QED
      BY <3>3
  <2>4. input.reply \in Seq(Entries(Names)) \cup {NotJson}
    BY <2>1, <2>2, <2>3
  <2> QED
    BY <2>1, <2>4, ValidationIsExact
<1> QED
  BY <1>1, AlwaysGiven, PTL

\* The settings a run is asked for.
LEMMA GivenAsked ==
    ASSUME Given, subject = "settings"
    PROVE  input.asked \in Asked /\ input.staged \in Nat
<1>1. input.asked \in AllAsked /\ input.staged \in StagedSizes
  BY DEF Given
<1> DEFINE a == input.asked
           numbers == [timeout : [cli : {Unset, 7}, env : {Unset, 5, Malformed}, file : {Unset}],
         max_diff_bytes : [cli : {Unset}, env : Sizes, file : FileSizes],
         max_prompt_bytes : [cli : {Unset}, env : Sizes, file : FileSizes],
         max_commits : [cli : {Unset}, env : {Unset}, file : {3}]]
           review == [enabled : BOOLEAN, disabled : BOOLEAN,
               env : {Unset, Malformed}, file : {Unset, FALSE}]
<1>2. a.numbers \in numbers /\ a.review \in review
      /\ a = [numbers |-> a.numbers, review |-> a.review]
  <2>1. a \in [numbers : numbers, review : review]
    BY <1>1 DEF AllAsked
  <2> HIDE DEF a, numbers, review
  <2> QED
    BY <2>1
<1>3. Sizes \subseteq Nat \cup {Unset, NotUnicode, Malformed}
      /\ FileSizes \subseteq Nat \cup {Unset}
  BY SettingsAssumption, UsizeAssumption DEF Sizes, FileSizes
<1>4. /\ [cli : {Unset, 7}, env : {Unset, 5, Malformed}, file : {Unset}] \subseteq Sources
      /\ [cli : {Unset}, env : {Unset}, file : {3}] \subseteq Sources
      /\ [cli : {Unset}, env : Sizes, file : FileSizes] \subseteq Sources
  <2>1. \A cli, env, file :
           /\ cli \subseteq Nat \cup {Unset}
           /\ env \subseteq Nat \cup {Unset, NotUnicode, Malformed}
           /\ file \subseteq Nat \cup {Unset}
           => [cli : cli, env : env, file : file] \subseteq Sources
    BY DEF Sources
  <2>2. /\ {{Unset, 7}, {Unset}} \subseteq SUBSET (Nat \cup {Unset})
        /\ {{Unset, 5, Malformed}, {Unset}}
              \subseteq SUBSET (Nat \cup {Unset, NotUnicode, Malformed})
        /\ {{3}, {Unset}} \subseteq SUBSET (Nat \cup {Unset})
    OBVIOUS
  <2> QED
    BY <1>3, <2>1, <2>2
<1>5. /\ a.numbers["timeout"] \in Sources
      /\ a.numbers["max_diff_bytes"] \in Sources
      /\ a.numbers["max_prompt_bytes"] \in Sources
      /\ a.numbers["max_commits"] \in Sources
      /\ \A n \in Numeric \ {"timeout"} : a.numbers[n].cli = Unset
  <2> DEFINE n == a.numbers
  <2>1. /\ n["timeout"] \in [cli : {Unset, 7}, env : {Unset, 5, Malformed}, file : {Unset}]
        /\ n["max_diff_bytes"] \in [cli : {Unset}, env : Sizes, file : FileSizes]
        /\ n["max_prompt_bytes"] \in [cli : {Unset}, env : Sizes, file : FileSizes]
        /\ n["max_commits"] \in [cli : {Unset}, env : {Unset}, file : {3}]
    <3>1. n \in numbers
      BY <1>2
    <3> HIDE DEF n
    <3> QED
      BY <3>1
  <2> HIDE DEF n
  <2>2. /\ n["max_diff_bytes"].cli = Unset /\ n["max_prompt_bytes"].cli = Unset
        /\ n["max_commits"].cli = Unset
    BY <2>1
  <2>3. \A m \in Numeric \ {"timeout"} : n[m].cli = Unset
    BY <2>2 DEF Numeric
  <2> QED
    BY <1>4, <2>1, <2>3 DEF n
<1>6. a.numbers \in [Numeric -> Sources]
  <2> DEFINE n == a.numbers
  <2>1. n \in numbers
    BY <1>2
  <2>2. DOMAIN n = Numeric /\ n = [m \in DOMAIN n |-> n[m]]
    <3> HIDE DEF n
    <3> QED
      BY <2>1 DEF Numeric
  <2>3. \A m \in Numeric : n[m] \in Sources
    BY <1>5 DEF Numeric
  <2> HIDE DEF n
  <2> QED
    BY <2>2, <2>3 DEF n
<1>7. a.review \in [enabled : BOOLEAN, disabled : BOOLEAN,
                    env : BOOLEAN \cup {Unset, NotUnicode, Malformed},
                    file : BOOLEAN \cup {Unset}]
  BY <1>2
<1>8. a \in Asked
  <2> DEFINE n == a.numbers
             r == a.review
  <2>1. a = [numbers |-> n, review |-> r]
    BY <1>2
  <2> HIDE DEF a, n, r
  <2> QED
    BY <1>5, <1>6, <1>7, <2>1 DEF Asked, n, r
<1>9. input.staged \in Nat
  BY <1>1 DEF StagedSizes
<1> QED
  BY <1>8, <1>9

\* A ceiling nobody chose leaves room for the evidence, for every largest usize.
THEOREM CeilingsLeaveHeadroom == Spec => []CeilingLeavesHeadroom
<1>1. Given => CeilingLeavesHeadroom
  BY GivenAsked, HeadroomAlwaysLeft DEF CeilingLeavesHeadroom
<1> QED
  BY <1>1, AlwaysGiven, PTL

\* What was chosen is what the run goes by, for every largest usize.
THEOREM ChosenSettingsAreKept == Spec => []ChosenSettingsHold
<1>1. Given => ChosenSettingsHold
  BY GivenAsked, ChoicesAlwaysHold DEF ChosenSettingsHold
<1> QED
  BY <1>1, AlwaysGiven, PTL
-----------------------------------------------------------------------------
(* Credential files. *)

\* The first bytes of a text, no more than there are.
LEMMA PrefixIs ==
    ASSUME NEW S, NEW s \in Seq(S), NEW n \in Nat
    PROVE  /\ Len(s) <= n => Prefix(s, n) = s
           /\ n <= Len(s) => /\ Prefix(s, n) \in Seq(S)
                             /\ Len(Prefix(s, n)) = n
                             /\ \A i \in 1..n : Prefix(s, n)[i] = s[i]
<1> DEFINE m == Min({n, Len(s)})
<1>1. Len(s) \in Nat
  BY LenProperties
<1>2. m = IF n <= Len(s) THEN n ELSE Len(s)
  <2> DEFINE a == IF n <= Len(s) THEN n ELSE Len(s)
  <2>1. a \in {n, Len(s)} /\ \A y \in {n, Len(s)} : a <= y
    BY <1>1
  <2>2. \A b \in {n, Len(s)} : (\A y \in {n, Len(s)} : b <= y) => b = a
    BY <1>1
  <2> HIDE DEF a
  <2>3. m = a
    BY <2>1, <2>2 DEF Min
  <2> QED
    BY <2>3 DEF a
<1>3. CASE Len(s) <= n
  <2>1. m = Len(s)
    BY <1>1, <1>2, <1>3
  <2>2. Prefix(s, n) = s
    BY <2>1, SubSeqFull DEF Prefix
  <2> QED
    BY <1>1, <1>3, <2>2, LenProperties
<1>4. CASE n < Len(s)
  <2>1. m = n
    BY <1>1, <1>2, <1>4
  <2>2. Prefix(s, n) = SubSeq(s, 1, n)
    BY <2>1 DEF Prefix
  <2>3. \A i \in 1..n : s[i] \in S
    BY <1>1, <1>4, ElementOfSeq
  <2>4. /\ SubSeq(s, 1, n) \in Seq(S)
        /\ Len(SubSeq(s, 1, n)) = n
        /\ \A i \in 1..n : SubSeq(s, 1, n)[i] = s[i]
    <3>1. /\ SubSeq(s, 1, n) \in Seq(S)
          /\ Len(SubSeq(s, 1, n)) = IF 1 <= n THEN n - 1 + 1 ELSE 0
          /\ \A i \in 1..(n - 1 + 1) : SubSeq(s, 1, n)[i] = s[1 + i - 1]
      BY <2>3, SubSeqProperties
    <3> QED
      BY <3>1
  <2> QED
    BY <1>1, <1>4, <2>2, <2>4
<1> QED
  BY <1>1, <1>3, <1>4

\* The first one or two elements of a sequence.
LEMMA FirstElements ==
    ASSUME NEW S, NEW s \in Seq(S)
    PROVE  /\ Len(s) \in Nat
           /\ 1 <= Len(s) => s[1] \in S /\ SubSeq(s, 1, 1) = <<s[1]>>
           /\ 2 <= Len(s) => s[2] \in S /\ SubSeq(s, 1, 2) = <<s[1], s[2]>>
<1>1. Len(s) \in Nat /\ \A i \in 1..Len(s) : s[i] \in S
  BY LenProperties, ElementOfSeq
<1>2. ASSUME 1 <= Len(s) PROVE s[1] \in S /\ SubSeq(s, 1, 1) = <<s[1]>>
  <2> DEFINE t == SubSeq(s, 1, 1)
  <2>0. s[1] \in S /\ \A i \in 1..1 : s[i] \in S
    BY <1>1, <1>2
  <2>1. /\ t \in Seq(S)
        /\ Len(t) = IF 1 <= 1 THEN 1 - 1 + 1 ELSE 0
        /\ \A i \in 1..1 - 1 + 1 : t[i] = s[1 + i - 1]
    BY <2>0, SubSeqProperties
  <2> HIDE DEF t
  <2>2. Len(t) = 1 /\ t[1] = s[1]
    BY <2>1
  <2>3. t = <<s[1]>>
    <3> DEFINE u == <<s[1]>>
    <3>1. u \in Seq(S) /\ Len(u) = 1 /\ u[1] = s[1]
      BY <2>0
    <3> HIDE DEF u
    <3>2. \A i \in 1..Len(t) : t[i] = u[i]
      BY <2>2, <3>1
    <3>3. t = u
      BY <2>1, <2>2, <3>1, <3>2, SeqEqual
    <3> QED
      BY <3>3 DEF u
  <2> QED
    BY <2>0, <2>3 DEF t
<1>3. ASSUME 2 <= Len(s) PROVE s[2] \in S /\ SubSeq(s, 1, 2) = <<s[1], s[2]>>
  <2> DEFINE t == SubSeq(s, 1, 2)
  <2>0. s[1] \in S /\ s[2] \in S /\ \A i \in 1..2 : s[i] \in S
    BY <1>1, <1>3
  <2>1. /\ t \in Seq(S)
        /\ Len(t) = IF 1 <= 2 THEN 2 - 1 + 1 ELSE 0
        /\ \A i \in 1..2 - 1 + 1 : t[i] = s[1 + i - 1]
    BY <2>0, SubSeqProperties
  <2> HIDE DEF t
  <2>2. Len(t) = 2 /\ t[1] = s[1] /\ t[2] = s[2]
    BY <2>1
  <2>3. t = <<s[1], s[2]>>
    <3> DEFINE u == <<s[1], s[2]>>
    <3>1. u \in Seq(S) /\ Len(u) = 2 /\ u[1] = s[1] /\ u[2] = s[2]
      BY <2>0
    <3> HIDE DEF u
    <3>2. \A i \in 1..Len(t) : t[i] = u[i]
      BY <2>2, <3>1
    <3>3. t = u
      BY <2>1, <2>2, <3>1, <3>2, SeqEqual
    <3> QED
      BY <3>3 DEF u
  <2> QED
    BY <2>0, <2>3 DEF t
<1> QED
  BY <1>1, <1>2, <1>3

\* What a file ends with.
EndsWithLF(s) == Len(s) > 0 /\ s[Len(s)] = "lf"

EndsWithCRLF(s) ==
    Len(s) > 1 /\ s[Len(s) - 1] = "cr" /\ s[Len(s)] = "lf"

\* What a text ends with, up to two bytes.
LEMMA SuffixIs ==
    ASSUME NEW s \in Seq(TokenBytes)
    PROVE  /\ IsSuffix(<<"lf">>, s) <=> EndsWithLF(s)
           /\ IsSuffix(<<"cr", "lf">>, s) <=> EndsWithCRLF(s)
<1> DEFINE n == Len(s)
           r == Reverse(s)
           l == <<"lf">>
           cl == <<"cr", "lf">>
<1>1. n \in Nat
  BY LenProperties
<1>2. /\ r \in Seq(TokenBytes) /\ Len(r) = n
      /\ \A i \in 1..n : r[i] = s[n - i + 1]
  <2>1. r = [i \in 1..n |-> s[n - i + 1]]
    BY DEF Reverse
  <2>2. \A i \in 1..n : s[n - i + 1] \in TokenBytes
    BY <1>1, ElementOfSeq
  <2> HIDE DEF r, n
  <2> QED
    BY <1>1, <2>1, <2>2
<1>3. /\ Reverse(l) = <<"lf">>
      /\ Reverse(cl) = <<"lf", "cr">>
  BY DEF Reverse
<1> HIDE DEF r
<1>4. IsSuffix(l, s) <=> 1 <= n /\ SubSeq(<<"lf">>, 1, 1) = SubSeq(r, 1, 1)
  BY <1>2, <1>3 DEF IsSuffix, IsPrefix, r
<1>5. IsSuffix(cl, s) <=> 2 <= n /\ SubSeq(<<"lf", "cr">>, 1, 2) = SubSeq(r, 1, 2)
  BY <1>2, <1>3 DEF IsSuffix, IsPrefix, r
<1>6. SubSeq(<<"lf">>, 1, 1) = <<"lf">> /\ SubSeq(<<"lf", "cr">>, 1, 2) = <<"lf", "cr">>
  <2> DEFINE u == <<"lf">>
             v == <<"lf", "cr">>
  <2>1. /\ u \in Seq(TokenBytes) /\ Len(u) = 1 /\ u[1] = "lf"
        /\ v \in Seq(TokenBytes) /\ Len(v) = 2 /\ v[1] = "lf" /\ v[2] = "cr"
    BY DEF TokenBytes
  <2> HIDE DEF u, v
  <2>2. SubSeq(u, 1, Len(u)) = u /\ SubSeq(v, 1, Len(v)) = v
    BY <2>1, SubSeqFull
  <2>3. SubSeq(u, 1, 1) = u /\ SubSeq(v, 1, 2) = v
    BY <2>1, <2>2
  <2> QED
    BY <2>3 DEF u, v
<1>7. 1 <= n => (SubSeq(r, 1, 1) = <<"lf">> <=> s[n] = "lf")
  <2> SUFFICES ASSUME 1 <= n PROVE SubSeq(r, 1, 1) = <<"lf">> <=> s[n] = "lf"
    OBVIOUS
  <2>1. SubSeq(r, 1, 1) = <<r[1]>>
    BY <1>2, FirstElements
  <2>2. r[1] = s[n]
    BY <1>1, <1>2
  <2> HIDE DEF n
  <2> QED
    BY <2>1, <2>2
<1>8. 2 <= n => (SubSeq(r, 1, 2) = <<"lf", "cr">>
                     <=> s[n] = "lf" /\ s[n - 1] = "cr")
  <2> SUFFICES ASSUME 2 <= n
               PROVE  SubSeq(r, 1, 2) = <<"lf", "cr">>
                          <=> s[n] = "lf" /\ s[n - 1] = "cr"
    OBVIOUS
  <2>1. SubSeq(r, 1, 2) = <<r[1], r[2]>>
    BY <1>2, FirstElements
  <2>2. r[1] = s[n] /\ r[2] = s[n - 1]
    BY <1>1, <1>2
  <2> HIDE DEF n
  <2> QED
    BY <2>1, <2>2
<1>9. IsSuffix(l, s) <=> EndsWithLF(s)
  <2>1. EndsWithLF(s) <=> 1 <= n /\ s[n] = "lf"
    BY <1>1 DEF EndsWithLF
  <2> HIDE DEF n, l
  <2>2. IsSuffix(l, s) <=> 1 <= n /\ <<"lf">> = SubSeq(r, 1, 1)
    BY <1>4, <1>6
  <2>3. (1 <= n /\ <<"lf">> = SubSeq(r, 1, 1)) <=> (1 <= n /\ s[n] = "lf")
    BY <1>7
  <2> QED
    BY <2>1, <2>2, <2>3
<1>10. IsSuffix(cl, s) <=> EndsWithCRLF(s)
  <2>1. EndsWithCRLF(s) <=> 2 <= n /\ s[n] = "lf" /\ s[n - 1] = "cr"
    BY <1>1 DEF EndsWithCRLF
  <2> HIDE DEF n, cl
  <2>2. IsSuffix(cl, s) <=> 2 <= n /\ <<"lf", "cr">> = SubSeq(r, 1, 2)
    BY <1>5, <1>6
  <2>3. (2 <= n /\ <<"lf", "cr">> = SubSeq(r, 1, 2))
            <=> (2 <= n /\ s[n] = "lf" /\ s[n - 1] = "cr")
    BY <1>8
  <2> QED
    BY <2>1, <2>2, <2>3
<1> QED
  BY <1>9, <1>10

\* What is left of a file without its terminator, and what that was.
LEMMA StripIs ==
    ASSUME NEW s \in Seq(TokenBytes)
    PROVE  LET token == StripTerminator(s) IN
           /\ token \in Seq(TokenBytes)
           /\ EndsWithCRLF(s) => s = token \o <<"cr", "lf">>
           /\ EndsWithLF(s) /\ ~ EndsWithCRLF(s) => s = token \o <<"lf">>
           /\ ~ EndsWithLF(s) => s = token
<1> DEFINE token == StripTerminator(s)
           n == Len(s)
<1>0. n \in Nat /\ {"cr", "lf"} \subseteq TokenBytes
  BY LenProperties DEF TokenBytes
<1>1. EndsWithCRLF(s) => EndsWithLF(s)
  BY <1>0 DEF EndsWithLF, EndsWithCRLF
<1>2. CASE EndsWithCRLF(s)
  <2>1. token = Prefix(s, n - 2)
    BY <1>2, SuffixIs DEF StripTerminator
  <2>2. n > 1 /\ s[n - 1] = "cr" /\ s[n] = "lf"
    BY <1>2 DEF EndsWithCRLF
  <2> HIDE DEF token
  <2>3. /\ token \in Seq(TokenBytes) /\ Len(token) = n - 2
        /\ \A i \in 1..(n - 2) : token[i] = s[i]
    <3>1. n - 2 \in Nat /\ n - 2 <= Len(s)
      BY <1>0, <2>2
    <3> HIDE DEF n
    <3> QED
      BY <2>1, <3>1, PrefixIs
  <2> DEFINE e == <<"cr", "lf">>
             t == token \o e
  <2>4. e \in Seq(TokenBytes) /\ Len(e) = 2 /\ e[1] = "cr" /\ e[2] = "lf"
    BY <1>0
  <2> HIDE DEF e
  <2>5. /\ t \in Seq(TokenBytes) /\ Len(t) = Len(token) + Len(e)
        /\ \A i \in 1..(Len(token) + Len(e)) :
              t[i] = IF i <= Len(token) THEN token[i] ELSE e[i - Len(token)]
    BY <2>3, <2>4, ConcatProperties
  <2> HIDE DEF t
  <2>6. Len(t) = n /\ \A i \in 1..n : t[i] = s[i]
    <3>1. Len(t) = n
      BY <1>0, <2>2, <2>3, <2>4, <2>5
    <3>2. ASSUME NEW i \in 1..n PROVE t[i] = s[i]
      <4>1. t[i] = IF i <= n - 2 THEN token[i] ELSE e[i - (n - 2)]
        BY <1>0, <2>2, <2>3, <2>4, <2>5
      <4>2. CASE i <= n - 2
        BY <1>0, <2>2, <2>3, <4>1, <4>2
      <4>3. CASE i = n - 1
        BY <1>0, <2>2, <2>4, <4>1, <4>3
      <4>4. CASE i = n
        BY <1>0, <2>2, <2>4, <4>1, <4>4
      <4> QED
        BY <1>0, <2>2, <4>2, <4>3, <4>4
    <3> QED
      BY <3>1, <3>2
  <2>7. s = t
    BY <2>5, <2>6, SeqEqual
  <2> QED
    BY <1>1, <1>2, <2>3, <2>7 DEF e, t, token
<1>3. CASE EndsWithLF(s) /\ ~ EndsWithCRLF(s)
  <2>1. token = Prefix(s, n - 1)
    BY <1>3, SuffixIs DEF StripTerminator
  <2>2. n > 0 /\ s[n] = "lf"
    BY <1>3 DEF EndsWithLF
  <2> HIDE DEF token
  <2>3. /\ token \in Seq(TokenBytes) /\ Len(token) = n - 1
        /\ \A i \in 1..(n - 1) : token[i] = s[i]
    <3>1. n - 1 \in Nat /\ n - 1 <= Len(s)
      BY <1>0, <2>2
    <3> HIDE DEF n
    <3> QED
      BY <2>1, <3>1, PrefixIs
  <2> DEFINE e == <<"lf">>
             t == token \o e
  <2>4. e \in Seq(TokenBytes) /\ Len(e) = 1 /\ e[1] = "lf"
    BY <1>0
  <2> HIDE DEF e
  <2>5. /\ t \in Seq(TokenBytes) /\ Len(t) = Len(token) + Len(e)
        /\ \A i \in 1..(Len(token) + Len(e)) :
              t[i] = IF i <= Len(token) THEN token[i] ELSE e[i - Len(token)]
    BY <2>3, <2>4, ConcatProperties
  <2> HIDE DEF t
  <2>6. Len(t) = n /\ \A i \in 1..n : t[i] = s[i]
    <3>1. Len(t) = n
      BY <1>0, <2>2, <2>3, <2>4, <2>5
    <3>2. ASSUME NEW i \in 1..n PROVE t[i] = s[i]
      <4>1. t[i] = IF i <= n - 1 THEN token[i] ELSE e[i - (n - 1)]
        BY <1>0, <2>2, <2>3, <2>4, <2>5
      <4>2. CASE i <= n - 1
        BY <1>0, <2>2, <2>3, <4>1, <4>2
      <4>4. CASE i = n
        BY <1>0, <2>2, <2>4, <4>1, <4>4
      <4> QED
        BY <1>0, <2>2, <4>2, <4>4
    <3> QED
      BY <3>1, <3>2
  <2>7. s = t
    BY <2>5, <2>6, SeqEqual
  <2> QED
    BY <1>3, <2>3, <2>7 DEF e, t, token
<1>4. CASE ~ EndsWithLF(s)
  <2>1. token = s
    BY <1>1, <1>4, SuffixIs DEF StripTerminator
  <2> QED
    BY <1>1, <1>4, <2>1
<1> QED
  BY <1>2, <1>3, <1>4
-----------------------------------------------------------------------------
\* What is before a given end is known from the whole.
LEMMA ConcatCancel ==
    ASSUME NEW S, NEW a \in Seq(S), NEW b \in Seq(S), NEW e \in Seq(S),
           a \o e = b \o e
    PROVE  a = b
<1>1. Len(a) \in Nat /\ Len(b) \in Nat /\ Len(e) \in Nat
  BY LenProperties
<1>2. /\ Len(a \o e) = Len(a) + Len(e)
      /\ \A i \in 1..(Len(a) + Len(e)) :
            (a \o e)[i] = IF i <= Len(a) THEN a[i] ELSE e[i - Len(a)]
      /\ Len(b \o e) = Len(b) + Len(e)
      /\ \A i \in 1..(Len(b) + Len(e)) :
            (b \o e)[i] = IF i <= Len(b) THEN b[i] ELSE e[i - Len(b)]
  BY ConcatProperties
<1>3. Len(a) = Len(b)
  BY <1>1, <1>2
<1>4. ASSUME NEW i \in 1..Len(a) PROVE a[i] = b[i]
  <2>1. i \in 1..(Len(a) + Len(e)) /\ i <= Len(a) /\ i <= Len(b)
        /\ i \in 1..(Len(b) + Len(e))
    BY <1>1, <1>3
  <2>2. (a \o e)[i] = a[i]
    BY <1>2, <2>1
  <2>3. (b \o e)[i] = b[i]
    BY <1>2, <2>1
  <2> QED
    BY <2>2, <2>3
<1> QED
  BY <1>3, <1>4, SeqEqual

\* What is valid, character by character; it holds no terminator.
LEMMA ValidIs ==
    ASSUME NEW s \in Seq(TokenBytes)
    PROVE  /\ ValidToken(s) <=> /\ Len(s) \in 1..MaxTokenBytes
                                /\ \A i \in 1..Len(s) : s[i] = "t"
           /\ ValidToken(s) => StripTerminator(s) = s
<1>1. Len(s) \in Nat
  BY LenProperties
<1>2. ValidToken(s) <=> /\ Len(s) \in 1..MaxTokenBytes
                        /\ \A i \in 1..Len(s) : s[i] = "t"
  <2>1. Range(s) \subseteq {"t"} <=> \A i \in 1..Len(s) : s[i] = "t"
    <3>1. DOMAIN s = 1..Len(s)
      BY LenProperties
    <3> QED
      BY <3>1 DEF Range
  <2> QED
    BY <2>1 DEF ValidToken
<1>3. ASSUME ValidToken(s) PROVE StripTerminator(s) = s
  <2>1. Len(s) \in 1..Len(s)
    BY <1>1, <1>2, <1>3, TokenAssumption
  <2>2. s[Len(s)] = "t"
    BY <1>2, <1>3, <2>1
  <2>3. ~ EndsWithLF(s)
    BY <2>2 DEF EndsWithLF
  <2> QED
    BY <2>3, StripIs
<1> QED
  BY <1>2, <1>3

\* A token with a terminator is taken without it.
LEMMA TerminatorIsStripped ==
    ASSUME NEW s \in Seq(TokenBytes), ValidToken(s)
    PROVE  /\ StripTerminator(s \o <<"lf">>) = s
           /\ StripTerminator(s \o <<"cr", "lf">>) = s
<1> DEFINE n == Len(s)
<1>1. n \in Nat \ {0} /\ s[n] = "t"
  BY ValidIs, LenProperties, TokenAssumption
<1>2. StripTerminator(s \o <<"lf">>) = s
  <2> DEFINE e == <<"lf">>
             w == s \o e
             token == StripTerminator(w)
  <2>1. e \in Seq(TokenBytes) /\ Len(e) = 1 /\ e[1] = "lf"
    BY DEF TokenBytes
  <2> HIDE DEF e
  <2>2. /\ w \in Seq(TokenBytes) /\ Len(w) = Len(s) + Len(e)
        /\ \A i \in 1..(Len(s) + Len(e)) :
              w[i] = IF i <= Len(s) THEN s[i] ELSE e[i - Len(s)]
    BY <2>1, ConcatProperties
  <2> HIDE DEF w
  <2>3. Len(w) = n + 1 /\ w[n + 1] = "lf" /\ w[n] = "t"
    BY <1>1, <2>1, <2>2
  <2>4. EndsWithLF(w) /\ ~ EndsWithCRLF(w)
    <3>1. Len(w) - 1 = n
      BY <1>1, <2>3
    <3> QED
      BY <1>1, <2>3, <3>1 DEF EndsWithLF, EndsWithCRLF
  <2>5. token \in Seq(TokenBytes) /\ w = token \o <<"lf">>
    BY <2>2, <2>4, StripIs
  <2> HIDE DEF token
  <2>6. s \o e = token \o e
    BY <2>5 DEF e, w
  <2>7. token = s
    BY <2>1, <2>5, <2>6, ConcatCancel
  <2> QED
    BY <2>7 DEF token, w, e
<1>3. StripTerminator(s \o <<"cr", "lf">>) = s
  <2> DEFINE e == <<"cr", "lf">>
             w == s \o e
             token == StripTerminator(w)
  <2>1. e \in Seq(TokenBytes) /\ Len(e) = 2 /\ e[1] = "cr" /\ e[2] = "lf"
    BY DEF TokenBytes
  <2> HIDE DEF e
  <2>2. /\ w \in Seq(TokenBytes) /\ Len(w) = Len(s) + Len(e)
        /\ \A i \in 1..(Len(s) + Len(e)) :
              w[i] = IF i <= Len(s) THEN s[i] ELSE e[i - Len(s)]
    BY <2>1, ConcatProperties
  <2> HIDE DEF w
  <2>3. Len(w) = n + 2 /\ w[n + 1] = "cr" /\ w[n + 2] = "lf"
    BY <1>1, <2>1, <2>2
  <2>4. EndsWithCRLF(w)
    <3>1. Len(w) - 1 = n + 1
      BY <1>1, <2>3
    <3> QED
      BY <1>1, <2>3, <3>1 DEF EndsWithCRLF
  <2>5. token \in Seq(TokenBytes) /\ w = token \o <<"cr", "lf">>
    BY <2>2, <2>4, StripIs
  <2> HIDE DEF token
  <2>6. s \o e = token \o e
    BY <2>5 DEF e, w
  <2>7. token = s
    BY <2>1, <2>5, <2>6, ConcatCancel
  <2> QED
    BY <2>7 DEF token, w, e
<1> QED
  BY <1>2, <1>3

\* What a file gives, read with a limit or without.
LEMMA FileGives ==
    ASSUME NEW s \in Seq(TokenBytes)
    PROVE  FromFile(s) = IF /\ Len(s) <= MaxTokenBytes + 2
                            /\ ValidToken(StripTerminator(s))
                         THEN StripTerminator(s) ELSE NoToken
<1>0. Len(s) \in Nat /\ MaxTokenBytes \in Nat
  BY LenProperties, TokenAssumption
<1> DEFINE m == MaxTokenBytes + 3
           read == ReadLimited(s)
<1>1. m \in Nat /\ m > MaxTokenBytes + 2
  BY <1>0
<1>2. read = Prefix(s, m)
  BY DEF ReadLimited
<1> HIDE DEF m, read
<1>3. Len(s) <= m => read = s
  BY <1>1, <1>2, PrefixIs
<1>4. Len(s) > m => Len(read) = m
  <2> SUFFICES ASSUME Len(s) > m PROVE Len(read) = m
    OBVIOUS
  <2>1. m <= Len(s)
    BY <1>0, <1>1
  <2> QED
    BY <1>1, <1>2, <2>1, PrefixIs
<1>5. FromFile(s) = IF /\ Len(read) <= MaxTokenBytes + 2
                       /\ ValidToken(StripTerminator(read))
                    THEN StripTerminator(read) ELSE NoToken
  BY DEF FromFile, read
<1>6. CASE Len(s) <= m
  BY <1>3, <1>5, <1>6
<1>7. CASE Len(s) > m
  <2>1. ~ Len(read) <= MaxTokenBytes + 2 /\ ~ Len(s) <= MaxTokenBytes + 2
    BY <1>0, <1>1, <1>4, <1>7
  <2> QED
    BY <1>5, <2>1
<1> QED
  BY <1>0, <1>1, <1>6, <1>7

\* A credential file gives the whole of it, but for a terminator, or nothing,
\* and the same as the variable would: the credential is never cut short.
LEMMA TokenAlwaysWholeFile ==
    ASSUME NEW bytes \in Seq(TokenBytes)
    PROVE  TokenIsWholeFile(bytes)
<1> DEFINE token == FromSources(NotGiven, bytes)
           stripped == StripTerminator(bytes)
<1>0. bytes # NotGiven /\ bytes # NoToken /\ NotGiven # NoToken
  BY TokenAssumption
<1>1. token = FromFile(bytes)
  BY <1>0 DEF FromSources
<1>2. token = IF Len(bytes) <= MaxTokenBytes + 2 /\ ValidToken(stripped)
              THEN stripped ELSE NoToken
  BY <1>1, FileGives
<1>3. stripped \in Seq(TokenBytes) /\ stripped # NoToken
  BY StripIs, TokenAssumption
<1>4. bytes \in {stripped, stripped \o <<"lf">>, stripped \o <<"cr", "lf">>}
  BY StripIs
<1> HIDE DEF token, stripped
<1>5. token # NoToken => bytes \in {token, token \o <<"lf">>, token \o <<"cr", "lf">>}
  BY <1>2, <1>4
<1>6. ASSUME token = NoToken,
             NEW end \in {<< >>, <<"lf">>, <<"cr", "lf">>},
             NEW n \in 1..MaxTokenBytes
      PROVE  bytes # [i \in 1..n |-> "t"] \o end
  <2> DEFINE t == [i \in 1..n |-> "t"]
  <2>0. n \in Nat /\ n <= MaxTokenBytes /\ MaxTokenBytes \in Nat
    BY TokenAssumption
  <2>1. t \in Seq(TokenBytes) /\ Len(t) = n /\ \A i \in 1..n : t[i] = "t"
    BY <2>0 DEF TokenBytes
  <2> HIDE DEF t
  <2>2. ValidToken(t)
    BY <2>1, ValidIs
  <2>3. end \in Seq(TokenBytes) /\ Len(end) \in Nat /\ Len(end) <= 2
    <3>1. CASE end = << >>
      BY <3>1
    <3>2. CASE end = <<"lf">>
      BY <3>2 DEF TokenBytes
    <3>3. CASE end = <<"cr", "lf">>
      BY <3>3 DEF TokenBytes
    <3> QED
      BY <3>1, <3>2, <3>3
  <2>4. StripTerminator(t \o end) = t
    <3>1. end = << >> => t \o end = t
      BY <2>1, ConcatEmptySeq
    <3> QED
      BY <2>1, <2>2, <3>1, ValidIs, TerminatorIsStripped
  <2>5. Len(t \o end) <= MaxTokenBytes + 2
    <3>1. Len(t \o end) = Len(t) + Len(end)
      BY <2>1, <2>3, ConcatProperties
    <3>2. Len(t) <= MaxTokenBytes /\ Len(t) \in Nat
      BY <2>0, <2>1
    <3> QED
      BY <2>0, <2>3, <3>1, <3>2
  <2>6. ASSUME bytes = t \o end PROVE FALSE
    <3>1. stripped = t
      BY <2>4, <2>6 DEF stripped
    <3>2. Len(bytes) <= MaxTokenBytes + 2
      BY <2>5, <2>6
    <3> QED
      BY <1>2, <1>3, <1>6, <2>2, <3>1, <3>2
  <2> QED
    BY <2>6 DEF t
<1>7. FromSources(bytes, NotGiven) = IF ValidToken(bytes) THEN bytes ELSE NoToken
  BY <1>0 DEF FromSources
<1>8. token = bytes <=> ValidToken(bytes)
  <2>1. ASSUME token = bytes PROVE ValidToken(bytes)
    BY <1>0, <1>2, <2>1
  <2>2. ASSUME ValidToken(bytes) PROVE token = bytes
    <3>1. stripped = bytes
      BY <2>2, ValidIs DEF stripped
    <3>2. Len(bytes) <= MaxTokenBytes + 2
      BY <2>2, ValidIs, TokenAssumption, LenProperties
    <3> QED
      BY <1>2, <2>2, <3>1, <3>2
  <2> QED
    BY <2>1, <2>2
<1>9. FromSources(bytes, bytes) = NoToken
  BY <1>0 DEF FromSources
<1>10. FromSources(bytes, NotGiven) = IF token = bytes THEN token ELSE NoToken
  BY <1>7, <1>8
<1> QED
  BY <1>5, <1>6, <1>9, <1>10 DEF TokenIsWholeFile, token

\* No state of the run holds a credential file that is taken in part.
THEOREM CredentialsAreWholeFiles == Spec => []TokensAreWholeFiles
<1>1. Given => TokensAreWholeFiles
  BY TokenAlwaysWholeFile DEF Given, TokensAreWholeFiles
<1> QED
  BY <1>1, AlwaysGiven, PTL
-----------------------------------------------------------------------------
(* Prompt templates. *)

\* What a replacement does to every piece of a text.
Swap(name, value) == [piece \in Pieces |-> IF piece = name THEN value ELSE <<piece>>]

LEMMA SwapIs ==
    ASSUME NEW name, NEW value \in Seq(Pieces)
    PROVE  /\ Replacement(Pieces, Swap(name, value))
           /\ \A x \in Pieces :
                 Swap(name, value)[x] = IF x = name THEN value ELSE <<x>>
<1>1. \A x \in Pieces : <<x>> \in Seq(Pieces)
  BY SingleElement
<1> QED
  BY <1>1 DEF Swap, Replacement

\* One token is replaced by its value.
LEMMA SubstituteIs ==
    ASSUME NEW name \in TokenNames, NEW value \in Seq(Pieces),
           NEW text \in Seq(Pieces)
    PROVE  /\ Replacement(Pieces, Swap(name, value))
           /\ \A x \in Pieces :
                 Swap(name, value)[x] = IF x = name THEN value ELSE <<x>>
           /\ Substitute(text, name, value) = Expand(text, Swap(name, value))
           /\ Substitute(text, name, value) \in Seq(Pieces)
           /\ \A m \in Pieces : m # name /\ m \notin Range(value) =>
                 (m \in Range(Substitute(text, name, value)) <=> m \in Range(text))
<1> DEFINE w == Swap(name, value)
           new == Substitute(text, name, value)
<1>1. /\ Replacement(Pieces, w)
      /\ \A x \in Pieces : w[x] = IF x = name THEN value ELSE <<x>>
  BY SwapIs
<1> HIDE DEF w
<1>2. new = Expand(text, w)
  <2>1. \A i \in DOMAIN text : text[i] \in Pieces
    BY LenProperties, ElementOfSeq
  <2>2. \A i \in DOMAIN text :
            (IF text[i] = name THEN value ELSE <<text[i]>>) = w[text[i]]
    BY <1>1, <2>1
  <2>3. [i \in DOMAIN text |-> IF text[i] = name THEN value ELSE <<text[i]>>]
          = [i \in DOMAIN text |-> w[text[i]]]
    BY <2>2
  <2> QED
    BY <2>3 DEF Substitute, Expand
<1>3. new \in Seq(Pieces)
  BY <1>1, <1>2, ExpandType
<1>4. Range(new) = UNION {Range(w[x]) : x \in Range(text)}
  BY <1>1, <1>2, RangeOfExpand
<1>5. ASSUME NEW m \in Pieces, m # name, m \notin Range(value)
      PROVE  m \in Range(new) <=> m \in Range(text)
  <2>1. Range(text) \subseteq Pieces
    BY RangeOfSeq
  <2>2. \A x \in Range(text) : m \in Range(w[x]) <=> m = x
    <3> TAKE x \in Range(text)
    <3>1. CASE x = name
      BY <1>1, <1>5, <2>1, <3>1
    <3>2. CASE x # name
      <4>1. w[x] = <<x>> /\ Range(<<x>>) = {x}
        <5>1. DOMAIN <<x>> = {1} /\ <<x>>[1] = x
          OBVIOUS
        <5>2. Range(<<x>>) = {x}
          BY <5>1 DEF Range
        <5> QED
          BY <1>1, <2>1, <3>2, <5>2
      <4> QED
        BY <4>1
    <3> QED
      BY <3>1, <3>2
  <2> HIDE DEF new
  <2> QED
    BY <1>4, <2>2
<1> QED
  BY <1>1, <1>2, <1>3, <1>5 DEF w

\* One replacement, of a token that has to be there.
Replaced(text, name, value) ==
    IF text # NoPrompt /\ name \in Range(text)
    THEN Substitute(text, name, value) ELSE NoPrompt

\* A template is rendered by four replacements, one after the other.
LEMMA RenderIs ==
    ASSUME NEW template \in Seq(Pieces), NEW files \in Seq(Pieces),
           NEW context \in Seq(Pieces)
    PROVE  RenderPlanPrompt(template, files, context) =
               Replaced(Replaced(Replaced(Replaced(template,
                   "grouping_instruction", <<"instruction">>),
                   "max_commits", <<"number">>),
                   "files_json", files),
                   "context", context)
<1> DEFINE s == Values(files, context)
           T == Seq(Pieces)
           S == TokenNames \X T
           V == T \cup {NoPrompt}
           Value(D, f) ==
               IF D = {} THEN template
               ELSE IF /\ f[D \ {Max(D)}] # NoPrompt
                       /\ s[Max(D)][1] \in Range(f[D \ {Max(D)}])
                    THEN Substitute(f[D \ {Max(D)}], s[Max(D)][1], s[Max(D)][2])
                    ELSE NoPrompt
           iter == CHOOSE iter : iter = [D \in SUBSET DOMAIN s |-> Value(D, iter)]
           step == [rv \in V \X S |-> Replaced(rv[1], rv[2][1], rv[2][2])]
<1>1. RenderPlanPrompt(template, files, context) = iter[DOMAIN s]
  BY Zenon DEF RenderPlanPrompt, FoldLeft, MapThenFoldSet
<1>2. /\ s \in Seq(S) /\ Len(s) = 4 /\ DOMAIN s = 1..4
      /\ s[1] = <<"grouping_instruction", <<"instruction">> >>
      /\ s[2] = <<"max_commits", <<"number">> >>
      /\ s[3] = <<"files_json", files>>
      /\ s[4] = <<"context", context>>
  <2>1. <<"instruction">> \in T /\ <<"number">> \in T
    BY SingleElement DEF Pieces
  <2> DEFINE a == <<"instruction">>
             b == <<"number">>
  <2> HIDE DEF a, b, T
  <2>2. /\ <<"grouping_instruction", a>> \in S /\ <<"max_commits", b>> \in S
        /\ <<"files_json", files>> \in S /\ <<"context", context>> \in S
    BY <2>1 DEF TokenNames, a, b, T
  <2> HIDE DEF S
  <2> QED
    BY <2>2 DEF Values, a, b
<1> HIDE DEF s, T
<1>3. \A v \in V : \A p \in S :
          /\ step[<<v, p>>] = Replaced(v, p[1], p[2])
          /\ Replaced(v, p[1], p[2]) \in V
  <2> TAKE v \in V
  <2> TAKE p \in S
  <2>1. p[1] \in TokenNames /\ p[2] \in T
    OBVIOUS
  <2>2. v # NoPrompt => Substitute(v, p[1], p[2]) \in T
    BY <2>1, SubstituteIs DEF T
  <2> QED
    BY <2>2 DEF Replaced
<1>4. step \in [V \X S -> V]
  BY <1>3
<1>5. template \in V
  BY DEF T
<1> HIDE DEF step, V, S
<1>6. PICK g : LeftFolds(s, V, template, step, g)
  BY <1>2, <1>4, <1>5, LeftFoldExists
<1>7. g = [D \in SUBSET DOMAIN s |-> Value(D, g)]
  <2>1. /\ g \in [SUBSET DOMAIN s -> V]
        /\ \A D \in SUBSET DOMAIN s :
              g[D] = IF D = {} THEN template
                     ELSE step[<<g[D \ {Max(D)}], s[Max(D)]>>]
    BY <1>6 DEF LeftFolds
  <2>2. ASSUME NEW D \in SUBSET DOMAIN s
        PROVE  g[D] = Value(D, g)
    <3>1. CASE D = {}
      BY <2>1, <3>1
    <3>2. CASE D # {}
      <4>1. Max(D) \in 1..4
        <5>1. D \in SUBSET (1..4) /\ 4 \in Nat
          BY <1>2
        <5> QED
          BY <3>2, <5>1, MaxOfInterval
      <4>2. s[Max(D)] \in S
        BY <1>2, <4>1, ElementOfSeq
      <4>3. g[D \ {Max(D)}] \in V
        BY <2>1
      <4>4. g[D] = Replaced(g[D \ {Max(D)}], s[Max(D)][1], s[Max(D)][2])
        BY <1>3, <2>1, <3>2, <4>2, <4>3
      <4> QED
        BY <3>2, <4>4 DEF Replaced
    <3> QED
      BY <3>1, <3>2
  <2> HIDE DEF Value
  <2> QED
    BY <2>1, <2>2
<1>8. iter = [D \in SUBSET DOMAIN s |-> Value(D, iter)]
  <2> HIDE DEF Value
  <2> QED
    BY <1>7
<1> HIDE DEF iter
<1>9. iter[1..0] = template
  <2>1. 1..0 = {} /\ {} \in SUBSET DOMAIN s
    OBVIOUS
  <2> QED
    BY <1>8, <2>1
<1>10. ASSUME NEW k \in 1..4
       PROVE  iter[1..k] = Replaced(iter[1..(k - 1)], s[k][1], s[k][2])
  <2>1. 1..k \in SUBSET DOMAIN s
    BY <1>2
  <2>2. Max(1..k) = k /\ (1..k) \ {k} = 1..(k - 1) /\ 1..k # {}
    BY MaxOfRange
  <2>3. iter[1..k] = Value(1..k, iter)
    <3> HIDE DEF Value
    <3> QED
      BY <1>8, <2>1
  <2> QED
    BY <2>2, <2>3 DEF Replaced
<1>11. /\ iter[1..1] = Replaced(iter[1..0], s[1][1], s[1][2])
       /\ iter[1..2] = Replaced(iter[1..1], s[2][1], s[2][2])
       /\ iter[1..3] = Replaced(iter[1..2], s[3][1], s[3][2])
       /\ iter[1..4] = Replaced(iter[1..3], s[4][1], s[4][2])
  <2>1. /\ iter[1..1] = Replaced(iter[1..(1 - 1)], s[1][1], s[1][2])
        /\ iter[1..2] = Replaced(iter[1..(2 - 1)], s[2][1], s[2][2])
        /\ iter[1..3] = Replaced(iter[1..(3 - 1)], s[3][1], s[3][2])
        /\ iter[1..4] = Replaced(iter[1..(4 - 1)], s[4][1], s[4][2])
    BY <1>10
  <2> QED
    BY <2>1
<1> QED
  BY <1>1, <1>2, <1>9, <1>11

\* The four replacements after one another, and at once.
LEMMA ReplacedAtOnce ==
    ASSUME NEW template \in Seq(Pieces), NEW files \in Seq(Pieces),
           NEW context \in Seq(Pieces), "context" \notin Range(files)
    PROVE  Substitute(Substitute(Substitute(Substitute(template,
               "grouping_instruction", <<"instruction">>),
               "max_commits", <<"number">>),
               "files_json", files),
               "context", context) = Substituted(template, files, context)
<1> DEFINE a == <<"instruction">>
           b == <<"number">>
           w1 == Swap("grouping_instruction", a)
           w2 == Swap("max_commits", b)
           w3 == Swap("files_json", files)
           w4 == Swap("context", context)
           v2 == [x \in Pieces |-> Expand(w1[x], w2)]
           v3 == [x \in Pieces |-> Expand(v2[x], w3)]
           v4 == [x \in Pieces |-> Expand(v3[x], w4)]
<1>1. /\ a \in Seq(Pieces) /\ b \in Seq(Pieces)
      /\ "instruction" \in Pieces \ TokenNames /\ "number" \in Pieces \ TokenNames
  BY SingleElement DEF Pieces, TokenNames
<1>2. /\ "grouping_instruction" \in TokenNames /\ "max_commits" \in TokenNames
      /\ "files_json" \in TokenNames /\ "context" \in TokenNames
      /\ TokenNames \subseteq Pieces
  BY DEF TokenNames, Pieces
<1>3. a = <<"instruction">> /\ b = <<"number">>
  OBVIOUS
<1> HIDE DEF a, b
<1>4. /\ Replacement(Pieces, w1)
      /\ \A x \in Pieces : w1[x] = IF x = "grouping_instruction" THEN a ELSE <<x>>
  BY <1>1, SwapIs
<1>5. /\ Replacement(Pieces, w2)
      /\ \A x \in Pieces : w2[x] = IF x = "max_commits" THEN b ELSE <<x>>
  BY <1>1, SwapIs
<1>6. /\ Replacement(Pieces, w3)
      /\ \A x \in Pieces : w3[x] = IF x = "files_json" THEN files ELSE <<x>>
  BY <1>1, SwapIs
<1>7. /\ Replacement(Pieces, w4)
      /\ \A x \in Pieces : w4[x] = IF x = "context" THEN context ELSE <<x>>
  BY <1>1, SwapIs
<1> HIDE DEF w1, w2, w3, w4
<1>8. Replacement(Pieces, v2) /\ \A x \in Pieces : v2[x] = Expand(w1[x], w2)
  <2>1. \A x \in Pieces : Expand(w1[x], w2) \in Seq(Pieces)
    BY <1>4, <1>5, ExpandType DEF Replacement
  <2> QED
    BY <2>1 DEF Replacement
<1> HIDE DEF v2
<1>9. Replacement(Pieces, v3) /\ \A x \in Pieces : v3[x] = Expand(v2[x], w3)
  <2>1. \A x \in Pieces : Expand(v2[x], w3) \in Seq(Pieces)
    BY <1>8, <1>6, ExpandType DEF Replacement
  <2> QED
    BY <2>1 DEF Replacement
<1> HIDE DEF v3
<1>10. Replacement(Pieces, v4) /\ \A x \in Pieces : v4[x] = Expand(v3[x], w4)
  <2>1. \A x \in Pieces : Expand(v3[x], w4) \in Seq(Pieces)
    BY <1>9, <1>7, ExpandType DEF Replacement
  <2> QED
    BY <2>1 DEF Replacement
<1> HIDE DEF v4
<1>11. \A x \in Pieces : /\ Expand(<<x>>, w2) = w2[x]
                         /\ Expand(<<x>>, w3) = w3[x]
                         /\ Expand(<<x>>, w4) = w4[x]
  BY <1>5, <1>6, <1>7, ExpandSingle
<1>12. Expand(files, w4) = files
  <2>1. \A x \in Range(files) : w4[x] = <<x>>
    BY <1>7, RangeOfSeq
  <2> QED
    BY <1>7, <2>1, ExpandSame
<1>13. ASSUME NEW x \in Pieces
       PROVE  v4[x] = CASE x = "grouping_instruction" -> <<"instruction">>
                        [] x = "max_commits" -> <<"number">>
                        [] x = "files_json" -> files
                        [] x = "context" -> context
                        [] OTHER -> <<x>>
  <2>1. v2[x] = IF x = "grouping_instruction" THEN a
                ELSE IF x = "max_commits" THEN b ELSE <<x>>
    BY <1>1, <1>2, <1>3, <1>4, <1>5, <1>8, <1>11
  <2>2. v3[x] = IF x = "grouping_instruction" THEN a
                ELSE IF x = "max_commits" THEN b
                ELSE IF x = "files_json" THEN files ELSE <<x>>
    BY <1>1, <1>2, <1>3, <1>6, <1>9, <1>11, <2>1
  <2>3. v4[x] = IF x = "grouping_instruction" THEN a
                ELSE IF x = "max_commits" THEN b
                ELSE IF x = "files_json" THEN files
                ELSE IF x = "context" THEN context ELSE <<x>>
    BY <1>1, <1>2, <1>3, <1>7, <1>10, <1>11, <1>12, <2>2
  <2> QED
    BY <1>3, <2>3
<1>14. Expand(template, v4) = Substituted(template, files, context)
  <2>1. \A i \in DOMAIN template : template[i] \in Pieces
    BY LenProperties, ElementOfSeq
  <2> DEFINE value(x) == CASE x = "grouping_instruction" -> <<"instruction">>
                           [] x = "max_commits" -> <<"number">>
                           [] x = "files_json" -> files
                           [] x = "context" -> context
                           [] OTHER -> <<x>>
  <2>2. \A i \in DOMAIN template : v4[template[i]] = value(template[i])
    BY <1>13, <2>1
  <2> HIDE DEF value
  <2>3. [i \in DOMAIN template |-> v4[template[i]]]
          = [i \in DOMAIN template |-> value(template[i])]
    BY <2>2
  <2>4. Expand(template, v4) = FlattenSeq([i \in DOMAIN template |-> value(template[i])])
    BY <2>3 DEF Expand
  <2> QED
    BY <2>4 DEF Substituted, value
<1>15. /\ Expand(Expand(template, w1), w2) = Expand(template, v2)
       /\ Expand(Expand(template, v2), w3) = Expand(template, v3)
       /\ Expand(Expand(template, v3), w4) = Expand(template, v4)
  BY <1>4, <1>5, <1>6, <1>7, <1>8, <1>9, ExpandTwice DEF v2, v3, v4
<1>16. /\ Expand(template, w1) \in Seq(Pieces)
       /\ Expand(template, v2) \in Seq(Pieces)
       /\ Expand(template, v3) \in Seq(Pieces)
  BY <1>4, <1>8, <1>9, ExpandType
<1>17. Substitute(template, "grouping_instruction", a) = Expand(template, w1)
  BY <1>1, <1>2, SubstituteIs DEF w1
<1>18. Substitute(Expand(template, w1), "max_commits", b) = Expand(template, v2)
  <2> DEFINE t == Expand(template, w1)
  <2>1. t \in Seq(Pieces)
    BY <1>16
  <2> HIDE DEF t
  <2>2. Substitute(t, "max_commits", b) = Expand(t, w2)
    BY <1>1, <1>2, <2>1, SubstituteIs DEF w2
  <2> QED
    BY <1>15, <2>2 DEF t
<1>19. Substitute(Expand(template, v2), "files_json", files) = Expand(template, v3)
  <2> DEFINE t == Expand(template, v2)
  <2>1. t \in Seq(Pieces)
    BY <1>16
  <2> HIDE DEF t
  <2>2. Substitute(t, "files_json", files) = Expand(t, w3)
    BY <1>2, <2>1, SubstituteIs DEF w3
  <2> QED
    BY <1>15, <2>2 DEF t
<1>20. Substitute(Expand(template, v3), "context", context) = Expand(template, v4)
  <2> DEFINE t == Expand(template, v3)
  <2>1. t \in Seq(Pieces)
    BY <1>16
  <2> HIDE DEF t
  <2>2. Substitute(t, "context", context) = Expand(t, w4)
    BY <1>2, <2>1, SubstituteIs DEF w4
  <2> QED
    BY <1>15, <2>2 DEF t
<1> QED
  BY <1>3, <1>14, <1>17, <1>18, <1>19, <1>20

\* Whatever the template and the evidence hold, a prompt has the evidence word
\* for word: what it quotes of the template's own tokens is not replaced.
LEMMA EvidenceAlwaysVerbatim ==
    ASSUME NEW template \in Seq(Pieces), NEW files \in Seq(Pieces),
           NEW context \in Seq(Pieces)
    PROVE  RendersInOneGo(template, files, context)
<1> SUFFICES ASSUME "context" \notin Range(files)
             PROVE  RenderPlanPrompt(template, files, context) =
                        IF TokenNames \subseteq Range(template)
                        THEN Substituted(template, files, context)
                        ELSE NoPrompt
  BY DEF RendersInOneGo
<1> DEFINE a == <<"instruction">>
           b == <<"number">>
           r1 == Substitute(template, "grouping_instruction", a)
           r2 == Substitute(r1, "max_commits", b)
           r3 == Substitute(r2, "files_json", files)
           r4 == Substitute(r3, "context", context)
<1>1. /\ a \in Seq(Pieces) /\ b \in Seq(Pieces)
      /\ Range(a) \cap TokenNames = {} /\ Range(b) \cap TokenNames = {}
  <2>1. a \in Seq(Pieces) /\ b \in Seq(Pieces)
    BY SingleElement DEF Pieces
  <2>2. Range(a) = {"instruction"} /\ Range(b) = {"number"}
    <3>1. DOMAIN a = {1} /\ a[1] = "instruction" /\ DOMAIN b = {1} /\ b[1] = "number"
      OBVIOUS
    <3> HIDE DEF a, b
    <3> QED
      BY <3>1 DEF Range
  <2> QED
    BY <2>1, <2>2 DEF TokenNames
<1>2. TokenNames = {"grouping_instruction", "max_commits", "files_json", "context"}
      /\ TokenNames \subseteq Pieces
  BY DEF TokenNames, Pieces
<1> HIDE DEF a, b
<1>3. /\ r1 \in Seq(Pieces)
      /\ \A m \in {"max_commits", "files_json", "context"} :
            m \in Range(r1) <=> m \in Range(template)
  <2>1. r1 \in Seq(Pieces) /\ \A m \in Pieces :
            m # "grouping_instruction" /\ m \notin Range(a) =>
                (m \in Range(r1) <=> m \in Range(template))
    BY <1>1, <1>2, SubstituteIs
  <2> HIDE DEF r1
  <2> QED
    BY <1>1, <1>2, <2>1
<1> HIDE DEF r1
<1>4. /\ r2 \in Seq(Pieces)
      /\ \A m \in {"files_json", "context"} :
            m \in Range(r2) <=> m \in Range(r1)
  <2>1. r2 \in Seq(Pieces) /\ \A m \in Pieces :
            m # "max_commits" /\ m \notin Range(b) =>
                (m \in Range(r2) <=> m \in Range(r1))
    BY <1>1, <1>2, <1>3, SubstituteIs
  <2> HIDE DEF r2
  <2> QED
    BY <1>1, <1>2, <2>1
<1> HIDE DEF r2
<1>5. r3 \in Seq(Pieces) /\ ("context" \in Range(r3) <=> "context" \in Range(r2))
  BY <1>2, <1>4, SubstituteIs
<1> HIDE DEF r3
<1>6. template # NoPrompt /\ r1 # NoPrompt /\ r2 # NoPrompt /\ r3 # NoPrompt
  BY <1>3, <1>4, <1>5, PromptAssumption
<1>7. RenderPlanPrompt(template, files, context) =
          Replaced(Replaced(Replaced(Replaced(template,
              "grouping_instruction", a), "max_commits", b),
              "files_json", files), "context", context)
  BY RenderIs DEF a, b
<1>8. r4 = Substituted(template, files, context)
  BY ReplacedAtOnce DEF r1, r2, r3, a, b
<1> HIDE DEF r4
<1>9. /\ Replaced(template, "grouping_instruction", a)
           = IF "grouping_instruction" \in Range(template) THEN r1 ELSE NoPrompt
      /\ Replaced(r1, "max_commits", b)
           = IF "max_commits" \in Range(r1) THEN r2 ELSE NoPrompt
      /\ Replaced(r2, "files_json", files)
           = IF "files_json" \in Range(r2) THEN r3 ELSE NoPrompt
      /\ Replaced(r3, "context", context)
           = IF "context" \in Range(r3) THEN r4 ELSE NoPrompt
      /\ \A name, value : Replaced(NoPrompt, name, value) = NoPrompt
  BY <1>6 DEF Replaced, r1, r2, r3, r4
<1>10. CASE TokenNames \subseteq Range(template)
  BY <1>2, <1>3, <1>4, <1>5, <1>7, <1>8, <1>9, <1>10
<1>11. CASE ~ TokenNames \subseteq Range(template)
  <2>1. \/ "grouping_instruction" \notin Range(template)
        \/ "max_commits" \notin Range(r1)
        \/ "files_json" \notin Range(r2)
        \/ "context" \notin Range(r3)
    BY <1>2, <1>3, <1>4, <1>5, <1>11
  <2> QED
    BY <1>7, <1>9, <1>11, <2>1
<1> QED
  BY <1>10, <1>11

\* No state of the run holds a template whose evidence is changed.
THEOREM PromptsQuoteEvidence == Spec => []EvidenceIsVerbatim
<1>1. Given => EvidenceIsVerbatim
  BY EvidenceAlwaysVerbatim DEF Given, EvidenceIsVerbatim
<1> QED
  BY <1>1, AlwaysGiven, PTL
-----------------------------------------------------------------------------
(* Messages. *)

\* The size of a message is what its lines hold and the ends of its lines.
LEMMA BytesIs ==
    ASSUME NEW message \in Seq(Lines), message # << >>
    PROVE  /\ FlattenSeq(message) \in Lines
           /\ Bytes(message) = Len(message) - 1 + Len(FlattenSeq(message))
<1> DEFINE n == Len(message)
           base == n - 1
           Value(D, f) == IF D = {} THEN base
                          ELSE f[D \ {Max(D)}] + Len(message[Max(D)])
           iter == CHOOSE iter : iter = [D \in SUBSET DOMAIN message |-> Value(D, iter)]
           step == [tl \in Nat \X Lines |-> tl[1] + Len(tl[2])]
<1>1. Bytes(message) = iter[DOMAIN message]
  BY Zenon DEF Bytes, FoldLeft, MapThenFoldSet
<1>2. n \in Nat /\ DOMAIN message = 1..n /\ base \in Nat
      /\ \A k \in 1..n : message[k] \in Lines /\ Len(message[k]) \in Nat
  <2>1. n \in Nat /\ DOMAIN message = 1..n /\ \A k \in 1..n : message[k] \in Lines
    BY LenProperties, ElementOfSeq
  <2>2. n # 0
    BY EmptySeq
  <2>3. \A line \in Lines : Len(line) \in Nat
    BY LenProperties DEF Lines
  <2> QED
    BY <2>1, <2>2, <2>3
<1>3. step \in [Nat \X Lines -> Nat]
      /\ \A t \in Nat, line \in Lines : step[<<t, line>>] = t + Len(line)
  <2>1. \A line \in Lines : Len(line) \in Nat
    BY LenProperties DEF Lines
  <2> QED
    BY <2>1
<1> HIDE DEF step, base
<1>4. PICK g : LeftFolds(message, Nat, base, step, g)
  BY <1>2, <1>3, LeftFoldExists
<1>5. g = [D \in SUBSET DOMAIN message |-> Value(D, g)]
  <2>1. /\ g \in [SUBSET DOMAIN message -> Nat]
        /\ \A D \in SUBSET DOMAIN message :
              g[D] = IF D = {} THEN base
                     ELSE step[<<g[D \ {Max(D)}], message[Max(D)]>>]
    BY <1>4 DEF LeftFolds
  <2>2. ASSUME NEW D \in SUBSET DOMAIN message
        PROVE  g[D] = Value(D, g)
    <3>1. CASE D = {}
      BY <2>1, <3>1
    <3>2. CASE D # {}
      <4>1. Max(D) \in 1..n
        <5>1. D \in SUBSET (1..n)
          BY <1>2
        <5> QED
          BY <1>2, <3>2, <5>1, MaxOfInterval
      <4>2. message[Max(D)] \in Lines /\ g[D \ {Max(D)}] \in Nat
        BY <1>2, <2>1, <4>1
      <4> QED
        BY <1>3, <2>1, <3>2, <4>2
    <3> QED
      BY <3>1, <3>2
  <2> HIDE DEF Value
  <2> QED
    BY <2>1, <2>2
<1>6. iter = [D \in SUBSET DOMAIN message |-> Value(D, iter)]
  <2> HIDE DEF Value
  <2> QED
    BY <1>5
<1> HIDE DEF iter
<1>7. iter[1..0] = base
  <2>1. 1..0 = {} /\ {} \in SUBSET DOMAIN message
    OBVIOUS
  <2> QED
    BY <1>6, <2>1
<1>8. ASSUME NEW k \in 1..n
      PROVE  iter[1..k] = iter[1..(k - 1)] + Len(message[k])
  <2>1. 1..k \in SUBSET DOMAIN message
    BY <1>2
  <2>2. Max(1..k) = k /\ (1..k) \ {k} = 1..(k - 1) /\ 1..k # {}
    BY <1>2, MaxOfRange
  <2>3. iter[1..k] = Value(1..k, iter)
    <3> HIDE DEF Value
    <3> QED
      BY <1>6, <2>1
  <2> QED
    BY <2>2, <2>3
<1>9. PICK h : Flattens(message, Characters, h) /\ FlattenSeq(message) = h[n]
  BY FlattenIs DEF Lines
<1>10. /\ h \in [0..n -> Seq(Characters)] /\ h[0] = << >>
       /\ \A k \in 1..n : h[k] = h[k - 1] \o message[k]
  BY <1>9 DEF Flattens
<1> HIDE DEF n
<1>11. ASSUME NEW k \in 1..n
       PROVE  Len(h[k]) = Len(h[k - 1]) + Len(message[k])
  <2>1. k - 1 \in 0..n
    BY <1>2
  <2>2. h[k - 1] \in Seq(Characters) /\ message[k] \in Seq(Characters)
    BY <1>2, <1>10, <2>1 DEF Lines
  <2>3. Len(h[k - 1] \o message[k]) = Len(h[k - 1]) + Len(message[k])
    BY <2>2, ConcatProperties
  <2> QED
    BY <1>10, <2>3
<1> DEFINE Good == {k \in Nat : k <= n => iter[1..k] = base + Len(h[k])}
<1>12. 0 \in Good
  <2>1. Len(h[0]) = 0
    BY <1>10, EmptySeq
  <2> QED
    BY <1>2, <1>7, <2>1
<1>13. ASSUME NEW k \in Good
       PROVE  k + 1 \in Good
  <2> SUFFICES ASSUME k + 1 <= n PROVE iter[1..(k + 1)] = base + Len(h[k + 1])
    OBVIOUS
  <2>1. PICK i \in 1..n : i = k + 1 /\ i - 1 = k
    BY <1>2
  <2>2. iter[1..i] = iter[1..k] + Len(message[i]) /\ Len(h[i]) = Len(h[k]) + Len(message[i])
    BY <1>8, <1>11, <2>1
  <2>3. iter[1..k] = base + Len(h[k])
    BY <1>2, <2>1
  <2>4. Len(h[k]) \in Nat /\ Len(message[i]) \in Nat
    <3>1. k \in 0..n
      BY <1>2, <2>1
    <3>2. h[k] \in Seq(Characters)
      BY <1>10, <3>1
    <3> QED
      BY <1>2, <3>2, LenProperties
  <2> HIDE DEF Good
  <2>5. iter[1..i] = base + Len(h[i])
    BY <1>2, <2>2, <2>3, <2>4
  <2> QED
    BY <2>1, <2>5
<1>14. Good = Nat
  <2>1. Good \in SUBSET Nat
    OBVIOUS
  <2> HIDE DEF Good
  <2> QED
    BY <1>12, <1>13, <2>1, EveryNumber
<1>15. iter[1..n] = base + Len(h[n])
  BY <1>2, <1>14
<1>16. h[n] \in Lines
  <2>1. n \in 0..n
    BY <1>2
  <2> QED
    BY <1>10, <2>1 DEF Lines
<1> QED
  BY <1>1, <1>2, <1>9, <1>15, <1>16 DEF base, n

\* What a place of a line holds, apart from the numbers of the places.
IsText(line, i) == line[i] # " "
IsSeparator(line, i) == line[i] \in {":", "="}
IsOfToken(line, i) == line[i] \in {"type", "x", "-", " "}

\* A line without its indentation begins at its first text.
LEMMA UnindentedFrom ==
    ASSUME NEW line \in Lines, NEW k \in DOMAIN line, IsText(line, k)
    PROVE  \E m \in 1..k : Unindented(line) = SubSeq(line, m, Len(line))
<1> DEFINE n == Len(line)
           text == {i \in DOMAIN line : line[i] # " "}
<1>1. n \in Nat /\ DOMAIN line = 1..n
  BY LenProperties DEF Lines
<1>2. Unindented(line) = IF text = {} THEN << >> ELSE SubSeq(line, Min(text), Len(line))
  BY DEF Unindented
<1>3. k \in text /\ \A i \in text : i \in DOMAIN line
  BY DEF IsText
<1> HIDE DEF n, text
<1>4. \A i \in text : i \in Nat /\ 1 <= i
  BY <1>1, <1>3
<1>5. text \in SUBSET Nat /\ text # {}
  BY <1>3, <1>4
<1>6. Min(text) \in text /\ \A i \in text : Min(text) <= i
  BY <1>5, MinIs
<1> DEFINE m == Min(text)
<1>7. m \in text /\ m <= k
  BY <1>3, <1>6
<1> HIDE DEF m
<1>8. m \in 1..k
  BY <1>3, <1>4, <1>7
<1> QED
  BY <1>2, <1>5, <1>8 DEF m

\* The numbers of the places of a line from m on, when they begin at 1.
LEMMA ShiftedPlaces ==
    ASSUME NEW n \in Nat, NEW at \in Nat, NEW m \in Nat,
           1 <= m, m < at, at <= n,
           NEW size, size = n - m + 1, NEW sep, sep = at - m + 1
    PROVE  /\ size \in Nat /\ sep \in Nat /\ sep > 1 /\ sep <= size
           /\ m + sep - 1 = at
           /\ m <= n /\ m \in Int /\ n \in Int
           /\ \A i \in m..n : i \in 1..n
           /\ \A i \in 1..(sep - 1) : i \in 1..size /\ m + i - 1 \in m..(at - 1)
           /\ \A k \in (at + 1)..n : \E i \in (sep + 1)..size :
                 i \in 1..size /\ m + i - 1 = k
<1>1. /\ size \in Nat /\ sep \in Nat /\ sep > 1 /\ sep <= size
      /\ m + sep - 1 = at
      /\ m <= n /\ m \in Int /\ n \in Int
  OBVIOUS
<1>2. \A i \in m..n : i \in 1..n
  OBVIOUS
<1>3. \A i \in 1..(sep - 1) : i \in 1..size /\ m + i - 1 \in m..(at - 1)
  OBVIOUS
<1>4. ASSUME NEW k \in (at + 1)..n
      PROVE  \E i \in (sep + 1)..size : i \in 1..size /\ m + i - 1 = k
  <2>1. k - m + 1 \in (sep + 1)..size /\ k - m + 1 \in 1..size /\ m + (k - m + 1) - 1 = k
    OBVIOUS
  <2> QED
    BY <2>1
<1> QED
  BY <1>1, <1>2, <1>3, <1>4

\* What the policy looks at, for a line whose text begins at m and whose first
\* separator is at `at`.
LEMMA SeparatorShifts ==
    ASSUME NEW line \in Lines, NEW n \in Nat, n = Len(line),
           NEW at \in Nat, NEW m \in Nat, 1 <= m, m < at, at <= n,
           IsSeparator(line, at),
           \A i \in m..(at - 1) : IsOfToken(line, i),
           \E i \in (at + 1)..n : IsText(line, i),
           Unindented(line) = SubSeq(line, m, n)
    PROVE  TrailerLike(line)
<1> DEFINE content == SubSeq(line, m, n)
           size == n - m + 1
           sep == at - m + 1
<1>0. Unindented(line) = content
  OBVIOUS
<1>1. /\ size \in Nat /\ sep \in Nat /\ sep > 1 /\ sep <= size
      /\ m + sep - 1 = at
      /\ m <= n /\ m \in Int /\ n \in Int
      /\ \A i \in m..n : i \in 1..n
      /\ \A i \in 1..(sep - 1) : i \in 1..size /\ m + i - 1 \in m..(at - 1)
      /\ \A k \in (at + 1)..n : \E i \in (sep + 1)..size :
            i \in 1..size /\ m + i - 1 = k
  <2> HIDE DEF size, sep
  <2>1. size = n - m + 1 /\ sep = at - m + 1
    BY DEF size, sep
  <2> QED
    BY <2>1, ShiftedPlaces
<1>2. /\ content \in Seq(Characters) /\ Len(content) = size
      /\ \A i \in 1..size : content[i] = line[m + i - 1]
  <2>1. \A i \in m..n : line[i] \in Characters
    BY <1>1, ElementOfSeq DEF Lines
  <2>2. /\ content \in Seq(Characters)
        /\ Len(content) = IF m <= n THEN n - m + 1 ELSE 0
        /\ \A i \in 1..(n - m + 1) : content[i] = line[m + i - 1]
    BY <1>1, <2>1, SubSeqProperties
  <2> QED
    BY <1>1, <2>2
<1> HIDE DEF content, size, sep
<1>3. DOMAIN content = 1..size
  BY <1>2, LenProperties
<1>4. \A i \in 1..(sep - 1) : IsOfToken(content, i)
  BY <1>1, <1>2 DEF IsOfToken
<1>5. \E i \in (sep + 1)..size : IsText(content, i)
  <2>1. PICK k \in (at + 1)..n : IsText(line, k)
    OBVIOUS
  <2>2. PICK i \in (sep + 1)..size : i \in 1..size /\ m + i - 1 = k
    BY <1>1
  <2>3. content[i] = line[k]
    BY <1>2, <2>2
  <2>4. IsText(content, i)
    BY <2>1, <2>3 DEF IsText
  <2> QED
    BY <2>4
<1>6. sep \in 1..size /\ IsSeparator(content, sep)
  <2>1. sep \in 1..size
    BY <1>1
  <2>2. content[sep] = line[at]
    BY <1>1, <1>2, <2>1
  <2> QED
    BY <2>1, <2>2 DEF IsSeparator
<1> DEFINE separators == {i \in DOMAIN content : content[i] \in {":", "="}}
<1>7. /\ sep \in separators
      /\ \A i \in separators : i \in 1..size /\ IsSeparator(content, i)
  BY <1>3, <1>6 DEF IsSeparator
<1>8. \A i : IsOfToken(content, i) => ~ IsSeparator(content, i)
  BY DEF IsOfToken, IsSeparator
<1> HIDE DEF separators
<1>9. \A i \in separators : i \in Nat /\ sep <= i
  <2>1. ASSUME NEW i \in separators PROVE i \in Nat /\ sep <= i
    <3>1. i \in 1..size /\ i \notin 1..(sep - 1)
      BY <1>4, <1>7, <1>8
    <3> QED
      BY <1>1, <3>1
  <2> QED
    BY <2>1
<1>10. Min(separators) = sep
  <2>1. separators \in SUBSET Nat /\ separators # {}
    BY <1>7, <1>9
  <2>2. Min(separators) \in separators /\ \A i \in separators : Min(separators) <= i
    BY <2>1, MinIs
  <2> DEFINE first == Min(separators)
  <2>3. first \in Nat /\ sep <= first /\ first <= sep
    BY <1>7, <1>9, <2>2
  <2> HIDE DEF first
  <2>4. first = sep
    BY <1>1, <2>3
  <2> QED
    BY <2>4 DEF first
<1>11. Range(SubSeq(content, 1, sep - 1)) \subseteq TokenCharacters
  <2>1. \A i \in 1..(sep - 1) : content[i] \in TokenCharacters
    BY <1>4 DEF TokenCharacters, IsOfToken
  <2>2. sep - 1 \in Int /\ 1 \in Int
    BY <1>1
  <2>3. SubSeq(content, 1, sep - 1) \in Seq(TokenCharacters)
    BY <2>1, <2>2, SubSeqProperties
  <2>4. Range(SubSeq(content, 1, sep - 1)) \in SUBSET TokenCharacters
    BY <2>3, RangeOfSeq
  <2> QED
    BY <2>4
<1>12. /\ separators # {}
       /\ LET first == Min(separators) IN
             /\ first > 1
             /\ Range(SubSeq(content, 1, first - 1)) \subseteq TokenCharacters
             /\ \E i \in (first + 1)..Len(content) : IsText(content, i)
  BY <1>1, <1>2, <1>5, <1>7, <1>10, <1>11
<1> QED
  BY <1>0, <1>12, Zenon DEF TrailerLike, separators, IsText

\* What Git takes for a trailer, the policy does: without its indentation the
\* line begins with the token, which no separator is in.
LEMMA TrailersAreTrailerLike ==
    ASSUME NEW line \in Lines, IsGitTrailer(line)
    PROVE  TrailerLike(line)
<1> DEFINE n == Len(line)
<1>1. n \in Nat /\ DOMAIN line = 1..n
  BY LenProperties DEF Lines
<1>2. PICK at \in DOMAIN line :
          /\ IsSeparator(line, at)
          /\ \A i \in 1..(at - 1) : IsOfToken(line, i)
          /\ \E i \in 1..(at - 1) : IsText(line, i)
          /\ \E i \in (at + 1)..n : IsText(line, i)
  <2>1. PICK at \in DOMAIN line :
            /\ line[at] \in {":", "="}
            /\ LET token == {i \in 1..(at - 1) : line[i] # " "} IN
                  /\ token # {}
                  /\ token = Min(token)..Max(token)
                  /\ \A i \in token : line[i] \in {"type", "x", "-"}
            /\ \E i \in (at + 1)..Len(line) : line[i] # " "
    BY Zenon DEF IsGitTrailer
  <2>2. \A i \in 1..(at - 1) : IsOfToken(line, i)
    <3>1. \A i \in {i \in 1..(at - 1) : line[i] # " "} : line[i] \in {"type", "x", "-"}
      BY <2>1, Zenon
    <3> QED
      BY <3>1, Zenon DEF IsOfToken
  <2>3. {i \in 1..(at - 1) : line[i] # " "} # {}
    BY <2>1, Zenon
  <2>4. \E i \in 1..(at - 1) : IsText(line, i)
    BY <2>3, Zenon DEF IsText
  <2> QED
    BY <2>1, <2>2, <2>4, Zenon DEF IsText, IsSeparator
<1> HIDE DEF n
<1>3. PICK k \in 1..(at - 1) : IsText(line, k)
  BY <1>2
<1>4. at \in 1..n
  BY <1>1, <1>2
<1>5. /\ at \in Nat /\ at <= n /\ k \in Nat /\ k \in 1..n
      /\ \A m \in 1..k : /\ m \in Nat /\ 1 <= m /\ m < at
                         /\ \A i \in m..(at - 1) : i \in 1..(at - 1)
  BY <1>1, <1>4
<1>6. PICK m \in 1..k : Unindented(line) = SubSeq(line, m, Len(line))
  BY <1>1, <1>3, <1>5, UnindentedFrom
<1>7. \A i \in m..(at - 1) : IsOfToken(line, i)
  BY <1>2, <1>5
<1>8. n = Len(line) /\ Unindented(line) = SubSeq(line, m, n)
  BY <1>6 DEF n
<1> QED
  BY <1>1, <1>2, <1>5, <1>7, <1>8, SeparatorShifts

\* A message of one line is that line.
LEMMA FlattenSingle ==
    ASSUME NEW S, NEW x \in Seq(S)
    PROVE  FlattenSeq(<<x>>) = x
<1> DEFINE e == << >>
           Q == Seq(S)
<1>1. e \in Seq(Q) /\ Append(e, x) = <<x>> /\ x \in Q
  BY EmptySeq
<1>2. FlattenSeq(e) = << >>
  BY FlattenEmpty
<1>3. FlattenSeq(Append(e, x)) = FlattenSeq(e) \o x
  <2> HIDE DEF e
  <2> QED
    BY <1>1, FlattenAppend DEF Q
<1>4. << >> \o x = x
  BY ConcatEmptySeq
<1> QED
  BY <1>1, <1>2, <1>3, <1>4

\* No message that is accepted holds a trailer, and the accepted fit.
LEMMA NoTrailerEverPasses ==
    ASSUME NEW message \in Seq(Lines)
    PROVE  NoTrailerPasses(message)
<1> SUFFICES ASSUME ValidMessage(message)
             PROVE  /\ \A k \in 2..Len(message) : ~ IsGitTrailer(message[k])
                    /\ Len(message) > 1 => message[2] = << >> /\ message[3] # << >>
                    /\ Len(FlattenSeq(message)) < MaxMessageBytes
                    /\ "bad" \notin UNION {Range(message[k]) : k \in DOMAIN message}
  BY DEF NoTrailerPasses
<1> DEFINE n == Len(message)
           body == Tail(message)
<1>1. n \in Nat \ {0} /\ DOMAIN message = 1..n /\ message # << >>
  <2>1. message # << >>
    BY DEF ValidMessage
  <2>2. n \in Nat /\ DOMAIN message = 1..n
    BY LenProperties
  <2>3. n # 0
    BY <2>1, <2>2, EmptySeq
  <2> QED
    BY <2>1, <2>2, <2>3
<1>2. \A k \in 1..n : message[k] \in Lines
  BY <1>1, ElementOfSeq
<1>3. Len(body) = n - 1 /\ \A k \in 1..(n - 1) : body[k] = message[k + 1]
  <2>1. /\ body \in Seq(Lines) /\ Len(body) = Len(message) - 1
        /\ \A i \in 1..Len(body) : body[i] = message[i + 1]
    BY <1>1, HeadTailProperties
  <2> QED
    BY <2>1
<1>4. \/ body = << >>
      \/ /\ body[1] = << >> /\ Len(body) > 1 /\ body[2] # << >>
         /\ \A k \in 2..Len(body) : ~ TrailerLike(body[k])
  BY DEF ValidMessage, ValidBody
<1>5. n > 1 => /\ message[2] = << >> /\ message[3] # << >>
               /\ \A k \in 3..n : ~ TrailerLike(message[k])
  <2> SUFFICES ASSUME n > 1
               PROVE  /\ message[2] = << >> /\ message[3] # << >>
                      /\ \A k \in 3..n : ~ TrailerLike(message[k])
    OBVIOUS
  <2> HIDE DEF body, n
  <2>1. body # << >>
    <3>1. Len(<< >>) = 0
      BY EmptySeq
    <3> QED
      BY <1>1, <1>3, <3>1
  <2>2. /\ body[1] = << >> /\ n - 1 > 1 /\ body[2] # << >>
        /\ \A k \in 2..(n - 1) : ~ TrailerLike(body[k])
    BY <1>3, <1>4, <2>1
  <2>3. message[2] = << >> /\ message[3] # << >>
    BY <1>1, <1>3, <2>2
  <2>4. ASSUME NEW k \in 3..n PROVE ~ TrailerLike(message[k])
    <3>1. PICK i \in 2..(n - 1) : i + 1 = k
      <4>1. k - 1 \in 2..(n - 1) /\ k - 1 + 1 = k
        BY <1>1
      <4> QED
        BY <4>1
    <3>2. body[i] = message[k]
      BY <1>1, <1>3, <3>1
    <3> QED
      BY <2>2, <3>2
  <2> QED
    BY <2>3, <2>4
<1>6. ~ IsGitTrailer(<< >>)
  <2>1. DOMAIN << >> = {}
    BY EmptySeq
  <2> QED
    BY <2>1 DEF IsGitTrailer
<1>7. ASSUME NEW k \in 2..n PROVE ~ IsGitTrailer(message[k])
  <2>1. n > 1 /\ k \in 1..n
    BY <1>1
  <2>2. CASE k = 2
    BY <1>5, <1>6, <2>1, <2>2
  <2>3. CASE k # 2
    <3>1. k \in 3..n
      BY <1>1, <2>3
    <3>2. ~ TrailerLike(message[k])
      BY <1>5, <2>1, <3>1
    <3> QED
      BY <1>2, <2>1, <3>2, TrailersAreTrailerLike
  <2> QED
    BY <2>2, <2>3
<1>8. Len(FlattenSeq(message)) < MaxMessageBytes
  <2>1. Len(FlattenSeq(message)) \in Nat /\ Bytes(message) = n - 1 + Len(FlattenSeq(message))
    BY <1>1, BytesIs, LenProperties DEF Lines
  <2>2. Bytes(message) <= MaxMessageBytes /\ Len(message[1]) <= MaxSubjectChars
    BY DEF ValidMessage
  <2>3. CASE n > 1
    BY <1>1, <2>1, <2>2, <2>3, MessageAssumption
  <2>4. CASE n = 1
    <3>1. message = <<message[1]>>
      <4> DEFINE m == <<message[1]>>
      <4>1. m \in Seq(Lines) /\ Len(m) = 1 /\ m[1] = message[1]
        BY <1>1, <1>2
      <4> HIDE DEF m
      <4>2. \A k \in 1..Len(message) : message[k] = m[k]
        BY <2>4, <4>1
      <4>3. message = m
        BY <2>4, <4>1, <4>2, SeqEqual
      <4> QED
        BY <4>3 DEF m
    <3>2. message[1] \in Seq(Characters)
      BY <1>1, <1>2 DEF Lines
    <3>3. FlattenSeq(message) = message[1]
      BY <3>1, <3>2, FlattenSingle
    <3> QED
      BY <2>1, <2>2, <3>3, MessageAssumption
  <2> QED
    BY <1>1, <2>3, <2>4
<1>9. \A k \in DOMAIN message : "bad" \notin Range(message[k])
  BY DEF ValidMessage
<1> QED
  BY <1>5, <1>7, <1>8, <1>9

\* No state of the run holds a message that is accepted with a trailer.
THEOREM AcceptedMessagesHoldNoTrailer == Spec => []MessagesHoldNoTrailer
<1>1. Given => MessagesHoldNoTrailer
  BY NoTrailerEverPasses DEF Given, MessagesHoldNoTrailer
<1> QED
  BY <1>1, AlwaysGiven, PTL
-----------------------------------------------------------------------------
(* Subjects. *)

\* Part of a sequence, element by element.
LEMMA PartIs ==
    ASSUME NEW S, NEW s \in Seq(S), NEW i \in Nat \ {0}, NEW j \in Nat, j <= Len(s)
    PROVE  /\ SubSeq(s, i, j) \in Seq(S)
           /\ Len(SubSeq(s, i, j)) = IF i <= j THEN j - i + 1 ELSE 0
           /\ \A k \in 1..(j - i + 1) : SubSeq(s, i, j)[k] = s[i + k - 1]
<1>1. Len(s) \in Nat /\ \A k \in 1..Len(s) : s[k] \in S
  BY LenProperties, ElementOfSeq
<1>2. \A k \in i..j : s[k] \in S
  <2>1. \A k \in i..j : k \in 1..Len(s)
    BY <1>1
  <2> QED
    BY <1>1, <2>1
<1> QED
  BY <1>2, SubSeqProperties

\* Where one character is.
LEMMA PlacesOfOne ==
    ASSUME NEW S, NEW s \in Seq(S), NEW a \in S
    PROVE  Places(s, <<a>>) = {i \in 1..Len(s) : s[i] = a}
<1> DEFINE m == <<a>>
           n == Len(s)
<1>1. Len(m) = 1 /\ m[1] = a /\ m \in Seq(S) /\ n \in Nat
  BY LenProperties
<1> HIDE DEF m
<1>2. Places(s, m) = {i \in 1..(n - 1 + 1) : SubSeq(s, i, i + 1 - 1) = m}
  BY <1>1 DEF Places
<1>3. n - 1 + 1 = n /\ \A i \in 1..n : i + 1 - 1 = i
  BY <1>1
<1>4. ASSUME NEW i \in 1..n
      PROVE  SubSeq(s, i, i) = m <=> s[i] = a
  <2> DEFINE t == SubSeq(s, i, i)
  <2>1. i \in Nat \ {0} /\ i <= Len(s) /\ i - i + 1 = 1
    BY <1>1
  <2>2. /\ t \in Seq(S) /\ Len(t) = IF i <= i THEN i - i + 1 ELSE 0
        /\ \A k \in 1..(i - i + 1) : t[k] = s[i + k - 1]
    BY <2>1, PartIs
  <2>3. Len(t) = 1 /\ t[1] = s[i]
    <3>1. \A k \in 1..1 : t[k] = s[i + k - 1]
      BY <2>1, <2>2
    <3>2. t[1] = s[i + 1 - 1] /\ i + 1 - 1 = i
      BY <2>1, <3>1
    <3> HIDE DEF t
    <3> QED
      BY <2>1, <2>2, <3>2
  <2> HIDE DEF t
  <2>4. t[1] = m[1] => t = m
    <3>1. t[1] = m[1] => \A k \in 1..Len(t) : t[k] = m[k]
      BY <2>3
    <3> QED
      BY <1>1, <2>2, <2>3, <3>1, SeqEqual
  <2> QED
    BY <1>1, <2>3, <2>4 DEF t
<1>5. \A i \in 1..n : SubSeq(s, i, i + 1 - 1) = m <=> s[i] = a
  BY <1>3, <1>4
<1> HIDE DEF n
<1>6. Places(s, m) = {i \in 1..n : s[i] = a}
  BY <1>2, <1>3, <1>5
<1> QED
  BY <1>6 DEF m, n

\* Where one character is directly before another.
PairsIn(s, a, b) == {i \in 1..(Len(s) - 1) : s[i] = a /\ s[i + 1] = b}

LEMMA PlacesOfTwo ==
    ASSUME NEW S, NEW s \in Seq(S), NEW a \in S, NEW b \in S
    PROVE  Places(s, <<a, b>>) = PairsIn(s, a, b)
<1> DEFINE m == <<a, b>>
           n == Len(s)
<1>1. Len(m) = 2 /\ m[1] = a /\ m[2] = b /\ m \in Seq(S) /\ n \in Nat
  BY LenProperties
<1> HIDE DEF m
<1>2. Places(s, m) = {i \in 1..(n - 2 + 1) : SubSeq(s, i, i + 2 - 1) = m}
  BY <1>1 DEF Places
<1>3. n - 2 + 1 = n - 1 /\ \A i \in 1..(n - 1) : i + 2 - 1 = i + 1
  BY <1>1
<1>4. ASSUME NEW i \in 1..(n - 1)
      PROVE  SubSeq(s, i, i + 1) = m <=> s[i] = a /\ s[i + 1] = b
  <2> DEFINE t == SubSeq(s, i, i + 1)
  <2>1. i \in Nat \ {0} /\ i + 1 \in Nat /\ i + 1 <= Len(s) /\ i + 1 - i + 1 = 2
    BY <1>1
  <2>2. /\ t \in Seq(S) /\ Len(t) = IF i <= i + 1 THEN i + 1 - i + 1 ELSE 0
        /\ \A k \in 1..(i + 1 - i + 1) : t[k] = s[i + k - 1]
    BY <2>1, PartIs
  <2>3. Len(t) = 2 /\ t[1] = s[i] /\ t[2] = s[i + 1]
    <3>1. \A k \in 1..2 : t[k] = s[i + k - 1]
      BY <2>1, <2>2
    <3>2. /\ t[1] = s[i + 1 - 1] /\ i + 1 - 1 = i
          /\ t[2] = s[i + 2 - 1] /\ i + 2 - 1 = i + 1
      BY <2>1, <3>1
    <3>3. i <= i + 1
      BY <2>1
    <3> HIDE DEF t
    <3> QED
      BY <2>1, <2>2, <3>2, <3>3
  <2> HIDE DEF t
  <2>4. t[1] = m[1] /\ t[2] = m[2] => t = m
    <3>1. t[1] = m[1] /\ t[2] = m[2] => \A k \in 1..Len(t) : t[k] = m[k]
      BY <2>3
    <3> QED
      BY <1>1, <2>2, <2>3, <3>1, SeqEqual
  <2> QED
    BY <1>1, <2>3, <2>4 DEF t
<1>5. \A i \in 1..(n - 1) : SubSeq(s, i, i + 2 - 1) = m <=> s[i] = a /\ s[i + 1] = b
  BY <1>3, <1>4
<1> HIDE DEF n
<1>6. Places(s, m) = {i \in 1..(n - 1) : s[i] = a /\ s[i + 1] = b}
  BY <1>2, <1>3, <1>5
<1> QED
  BY <1>6 DEF m, n, PairsIn
-----------------------------------------------------------------------------
\* How a subject is read: what is before the mark and the colon at p, a type
\* and a scope or none, ends at e.
Reads(s, p, e) ==
    /\ p \in Nat /\ e \in Nat /\ p + 2 <= Len(s)
    /\ s[p] = ":" /\ s[p + 1] = " " /\ s[p + 2] # " " /\ s[Len(s)] # " "
    /\ e = p - 1 \/ (e = p - 2 /\ s[p - 1] = "!")
    /\ s[1] = "type"
    /\ e = 1 \/ /\ e >= 4 /\ s[2] = "(" /\ s[e] = ")"
                /\ \A i \in 3..(e - 1) : s[i] \in ScopeCharacters

\* Prefixes that are valid.
LEMMA PrefixReads ==
    ASSUME NEW t \in Lines
    PROVE  ValidPrefix(t) <=>
              /\ Len(t) >= 1 /\ t[1] = "type"
              /\ \/ Len(t) = 1
                 \/ /\ Len(t) >= 4 /\ t[2] = "(" /\ t[Len(t)] = ")"
                    /\ \A i \in 3..(Len(t) - 1) : t[i] \in ScopeCharacters
<1> DEFINE n == Len(t)
           places == Places(t, <<"(">>)
<1>1. n \in Nat /\ t \in Seq(Characters) /\ \A i \in 1..n : t[i] \in Characters
  BY LenProperties, ElementOfSeq DEF Lines
<1>2. places = {i \in 1..n : t[i] = "("}
  <2>1. "(" \in Characters
    BY DEF Characters
  <2> QED
    BY <1>1, <2>1, PlacesOfOne
<1>3. t = <<"type">> <=> n = 1 /\ t[1] = "type"
  <2> DEFINE m == <<"type">>
  <2>1. m \in Seq(Characters) /\ Len(m) = 1 /\ m[1] = "type"
    BY DEF Characters
  <2> HIDE DEF m
  <2>2. n = 1 /\ t[1] = "type" => t = m
    <3>1. n = 1 /\ t[1] = "type" => \A i \in 1..Len(t) : t[i] = m[i]
      BY <2>1
    <3> QED
      BY <1>1, <2>1, <3>1, SeqEqual
  <2> QED
    BY <2>1, <2>2 DEF m
<1> HIDE DEF places
<1>4. CASE places = {}
  <2>1. ValidPrefix(t) <=> t = <<"type">>
    BY <1>4 DEF ValidPrefix, places
  <2>2. ~ (n >= 4 /\ t[2] = "(")
    BY <1>1, <1>2, <1>4
  <2> HIDE DEF n
  <2> QED
    BY <1>1, <1>3, <2>1, <2>2 DEF n
<1>5. CASE places # {}
  <2> DEFINE q == Min(places)
             head == SubSeq(t, 1, q - 1)
             scope == SubSeq(t, q + 1, n)
             front == Front(scope)
  <2>1. q \in places /\ \A i \in places : q <= i
    <3>1. places \in SUBSET Nat
      BY <1>1, <1>2
    <3> QED
      BY <1>5, <3>1, MinIs
  <2>2. Before(t, <<"(">>) = head
    BY DEF Before, places
  <2>3. After(t, <<"(">>) = scope
    <3>1. Len(<<"(">>) = 1
      OBVIOUS
    <3> QED
      BY <3>1 DEF After, places
  <2>4. ValidPrefix(t) <=> /\ head = <<"type">>
                           /\ scope # << >> /\ scope[Len(scope)] = ")"
                           /\ front # << >> /\ Range(front) \subseteq ScopeCharacters
    BY <1>5, <2>2, <2>3 DEF ValidPrefix, ValidScope, ScopeCharacters, Last, places
  <2> HIDE DEF q
  <2>5. q \in 1..n /\ q \in Nat /\ q >= 1 /\ q <= n /\ t[q] = "("
    BY <1>1, <1>2, <2>1
  <2>6. /\ head \in Seq(Characters) /\ Len(head) = q - 1
        /\ \A k \in 1..(q - 1) : head[k] = t[k]
    <3>1. q - 1 \in Nat /\ q - 1 <= Len(t) /\ 1 \in Nat \ {0}
      BY <1>1, <2>5
    <3>2. /\ head \in Seq(Characters)
          /\ Len(head) = IF 1 <= q - 1 THEN q - 1 - 1 + 1 ELSE 0
          /\ \A k \in 1..(q - 1 - 1 + 1) : head[k] = t[1 + k - 1]
      BY <1>1, <3>1, PartIs
    <3>3. q - 1 - 1 + 1 = q - 1 /\ \A k \in 1..(q - 1) : 1 + k - 1 = k
      BY <2>5
    <3> HIDE DEF head
    <3>4. Len(head) = q - 1
      BY <2>5, <3>2
    <3> QED
      BY <3>2, <3>3, <3>4
  <2>7. /\ scope \in Seq(Characters) /\ Len(scope) = n - q
        /\ \A k \in 1..(n - q) : scope[k] = t[q + k]
    <3>1. q + 1 \in Nat \ {0} /\ n \in Nat /\ n <= Len(t)
      BY <1>1, <2>5
    <3>2. /\ scope \in Seq(Characters)
          /\ Len(scope) = IF q + 1 <= n THEN n - (q + 1) + 1 ELSE 0
          /\ \A k \in 1..(n - (q + 1) + 1) : scope[k] = t[q + 1 + k - 1]
      BY <1>1, <3>1, PartIs
    <3>3. n - (q + 1) + 1 = n - q /\ \A k \in 1..(n - q) : q + 1 + k - 1 = q + k
      BY <1>1, <2>5
    <3> HIDE DEF scope, n
    <3>4. Len(scope) = n - q
      BY <1>1, <2>5, <3>2
    <3> QED
      BY <3>2, <3>3, <3>4
  <2> HIDE DEF head, scope
  <2>8. n - q >= 1 => /\ front \in Seq(Characters) /\ Len(front) = n - q - 1
                      /\ \A k \in 1..(n - q - 1) : front[k] = t[q + k]
    <3> SUFFICES ASSUME n - q >= 1
                 PROVE  /\ front \in Seq(Characters) /\ Len(front) = n - q - 1
                        /\ \A k \in 1..(n - q - 1) : front[k] = t[q + k]
      OBVIOUS
    <3> DEFINE j == n - q - 1
    <3>0. j \in Nat /\ j <= n - q /\ j = n - q - 1
      BY <1>1, <2>5
    <3>1. front = SubSeq(scope, 1, j)
      BY <2>7 DEF Front
    <3> HIDE DEF j, front
    <3>2. /\ front \in Seq(Characters)
          /\ Len(front) = IF 1 <= j THEN j - 1 + 1 ELSE 0
          /\ \A k \in 1..(j - 1 + 1) : front[k] = scope[1 + k - 1]
      <4>1. j <= Len(scope) /\ 1 \in Nat \ {0}
        BY <2>7, <3>0
      <4> QED
        BY <2>7, <3>0, <3>1, <4>1, PartIs
    <3>3. j - 1 + 1 = j /\ \A k \in 1..j : 1 + k - 1 = k /\ k \in 1..(n - q)
      BY <1>1, <2>5, <3>0
    <3>4. Len(front) = j
      BY <3>0, <3>2
    <3>5. \A k \in 1..j : front[k] = t[q + k]
      BY <2>7, <3>2, <3>3
    <3> QED
      BY <3>0, <3>2, <3>4, <3>5
  <2>9. head = <<"type">> <=> q = 2 /\ t[1] = "type"
    <3> DEFINE m == <<"type">>
    <3>1. m \in Seq(Characters) /\ Len(m) = 1 /\ m[1] = "type"
      BY DEF Characters
    <3> HIDE DEF m
    <3>2. q = 2 /\ t[1] = "type" => head = m
      <4> SUFFICES ASSUME q = 2, t[1] = "type" PROVE head = m
        OBVIOUS
      <4>1. Len(head) = 1 /\ head[1] = t[1]
        BY <2>6
      <4>2. \A i \in 1..Len(head) : head[i] = m[i]
        BY <3>1, <4>1
      <4> QED
        BY <2>6, <3>1, <4>1, <4>2, SeqEqual
    <3>3. head = m => q = 2 /\ t[1] = "type"
      <4> SUFFICES ASSUME head = m PROVE q = 2 /\ t[1] = "type"
        OBVIOUS
      <4>1. q - 1 = 1
        BY <2>6, <3>1
      <4>2. q = 2
        BY <2>5, <4>1
      <4> QED
        BY <2>6, <3>1, <4>2
    <3> QED
      BY <3>2, <3>3 DEF m
  <2>10. ASSUME ValidPrefix(t)
         PROVE  /\ n >= 4 /\ t[1] = "type" /\ t[2] = "(" /\ t[n] = ")"
                /\ \A i \in 3..(n - 1) : t[i] \in ScopeCharacters
    <3>1. q = 2 /\ t[1] = "type" /\ t[2] = "("
      BY <2>4, <2>5, <2>9, <2>10
    <3>2. n - q >= 1
      <4>1. Len(scope) # 0
        BY <2>4, <2>7, <2>10, EmptySeq
      <4> QED
        BY <1>1, <2>5, <2>7, <4>1
    <3>3. n - q - 1 # 0
      BY <2>4, <2>8, <2>10, <3>2, EmptySeq
    <3>4. n >= 4
      <4>1. \A a \in Nat : a - 2 >= 1 /\ a - 2 - 1 # 0 => a >= 4
        OBVIOUS
      <4>2. n - 2 >= 1 /\ n - 2 - 1 # 0
        BY <3>1, <3>2, <3>3
      <4> QED
        BY <1>1, <4>1, <4>2
    <3>5. t[n] = ")"
      <4>1. scope[n - q] = t[q + (n - q)] /\ q + (n - q) = n
        BY <1>1, <2>5, <2>7, <3>2
      <4> QED
        BY <2>4, <2>7, <2>10, <4>1
    <3>6. ASSUME NEW i \in 3..(n - 1) PROVE t[i] \in ScopeCharacters
      <4>1. PICK k \in 1..(n - q - 1) : q + k = i
        <5>1. i - 2 \in 1..(n - q - 1) /\ q + (i - 2) = i
          BY <1>1, <3>1
        <5> QED
          BY <5>1
      <4>2. front[k] = t[i] /\ k \in DOMAIN front
        BY <2>8, <3>2, <4>1, LenProperties
      <4>3. front[k] \in Range(front)
        BY <4>2 DEF Range
      <4> QED
        BY <2>4, <2>10, <4>2, <4>3
    <3> QED
      BY <3>1, <3>4, <3>5, <3>6
  <2>11. ASSUME n >= 4, t[1] = "type", t[2] = "(", t[n] = ")",
                \A i \in 3..(n - 1) : t[i] \in ScopeCharacters
         PROVE  ValidPrefix(t)
    <3>1. q = 2
      <4>1. 2 \in places /\ 1 \notin places
        BY <1>1, <1>2, <2>11
      <4>2. q <= 2 /\ q # 1
        BY <2>1, <4>1
      <4> QED
        BY <2>5, <4>2
    <3>2. head = <<"type">>
      BY <2>9, <2>11, <3>1
    <3>3. n - q >= 2
      BY <1>1, <2>11, <3>1
    <3>4. scope # << >> /\ scope[Len(scope)] = ")"
      <4>1. scope[n - q] = t[q + (n - q)] /\ q + (n - q) = n
        BY <1>1, <2>5, <2>7, <3>3
      <4>2. Len(scope) # 0
        BY <1>1, <2>5, <2>7, <3>3
      <4> QED
        BY <2>7, <2>11, <4>1, <4>2, EmptySeq
    <3>5. n - q >= 1 /\ n - q - 1 >= 1
      BY <1>1, <2>5, <3>3
    <3>6. /\ front \in Seq(Characters) /\ Len(front) = n - q - 1
          /\ \A k \in 1..(n - q - 1) : front[k] = t[q + k]
      BY <2>8, <3>5
    <3> HIDE DEF front
    <3>7. front # << >>
      BY <3>5, <3>6, EmptySeq
    <3>8. Range(front) \subseteq ScopeCharacters
      <4>1. DOMAIN front = 1..(n - q - 1)
        BY <3>6, LenProperties
      <4>2. \A k \in 1..(n - q - 1) : q + k \in 3..(n - 1)
        BY <1>1, <3>1
      <4> QED
        BY <2>11, <3>6, <4>1, <4>2 DEF Range
    <3> QED
      BY <2>4, <3>2, <3>4, <3>7, <3>8 DEF front
  <2>12. ~ n = 1 \/ t[1] # "type"
    BY <1>1, <1>2, <2>1
  <2>13. n >= 4 => n >= 1
    BY <1>1
  <2> HIDE DEF n
  <2>14. ValidPrefix(t) <=>
            /\ n >= 4 /\ t[1] = "type" /\ t[2] = "(" /\ t[n] = ")"
            /\ \A i \in 3..(n - 1) : t[i] \in ScopeCharacters
    BY <2>10, <2>11
  <2> QED
    BY <2>12, <2>13, <2>14 DEF n
<1> QED
  BY <1>4, <1>5
-----------------------------------------------------------------------------
\* A line without an exclamation mark at its end.
LEMMA WithoutIs ==
    ASSUME NEW t \in Lines
    PROVE  LET w == Without(t, "!") IN
           /\ w \in Lines
           /\ \A i \in 1..Len(w) : w[i] = t[i]
           /\ Len(t) >= 1 /\ t[Len(t)] = "!" => Len(w) = Len(t) - 1
           /\ ~ (Len(t) >= 1 /\ t[Len(t)] = "!") => w = t
<1> DEFINE n == Len(t)
           w == Without(t, "!")
<1>1. n \in Nat /\ t \in Seq(Characters) /\ (t # << >> <=> n >= 1)
  BY LenProperties, EmptySeq DEF Lines
<1>2. CASE n >= 1 /\ t[n] = "!"
  <2> DEFINE j == n - 1
  <2>0. j \in Nat /\ j <= n /\ j = n - 1
    BY <1>1, <1>2
  <2>1. w = SubSeq(t, 1, j)
    BY <1>1, <1>2 DEF Without, Last, Front
  <2> HIDE DEF w, j, n
  <2>2. /\ w \in Seq(Characters)
        /\ Len(w) = IF 1 <= j THEN j - 1 + 1 ELSE 0
        /\ \A k \in 1..(j - 1 + 1) : w[k] = t[1 + k - 1]
    <3>1. j <= Len(t) /\ 1 \in Nat \ {0}
      BY <2>0 DEF n
    <3> QED
      BY <1>1, <2>0, <2>1, <3>1, PartIs
  <2>3. j - 1 + 1 = j /\ \A k \in 1..j : 1 + k - 1 = k
    BY <2>0
  <2>4. Len(w) = j
    BY <2>0, <2>2
  <2>5. \A k \in 1..j : w[k] = t[k]
    BY <2>2, <2>3
  <2> QED
    BY <1>2, <2>0, <2>2, <2>4, <2>5 DEF w, n, Lines
<1>3. CASE ~ (n >= 1 /\ t[n] = "!")
  <2>1. w = t
    BY <1>1, <1>3 DEF Without, Last
  <2> QED
    BY <1>3, <2>1
<1> QED
  BY <1>2, <1>3

\* What is before the place p of a colon, without the mark.
LEMMA HeadOfSubject ==
    ASSUME NEW s \in Lines, NEW p \in Nat, p >= 1, p <= Len(s)
    PROVE  LET w == Without(SubSeq(s, 1, p - 1), "!") IN
           /\ w \in Lines
           /\ \A i \in 1..Len(w) : w[i] = s[i]
           /\ p >= 2 /\ s[p - 1] = "!" => Len(w) = p - 2
           /\ ~ (p >= 2 /\ s[p - 1] = "!") => Len(w) = p - 1
<1> DEFINE b == SubSeq(s, 1, p - 1)
           w == Without(b, "!")
           j == p - 1
<1>1. j \in Nat /\ j <= Len(s) /\ j = p - 1 /\ s \in Seq(Characters)
  BY LenProperties DEF Lines
<1>2. b = SubSeq(s, 1, j)
  OBVIOUS
<1> HIDE DEF b, j
<1>3. b \in Lines /\ Len(b) = j /\ \A k \in 1..j : b[k] = s[k]
  <2>1. /\ b \in Seq(Characters)
        /\ Len(b) = IF 1 <= j THEN j - 1 + 1 ELSE 0
        /\ \A k \in 1..(j - 1 + 1) : b[k] = s[1 + k - 1]
    BY <1>1, <1>2, PartIs
  <2>2. j - 1 + 1 = j /\ \A k \in 1..j : 1 + k - 1 = k
    BY <1>1
  <2>3. Len(b) = j
    BY <1>1, <2>1
  <2> QED
    BY <2>1, <2>2, <2>3 DEF Lines
<1>4. /\ w \in Lines
      /\ \A i \in 1..Len(w) : w[i] = b[i]
      /\ Len(b) >= 1 /\ b[Len(b)] = "!" => Len(w) = Len(b) - 1
      /\ ~ (Len(b) >= 1 /\ b[Len(b)] = "!") => w = b
  BY <1>3, WithoutIs
<1> HIDE DEF w
<1>5. (Len(b) >= 1 /\ b[Len(b)] = "!") <=> (p >= 2 /\ s[p - 1] = "!")
  <2>1. j >= 1 <=> p >= 2
    BY <1>1
  <2>2. j >= 1 => b[j] = s[p - 1]
    BY <1>1, <1>3
  <2> QED
    BY <1>3, <2>1, <2>2
<1>6. Len(w) <= j /\ Len(w) \in Nat
  BY <1>1, <1>3, <1>4, LenProperties DEF Lines
<1>7. \A i \in 1..Len(w) : w[i] = s[i]
  <2>1. \A i \in 1..Len(w) : i \in 1..j
    BY <1>1, <1>6
  <2> QED
    BY <1>3, <1>4, <2>1
<1>8. p >= 2 /\ s[p - 1] = "!" => Len(w) = p - 2
  BY <1>1, <1>3, <1>4, <1>5
<1>9. ~ (p >= 2 /\ s[p - 1] = "!") => Len(w) = p - 1
  BY <1>1, <1>3, <1>4, <1>5
<1> QED
  BY <1>4, <1>7, <1>8, <1>9 DEF w, b

\* Where a colon and a space are.
LEMMA PlacesOfPair ==
    ASSUME NEW t \in Lines
    PROVE  Places(t, <<":", " ">>) = PairsIn(t, ":", " ")
<1>1. t \in Seq(Characters) /\ ":" \in Characters /\ " " \in Characters
  BY DEF Lines, Characters
<1> QED
  BY <1>1, PlacesOfTwo

\* The subjects that are valid are those that can be read.
LEMMA SubjectReads ==
    ASSUME NEW t \in Lines
    PROVE  ValidSubject(t) <=> \E p, e \in Nat : Reads(t, p, e)
<1> DEFINE n == Len(t)
           places == Places(t, <<":", " ">>)
<1>0. t \in Seq(Characters)
  BY DEF Lines
<1>1. n \in Nat
  BY <1>0, LenProperties
<1>2. places = {i \in 1..(n - 1) : t[i] = ":" /\ t[i + 1] = " "}
  BY PlacesOfPair DEF PairsIn
<1> HIDE DEF places
\* A reading is of the first place there is.
<1>3. ASSUME NEW p \in Nat, NEW e \in Nat, Reads(t, p, e)
      PROVE  /\ p \in places /\ \A i \in places : p <= i
             /\ e \in 1..(p - 1) /\ t[e] \in {"type", ")"}
  <2>1. /\ p \in Nat /\ e \in Nat /\ p + 2 <= n
        /\ t[p] = ":" /\ t[p + 1] = " "
        /\ e = p - 1 \/ (e = p - 2 /\ t[p - 1] = "!")
        /\ t[1] = "type"
        /\ e = 1 \/ /\ e >= 4 /\ t[2] = "(" /\ t[e] = ")"
                    /\ \A i \in 3..(e - 1) : t[i] \in ScopeCharacters
    BY <1>3 DEF Reads, n
  <2>a. p + 2 <= n /\ (e = p - 1 \/ e = p - 2) /\ (e = 1 \/ e >= 4)
    BY <2>1
  <2>b. t[p] = ":" /\ t[p + 1] = " " /\ t[1] = "type"
    BY <2>1
  <2>c. p >= 2 /\ e >= 1 /\ e <= p - 1 /\ p \in 1..(n - 1)
    <3> HIDE DEF n
    <3> QED
      BY <1>1, <2>a
  <2>2. p \in places
    BY <1>2, <2>b, <2>c
  <2>3. ASSUME NEW i \in places, i < p PROVE FALSE
    <3>1. i \in Nat /\ i >= 1 /\ t[i] = ":"
      <4> HIDE DEF n
      <4>1. i \in 1..(n - 1) /\ t[i] = ":"
        BY <1>2
      <4> QED
        BY <1>1, <4>1
    <3>2. CASE i <= e
      <4>1. i # 1
        BY <2>b, <3>1
      <4>5. e # 1
        BY <3>1, <3>2, <4>1
      <4>2. e >= 4 /\ t[2] = "(" /\ t[e] = ")"
            /\ \A k \in 3..(e - 1) : t[k] \in ScopeCharacters
        BY <2>1, <4>5
      <4>6. i # 2 /\ i # e
        BY <3>1, <4>2
      <4>3. i \in 3..(e - 1)
        BY <3>1, <3>2, <4>1, <4>6
      <4>4. t[i] \in ScopeCharacters
        BY <4>2, <4>3
      <4> QED
        BY <3>1, <4>4 DEF ScopeCharacters
    <3>3. CASE ~ i <= e
      <4>1. i = p - 1 /\ e = p - 2
        BY <2>a, <2>3, <3>1, <3>3
      <4>2. e # p - 1
        BY <4>1
      <4>3. t[p - 1] = "!"
        BY <2>1, <4>2
      <4> QED
        BY <3>1, <4>1, <4>3
    <3> QED
      BY <3>2, <3>3
  <2>4. \A i \in places : p <= i
    <3>1. \A i \in places : i \in Nat
      <4> HIDE DEF n
      <4>1. \A i \in places : i \in 1..(n - 1)
        BY <1>2
      <4> QED
        BY <1>1, <4>1
    <3> QED
      BY <2>3, <3>1
  <2>5. e \in 1..(p - 1) /\ t[e] \in {"type", ")"}
    <3>1. e \in 1..(p - 1)
      BY <2>c
    <3>2. t[e] \in {"type", ")"}
      BY <2>1
    <3> QED
      BY <3>1, <3>2
  <2> QED
    BY <2>2, <2>4, <2>5
<1>4. CASE places = {}
  <2>1. ~ ValidSubject(t)
    BY <1>4 DEF ValidSubject, places
  <2> QED
    BY <1>3, <1>4, <2>1
<1>5. CASE places # {}
  <2> DEFINE p == Min(places)
             w == Without(SubSeq(t, 1, p - 1), "!")
             summary == SubSeq(t, p + 2, n)
  <2>1. p \in places /\ \A i \in places : p <= i
    <3>1. places \in SUBSET Nat
      <4> HIDE DEF n
      <4>1. \A i \in places : i \in 1..(n - 1)
        BY <1>2
      <4> QED
        BY <1>1, <4>1
    <3> QED
      BY <1>5, <3>1, MinIs
  <2>2. After(t, <<":", " ">>) = summary /\ Before(t, <<":", " ">>) = SubSeq(t, 1, p - 1)
    <3>1. Len(<<":", " ">>) = 2
      OBVIOUS
    <3> QED
      BY <3>1 DEF After, Before, places, n
  <2>3. ValidSubject(t) <=> /\ summary # << >> /\ summary[1] # " "
                            /\ summary[Len(summary)] # " "
                            /\ ValidPrefix(w)
    BY <1>5, <2>2 DEF ValidSubject, Last, places
  <2> HIDE DEF p
  <2>4. p \in Nat /\ p >= 1 /\ p <= n - 1 /\ t[p] = ":" /\ t[p + 1] = " "
    <3> HIDE DEF n
    <3>1. p \in 1..(n - 1) /\ t[p] = ":" /\ t[p + 1] = " "
      BY <1>2, <2>1
    <3>2. p \in Nat /\ p >= 1 /\ p <= n - 1
      <4>1. p \in 1..(n - 1)
        BY <3>1
      <4> QED
        BY <1>1, <4>1
    <3> QED
      BY <3>1, <3>2
  <2>p. p \in Nat /\ p >= 1 /\ p <= n - 1
    BY <2>4
  <2>5. summary # << >> <=> p + 2 <= n
    <3>1. p + 2 \in Nat \ {0} /\ n <= Len(t)
      <4> HIDE DEF n
      <4>1. \A m \in Nat : m <= m
        OBVIOUS
      <4> QED
        BY <1>1, <2>p, <4>1 DEF n
    <3>2. /\ summary \in Seq(Characters)
          /\ Len(summary) = IF p + 2 <= n THEN n - (p + 2) + 1 ELSE 0
      <4> DEFINE i == p + 2
      <4>1. i \in Nat \ {0}
        BY <3>1
      <4> HIDE DEF i, n
      <4>2. n <= Len(t) /\ n \in Nat
        BY <1>1, <3>1 DEF i
      <4>3. /\ SubSeq(t, i, n) \in Seq(Characters)
            /\ Len(SubSeq(t, i, n)) = IF i <= n THEN n - i + 1 ELSE 0
        BY <1>0, <4>1, <4>2, PartIs
      <4> QED
        BY <4>3 DEF i
    <3> HIDE DEF summary, n
    <3>3. p + 2 <= n <=> Len(summary) # 0
      BY <1>1, <2>p, <3>2
    <3> QED
      BY <3>2, <3>3, EmptySeq
  <2>6. p + 2 <= n => summary[1] = t[p + 2] /\ summary[Len(summary)] = t[n]
    <3> SUFFICES ASSUME p + 2 <= n
                 PROVE  summary[1] = t[p + 2] /\ summary[Len(summary)] = t[n]
      OBVIOUS
    <3> DEFINE i == p + 2
               m == n - i + 1
    <3>1. i \in Nat \ {0} /\ n <= Len(t) /\ i <= n /\ i = p + 2
      <4> HIDE DEF n
      <4>1. \A k \in Nat : k <= k
        OBVIOUS
      <4> QED
        BY <1>1, <2>p, <4>1 DEF n
    <3> HIDE DEF i
    <3>2. /\ Len(summary) = IF i <= n THEN n - i + 1 ELSE 0
          /\ \A k \in 1..(n - i + 1) : summary[k] = t[i + k - 1]
      BY <1>0, <1>1, <3>1, PartIs DEF i
    <3> HIDE DEF summary
    <3>3. m \in Nat /\ m >= 1 /\ i + m - 1 = n /\ i + 1 - 1 = i
      BY <1>1, <3>1
    <3>4. 1 \in 1..m /\ m \in 1..m
      BY <3>3
    <3>5. Len(summary) = m
      BY <3>1, <3>2
    <3>6. summary[1] = t[i + 1 - 1] /\ summary[m] = t[i + m - 1]
      BY <3>2, <3>4
    <3> QED
      BY <3>1, <3>3, <3>5, <3>6
  <2>7. /\ w \in Lines
        /\ \A i \in 1..Len(w) : w[i] = t[i]
        /\ p >= 2 /\ t[p - 1] = "!" => Len(w) = p - 2
        /\ ~ (p >= 2 /\ t[p - 1] = "!") => Len(w) = p - 1
        /\ Len(w) \in Nat
    <3>1. p <= Len(t)
      <4> HIDE DEF n
      <4>1. p <= n
        BY <1>1, <2>p
      <4> QED
        BY <4>1 DEF n
    <3>2. /\ w \in Lines
          /\ \A i \in 1..Len(w) : w[i] = t[i]
          /\ p >= 2 /\ t[p - 1] = "!" => Len(w) = p - 2
          /\ ~ (p >= 2 /\ t[p - 1] = "!") => Len(w) = p - 1
      BY <2>4, <3>1, HeadOfSubject
    <3> HIDE DEF w
    <3> QED
      BY <3>2, LenProperties DEF Lines
  <2> HIDE DEF w, summary
  <2>8. ValidPrefix(w) <=>
            /\ Len(w) >= 1 /\ w[1] = "type"
            /\ \/ Len(w) = 1
               \/ /\ Len(w) >= 4 /\ w[2] = "(" /\ w[Len(w)] = ")"
                  /\ \A i \in 3..(Len(w) - 1) : w[i] \in ScopeCharacters
    BY <2>7, PrefixReads
  <2> DEFINE e == Len(w)
  <2>9. ValidPrefix(w) <=>
            /\ e >= 1 /\ t[1] = "type"
            /\ \/ e = 1
               \/ /\ e >= 4 /\ t[2] = "(" /\ t[e] = ")"
                  /\ \A i \in 3..(e - 1) : t[i] \in ScopeCharacters
    <3>1. e >= 1 => w[1] = t[1]
      BY <2>7
    <3>2. e >= 4 => w[2] = t[2] /\ w[e] = t[e]
      BY <2>7
    <3>3. \A i \in 3..(e - 1) : w[i] = t[i]
      BY <2>7
    <3> HIDE DEF e
    <3> QED
      BY <2>8, <3>1, <3>2, <3>3 DEF e
  <2> HIDE DEF e
  <2>10. ASSUME ValidSubject(t) PROVE \E q, f \in Nat : Reads(t, q, f)
    <3>1. p + 2 <= n /\ t[p + 2] # " " /\ t[n] # " "
      BY <2>3, <2>5, <2>6, <2>10
    <3>2. e = p - 1 \/ (e = p - 2 /\ t[p - 1] = "!")
      BY <2>7 DEF e
    <3>3. /\ t[1] = "type"
          /\ e = 1 \/ /\ e >= 4 /\ t[2] = "(" /\ t[e] = ")"
                      /\ \A i \in 3..(e - 1) : t[i] \in ScopeCharacters
      BY <2>3, <2>9, <2>10
    <3>4. e \in Nat
      BY <2>7 DEF e
    <3>5. Reads(t, p, e)
      BY <2>4, <3>1, <3>2, <3>3, <3>4 DEF Reads, n
    <3> HIDE DEF ValidSubject
    <3> QED
      BY <2>p, <3>4, <3>5
  <2>11. ASSUME NEW q \in Nat, NEW f \in Nat, Reads(t, q, f) PROVE ValidSubject(t)
    <3>1. q = p
      <4>1. q \in places /\ \A i \in places : q <= i
        BY <1>3, <2>11
      <4>2. q <= p /\ p <= q
        BY <2>1, <4>1
      <4>3. q \in Nat
        BY <2>11
      <4> QED
        BY <2>p, <4>2, <4>3
    <3>2. f \in 1..(q - 1) /\ t[f] \in {"type", ")"}
      BY <1>3, <2>11
    <3>3. /\ q \in Nat /\ f \in Nat /\ q + 2 <= n /\ t[q + 2] # " " /\ t[n] # " "
          /\ f = q - 1 \/ (f = q - 2 /\ t[q - 1] = "!")
          /\ t[1] = "type"
          /\ f = 1 \/ /\ f >= 4 /\ t[2] = "(" /\ t[f] = ")"
                      /\ \A i \in 3..(f - 1) : t[i] \in ScopeCharacters
      BY <2>11 DEF Reads, n
    <3>4. e = f
      <4>1. CASE f = q - 1
        <5>1. t[p - 1] # "!"
          BY <3>1, <3>2, <4>1
        <5> QED
          BY <2>7, <3>1, <4>1, <5>1 DEF e
      <4>2. CASE f = q - 2 /\ t[q - 1] = "!"
        <5>1. p >= 2 /\ t[p - 1] = "!"
          <6>1. p >= 2
            <7>1. f \in 1..(p - 1) /\ p \in Nat
              BY <2>p, <3>1, <3>2
            <7> QED
              BY <7>1
          <6> QED
            BY <3>1, <4>2, <6>1
        <5> QED
          BY <2>7, <3>1, <4>2, <5>1 DEF e
      <4> QED
        BY <3>3, <4>1, <4>2
    <3>5. ValidPrefix(w)
      <4>1. e >= 1
        BY <3>2, <3>4
      <4> QED
        BY <2>9, <3>3, <3>4, <4>1
    <3> QED
      BY <2>3, <2>5, <2>6, <3>1, <3>3, <3>5
  <2> QED
    BY <2>10, <2>11
<1> QED
  BY <1>4, <1>5
-----------------------------------------------------------------------------
\* A line in parentheses, character by character.
LEMMA ParenthesesAre ==
    ASSUME NEW w \in Lines
    PROVE  LET v == InParentheses(w) IN
           /\ v \in Lines /\ Len(v) = Len(w) + 2
           /\ v[1] = "(" /\ v[Len(w) + 2] = ")"
           /\ \A k \in 1..Len(w) : v[k + 1] = w[k]
<1> DEFINE a == <<"(">>
           c == <<")">>
           x == a \o w
           v == x \o c
           n == Len(w)
<1>1. /\ a \in Seq(Characters) /\ Len(a) = 1 /\ a[1] = "("
      /\ c \in Seq(Characters) /\ Len(c) = 1 /\ c[1] = ")"
  BY DEF Characters
<1>2. w \in Seq(Characters) /\ n \in Nat
  BY LenProperties DEF Lines
<1> HIDE DEF a, c
<1>3. /\ x \in Seq(Characters) /\ Len(x) = 1 + n
      /\ \A i \in 1..(1 + n) : x[i] = IF i <= 1 THEN a[i] ELSE w[i - 1]
  <2>1. /\ x \in Seq(Characters) /\ Len(x) = Len(a) + Len(w)
        /\ \A i \in 1..(Len(a) + Len(w)) :
              x[i] = IF i <= Len(a) THEN a[i] ELSE w[i - Len(a)]
    BY <1>1, <1>2, ConcatProperties
  <2> HIDE DEF x, n
  <2> QED
    BY <1>1, <2>1 DEF n
<1>4. /\ v \in Seq(Characters) /\ Len(v) = Len(x) + 1
      /\ \A i \in 1..(Len(x) + 1) :
            v[i] = IF i <= Len(x) THEN x[i] ELSE c[i - Len(x)]
  BY <1>1, <1>3, ConcatProperties
<1> HIDE DEF x, v, n
<1>5. Len(v) = n + 2
  BY <1>2, <1>3, <1>4
<1>6. v[1] = "("
  <2>1. 1 \in 1..(1 + n) /\ 1 \in 1..(Len(x) + 1) /\ 1 <= Len(x)
    BY <1>2, <1>3
  <2> QED
    BY <1>1, <1>3, <1>4, <2>1
<1>7. v[n + 2] = ")"
  <2> DEFINE k == n + 2
  <2>1. k \in 1..(Len(x) + 1) /\ ~ k <= Len(x) /\ k - Len(x) = 1
    BY <1>2, <1>3
  <2> HIDE DEF k
  <2>2. v[k] = c[1]
    BY <1>4, <2>1
  <2> QED
    BY <1>1, <2>2 DEF k
<1>8. ASSUME NEW k \in 1..n PROVE v[k + 1] = w[k]
  <2> DEFINE i == k + 1
  <2>1. /\ i \in 1..(Len(x) + 1) /\ i <= Len(x)
        /\ i \in 1..(1 + n) /\ ~ i <= 1 /\ i - 1 = k
    BY <1>2, <1>3
  <2> HIDE DEF i
  <2>2. v[i] = x[i] /\ x[i] = w[i - 1]
    BY <1>3, <1>4, <2>1
  <2> QED
    BY <2>1, <2>2 DEF i
<1> QED
  BY <1>4, <1>5, <1>6, <1>7, <1>8 DEF v, x, a, c, n, InParentheses, Lines

\* What a subject begins with, character by character.
LEMMA HeadIs ==
    ASSUME NEW v \in Lines, NEW b \in Lines
    PROVE  LET h == HeadOf(v, b) IN
           /\ h \in Lines /\ Len(h) = Len(v) + Len(b) + 3
           /\ h[1] = "type"
           /\ \A k \in 1..Len(v) : h[k + 1] = v[k]
           /\ \A k \in 1..Len(b) : h[Len(v) + 1 + k] = b[k]
           /\ h[Len(v) + Len(b) + 2] = ":"
           /\ h[Len(v) + Len(b) + 3] = " "
<1> DEFINE a == <<"type">>
           c == <<":", " ">>
           x == a \o v
           y == x \o b
           h == y \o c
           n == Len(v)
           l == Len(b)
<1>1. /\ a \in Seq(Characters) /\ Len(a) = 1 /\ a[1] = "type"
      /\ c \in Seq(Characters) /\ Len(c) = 2 /\ c[1] = ":" /\ c[2] = " "
  BY DEF Characters
<1>2. v \in Seq(Characters) /\ b \in Seq(Characters) /\ n \in Nat /\ l \in Nat
  BY LenProperties DEF Lines
<1> HIDE DEF a, c
<1>3. /\ x \in Seq(Characters) /\ Len(x) = 1 + n
      /\ \A i \in 1..(1 + n) : x[i] = IF i <= 1 THEN a[i] ELSE v[i - 1]
  <2>1. /\ x \in Seq(Characters) /\ Len(x) = Len(a) + Len(v)
        /\ \A i \in 1..(Len(a) + Len(v)) :
              x[i] = IF i <= Len(a) THEN a[i] ELSE v[i - Len(a)]
    BY <1>1, <1>2, ConcatProperties
  <2> HIDE DEF x, n
  <2> QED
    BY <1>1, <2>1 DEF n
<1> HIDE DEF x
<1>4. /\ y \in Seq(Characters) /\ Len(y) = Len(x) + l
      /\ \A i \in 1..(Len(x) + l) :
            y[i] = IF i <= Len(x) THEN x[i] ELSE b[i - Len(x)]
  BY <1>2, <1>3, ConcatProperties
<1> HIDE DEF y
<1>5. /\ h \in Seq(Characters) /\ Len(h) = Len(y) + 2
      /\ \A i \in 1..(Len(y) + 2) :
            h[i] = IF i <= Len(y) THEN y[i] ELSE c[i - Len(y)]
  <2>1. /\ h \in Seq(Characters) /\ Len(h) = Len(y) + Len(c)
        /\ \A i \in 1..(Len(y) + Len(c)) :
              h[i] = IF i <= Len(y) THEN y[i] ELSE c[i - Len(y)]
    <3>1. y \in Seq(Characters) /\ c \in Seq(Characters)
      BY <1>1, <1>4
    <3> QED
      BY <3>1, ConcatProperties
  <2> HIDE DEF h
  <2> QED
    BY <1>1, <2>1
<1> HIDE DEF h, n, l
<1>6. Len(x) = n + 1 /\ Len(y) = n + l + 1 /\ Len(h) = n + l + 3
  BY <1>2, <1>3, <1>4, <1>5
<1>7. h[1] = "type"
  <2>1. 1 \in 1..(1 + n) /\ 1 \in 1..(Len(x) + l) /\ 1 \in 1..(Len(y) + 2)
        /\ 1 <= Len(x) /\ 1 <= Len(y)
    BY <1>2, <1>6
  <2>2. h[1] = y[1] /\ y[1] = x[1]
    BY <1>4, <1>5, <2>1
  <2>3. x[1] = a[1]
    BY <1>3, <2>1
  <2> QED
    BY <1>1, <2>2, <2>3
<1>8. ASSUME NEW k \in 1..n PROVE h[k + 1] = v[k]
  <2> DEFINE i == k + 1
  <2>1. /\ i \in 1..(Len(y) + 2) /\ i <= Len(y)
        /\ i \in 1..(Len(x) + l) /\ i <= Len(x)
        /\ i \in 1..(1 + n) /\ ~ i <= 1 /\ i - 1 = k
    BY <1>2, <1>6
  <2> HIDE DEF i
  <2>2. h[i] = y[i] /\ y[i] = x[i] /\ x[i] = v[i - 1]
    BY <1>3, <1>4, <1>5, <2>1
  <2> QED
    BY <2>1, <2>2 DEF i
<1>9. ASSUME NEW k \in 1..l PROVE h[n + 1 + k] = b[k]
  <2> DEFINE i == n + 1 + k
  <2>1. /\ i \in 1..(Len(y) + 2) /\ i <= Len(y)
        /\ i \in 1..(Len(x) + l) /\ ~ i <= Len(x) /\ i - Len(x) = k
    BY <1>2, <1>6
  <2> HIDE DEF i
  <2>2. h[i] = y[i] /\ y[i] = b[i - Len(x)]
    BY <1>4, <1>5, <2>1
  <2> QED
    BY <2>1, <2>2 DEF i
<1>10. h[n + l + 2] = ":" /\ h[n + l + 3] = " "
  <2> DEFINE i == n + l + 2
             j == n + l + 3
  <2>1. /\ i \in 1..(Len(y) + 2) /\ ~ i <= Len(y) /\ i - Len(y) = 1
        /\ j \in 1..(Len(y) + 2) /\ ~ j <= Len(y) /\ j - Len(y) = 2
    BY <1>2, <1>6
  <2> HIDE DEF i, j
  <2>2. h[i] = c[1] /\ h[j] = c[2]
    BY <1>5, <2>1
  <2> QED
    BY <1>1, <2>2 DEF i, j
<1> QED
  BY <1>5, <1>6, <1>7, <1>8, <1>9, <1>10 DEF h, y, x, a, c, n, l, HeadOf, Lines

\* A line begins with another and goes on.
LEMMA StrictPrefixIs ==
    ASSUME NEW h \in Lines, NEW t \in Lines
    PROVE  IsStrictPrefix(h, t) <=> /\ Len(h) < Len(t)
                                    /\ \A i \in 1..Len(h) : h[i] = t[i]
<1> DEFINE l == Len(h)
           n == Len(t)
           part == SubSeq(t, 1, l)
<1>1. h \in Seq(Characters) /\ t \in Seq(Characters) /\ l \in Nat /\ n \in Nat
  BY LenProperties DEF Lines
<1>2. SubSeq(h, 1, l) = h
  BY <1>1, SubSeqFull
<1>3. l <= n => /\ part \in Seq(Characters) /\ Len(part) = l
                /\ \A i \in 1..l : part[i] = t[i]
  <2> SUFFICES ASSUME l <= n
               PROVE  /\ part \in Seq(Characters) /\ Len(part) = l
                      /\ \A i \in 1..l : part[i] = t[i]
    OBVIOUS
  <2>1. /\ part \in Seq(Characters)
        /\ Len(part) = IF 1 <= l THEN l - 1 + 1 ELSE 0
        /\ \A i \in 1..(l - 1 + 1) : part[i] = t[1 + i - 1]
    BY <1>1, PartIs
  <2> HIDE DEF part, l
  <2>2. l - 1 + 1 = l /\ \A i \in 1..l : 1 + i - 1 = i
    BY <1>1
  <2>3. Len(part) = l
    BY <1>1, <2>1
  <2> QED
    BY <2>1, <2>2, <2>3
<1> HIDE DEF part
<1>4. l <= n => (h = part <=> \A i \in 1..l : h[i] = t[i])
  <2> SUFFICES ASSUME l <= n PROVE h = part <=> \A i \in 1..l : h[i] = t[i]
    OBVIOUS
  <2>1. (\A i \in 1..Len(h) : h[i] = part[i]) => h = part
    BY <1>1, <1>3, SeqEqual
  <2> QED
    BY <1>3, <2>1
<1>5. l = n /\ (\A i \in 1..l : h[i] = t[i]) => h = t
  BY <1>1, SeqEqual
<1>6. IsStrictPrefix(h, t) <=> l <= n /\ h = part /\ h # t
  BY <1>2 DEF IsStrictPrefix, IsPrefix, part
<1>7. l < n => h # t
  BY <1>1
<1>8. l <= n /\ l # n <=> l < n
  <2> HIDE DEF l, n
  <2> QED
    BY <1>1
<1>9. l < n => l <= n
  BY <1>8
<1> HIDE DEF l, n
<1> QED
  BY <1>4, <1>5, <1>6, <1>7, <1>8, <1>9 DEF l, n

-----------------------------------------------------------------------------
\* The two marks are lines.
LEMMA EmptyAndMark == << >> \in Lines /\ <<"!">> \in Lines
<1>1. "!" \in Characters
  BY DEF Characters
<1> QED
  BY <1>1, SingleElement, EmptySeq DEF Lines

\* The scopes a line may have: none, or some characters in parentheses.
LEMMA ScopeIs ==
    ASSUME NEW t \in Lines, NEW v \in Scopes(t)
    PROVE  /\ v \in Lines
           /\ \/ Len(v) = 0
              \/ /\ Len(v) >= 3 /\ v[1] = "(" /\ v[Len(v)] = ")"
                 /\ \A i \in 2..(Len(v) - 1) : v[i] \in ScopeCharacters
<1>1. CASE v = << >>
  <2>1. v \in Lines
    BY <1>1 DEF Lines
  <2>2. Len(v) = 0
    BY <1>1, EmptySeq
  <2> QED
    BY <2>1, <2>2
<1>2. CASE v # << >>
  <2>1. PICK w \in Seq(ScopeCharacters) \ {<< >>} : v = InParentheses(w)
    BY <1>2 DEF Scopes
  <2>2. w \in Lines /\ Len(w) \in Nat
    <3>1. ScopeCharacters \subseteq Characters
      BY DEF ScopeCharacters, Characters
    <3> QED
      BY <3>1, LenProperties DEF Lines
  <2>3. /\ v \in Lines /\ Len(v) = Len(w) + 2
        /\ v[1] = "(" /\ v[Len(w) + 2] = ")"
        /\ \A k \in 1..Len(w) : v[k + 1] = w[k]
    BY <2>1, <2>2, ParenthesesAre
  <2>4. Len(w) # 0
    BY <2>1, EmptySeq
  <2>5. ASSUME NEW i \in 2..(Len(v) - 1) PROVE v[i] \in ScopeCharacters
    <3>1. PICK k \in 1..Len(w) : i = k + 1
      <4>1. i - 1 \in 1..Len(w) /\ i = (i - 1) + 1
        BY <2>2, <2>3
      <4> QED
        BY <4>1
    <3>2. w[k] \in ScopeCharacters
      BY <3>1, ElementOfSeq
    <3> QED
      BY <2>3, <3>1, <3>2
  <2>6. Len(v) >= 3
    BY <2>2, <2>3, <2>4
  <2> QED
    BY <2>3, <2>5, <2>6
<1> QED
  BY <1>1, <1>2

\* What begins with a head and ends well can be read.
LEMMA HeadGivesReading ==
    ASSUME NEW t \in Lines, NEW v \in Scopes(t), NEW b \in Marks,
           Continues(t, HeadOf(v, b))
    PROVE  \E p, e \in Nat : Reads(t, p, e)
<1> DEFINE m == Len(v)
           l == Len(b)
           n == Len(t)
           h == HeadOf(v, b)
           p == m + l + 2
           e == m + 1
<1>1. /\ v \in Lines
      /\ \/ m = 0
         \/ /\ m >= 3 /\ v[1] = "(" /\ v[m] = ")"
            /\ \A i \in 2..(m - 1) : v[i] \in ScopeCharacters
  BY ScopeIs
<1>2. b \in Lines /\ (l = 0 \/ (l = 1 /\ b[1] = "!"))
  <2>3. << >> \in Lines /\ <<"!">> \in Lines
    BY EmptyAndMark
  <2>1. CASE b = << >>
    <3>1. b \in Lines
      BY <2>1, <2>3
    <3>2. l = 0
      BY <2>1, EmptySeq
    <3> QED
      BY <3>1, <3>2
  <2>2. CASE b = <<"!">>
    <3>1. b \in Lines
      BY <2>2, <2>3
    <3>2. l = 1 /\ b[1] = "!"
      BY <2>2
    <3> QED
      BY <3>1, <3>2
  <2> QED
    BY <2>1, <2>2, <2>3 DEF Marks
<1>3. m \in Nat /\ l \in Nat /\ n \in Nat
  BY <1>1, <1>2, LenProperties DEF Lines
<1>4. /\ h \in Lines /\ Len(h) = m + l + 3
      /\ h[1] = "type"
      /\ \A k \in 1..m : h[k + 1] = v[k]
      /\ \A k \in 1..l : h[m + 1 + k] = b[k]
      /\ h[m + l + 2] = ":"
      /\ h[m + l + 3] = " "
  BY <1>1, <1>2, HeadIs
<1>5. Len(h) < n /\ \A i \in 1..Len(h) : h[i] = t[i]
  BY <1>4, StrictPrefixIs DEF Continues
<1> HIDE DEF h, m, l, n
<1>6. \A i \in 1..(m + l + 3) : h[i] = t[i]
  BY <1>4, <1>5
<1>7. /\ p \in Nat /\ e \in Nat /\ p + 2 <= n /\ p + 2 = m + l + 4
      /\ p \in 1..(m + l + 3) /\ p + 1 \in 1..(m + l + 3) /\ p + 1 = m + l + 3
      /\ 1 \in 1..(m + l + 3) /\ e \in 1..(m + l + 3)
  <2>1. m + l + 3 < n
    BY <1>4, <1>5
  <2> QED
    BY <1>3, <2>1
<1>8. t[p] = ":" /\ t[1] = "type"
  BY <1>4, <1>6, <1>7
<1>9. t[p + 1] = " "
  BY <1>4, <1>6, <1>7
<1>10. t[p + 2] # " "
  <2>1. Len(h) + 1 = p + 2
    <3>1. Len(h) = m + l + 3
      BY <1>4
    <3> HIDE DEF h
    <3> QED
      BY <1>3, <3>1
  <2> QED
    BY <2>1 DEF h, Continues
<1>11. t[n] # " "
  BY DEF Continues, Last, n
<1>12. e = p - 1 \/ (e = p - 2 /\ t[p - 1] = "!")
  <2>1. CASE l = 0
    <3>1. l = 0
      BY <2>1
    <3> QED
      BY <1>3, <3>1
  <2>2. CASE l = 1 /\ b[1] = "!"
    <3> DEFINE i == m + 1 + 1
    <3>1. i \in 1..(m + l + 3) /\ i = p - 1 /\ e = p - 2 /\ 1 \in 1..l
      <4>1. l = 1
        BY <2>2
      <4> QED
        BY <1>3, <4>1
    <3>2. h[i] = b[1]
      BY <1>4, <3>1
    <3> HIDE DEF i
    <3> QED
      BY <1>6, <2>2, <3>1, <3>2
  <2> QED
    BY <1>2, <2>1, <2>2
<1>13. e = 1 \/ /\ e >= 4 /\ t[2] = "(" /\ t[e] = ")"
                /\ \A i \in 3..(e - 1) : t[i] \in ScopeCharacters
  <2>1. CASE m = 0
    <3>1. e = 1
      BY <2>1
    <3> QED
      BY <3>1
  <2>2. CASE /\ m >= 3 /\ v[1] = "(" /\ v[m] = ")"
             /\ \A i \in 2..(m - 1) : v[i] \in ScopeCharacters
    <3>1. 1 \in 1..m /\ m \in 1..m /\ e >= 4 /\ 1 + 1 = 2 /\ 2 \in 1..(m + l + 3)
      <4>1. m >= 3
        BY <2>2
      <4> QED
        BY <1>3, <4>1
    <3>2. t[2] = "("
      <4>1. h[1 + 1] = v[1]
        BY <1>4, <3>1
      <4> QED
        BY <1>6, <2>2, <3>1, <4>1
    <3>3. t[e] = ")"
      <4>1. h[m + 1] = v[m]
        BY <1>4, <3>1
      <4> QED
        BY <1>6, <1>7, <2>2, <4>1
    <3>4. ASSUME NEW i \in 3..(e - 1) PROVE t[i] \in ScopeCharacters
      <4>1. PICK k \in 2..(m - 1) : i = k + 1
        <5>1. i - 1 \in 2..(m - 1) /\ i = (i - 1) + 1
          BY <1>3
        <5> QED
          BY <5>1
      <4>2. k \in 1..m /\ i \in 1..(m + l + 3)
        BY <1>3, <4>1
      <4>3. h[k + 1] = v[k]
        BY <1>4, <4>2
      <4>4. v[k] \in ScopeCharacters
        BY <2>2
      <4> QED
        BY <1>6, <4>1, <4>2, <4>3, <4>4
    <3> QED
      BY <3>1, <3>2, <3>3, <3>4
  <2> QED
    BY <1>1, <2>1, <2>2
<1> HIDE DEF p, e
<1>14. Reads(t, p, e)
  BY <1>7, <1>8, <1>9, <1>10, <1>11, <1>12, <1>13 DEF Reads, n
<1> QED
  BY <1>7, <1>14

\* What can be read begins with a head and ends well.
LEMMA ReadingGivesHead ==
    ASSUME NEW t \in Lines, NEW p \in Nat, NEW e \in Nat, Reads(t, p, e)
    PROVE  \E v \in Scopes(t), b \in Marks : Continues(t, HeadOf(v, b))
<1> DEFINE n == Len(t)
           w == SubSeq(t, 3, e - 1)
           v == IF e = 1 THEN << >> ELSE InParentheses(w)
           b == IF e = p - 1 THEN << >> ELSE <<"!">>
           h == HeadOf(v, b)
<1>0. t \in Seq(Characters)
  BY DEF Lines
<1>1. n \in Nat
  BY <1>0, LenProperties
<1>2. /\ p + 2 <= n
      /\ e = p - 1 \/ e = p - 2
      /\ e = 1 \/ e >= 4
  BY DEF Reads, n
<1>3. t[p] = ":" /\ t[p + 1] = " " /\ t[1] = "type"
  BY DEF Reads
<1>4. t[p + 2] # " " /\ t[n] # " "
  BY DEF Reads, n
<1>5. e # p - 1 => t[p - 1] = "!"
  BY DEF Reads
<1>6. e # 1 => /\ t[2] = "(" /\ t[e] = ")"
               /\ \A i \in 3..(e - 1) : t[i] \in ScopeCharacters
  BY DEF Reads
<1> HIDE DEF n
<1>7. e >= 1 /\ e <= p - 1 /\ p >= 2 /\ p <= n
  BY <1>1, <1>2
\* The scope.
<1>8. /\ v \in Scopes(t) /\ v \in Lines /\ Len(v) = e - 1
      /\ \A k \in 1..(e - 1) : v[k] = t[k + 1]
  <2>1. CASE e = 1
    <3>1. v = << >> /\ v \in Lines /\ Len(v) = 0
      BY <2>1, EmptyAndMark, EmptySeq
    <3>3. v \in Scopes(t)
      BY <3>1 DEF Scopes
    <3> HIDE DEF v
    <3>4. e - 1 = 0 /\ 1..(e - 1) = {}
      BY <2>1
    <3> QED
      BY <3>1, <3>3, <3>4
  <2>2. CASE e # 1
    <3> DEFINE j == e - 1
               l == e - 3
    <3>1. /\ e >= 4 /\ j \in Nat /\ l \in Nat /\ l >= 1 /\ j = e - 1 /\ j - 3 + 1 = l
          /\ 3 <= j /\ j <= n /\ 3 \in 1..n /\ j \in 1..n /\ l + 2 = e - 1
      BY <1>1, <1>2, <1>7, <2>2
    <3>2. v = InParentheses(w)
      BY <2>2
    <3>3. w = SubSeq(t, 3, j)
      OBVIOUS
    <3> HIDE DEF v, w, j, l
    <3>4. \A i \in 3..j : t[i] \in ScopeCharacters
      BY <1>6, <2>2, <3>1
    <3>5. /\ w \in Seq(ScopeCharacters)
          /\ Len(w) = IF 3 <= j THEN j - 3 + 1 ELSE 0
          /\ \A k \in 1..(j - 3 + 1) : w[k] = t[3 + k - 1]
      BY <3>1, <3>3, <3>4, SubSeqProperties
    <3>6. Len(w) = l
      BY <3>1, <3>5
    <3>7. \A k \in 1..l : w[k] = t[k + 2]
      <4>1. \A k \in 1..l : 3 + k - 1 = k + 2
        BY <3>1
      <4> QED
        BY <3>1, <3>5, <4>1
    <3>8. w \in Lines
      <4>1. ScopeCharacters \subseteq Characters
        BY DEF ScopeCharacters, Characters
      <4> QED
        BY <3>5, <4>1 DEF Lines
    <3>9. /\ v \in Lines /\ Len(v) = l + 2
          /\ v[1] = "(" /\ v[l + 2] = ")"
          /\ \A k \in 1..l : v[k + 1] = w[k]
      BY <3>2, <3>6, <3>8, ParenthesesAre
    <3>10. w # << >>
      BY <3>1, <3>6, EmptySeq
    <3>11. v \in Scopes(t)
      <4>1. DOMAIN t = 1..n
        BY <1>0, LenProperties DEF n
      <4>2. w \in {SubSeq(t, 3, y) : y \in DOMAIN t}
        BY <3>1, <3>3, <4>1
      <4> QED
        BY <3>2, <3>5, <3>10, <4>2 DEF Scopes
    <3>12. ASSUME NEW k \in 1..(e - 1) PROVE v[k] = t[k + 1]
      <4>1. CASE k = 1
        <5>1. 1 + 1 = 2
          OBVIOUS
        <5> QED
          BY <1>6, <2>2, <3>9, <4>1, <5>1
      <4>2. CASE k = l + 2
        <5>1. k + 1 = e
          BY <3>1, <4>2
        <5> QED
          BY <1>6, <2>2, <3>9, <4>2, <5>1
      <4>3. CASE k # 1 /\ k # l + 2
        <5>1. PICK i \in 1..l : k = i + 1
          <6>1. k - 1 \in 1..l /\ k = (k - 1) + 1
            BY <3>1, <4>3
          <6> QED
            BY <6>1
        <5>2. i + 2 = k + 1
          BY <3>1, <5>1
        <5> QED
          BY <3>7, <3>9, <5>1, <5>2
      <4> QED
        BY <4>1, <4>2, <4>3
    <3> QED
      BY <3>1, <3>9, <3>11, <3>12
  <2> QED
    BY <2>1, <2>2
\* The mark.
<1>9. /\ b \in Marks /\ b \in Lines /\ Len(b) = p - 1 - e
      /\ \A k \in 1..(p - 1 - e) : b[k] = t[e + k]
  <2>1. CASE e = p - 1
    <3>1. b = << >> /\ b \in Lines /\ Len(b) = 0 /\ b \in Marks
      BY <2>1, EmptyAndMark, EmptySeq DEF Marks
    <3> HIDE DEF b
    <3>2. p - 1 - e = 0 /\ 1..(p - 1 - e) = {}
      BY <2>1
    <3> QED
      BY <3>1, <3>2
  <2>2. CASE e # p - 1
    <3>1. b = <<"!">>
      BY <2>2
    <3>2. b \in Lines /\ Len(b) = 1 /\ b[1] = "!" /\ b \in Marks
      BY <3>1, EmptyAndMark DEF Marks
    <3> HIDE DEF b
    <3>3. p - 1 - e = 1 /\ e + 1 = p - 1
      BY <1>2, <2>2
    <3>4. \A k \in 1..1 : k = 1
      OBVIOUS
    <3> QED
      BY <1>5, <2>2, <3>2, <3>3, <3>4
  <2> QED
    BY <2>1, <2>2
<1> HIDE DEF v, b
<1> DEFINE m == e - 1
           l == p - 1 - e
<1>10. /\ h \in Lines /\ Len(h) = m + l + 3
       /\ h[1] = "type"
       /\ \A k \in 1..m : h[k + 1] = v[k]
       /\ \A k \in 1..l : h[m + 1 + k] = b[k]
       /\ h[m + l + 2] = ":"
       /\ h[m + l + 3] = " "
  <2>1. /\ h \in Lines /\ Len(h) = Len(v) + Len(b) + 3
        /\ h[1] = "type"
        /\ \A k \in 1..Len(v) : h[k + 1] = v[k]
        /\ \A k \in 1..Len(b) : h[Len(v) + 1 + k] = b[k]
        /\ h[Len(v) + Len(b) + 2] = ":"
        /\ h[Len(v) + Len(b) + 3] = " "
    BY <1>8, <1>9, HeadIs
  <2>2. Len(v) = m /\ Len(b) = l
    BY <1>8, <1>9
  <2> HIDE DEF h, m, l
  <2> QED
    BY <2>1, <2>2
<1>11. m + l + 3 = p + 1 /\ m + l + 2 = p /\ m \in Nat /\ l \in Nat /\ m + 1 = e
  BY <1>2, <1>7
<1> HIDE DEF h, w
<1>12. ASSUME NEW i \in 1..(p + 1) PROVE h[i] = t[i]
  <2>1. CASE i = 1
    BY <1>3, <1>10, <2>1
  <2>2. CASE i \in 2..e
    <3>1. PICK k \in 1..m : i = k + 1
      <4>1. i - 1 \in 1..m /\ i = (i - 1) + 1
        BY <1>7, <2>2
      <4> QED
        BY <4>1
    <3> QED
      BY <1>8, <1>10, <3>1
  <2>3. CASE i \in (e + 1)..(p - 1)
    <3>1. PICK k \in 1..l : i = e + k
      <4>1. i - e \in 1..l /\ i = e + (i - e)
        BY <1>7, <2>3
      <4> QED
        BY <4>1
    <3>2. h[e + k] = b[k]
      <4> HIDE DEF m
      <4> QED
        BY <1>10, <1>11
    <3> QED
      BY <1>9, <3>1, <3>2
  <2>4. CASE i = p
    BY <1>3, <1>10, <1>11, <2>4
  <2>5. CASE i = p + 1
    BY <1>3, <1>10, <1>11, <2>5
  <2>6. i = 1 \/ i \in 2..e \/ i \in (e + 1)..(p - 1) \/ i = p \/ i = p + 1
    BY <1>7
  <2> QED
    BY <2>1, <2>2, <2>3, <2>4, <2>5, <2>6
<1> HIDE DEF m, l
<1>13. Len(h) = p + 1
  BY <1>10, <1>11
<1>14. IsStrictPrefix(h, t)
  <2>1. p + 1 < n
    BY <1>1, <1>2
  <2> QED
    BY <1>10, <1>12, <1>13, <2>1, StrictPrefixIs DEF n
<1>15. Continues(t, h)
  <2>1. p + 1 + 1 = p + 2
    OBVIOUS
  <2> QED
    BY <1>4, <1>13, <1>14, <2>1 DEF Continues, Last, n
<1> QED
  BY <1>8, <1>9, <1>15 DEF h

\* Subjects are read as the grammar does, however long they are.
LEMMA SubjectsAlwaysConventional ==
    ASSUME NEW t \in Lines
    PROVE  SubjectIsConventional(t)
<1>1. ValidSubject(t) <=>
          \E v \in Scopes(t), b \in Marks : Continues(t, HeadOf(v, b))
  <2>1. ValidSubject(t) <=> \E p, e \in Nat : Reads(t, p, e)
    BY SubjectReads
  <2> QED
    BY <2>1, HeadGivesReading, ReadingGivesHead
<1> QED
  BY <1>1 DEF SubjectIsConventional

\* validate_conventional_subject reads every subject as the grammar does.
THEOREM SubjectsFollowTheGrammar == Spec => []SubjectsAreConventional
<1>1. Given => SubjectsAreConventional
  BY SubjectsAlwaysConventional DEF Given, SubjectsAreConventional
<1> QED
  BY <1>1, AlwaysGiven, PTL
=============================================================================
