------------------------- MODULE RequestLoopProofs -------------------------
(***************************************************************************)
(* The prompts, the number of requests and the token usage of one run, for *)
(* every limit, prompt, diagnostic and reply.                              *)
(***************************************************************************)
EXTENDS RequestLoop, RecursionProofs, FiniteSetTheorems, TLAPS

LEMMA DigitsType ==
    ASSUME NEW n \in Nat
    PROVE  Digits(n) \in Nat
<1>1. IsFiniteSet(1..n)
  BY FS_Interval
<1>2. IsFiniteSet({k \in 1..n : 10^k <= n})
  BY <1>1, FS_Subset
<1>3. Cardinality({k \in 1..n : 10^k <= n}) \in Nat
  BY <1>2, FS_CardinalityType
<1> QED
  BY <1>3 DEF Digits

\* A repair adds less than the reserve, whatever the diagnostic.
LEMMA RepairFitsReserve ==
    ASSUME NEW diagnostic \in Nat
    PROVE  /\ RepairSuffix(diagnostic) \in Nat
           /\ RepairSuffix(diagnostic) <= REPAIR_PROMPT_RESERVE_BYTES
  BY DEF RepairSuffix, RepairText, OmittedDiagnostic,
         MAX_REPAIR_ERROR_JSON_BYTES, REPAIR_PROMPT_RESERVE_BYTES

\* So what may be sent with the reserve in hand may be sent with the repair.
LEMMA RepairMayBeSent ==
    ASSUME NEW user \in Nat, NEW diagnostic \in Diagnostics,
           ValidRepairablePromptSize(user)
    PROVE  ValidPromptSize(user + RepairSuffix(diagnostic))
<1>1. diagnostic \in Nat
  BY RequestAssumption
<1> QED
  BY <1>1, RepairFitsReserve, RequestAssumption
  DEF ValidRepairablePromptSize, ValidPromptSize, REPAIR_PROMPT_RESERVE_BYTES

\* UsageTotals::record keeps its counters within their types.
LEMMA RecordType ==
    ASSUME NEW report \in Usages,
           NEW totals \in [requests : Nat, tokens : [Counters -> 0..MaxU64],
                           reports : [Counters -> Nat]]
    PROVE  Record(totals, report)
               \in [requests : Nat, tokens : [Counters -> 0..MaxU64],
                    reports : [Counters -> Nat]]
<1>1. report \in [Counters -> Nat \cup {Missing}]
  BY RequestAssumption
<1>2. \A c \in Counters :
          (IF report[c] = Missing THEN totals.tokens[c]
           ELSE Least(totals.tokens[c] + report[c], MaxU64)) \in 0..MaxU64
  BY <1>1, RequestAssumption DEF Least
<1>3. \A c \in Counters :
          (IF report[c] = Missing THEN totals.reports[c]
           ELSE totals.reports[c] + 1) \in Nat
  BY <1>1
<1> QED
  BY <1>2, <1>3 DEF Record

\* What one request may do, when its prompt is small enough to be sent.
LEMMA AskOnce ==
    ASSUME TypeOK, NEW prompt \in Nat, ValidPromptSize(prompt),
           NEW ACTION Rejected, Ask(prompt, Rejected)
    PROVE  /\ asked' = asked + 1
           /\ usage' \in [requests : Nat, tokens : [Counters -> 0..MaxU64],
                          reports : [Counters -> Nat]]
           /\ heard' \in Seq(Usages)
           /\ \/ pc' = "done" /\ result' = "no_answer"
              \/ pc' = "review" /\ result' = result
              \/ Rejected
<1>1. PICK reply \in Replies :
          /\ asked' = asked + 1
          /\ \/ /\ ~Answers(reply)
                /\ End("no_answer")
                /\ UNCHANGED <<usage, heard>>
             \/ /\ Answers(reply)
                /\ usage' = Record(usage, reply.usage)
                /\ heard' = Append(heard, reply.usage)
                /\ IF reply.valid
                   THEN pc' = "review" /\ UNCHANGED result
                   ELSE Rejected
  BY DEF Ask
<1>2. reply.usage \in Usages
  BY DEF Replies
<1>3. CASE ~Answers(reply)
  BY <1>1, <1>3 DEF End, TypeOK
<1>4. CASE Answers(reply)
  <2>1. usage' \in [requests : Nat, tokens : [Counters -> 0..MaxU64],
                    reports : [Counters -> Nat]]
    <3>1. usage' = Record(usage, reply.usage)
      BY <1>1, <1>4
    <3>2. usage \in [requests : Nat, tokens : [Counters -> 0..MaxU64],
                     reports : [Counters -> Nat]]
      BY DEF TypeOK
    <3> QED
      BY <1>2, <3>1, <3>2, RecordType
  <2>2. heard' \in Seq(Usages)
    <3>1. heard' = Append(heard, reply.usage)
      BY <1>1, <1>4
    <3>2. heard \in Seq(Usages) /\ reply.usage \in Usages
      BY <1>2 DEF TypeOK
    <3> QED
      BY <3>1, <3>2, AppendProperties
  <2> QED
    BY <1>1, <1>4, <2>1, <2>2
<1> QED
  BY <1>3, <1>4

LEMMA InitInvariant == Init => IInv
  BY RequestAssumption
  DEF Init, IInv, TypeOK, Zero, AcceptedPromptsCanBeRepaired, RequestsBounded

LEMMA StepInvariant == IInv /\ [Next]_vars => IInv'
<1> SUFFICES ASSUME IInv, [Next]_vars
             PROVE  IInv'
  OBVIOUS
<1> USE RequestAssumption
<1>1. CASE CheckPrompt
  BY <1>1 DEF CheckPrompt, End, IInv, TypeOK, AcceptedPromptsCanBeRepaired,
              RequestsBounded, ValidRepairablePromptSize, ValidPromptSize
<1>2. CASE FirstRequest
  <2>0. /\ pc = "request"
        /\ UNCHANGED <<plan_prompt, active_prompt, retry_attempt>>
    BY <1>2 DEF FirstRequest
  <2>1. active_prompt \in Nat /\ ValidPromptSize(active_prompt)
    BY <2>0 DEF IInv, TypeOK, ValidRepairablePromptSize
  <2>2. Ask(active_prompt, pc' = "repair" /\ UNCHANGED result)
    BY <1>2 DEF FirstRequest
  <2>3. /\ asked' = asked + 1
        /\ usage' \in [requests : Nat, tokens : [Counters -> 0..MaxU64],
                       reports : [Counters -> Nat]]
        /\ heard' \in Seq(Usages)
        /\ \/ pc' = "done" /\ result' = "no_answer"
           \/ pc' = "review" /\ result' = result
           \/ pc' = "repair" /\ UNCHANGED result
    BY <2>1, <2>2, AskOnce DEF IInv
  <2> QED
    BY <2>0, <2>3 DEF IInv, TypeOK, AcceptedPromptsCanBeRepaired,
                      RequestsBounded, ValidRepairablePromptSize, ValidPromptSize
<1>3. CASE RepairRequest
  <2>1. PICK diagnostic \in Diagnostics :
            /\ pc = "repair"
            /\ IF RepairSuffix(diagnostic) > REPAIR_PROMPT_RESERVE_BYTES
               THEN End("repair_too_large") /\ UNCHANGED <<usage, asked, heard>>
               ELSE Ask(active_prompt + RepairSuffix(diagnostic),
                        End("invalid_plan"))
            /\ UNCHANGED <<plan_prompt, active_prompt, retry_attempt>>
    BY <1>3 DEF RepairRequest
  <2>2. /\ RepairSuffix(diagnostic) \in Nat
        /\ RepairSuffix(diagnostic) <= REPAIR_PROMPT_RESERVE_BYTES
    BY RepairFitsReserve
  <2>3. active_prompt + RepairSuffix(diagnostic) \in Nat
    BY <2>2 DEF IInv, TypeOK
  <2>4. ValidPromptSize(active_prompt + RepairSuffix(diagnostic))
    BY <2>1, RepairMayBeSent DEF IInv, TypeOK
  <2>5. Ask(active_prompt + RepairSuffix(diagnostic), End("invalid_plan"))
    BY <2>1, <2>2 DEF REPAIR_PROMPT_RESERVE_BYTES
  <2>6. /\ asked' = asked + 1
        /\ usage' \in [requests : Nat, tokens : [Counters -> 0..MaxU64],
                       reports : [Counters -> Nat]]
        /\ heard' \in Seq(Usages)
        /\ \/ pc' = "done" /\ result' = "no_answer"
           \/ pc' = "review" /\ result' = result
           \/ End("invalid_plan")
    BY <2>3, <2>4, <2>5, AskOnce DEF IInv
  <2> QED
    BY <2>1, <2>6 DEF End, IInv, TypeOK, AcceptedPromptsCanBeRepaired,
                      RequestsBounded
<1>4. CASE Retry
  <2>1. RetryPlanPrompt(plan_prompt, retry_attempt + 1) \in Nat
    <3>1. retry_attempt + 1 \in Nat
      BY DEF IInv, TypeOK
    <3>2. Digits(retry_attempt + 1) \in Nat
      BY <3>1, DigitsType
    <3> QED
      BY <3>2 DEF RetryPlanPrompt, RetryText, IInv, TypeOK
  <2> QED
    BY <1>4, <2>1 DEF Retry, IInv, TypeOK, AcceptedPromptsCanBeRepaired,
                      RequestsBounded
<1>5. CASE Decide
  BY <1>5 DEF Decide, End, IInv, TypeOK, AcceptedPromptsCanBeRepaired,
              RequestsBounded
<1>6. CASE UNCHANGED vars
  BY <1>6 DEF vars, IInv, TypeOK, AcceptedPromptsCanBeRepaired,
              RequestsBounded, ValidRepairablePromptSize, ValidPromptSize
<1> QED
  BY <1>1, <1>2, <1>3, <1>4, <1>5, <1>6 DEF Next

\* The inductive invariant of the request loop (run and request_validated_plan)
\* holds in every reachable state.
THEOREM LoopInvariant == Spec => []IInv
  BY InitInvariant, StepInvariant, PTL DEF Spec

\* README.md:133: whatever is wrong with a reply, the repair of a prompt that
\* was accepted is never too long to be sent, in no attempt.
THEOREM RepairsAlwaysFit == Spec => []AcceptedPromptsCanBeRepaired
<1>1. IInv => AcceptedPromptsCanBeRepaired
  BY DEF IInv
<1> QED
  BY <1>1, LoopInvariant, PTL

\* README.md:133: a planning attempt makes at most two requests.
THEOREM OneRepairAtMost == Spec => []RequestsBounded
<1>1. IInv => RequestsBounded
  BY DEF IInv
<1> QED
  BY <1>1, LoopInvariant, PTL

\* The prompt of one attempt.
AttemptPrompt(attempt) ==
    IF attempt = 0 THEN plan_prompt ELSE RetryPlanPrompt(plan_prompt, attempt)

\* What makes RetriesStayPossible inductive: the prompt in use is that of the
\* attempt, it was accepted when the requests began, and so was that of the
\* attempt before.
RetryInv ==
    /\ TypeOK
    /\ active_prompt = AttemptPrompt(retry_attempt)
    /\ pc # "done" => result = "none"
    /\ pc \in {"request", "repair", "review"} =>
          ValidRepairablePromptSize(active_prompt)
    /\ pc = "check" /\ retry_attempt >= 1 =>
          ValidRepairablePromptSize(AttemptPrompt(retry_attempt - 1))
    /\ RetriesStayPossible

LEMMA RetryInit == Init => RetryInv
<1>1. Init => TypeOK
  BY InitInvariant DEF IInv
<1> QED
  BY <1>1 DEF Init, RetryInv, AttemptPrompt, RetriesStayPossible

\* Of two retries that both have a number before theirs, the later is longer
\* by the digits of its number alone.
LEMMA OnlyDigitsDiffer ==
    ASSUME NEW prompt \in Nat, NEW attempt \in Nat, NEW before \in Nat,
           ValidRepairablePromptSize(RetryPlanPrompt(prompt, before)),
           ~ ValidRepairablePromptSize(RetryPlanPrompt(prompt, attempt))
    PROVE  Digits(attempt) > Digits(before)
<1>1. Digits(attempt) \in Nat /\ Digits(before) \in Nat
  BY DigitsType
<1> QED
  BY <1>1, RequestAssumption
  DEF ValidRepairablePromptSize, ValidPromptSize, RetryPlanPrompt, RetryText,
      REPAIR_PROMPT_RESERVE_BYTES

LEMMA RetryStep == RetryInv /\ IInv /\ IInv' /\ [Next]_vars => RetryInv'
<1> SUFFICES ASSUME RetryInv, IInv, IInv', [Next]_vars
             PROVE  RetryInv'
  OBVIOUS
<1>1. TypeOK /\ TypeOK'
  BY DEF IInv
<1>2. CASE Retry
  <2>1. /\ pc = "review" /\ pc' = "check"
        /\ plan_prompt' = plan_prompt
        /\ retry_attempt' = retry_attempt + 1
        /\ active_prompt' = RetryPlanPrompt(plan_prompt, retry_attempt + 1)
        /\ result' = result
    BY <1>2 DEF Retry
  <2>2. retry_attempt \in Nat
    BY <1>1 DEF TypeOK
  <2>3. active_prompt' = AttemptPrompt(retry_attempt)'
    BY <2>1, <2>2 DEF AttemptPrompt, RetryPlanPrompt, Digits
  <2>4. AttemptPrompt(retry_attempt - 1)' = AttemptPrompt(retry_attempt)
    BY <2>1, <2>2 DEF AttemptPrompt, RetryPlanPrompt, Digits
  <2>5. ValidRepairablePromptSize(AttemptPrompt(retry_attempt - 1)')
    BY <2>1, <2>4 DEF RetryInv
  <2>6. ValidRepairablePromptSize(AttemptPrompt(retry_attempt - 1))'
    BY <2>5 DEF ValidRepairablePromptSize, ValidPromptSize
  <2>7. result' = "none"
    BY <2>1 DEF RetryInv
  <2> QED
    BY <1>1, <2>1, <2>3, <2>6, <2>7 DEF RetryInv, RetriesStayPossible
<1>3. CASE UNCHANGED <<plan_prompt, active_prompt, retry_attempt>>
  <2>1. /\ AttemptPrompt(retry_attempt)' = AttemptPrompt(retry_attempt)
        /\ AttemptPrompt(retry_attempt - 1)' = AttemptPrompt(retry_attempt - 1)
        /\ Digits(retry_attempt)' = Digits(retry_attempt)
        /\ Digits(retry_attempt - 1)' = Digits(retry_attempt - 1)
        /\ ValidRepairablePromptSize(active_prompt)'
               = ValidRepairablePromptSize(active_prompt)
    BY <1>3 DEF AttemptPrompt, RetryPlanPrompt, Digits,
                ValidRepairablePromptSize, ValidPromptSize
  <2>2. active_prompt' = AttemptPrompt(retry_attempt)'
    BY <1>3, <2>1 DEF RetryInv
  <2>3. CASE CheckPrompt
    <3>1. CASE ValidRepairablePromptSize(active_prompt)
      <4>1. pc' = "request" /\ result' = "none"
        BY <2>3, <3>1 DEF CheckPrompt, RetryInv
      <4> QED
        BY <1>1, <2>1, <2>2, <3>1, <4>1 DEF RetryInv, RetriesStayPossible
    <3>2. CASE ~ ValidRepairablePromptSize(active_prompt)
      <4>1. pc = "check" /\ pc' = "done" /\ result' = "too_large"
        BY <2>3, <3>2 DEF CheckPrompt, End
      <4>2. ASSUME ~ retry_attempt <= 1
            PROVE  Digits(retry_attempt) > Digits(retry_attempt - 1)
        <5>1. /\ retry_attempt \in Nat /\ retry_attempt - 1 \in Nat
              /\ retry_attempt >= 1 /\ retry_attempt # 0 /\ retry_attempt - 1 # 0
              /\ plan_prompt \in Nat
          BY <1>1, <4>2, RequestAssumption DEF TypeOK
        <5>2. ~ ValidRepairablePromptSize(RetryPlanPrompt(plan_prompt, retry_attempt))
          BY <3>2, <5>1 DEF RetryInv, AttemptPrompt
        <5>3. ValidRepairablePromptSize(RetryPlanPrompt(plan_prompt, retry_attempt - 1))
          BY <4>1, <5>1 DEF RetryInv, AttemptPrompt
        <5> QED
          BY <5>1, <5>2, <5>3, OnlyDigitsDiffer
      <4>3. RetriesStayPossible'
        BY <1>3, <2>1, <4>2 DEF RetriesStayPossible
      <4> QED
        BY <1>1, <2>2, <4>1, <4>3 DEF RetryInv
    <3> QED
      BY <3>1, <3>2
  <2>4. CASE FirstRequest \/ RepairRequest
    <3>1. /\ pc \in {"request", "repair"}
          /\ pc' \in {"repair", "review", "done"}
          /\ pc' # "done" => result' = result
          /\ result' # "too_large"
      BY <2>4 DEF FirstRequest, RepairRequest, Ask, End, RetryInv
    <3> QED
      BY <1>1, <2>1, <2>2, <3>1 DEF RetryInv, RetriesStayPossible
  <2>5. CASE Decide
    BY <1>1, <2>1, <2>2, <2>5 DEF Decide, End, RetryInv, RetriesStayPossible
  <2>6. CASE UNCHANGED vars
    <3>1. pc' = pc /\ result' = result /\ retry_attempt' = retry_attempt
      BY <2>6 DEF vars
    <3>2. ValidRepairablePromptSize(AttemptPrompt(retry_attempt - 1))'
              = ValidRepairablePromptSize(AttemptPrompt(retry_attempt - 1))
      BY <2>1 DEF ValidRepairablePromptSize, ValidPromptSize
    <3> QED
      BY <1>1, <2>1, <2>2, <3>1, <3>2 DEF RetryInv, RetriesStayPossible
  <2> QED
    BY <1>2, <2>3, <2>4, <2>5, <2>6 DEF Next, Retry
<1> QED
  BY <1>2, <1>3
  DEF Next, CheckPrompt, FirstRequest, RepairRequest, Decide, vars

\* README.md:135: where there was room for one retry there is room for every
\* later one whose number is no longer, whatever was answered in between.
THEOREM RetriesAreAlwaysPossible == Spec => []RetriesStayPossible
<1>1. RetryInv => RetriesStayPossible
  BY DEF RetryInv
<1> QED
  BY <1>1, RetryInit, RetryStep, LoopInvariant, PTL DEF Spec

-----------------------------------------------------------------------------
(* Token usage. *)

\* The sum over a set that one more element was added to.
LEMMA SumOfExtended ==
    ASSUME NEW E, IsFiniteSet(E), NEW F, IsFiniteSet(F),
           NEW k, k \notin E, F = E \cup {k},
           NEW f \in [E -> Nat], NEW g \in [F -> Nat], \A i \in E : g[i] = f[i]
    PROVE  SumFunction(g) = SumFunction(f) + g[k]
<1> DEFINE Good == {T \in SUBSET E : SumFunctionOnSet(f, T) = SumFunctionOnSet(g, T)}
<1>1. k \in F /\ E = F \ {k} /\ E \subseteq F
  OBVIOUS
<1>3. DOMAIN f = E /\ DOMAIN g = F
  OBVIOUS
<1>4. /\ SumFunctionOnSet(f, {}) = 0
      /\ \A T \in SUBSET E : SumFunctionOnSet(f, T) \in Nat
      /\ \A T \in SUBSET E : \A x \in T :
            SumFunctionOnSet(f, T) = f[x] + SumFunctionOnSet(f, T \ {x})
  BY SumStep
<1>5. /\ SumFunctionOnSet(g, {}) = 0
      /\ \A T \in SUBSET F : SumFunctionOnSet(g, T) \in Nat
      /\ \A T \in SUBSET F : \A x \in T :
            SumFunctionOnSet(g, T) = g[x] + SumFunctionOnSet(g, T \ {x})
  BY SumStep
<1>6. {} \in Good
  BY <1>4, <1>5
<1>7. ASSUME NEW T \in SUBSET E, NEW x \in T, T \ {x} \in Good
      PROVE  T \in Good
  <2>1. /\ SumFunctionOnSet(f, T) = f[x] + SumFunctionOnSet(f, T \ {x})
        /\ SumFunctionOnSet(g, T) = g[x] + SumFunctionOnSet(g, T \ {x})
    BY <1>1, <1>4, <1>5
  <2>2. g[x] = f[x]
    OBVIOUS
  <2> QED
    BY <1>7, <2>1, <2>2
<1>8. E \in Good
  <2> HIDE DEF Good
  <2>1. Good \in SUBSET (SUBSET E)
    BY DEF Good
  <2> QED
    BY <1>6, <1>7, <2>1, SumInduction
<1>9. SumFunctionOnSet(g, F) = g[k] + SumFunctionOnSet(f, E)
  BY <1>1, <1>5, <1>8
<1>10. SumFunctionOnSet(f, E) \in Nat /\ g[k] \in Nat
  BY <1>1, <1>4
<1> QED
  BY <1>3, <1>9, <1>10 DEF SumFunction

\* Saturating once more than at the end makes no difference.
LEMMA Saturation ==
    ASSUME NEW a \in Nat, NEW b \in Nat, NEW m \in Nat
    PROVE  Least(Least(a, m) + b, m) = Least(a + b, m)
BY DEF Least

\* UsageTotals::record, for one more reply.
LEMMA RecordAppended ==
    ASSUME TypeOK, UsageIsWhatWasHeard, NEW report \in Usages,
           usage' = Record(usage, report), heard' = Append(heard, report)
    PROVE  UsageIsWhatWasHeard'
<1> DEFINE n == Len(heard)
           k == n + 1
           old == heard
           all == Append(old, report)
<1>1. /\ n \in Nat /\ old \in Seq(Usages) /\ all \in Seq(Usages) /\ Len(all) = n + 1
      /\ DOMAIN old = 1..n /\ DOMAIN all = 1..(n + 1)
      /\ (\A i \in 1..n : all[i] = old[i]) /\ all[n + 1] = report
  <2>1. old \in Seq(Usages)
    BY DEF TypeOK
  <2> QED
    BY <2>1, AppendProperties, LenProperties
<1>2. /\ \A u \in Usages : u \in [Counters -> Nat \cup {Missing}]
      /\ MaxU64 \in Nat /\ Missing \notin Nat
  BY RequestAssumption
<1>3. heard' = all
  OBVIOUS
<1>4. usage.requests = n /\ usage'.requests = n + 1
  BY DEF UsageIsWhatWasHeard, Record
<1> SUFFICES ASSUME NEW c \in Counters
             PROVE  /\ usage'.reports[c] = Cardinality(Reported(c)')
                    /\ usage'.tokens[c] = Least(SumFunction(Tokens(c)'), MaxU64)
  BY <1>1, <1>3, <1>4 DEF UsageIsWhatWasHeard
<1> DEFINE R == {i \in 1..n : old[i][c] # Missing}
           S == {i \in 1..(n + 1) : all[i][c] # Missing}
           f == [i \in 1..n |-> IF i \in R THEN old[i][c] ELSE 0]
           g == [i \in 1..(n + 1) |-> IF i \in S THEN all[i][c] ELSE 0]
<1>5. Reported(c) = R /\ Tokens(c) = f
  BY <1>1 DEF Reported, Tokens
<1>6. Reported(c)' = S /\ Tokens(c)' = g
  BY <1>1, <1>3 DEF Reported, Tokens
<1>7. /\ usage.reports[c] = Cardinality(R)
      /\ usage.tokens[c] = Least(SumFunction(f), MaxU64)
  BY <1>5 DEF UsageIsWhatWasHeard
<1>8. /\ usage'.reports[c] = IF report[c] = Missing THEN usage.reports[c]
                              ELSE usage.reports[c] + 1
      /\ usage'.tokens[c] = IF report[c] = Missing THEN usage.tokens[c]
                             ELSE Least(usage.tokens[c] + report[c], MaxU64)
  BY DEF Record
<1> HIDE DEF old, all, n
<1>9. f \in [1..n -> Nat] /\ g \in [1..(n + 1) -> Nat] /\ \A i \in 1..n : g[i] = f[i]
  <2>1. \A i \in 1..n : old[i] \in Usages
    BY <1>1, ElementOfSeq
  <2>2. \A i \in 1..(n + 1) : all[i] \in Usages
    BY <1>1, ElementOfSeq
  <2>3. \A i \in 1..n : i \in 1..(n + 1) /\ (i \in R <=> i \in S)
    BY <1>1
  <2>4. \A i \in 1..n : (IF i \in R THEN old[i][c] ELSE 0) \in Nat
    BY <1>2, <2>1
  <2>5. \A i \in 1..(n + 1) : (IF i \in S THEN all[i][c] ELSE 0) \in Nat
    BY <1>2, <2>2
  <2> QED
    BY <1>1, <2>3, <2>4, <2>5
<1>10. g[n + 1] = IF report[c] = Missing THEN 0 ELSE report[c]
  <2>1. n + 1 \in 1..(n + 1)
    BY <1>1
  <2> QED
    BY <1>1, <2>1
<1>11. S = IF report[c] = Missing THEN R ELSE R \cup {n + 1}
  <2>1. 1..(n + 1) = 1..n \cup {n + 1}
    BY <1>1
  <2> QED
    BY <1>1, <2>1
<1>15. IsFiniteSet(1..n) /\ IsFiniteSet(1..(n + 1))
  <2>1. n \in Int /\ n + 1 \in Int /\ 1 \in Int
    BY <1>1
  <2> QED
    BY <2>1, FS_Interval
<1>12. IsFiniteSet(R) /\ n + 1 \notin R
  <2>1. R \subseteq 1..n /\ n + 1 \notin 1..n
    BY <1>1
  <2> QED
    BY <1>1, <1>15, <2>1, FS_Subset
<1> HIDE DEF f, g, R, S
<1>13. usage'.reports[c] = Cardinality(S)
  <2>1. Cardinality(R \cup {n + 1}) = Cardinality(R) + 1
    BY <1>12, FS_AddElement
  <2> QED
    BY <1>7, <1>8, <1>11, <2>1
<1>14. usage'.tokens[c] = Least(SumFunction(g), MaxU64)
  <2>1. SumFunction(g) = SumFunction(f) + g[n + 1]
    <3> DEFINE E == 1..n
               F == 1..(n + 1)
               new == n + 1
    <3>1. new \notin E /\ F = E \cup {new}
      BY <1>1
    <3>2. /\ IsFiniteSet(E) /\ IsFiniteSet(F)
          /\ f \in [E -> Nat] /\ g \in [F -> Nat] /\ \A i \in E : g[i] = f[i]
      BY <1>9, <1>15
    <3> HIDE DEF E, F, new
    <3>3. SumFunction(g) = SumFunction(f) + g[new]
      BY <3>1, <3>2, SumOfExtended
    <3> QED
      BY <3>3 DEF new
  <2>2. SumFunction(f) \in Nat
    BY <1>9, <1>15, SumType
  <2>3. CASE report[c] = Missing
    <3>1. SumFunction(g) = SumFunction(f)
      BY <1>10, <2>1, <2>2, <2>3
    <3> QED
      BY <1>7, <1>8, <2>3, <3>1
  <2>4. CASE report[c] # Missing
    <3>1. report[c] \in Nat
      BY <1>2, <2>4
    <3>2. SumFunction(g) = SumFunction(f) + report[c]
      BY <1>10, <2>1, <2>4
    <3>3. usage'.tokens[c] = Least(Least(SumFunction(f), MaxU64) + report[c], MaxU64)
      BY <1>7, <1>8, <2>4
    <3> QED
      BY <1>2, <2>2, <3>1, <3>2, <3>3, Saturation
  <2> QED
    BY <2>3, <2>4
<1> QED
  BY <1>6, <1>13, <1>14

\* Nothing was heard at first.
LEMMA NothingHeard == Init => UsageIsWhatWasHeard
<1> SUFFICES ASSUME Init PROVE UsageIsWhatWasHeard
  OBVIOUS
<1>1. /\ heard = << >> /\ Len(heard) = 0 /\ DOMAIN heard = {}
      /\ usage = [requests |-> 0, tokens |-> Zero, reports |-> Zero]
  BY EmptySeq DEF Init
<1> SUFFICES ASSUME NEW c \in Counters
             PROVE  /\ usage.reports[c] = Cardinality(Reported(c))
                    /\ usage.tokens[c] = Least(SumFunction(Tokens(c)), MaxU64)
  BY <1>1 DEF UsageIsWhatWasHeard
<1> DEFINE f == Tokens(c)
<1>2. Reported(c) = {} /\ f \in [{} -> Nat] /\ DOMAIN f = {}
  BY <1>1 DEF Reported, Tokens
<1> HIDE DEF f
<1>3. SumFunction(f) = 0
  BY <1>2, SumStep, FS_EmptySet DEF SumFunction
<1> QED
  BY <1>1, <1>2, <1>3, FS_EmptySet, RequestAssumption DEF Zero, Least, f

\* A request is recorded if and only if a text came back.
LEMMA StepKeepsUsage ==
    TypeOK /\ UsageIsWhatWasHeard /\ [Next]_vars => UsageIsWhatWasHeard'
<1> SUFFICES ASSUME TypeOK, UsageIsWhatWasHeard, [Next]_vars
             PROVE  UsageIsWhatWasHeard'
  OBVIOUS
<1>1. CASE UNCHANGED <<usage, heard>>
  BY <1>1 DEF UsageIsWhatWasHeard, Reported, Tokens
<1>2. CASE \E report \in Usages :
              usage' = Record(usage, report) /\ heard' = Append(heard, report)
  BY <1>2, RecordAppended
<1>3. ASSUME NEW prompt, NEW ACTION Rejected, Ask(prompt, Rejected)
      PROVE  \/ UNCHANGED <<usage, heard>>
             \/ \E report \in Usages :
                   usage' = Record(usage, report) /\ heard' = Append(heard, report)
  <2>1. \A reply \in Replies : reply.usage \in Usages
    BY DEF Replies
  <2> QED
    BY <1>3, <2>1 DEF Ask
<1>4. CASE FirstRequest
  <2>1. Ask(active_prompt, pc' = "repair" /\ UNCHANGED result)
    BY <1>4 DEF FirstRequest
  <2> QED
    BY <1>1, <1>2, <1>3, <2>1
<1>5. CASE RepairRequest
  <2>1. PICK diagnostic \in Diagnostics :
            IF RepairSuffix(diagnostic) > REPAIR_PROMPT_RESERVE_BYTES
            THEN End("repair_too_large") /\ UNCHANGED <<usage, asked, heard>>
            ELSE Ask(active_prompt + RepairSuffix(diagnostic), End("invalid_plan"))
    BY <1>5 DEF RepairRequest
  <2>2. \/ UNCHANGED <<usage, heard>>
        \/ Ask(active_prompt + RepairSuffix(diagnostic), End("invalid_plan"))
    BY <2>1
  <2> QED
    BY <1>1, <1>2, <1>3, <2>2
<1> QED
  BY <1>1, <1>4, <1>5 DEF Next, CheckPrompt, Retry, Decide, vars

\* --show-usage is true to what the endpoint reported, whatever it reports and
\* however many replies there are, up to the largest u64.
THEOREM UsageAddsUp == Spec => []UsageIsWhatWasHeard
<1>1. Init => UsageIsWhatWasHeard
  BY NothingHeard
<1>2. IInv => TypeOK
  BY DEF IInv
<1> QED
  BY <1>1, <1>2, LoopInvariant, StepKeepsUsage, PTL DEF Spec
=============================================================================
