---------------------------- MODULE RequestLoop ----------------------------
(***************************************************************************)
(* The requests one run makes: the prompt of each, what is made of the     *)
(* reply, and the token usage that is added up on the way.  Autocommit     *)
(* has the same loop without prompts and replies.                          *)
(*                                                                         *)
(* A prompt is its length in bytes.  A reply is how the endpoint answered, *)
(* whether the text it answered with is a valid plan, and the usage it     *)
(* reported: per counter a number of tokens, or Missing.                   *)
(***************************************************************************)
EXTENDS Naturals, FiniteSets, Sequences, Functions

CONSTANTS
    MaxPromptBytes,     \* settings.max_prompt_bytes
    System,             \* length of the system prompt
    PlanPrompts,        \* lengths the rendered plan prompt may have
    Diagnostics,        \* lengths of a validation error as a JSON string
    Lengths,            \* lengths of a response, declared or read
    Unknown,            \* no declared length
    Missing,            \* no number reported
    Usages,             \* what an endpoint may report
    MaxU64,             \* the largest u64
    MaxResponse,        \* MAX_AI_RESPONSE_BYTES
    MaxRetries          \* bound: retries a reviewer asks for

Counters == {"prompt", "completion", "total"}

ASSUME RequestAssumption ==
    /\ MaxPromptBytes \in Nat \ {0}
    /\ System \in Nat
    /\ PlanPrompts \subseteq Nat
    /\ Diagnostics \subseteq Nat
    /\ Lengths \subseteq Nat
    /\ Unknown \notin Nat
    /\ Missing \notin Nat
    /\ Usages \subseteq [Counters -> Nat \cup {Missing}]
    /\ MaxU64 \in Nat
    /\ MaxResponse \in Nat
    /\ MaxRetries \in Nat

REPAIR_PROMPT_RESERVE_BYTES == 1024
MAX_REPAIR_ERROR_JSON_BYTES == 512
RepairText == 293       \* the repair prompt's own words
OmittedDiagnostic == 109
RetryText == 318        \* the retry prompt's own words


Replies ==
    [status : {"unreachable", "redirect", "error", "success"},
     declared : Lengths \cup {Unknown},
     body : Lengths,
     document : {"not_json", "no_content", "content"},
     valid : BOOLEAN,
     usage : Usages]

VARIABLES
    pc,             \* the next step of the loop
    plan_prompt,    \* its length
    active_prompt,  \* its length
    retry_attempt,
    usage,          \* UsageTotals
    result,
    asked,          \* history: requests made
    heard           \* history: the usage of every reply with a text, in order

vars == <<pc, plan_prompt, active_prompt, retry_attempt, usage, result,
          asked, heard>>

TypeOK ==
    /\ pc \in {"check", "request", "repair", "review", "done"}
    /\ plan_prompt \in PlanPrompts
    /\ active_prompt \in Nat
    /\ retry_attempt \in Nat
    /\ usage \in [requests : Nat, tokens : [Counters -> 0..MaxU64],
                  reports : [Counters -> Nat]]
    /\ result \in {"none", "too_large", "repair_too_large", "no_answer",
                   "invalid_plan", "decided"}
    /\ asked \in Nat
    /\ heard \in Seq(Usages)

Zero == [c \in Counters |-> 0]

Init ==
    /\ pc = "check"
    /\ plan_prompt \in PlanPrompts
    /\ active_prompt = plan_prompt
    /\ retry_attempt = 0
    /\ usage = [requests |-> 0, tokens |-> Zero, reports |-> Zero]
    /\ result = "none"
    /\ asked = 0
    /\ heard = << >>
-----------------------------------------------------------------------------
ValidPromptSize(user) == System + user <= MaxPromptBytes

\* Mutant: only the first request is made sure of.
RepairableWithoutReserve(user) == ValidPromptSize(user)

ValidRepairablePromptSize(user) ==
    /\ ValidPromptSize(user)
    /\ MaxPromptBytes >= REPAIR_PROMPT_RESERVE_BYTES
    /\ System + user <= MaxPromptBytes - REPAIR_PROMPT_RESERVE_BYTES

RepairSuffix(diagnostic) ==
    RepairText + (IF diagnostic <= MAX_REPAIR_ERROR_JSON_BYTES
                  THEN diagnostic ELSE OmittedDiagnostic)

\* The length of a number in decimal.
Digits(n) == 1 + Cardinality({k \in 1..n : 10^k <= n})

RetryPlanPrompt(prompt, attempt) == prompt + RetryText + Digits(attempt)

\* request_plan returns a text: the status, the declared and the real length
\* and the shape of the document are looked at in this order, and any of them
\* ends the run.
Answers(reply) ==
    /\ reply.status = "success"
    /\ reply.declared # Unknown => reply.declared <= MaxResponse
    /\ reply.body <= MaxResponse
    /\ reply.document = "content"

Least(a, b) == IF a <= b THEN a ELSE b

\* Mutant: the last report stands for all.
RecordLast(totals, report) ==
    [requests |-> totals.requests + 1,
     tokens |-> [c \in Counters |->
                    IF report[c] = Missing THEN totals.tokens[c]
                    ELSE Least(report[c], MaxU64)],
     reports |-> [c \in Counters |->
                    IF report[c] = Missing THEN totals.reports[c]
                    ELSE totals.reports[c] + 1]]

\* UsageTotals::record.
Record(totals, report) ==
    [requests |-> totals.requests + 1,
     tokens |-> [c \in Counters |->
                    IF report[c] = Missing THEN totals.tokens[c]
                    ELSE Least(totals.tokens[c] + report[c], MaxU64)],
     reports |-> [c \in Counters |->
                    IF report[c] = Missing THEN totals.reports[c]
                    ELSE totals.reports[c] + 1]]
-----------------------------------------------------------------------------
End(why) ==
    /\ pc' = "done"
    /\ result' = why

\* validate_repairable_prompt_size, before the loop and after every retry.
CheckPrompt ==
    /\ pc = "check"
    /\ IF ValidRepairablePromptSize(active_prompt)
       THEN pc' = "request" /\ UNCHANGED result
       ELSE End("too_large")
    /\ UNCHANGED <<plan_prompt, active_prompt, retry_attempt, usage, asked,
                   heard>>

\* One call of request_plan with a prompt of the given length; `rejected` is
\* where an answer that is no valid plan leads.
Ask(prompt, rejected) ==
    IF ~ValidPromptSize(prompt)
    THEN End("repair_too_large") /\ UNCHANGED <<usage, asked, heard>>
    ELSE \E reply \in Replies :
            /\ asked' = asked + 1
            /\ \/ /\ ~Answers(reply)
                  /\ End("no_answer")
                  /\ UNCHANGED <<usage, heard>>
               \/ /\ Answers(reply)
                  /\ usage' = Record(usage, reply.usage)
                  /\ heard' = Append(heard, reply.usage)
                  /\ IF reply.valid
                     THEN pc' = "review" /\ UNCHANGED result
                     ELSE rejected

FirstRequest ==
    /\ pc = "request"
    /\ Ask(active_prompt, pc' = "repair" /\ UNCHANGED result)
    /\ UNCHANGED <<plan_prompt, active_prompt, retry_attempt>>

\* Mutant: an invalid repair is repaired again.
RepairRepairs ==
    \E diagnostic \in Diagnostics :
        /\ pc = "repair"
        /\ asked < 4
        /\ Ask(active_prompt + RepairSuffix(diagnostic),
               pc' = "repair" /\ UNCHANGED result)
        /\ UNCHANGED <<plan_prompt, active_prompt, retry_attempt>>

RepairRequest ==
    \E diagnostic \in Diagnostics :
        /\ pc = "repair"
        /\ IF RepairSuffix(diagnostic) > REPAIR_PROMPT_RESERVE_BYTES
           THEN End("repair_too_large") /\ UNCHANGED <<usage, asked, heard>>
           ELSE Ask(active_prompt + RepairSuffix(diagnostic),
                    End("invalid_plan"))
        /\ UNCHANGED <<plan_prompt, active_prompt, retry_attempt>>

\* Mutant: every retry is appended to the one before.
RetryOnTop ==
    /\ pc = "review"
    /\ retry_attempt < MaxRetries
    /\ retry_attempt' = retry_attempt + 1
    /\ active_prompt' = RetryPlanPrompt(active_prompt, retry_attempt + 1)
    /\ pc' = "check"
    /\ UNCHANGED <<plan_prompt, usage, result, asked, heard>>

Retry ==
    /\ pc = "review"
    /\ retry_attempt < MaxRetries
    /\ retry_attempt' = retry_attempt + 1
    /\ active_prompt' = RetryPlanPrompt(plan_prompt, retry_attempt + 1)
    /\ pc' = "check"
    /\ UNCHANGED <<plan_prompt, usage, result, asked, heard>>

\* The plan is committed, refused, or was only to be shown.
Decide ==
    /\ pc = "review"
    /\ End("decided")
    /\ UNCHANGED <<plan_prompt, active_prompt, retry_attempt, usage, asked,
                   heard>>

Next == CheckPrompt \/ FirstRequest \/ RepairRequest \/ Retry \/ Decide

Spec == Init /\ [][Next]_vars
-----------------------------------------------------------------------------
(* Properties. *)

\* README.md:133, "To guarantee that the repair request stays within
\* max_prompt_bytes": once a prompt was accepted neither it nor its repair,
\* whatever the diagnostic, is ever too long to be sent.
AcceptedPromptsCanBeRepaired == result # "repair_too_large"

\* README.md:133, "at most one repair request" for each planning attempt.
RequestsBounded == asked <= 2 * (retry_attempt + 1)

\* README.md:135: a retry is refused only when "the added retry instruction"
\* leaves no room for a repair, and no earlier retry counts towards that: where
\* one retry was accepted, only a longer number can make a later one too large.
RetriesStayPossible ==
    result = "too_large" =>
        \/ retry_attempt <= 1
        \/ Digits(retry_attempt) > Digits(retry_attempt - 1)

\* The replies that reported one counter, and what each of them added to it.
Reported(c) == {i \in DOMAIN heard : heard[i][c] # Missing}
Tokens(c) == [i \in DOMAIN heard |-> IF i \in Reported(c) THEN heard[i][c] ELSE 0]

\* --show-usage prints what the endpoint reported, invalid plans and repairs
\* included: the exact sum while it fits 64 bits, over the replies that
\* reported it, out of all replies.
UsageIsWhatWasHeard ==
    /\ usage.requests = Len(heard)
    /\ \A c \in Counters :
          /\ usage.reports[c] = Cardinality(Reported(c))
          /\ usage.tokens[c] = Least(SumFunction(Tokens(c)), MaxU64)
-----------------------------------------------------------------------------
\* What makes AcceptedPromptsCanBeRepaired and RequestsBounded inductive.
IInv ==
    /\ TypeOK
    /\ pc \in {"request", "repair"} => ValidRepairablePromptSize(active_prompt)
    /\ pc \in {"check", "request"} => asked <= 2 * retry_attempt
    /\ pc = "repair" => asked <= 2 * retry_attempt + 1
    /\ AcceptedPromptsCanBeRepaired
    /\ RequestsBounded
=============================================================================
