--------------------------- MODULE PlanValidation ---------------------------
(***************************************************************************)
(* The deterministic check a model's reply must pass before it is shown or *)
(* committed: parse_plan and validate_requested_plan of validation.rs.     *)
(*                                                                         *)
(* A reply is NotJson or a plan, a sequence of entries; an entry holds     *)
(* whether its message is a valid Conventional Commit message and the      *)
(* sequence of paths it commits.  The wording of the errors is left out,   *)
(* so the order of the checks is too: only acceptance is observable.       *)
(***************************************************************************)
EXTENDS Naturals, Sequences, Functions

CONSTANT NotJson

\* The entries a plan over the given names can have.
Entries(names) == [conventional : BOOLEAN, files : Seq(names)]

\* The places of a plan where a path is written: entry k, position i.
Mentions(plan, path) ==
    UNION {{<<k, i>> : i \in {j \in DOMAIN plan[k].files :
                                 plan[k].files[j] = path}} : k \in DOMAIN plan}

\* The keys of `counts`.
Assigned(plan) == UNION {Range(plan[k].files) : k \in DOMAIN plan}

\* Mutant: a path is only compared within its own entry.
DuplicatesWithinEntry(plan) ==
    {path \in Assigned(plan) :
        \E m, n \in Mentions(plan, path) : m # n /\ m[1] = n[1]}

\* The keys of `counts` whose count exceeds one.
Duplicates(plan) ==
    {path \in Assigned(plan) :
        \E m, n \in Mentions(plan, path) : m # n}

Invented(plan, staged) == Assigned(plan) \ staged

\* Mutant: omissions are not looked for.
OmittedUnchecked(plan, staged) == {}

Omitted(plan, staged) == staged \ Assigned(plan)

WellFormed(plan) ==
    \A k \in DOMAIN plan :
        plan[k].conventional /\ plan[k].files # << >>

ParsePlan(reply, staged, maxCommits) ==
    /\ reply # NotJson
    /\ reply # << >>
    /\ Len(reply) <= maxCommits
    /\ WellFormed(reply)
    /\ Duplicates(reply) = {}
    /\ Invented(reply, staged) = {}
    /\ Omitted(reply, staged) = {}

ValidateRequestedPlan(reply, staged, maxCommits, single) ==
    /\ ParsePlan(reply, staged, maxCommits)
    /\ single => Len(reply) = 1
-----------------------------------------------------------------------------
\* What the documentation asks of a plan: every staged path in exactly one
\* place, no other path anywhere, no entry empty.
AssignsOnce(plan, staged) ==
    /\ \A k \in DOMAIN plan :
          /\ plan[k].files # << >>
          /\ \A i \in DOMAIN plan[k].files : plan[k].files[i] \in staged
    /\ \A path \in staged :
          \E k \in DOMAIN plan :
              /\ \E i \in DOMAIN plan[k].files :
                    /\ plan[k].files[i] = path
                    /\ \A j \in DOMAIN plan[k].files :
                          plan[k].files[j] = path => j = i
              /\ \A l \in DOMAIN plan :
                    path \in Range(plan[l].files) => l = k

\* Validation accepts exactly the plans the documentation describes.
AcceptsExactly(reply, staged, maxCommits, single) ==
    ValidateRequestedPlan(reply, staged, maxCommits, single) <=>
        /\ reply # NotJson
        /\ Len(reply) \in 1..(IF single THEN 1 ELSE maxCommits)
        /\ \A k \in DOMAIN reply : reply[k].conventional
        /\ AssignsOnce(reply, staged)
=============================================================================
