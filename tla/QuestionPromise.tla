--------------------------- MODULE QuestionPromise ---------------------------
(***************************************************************************)
(* What a question run promises whoever asked it: one outcome, which is    *)
(* final except that an open clarification may lapse, and a budget that    *)
(* only grows, never exceeds its limit and is fixed with the outcome.      *)
(***************************************************************************)
EXTENDS Naturals

CONSTANTS
    Runs,   \* question runs
    Limit   \* the budget of a run: BudgetLimits.MaxSteps

VARIABLES
    outcome,  \* the outcome of each run, "open" while it has none
    spent     \* the budget each run has consumed

promiseVars == <<outcome, spent>>

Outcomes == {"answered", "clarify", "refused"}

PromiseInit ==
    /\ outcome = [r \in Runs |-> "open"]
    /\ spent = [r \in Runs |-> 0]

\* An open run consumes budget and may conclude.
Progress(r) ==
    /\ outcome[r] = "open"
    /\ \E o \in Outcomes \union {"open"} : outcome' = [outcome EXCEPT ![r] = o]
    /\ \E n \in spent[r]..Limit : spent' = [spent EXCEPT ![r] = n]

\* An unanswered clarification lapses.
Lapse(r) ==
    /\ outcome[r] = "clarify"
    /\ outcome' = [outcome EXCEPT ![r] = "lapsed"]
    /\ UNCHANGED spent

PromiseNext == \E r \in Runs : Progress(r) \/ Lapse(r)

PromiseSpec == PromiseInit /\ [][PromiseNext]_promiseVars
=============================================================================
