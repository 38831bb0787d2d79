----------------------------- MODULE CallMetrics -----------------------------
(***************************************************************************)
(* The CallMetrics object of one invocation and the mutators the executor  *)
(* calls on it (runtime/metrics.py), with the accounting the executor      *)
(* writes inline (runtime/executor.py).  Messages, timings and snapshots   *)
(* are left out; a TokenUsage is its total_tokens.                         *)
(***************************************************************************)
EXTENDS Integers, Sequences

\* error_category_of on the exceptions that note_attempt_failure is given.
Categories == {"backend", "parse", "validation"}

\* error_category = None.
NoCategory == "none"

AttemptErrors == [attempt : Nat, category : Categories]

CallMetricsType ==
    [attempts       : Nat,
     successful     : BOOLEAN,
     retries        : Nat,
     error_category : Categories \union {NoCategory},
     attempt_errors : Seq(AttemptErrors),
     cache_hit      : BOOLEAN,
     usage          : Nat,
     total_usage    : Nat]

NewCallMetrics ==
    [attempts       |-> 0,
     successful     |-> FALSE,
     retries        |-> 0,
     error_category |-> NoCategory,
     attempt_errors |-> << >>,
     cache_hit      |-> FALSE,
     usage          |-> 0,
     total_usage    |-> 0]

\* metrics.attempts = attempt + 1, at the head of the retry loop.
CountAttempt(m, attempt) == [m EXCEPT !.attempts = attempt + 1]

NoteAttemptFailure(m, attempt, category) ==
    [m EXCEPT !.attempt_errors = Append(@, [attempt |-> attempt, category |-> category]),
              !.retries = attempt,
              !.error_category = category]

\* Mutant: attempts counts the failures before this success, not the calls.
MarkSuccessOffByOne(m, attempt) ==
    [m EXCEPT !.successful = TRUE,
              !.retries = attempt,
              !.attempts = attempt,
              !.error_category = NoCategory]

MarkSuccess(m, attempt) ==
    [m EXCEPT !.successful = TRUE,
              !.retries = attempt,
              !.attempts = attempt + 1,
              !.error_category = NoCategory]

\* Mutant: the guard on attempts and the maximum are gone.
MarkFailureUnguarded(m) ==
    [m EXCEPT !.successful = FALSE,
              !.retries = m.attempts - 1]

MarkFailure(m) ==
    [m EXCEPT !.successful = FALSE,
              !.retries = IF m.attempts > 0 /\ m.attempts - 1 > @
                          THEN m.attempts - 1 ELSE @]

\* The executor's token accounting for a response that parsed.
AddResponse(m, attempt, tokens) ==
    [m EXCEPT !.total_usage = IF attempt = 0 THEN tokens ELSE @ + tokens,
              !.usage = tokens]

\* A cache hit is a first-try success that carries the cached call's usage.
HitMetrics(m, tokens) ==
    MarkSuccess([m EXCEPT !.cache_hit = TRUE,
                          !.usage = tokens,
                          !.total_usage = tokens],
                0)

\* CallMetrics.recovered
Recovered(m) == m.successful /\ m.retries > 0

\* What an ended call's CallMetrics say of its attempts: each failed, but for one that
\* ended a call in success; retries are the attempts after the first.
Accounted(m) ==
    /\ m.cache_hit => m.successful
    /\ m.attempts = Len(m.attempt_errors) + IF m.successful THEN 1 ELSE 0
    /\ m.retries = IF m.attempts = 0 THEN 0 ELSE m.attempts - 1
    /\ m.attempt_errors = << >> => m.error_category = NoCategory

\* BudgetTracker._extract_value for the metric "tokens".
ChargedTokens(m) == IF m.total_usage # 0 THEN m.total_usage ELSE m.usage
=============================================================================
