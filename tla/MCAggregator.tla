---------------------------- MODULE MCAggregator -----------------------------
(***************************************************************************)
(* Aggregator with the constants of the TLC runs.                          *)
(***************************************************************************)
EXTENDS Aggregator

CONSTANTS c1, c2, c3, f1, f2

\* c1 and c2 are calls of one function, c3 of another.
MCFnOf == [c \in Calls |-> IF c = c3 THEN f2 ELSE f1]

\* The CallMetrics of calls, put together as the executor does.
Tried(mc, n) == CountAttempt(mc, n)

FirstTry == MarkSuccess(AddResponse(Tried(NewCallMetrics, 0), 0, 1), 0)

RetriedOnce(category) ==
    Tried(NoteAttemptFailure(Tried(NewCallMetrics, 0), 0, category), 1)

SecondTry == MarkSuccess(AddResponse(RetriedOnce("parse"), 1, 2), 1)

Exhausted == MarkFailure(NoteAttemptFailure(RetriedOnce("parse"), 1, "validation"))

\* A retry policy that leaves the call no attempt.
NoAttempt == MarkFailure(NewCallMetrics)

MCOutcomesOf ==
    [c \in Calls |-> CASE c = c1 -> {FirstTry, Exhausted}
                      [] c = c2 -> {SecondTry, NoAttempt}
                      [] c = c3 -> {Exhausted, HitMetrics(NewCallMetrics, 1)}]
=============================================================================
