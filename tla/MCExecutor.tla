----------------------------- MODULE MCExecutor ------------------------------
(***************************************************************************)
(* Executor with the constants of the TLC runs.                            *)
(***************************************************************************)
EXTENDS Executor

CONSTANTS s1, s2, a1    \* two threads and a task
CONSTANTS k1

\* s1 and a1 run the same cached function, sync and async.  s2 may be served
\* from the cache but its retry policy leaves it no attempt of its own.
MCModeOf       == [c \in Calls |-> IF c = a1 THEN "async" ELSE "sync"]
MCKeyOf        == [c \in Calls |-> k1]
MCOverrideOf   == [c \in Calls |-> IF c = s2 THEN "on" ELSE "unset"]
MCFnCacheOf    == [c \in Calls |-> c # s2]
MCMaxRetriesOf == [c \in Calls |-> CASE c = s1 -> 0 [] c = s2 -> -1 [] c = a1 -> 1]
MCRetryOnce    == [c \in Calls |-> 1]
=============================================================================
