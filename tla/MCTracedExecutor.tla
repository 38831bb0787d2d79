-------------------------- MODULE MCTracedExecutor ---------------------------
(***************************************************************************)
(* TracedExecutor with the constants of the TLC run.                       *)
(***************************************************************************)
EXTENDS TracedExecutor

CONSTANTS s1, a1, k1    \* a thread, a task, their key

\* Both calls run the same cached function; only a1 has a retry.
MCModeOf       == [c \in Calls |-> IF c = a1 THEN "async" ELSE "sync"]
MCKeyOf        == [c \in Calls |-> k1]
MCOverrideOf   == [c \in Calls |-> "unset"]
MCFnCacheOf    == [c \in Calls |-> TRUE]
MCMaxRetriesOf == [c \in Calls |-> IF c = s1 THEN 0 ELSE 1]
=============================================================================
