------------------------------ MODULE MCSession ------------------------------
(***************************************************************************)
(* Session with the constants of the TLC run.                              *)
(***************************************************************************)
EXTENDS Session, TLC

CONSTANTS c1, c2, iso, capture, process

\* The calls are alike.
CallSymmetry == Permutations(Calls)

\* A budget that the second answer exceeds, two on one metric, and one that only a
\* "function" scope would charge.
MCBudgets ==
    <<[metric |-> "cost_usd", limit |-> 1, scope |-> "process"],
      [metric |-> "tokens", limit |-> 4, scope |-> "process"],
      [metric |-> "tokens", limit |-> 5, scope |-> "process"],
      [metric |-> "latency_ms", limit |-> 0, scope |-> "function"]>>
=============================================================================
