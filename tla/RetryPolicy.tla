----------------------------- MODULE RetryPolicy -----------------------------
(***************************************************************************)
(* runtime/retry.py: which failures are tried again.  delay_for only gives *)
(* the length of a sleep, which is left out.                               *)
(***************************************************************************)
EXTENDS Integers

\* TRANSIENT_ERRORS by category: the only exceptions the executor hands over.
TransientErrors == {"backend", "parse", "validation"}

\* `attempt` is the 0-based index of the attempt that has just failed.
IsRetryable(category, attempt, maxRetries) ==
    /\ attempt < maxRetries
    /\ category \in TransientErrors

=============================================================================
