------------------------------- MODULE Tracing -------------------------------
(***************************************************************************)
(* A TraceContext (runtime/trace.py): the list of its spans and the stack  *)
(* of the open ones, with the operations that the executor calls on it.    *)
(* A span is known by its place in `spans`; times, events and attributes   *)
(* are left out.  Every task that inherits the context variable works on   *)
(* the one object.                                                         *)
(***************************************************************************)
EXTENDS Naturals, Sequences

\* "agentic_function.call" and "agentic_function.attempt".
SpanNames == {"call", "attempt"}

Statuses == {"ok", "error", "cached"}

\* parent_id = None is 0; `ended` is end_time # None.
Spans == [name : SpanNames, parent : Nat, status : Statuses, ended : BOOLEAN]

TraceContexts == [spans : Seq(Spans), stack : Seq(Nat)]

NewTrace == [spans |-> << >>, stack |-> << >>]

\* The span that t.start_span is about to append.
NextSpan(t) == Len(t.spans) + 1

Top(t) == IF t.stack = << >> THEN 0 ELSE t.stack[Len(t.stack)]

StartSpan(t, name) ==
    [spans |-> Append(t.spans, [name |-> name, parent |-> Top(t),
                                status |-> "ok", ended |-> FALSE]),
     stack |-> Append(t.stack, NextSpan(t))]

\* TraceSpan.finish: the span stays on the stack.
FinishSpan(t, i, status) ==
    [t EXCEPT !.spans[i].status = status, !.spans[i].ended = TRUE]

\* Mutant: the top of the stack is popped, whatever span it is.
EndSpanAnyTop(t, i, status) ==
    [FinishSpan(t, i, status) EXCEPT
        !.stack = IF @ # << >> THEN SubSeq(@, 1, Len(@) - 1) ELSE @]

\* TraceContext.end_span: popped only if it is the top.
EndSpan(t, i, status) ==
    [FinishSpan(t, i, status) EXCEPT
        !.stack = IF Top(t) = i /\ @ # << >> THEN SubSeq(@, 1, Len(@) - 1) ELSE @]
=============================================================================
