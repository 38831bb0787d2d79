--------------------------- MODULE TracedExecutor ----------------------------
(***************************************************************************)
(* The executor's calls under one trace: every step of Executor together   *)
(* with what it does to the spans of the current TraceContext, which the   *)
(* tasks that were started inside trace() share.                           *)
(***************************************************************************)
EXTENDS Executor, Tracing

CONSTANT Traced     \* the calls whose task has inherited the trace

ASSUME TracedAssumption == Traced \subseteq Calls

VARIABLES
    ctx,            \* the TraceContext
    callSpan,       \* call -> its local span, 0 for None
    attemptSpan     \* call -> its local attempt_span, 0 for None

tracing == <<ctx, callSpan, attemptSpan>>
tvars   == <<vars, tracing>>

TInit ==
    /\ Init
    /\ ctx         = NewTrace
    /\ callSpan    = [c \in Calls |-> 0]
    /\ attemptSpan = [c \in Calls |-> 0]

-----------------------------------------------------------------------------
\* What a step of call c does to the trace: nothing if the call has none.

Untraced == UNCHANGED tracing

OnCall(c, t) ==
    /\ ctx' = IF c \in Traced THEN t ELSE ctx
    /\ UNCHANGED <<callSpan, attemptSpan>>

OpensCall(c, t) ==
    /\ ctx' = IF c \in Traced THEN t ELSE ctx
    /\ callSpan' = IF c \in Traced THEN [callSpan EXCEPT ![c] = NextSpan(ctx)] ELSE callSpan
    /\ UNCHANGED attemptSpan

\* span.finish(status)
FinishesCall(c, status) == OnCall(c, FinishSpan(ctx, callSpan[c], status))

\* Mutant: whatever the span says already, it is made an error.
CallRaisesAlways(t, i) == FinishSpan(t, i, "error")

\* `except Exception` around the whole call: only an "ok" span is made an error.
CallRaises(t, i) == IF t.spans[i].status = "ok" THEN FinishSpan(t, i, "error") ELSE t

\* ctx.end_span(attempt_span, "error")
AttemptErrs(c) == OnCall(c, EndSpan(ctx, attemptSpan[c], "error"))

TBegin(c) == Begin(c) /\ OpensCall(c, StartSpan(ctx, "call"))

TRenderFails(c) ==
    /\ RenderFails(c)
    /\ OpensCall(c, CallRaises(StartSpan(ctx, "call"), NextSpan(ctx)))

\* The steps of a call that it takes between the changes of its spans.
TSpanless(c) ==
    /\ \/ LookupMiss(c) \/ RecordHit(c) \/ LoopEnds(c) \/ Wake(c)
       \/ Store(c) \/ RecordSuccess(c)
    /\ Untraced

TLookupHit(c)   == LookupHit(c) /\ FinishesCall(c, "cached")
TLookupFails(c) == LookupFails(c) /\ OnCall(c, CallRaises(ctx, callSpan[c]))

\* Whoever raises after a hit, the span says "cached".
TChargeHit(c) ==
    /\ ChargeHit(c)
    /\ OnCall(c, IF pc'[c] = "returned" THEN ctx ELSE CallRaises(ctx, callSpan[c]))

TStartAttempt(c) ==
    /\ StartAttempt(c)
    /\ ctx' = IF c \in Traced THEN StartSpan(ctx, "attempt") ELSE ctx
    /\ attemptSpan' = IF c \in Traced THEN [attemptSpan EXCEPT ![c] = NextSpan(ctx)]
                                      ELSE attemptSpan
    /\ UNCHANGED callSpan

\* end_span on the attempt, then finish on the call, before the answer is stored.
TBackendAnswers(c) ==
    /\ BackendAnswers(c)
    /\ OnCall(c, FinishSpan(EndSpan(ctx, attemptSpan[c], "ok"), callSpan[c], "ok"))

TAttemptFails(c)       == AttemptFails(c) /\ AttemptErrs(c)
TBackendRaisesOther(c) == BackendRaisesOther(c) /\ AttemptErrs(c)

\* The attempt's span is ended a second time.
TStoreFails(c) == StoreFails(c) /\ AttemptErrs(c)

TCharge(c) ==
    /\ Charge(c)
    /\ IF pc'[c] = "returned" THEN Untraced ELSE AttemptErrs(c)

TGiveUp(c) == GiveUp(c) /\ FinishesCall(c, "error")

TChargeFailure(c) == ChargeFailure(c) /\ OnCall(c, CallRaises(ctx, callSpan[c]))

\* CancelledError passes every handler: the spans stay as they are.
TCancel(c) == Cancel(c) /\ Untraced

-----------------------------------------------------------------------------

TAdvance(c) ==
    \/ TSpanless(c)
    \/ TLookupHit(c) \/ TLookupFails(c) \/ TChargeHit(c)
    \/ TStartAttempt(c)
    \/ TBackendAnswers(c) \/ TAttemptFails(c) \/ TBackendRaisesOther(c)
    \/ TStoreFails(c) \/ TCharge(c)
    \/ TGiveUp(c) \/ TChargeFailure(c)

\* configure() only reaches calls that have not begun, and TInit has both settings.
TEnvironment == \E k \in Keys : Forget(k) /\ Untraced

TNext ==
    \/ \E c \in Calls : TBegin(c) \/ TRenderFails(c) \/ TAdvance(c) \/ TCancel(c)
    \/ TEnvironment

TSpec == TInit /\ [][TNext]_tvars

\* As in FairSpec: spans never hold a call back.
TFairSpec == TSpec /\ \A c \in Calls : WF_tvars(TAdvance(c))

-----------------------------------------------------------------------------
(***************************************************************************)
(* Properties.                                                             *)
(***************************************************************************)

\* j belongs to every set of spans that holds i and, with a span, its children.
Descends(i, j) ==
    \A S \in SUBSET DOMAIN ctx.spans :
        /\ i \in S
        /\ \A k \in DOMAIN ctx.spans : ctx.spans[k].parent \in S => k \in S
        => j \in S

\* However tasks interleave on the one stack, an attempt is found in the tree under
\* the call that made it (trace.py:5-6).  What else lies between the two is exempt:
\* a call's span is finished without being popped (executor.py:170, 235, 309, 377
\* with trace.py:72-82), so that the calls that begin after it, and with them its
\* own later attempts, may hang under spans that have nothing to do with them.
AttemptsUnderTheirCall ==
    \A c \in Traced : attemptSpan[c] # 0 => Descends(callSpan[c], attemptSpan[c])

\* What the spans of a settled call say is what happened: all are ended, the call's
\* span is "ok" or "cached" exactly if the call returned an own or a cached answer,
\* except that a hit whose rehydration or charge raises stays "cached"; the last
\* attempt is "ok" exactly if its answer was returned.  A cancelled call's spans
\* are left open and "ok".  (All paths through executor.py:232-388.)
SpansTellOutcome ==
    \A c \in Traced :
        LET span == ctx.spans[callSpan[c]]
            last == ctx.spans[attemptSpan[c]] IN
        /\ pc[c] \in Settled \ {"cancelled"} =>
             /\ span.ended
             /\ span.status = IF m[c].cache_hit THEN "cached"
                              ELSE IF pc[c] = "returned" THEN "ok" ELSE "error"
             /\ attemptSpan[c] # 0 =>
                  last.ended /\ last.status = IF pc[c] = "returned" THEN "ok" ELSE "error"
        /\ pc[c] = "cancelled" => ~span.ended /\ span.status = "ok"
=============================================================================
