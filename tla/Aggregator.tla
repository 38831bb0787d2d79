----------------------------- MODULE Aggregator ------------------------------
(***************************************************************************)
(* Aggregator (runtime/aggregator.py): what it keeps of the calls that the *)
(* executor reports, while other threads report, reset it and ask for its  *)
(* top functions.  record, reset and summary hold the lock; the on_record  *)
(* callback and the rows of top_functions are made without it, so a row    *)
(* can be read in the middle of a record: record is two steps, before and  *)
(* after which the other counters move.  A FunctionStats exists once it    *)
(* has counted a call.  Costs, latencies and messages are left out.        *)
(***************************************************************************)
EXTENDS CallMetrics, FiniteSets, Functions

CONSTANTS
    Calls,          \* the calls that report, each in a thread of its own
    Functions,      \* function names
    FnOf,           \* call -> its function
    OutcomesOf,     \* call -> the CallMetrics it can end with
    HistoryLimit,   \* history_limit
    MaxRetries,     \* bound on the retries in OutcomesOf
    NoFunction      \* no report is being made

ASSUME AggregatorAssumption ==
    /\ FnOf \in [Calls -> Functions]
    /\ HistoryLimit \in Nat
    /\ MaxRetries \in Nat
    /\ \A c \in Calls : \A mc \in OutcomesOf[c] :
         mc \in CallMetricsType /\ mc.retries <= MaxRetries
    /\ NoFunction \notin Functions

\* The executor reports no other CallMetrics: ReportsAreAccounted in ExecutorProofs.
ASSUME OutcomesAssumption == \A c \in Calls : \A mc \in OutcomesOf[c] : Accounted(mc)

\* A process has finitely many decorated functions.
ASSUME FunctionsAssumption == IsFiniteSet(Functions)

VARIABLES
    stats,      \* function -> its FunctionStats
    totals,     \* _totals
    categories, \* _errors_by_category
    history,    \* _history: the calls whose CallMetrics it retains
    m,          \* call -> its CallMetrics
    pc,         \* call -> "running" | "recording" | "callback" | "reported"
    collected,  \* what on_record has been given: capture_metrics' list
    report,     \* the row of top_functions that a thread is making
    log         \* History: [call, m] of every record since the last reset

vars == <<stats, totals, categories, history, m, pc, collected, report, log>>

Counts == [Categories -> Nat]

\* _totals; FunctionStats has the same fields and three more.
TotalsType ==
    [call_count : Nat, success_count : Nat, cache_hit_count : Nat, failure_count : Nat,
     total_retries : Nat, total_attempts : Nat, calls_with_retries : Nat,
     recovered_count : Nat, tokens : Nat]

StatsType ==
    [call_count : Nat, success_count : Nat, cache_hit_count : Nat, failure_count : Nat,
     total_retries : Nat, total_attempts : Nat, calls_with_retries : Nat,
     recovered_count : Nat, tokens : Nat,
     errors_by_category : Counts, retries_histogram : [0..MaxRetries -> Nat],
     last_error_category : Categories \union {NoCategory}]

NoErrors == [c \in Categories |-> 0]

NewStats ==
    [call_count |-> 0, success_count |-> 0, cache_hit_count |-> 0, failure_count |-> 0,
     total_retries |-> 0, total_attempts |-> 0, calls_with_retries |-> 0,
     recovered_count |-> 0, tokens |-> 0,
     errors_by_category |-> NoErrors, retries_histogram |-> [r \in 0..MaxRetries |-> 0],
     last_error_category |-> NoCategory]

NewTotals ==
    [call_count |-> 0, success_count |-> 0, cache_hit_count |-> 0, failure_count |-> 0,
     total_retries |-> 0, total_attempts |-> 0, calls_with_retries |-> 0,
     recovered_count |-> 0, tokens |-> 0]

ReportType ==
    [fn : Functions \union {NoFunction},
     next : {"none", "call_count", "success_count", "failure_count", "done"},
     detached : BOOLEAN, object : StatsType,
     call_count : Nat, success_count : Nat, failure_count : Nat]

NoReport ==
    [fn |-> NoFunction, next |-> "none", detached |-> FALSE, object |-> NewStats,
     call_count |-> 0, success_count |-> 0, failure_count |-> 0]

Init ==
    /\ stats      = [f \in Functions |-> NewStats]
    /\ totals     = NewTotals
    /\ categories = NoErrors
    /\ history    = << >>
    /\ m          \in [Calls -> UNION {OutcomesOf[c] : c \in Calls}]
    /\ \A c \in Calls : m[c] \in OutcomesOf[c]
    /\ pc         = [c \in Calls |-> "running"]
    /\ collected  = << >>
    /\ report     = NoReport
    /\ log        = << >>

-----------------------------------------------------------------------------
\* record

One(condition) == IF condition THEN 1 ELSE 0

\* A call that made no attempt and has nothing to show for it counts none.
AttemptsOf(mc) ==
    IF mc.attempts > 0 THEN mc.attempts
    ELSE IF mc.retries > 0 \/ mc.successful \/ mc.cache_hit THEN mc.retries + 1 ELSE 0

\* Mutant: only the failure that ended the call is counted.
ErrorsOfLast(mc) == [c \in Categories |-> One(mc.error_category = c)]

\* Each failed attempt once; the final category only without a failure history.
ErrorsOf(mc) ==
    [c \in Categories |->
        IF mc.attempt_errors # << >>
        THEN Cardinality({i \in DOMAIN mc.attempt_errors : mc.attempt_errors[i].category = c})
        ELSE One(mc.error_category = c)]

\* record up to `stats.call_count += 1`.
StatsBegun(s) == [s EXCEPT !.call_count = @ + 1]

\* Mutant: the failures are counted only of a call that fails in the end.
StatsAfterFailed(s, mc) ==
    [s EXCEPT
        !.success_count = @ + One(mc.successful),
        !.cache_hit_count = @ + One(mc.cache_hit),
        !.failure_count = @ + One(~mc.successful),
        !.total_retries = @ + mc.retries,
        !.total_attempts = @ + AttemptsOf(mc),
        !.calls_with_retries = @ + One(mc.retries > 0),
        !.recovered_count = @ + One(mc.successful /\ mc.retries > 0),
        !.tokens = @ + ChargedTokens(mc),
        !.errors_by_category =
            [c \in Categories |-> @[c] + IF mc.successful THEN 0 ELSE ErrorsOf(mc)[c]],
        !.retries_histogram[mc.retries] = @ + 1,
        !.last_error_category =
            IF mc.successful \/ mc.error_category = NoCategory THEN @ ELSE mc.error_category]

\* The rest of record, on the function's FunctionStats.
StatsAfter(s, mc) ==
    [s EXCEPT
        !.success_count = @ + One(mc.successful),
        !.cache_hit_count = @ + One(mc.cache_hit),
        !.failure_count = @ + One(~mc.successful),
        !.total_retries = @ + mc.retries,
        !.total_attempts = @ + AttemptsOf(mc),
        !.calls_with_retries = @ + One(mc.retries > 0),
        !.recovered_count = @ + One(mc.successful /\ mc.retries > 0),
        !.tokens = @ + ChargedTokens(mc),
        !.errors_by_category = [c \in Categories |-> @[c] + ErrorsOf(mc)[c]],
        !.retries_histogram[mc.retries] = @ + 1,
        !.last_error_category =
            IF mc.successful \/ mc.error_category = NoCategory THEN @ ELSE mc.error_category]

\* Mutant: any retried call counts as recovered in the totals.
TotalsAfterRetried(t, mc) ==
    [t EXCEPT
        !.call_count = @ + 1,
        !.success_count = @ + One(mc.successful),
        !.cache_hit_count = @ + One(mc.cache_hit),
        !.failure_count = @ + One(~mc.successful),
        !.total_retries = @ + mc.retries,
        !.total_attempts = @ + AttemptsOf(mc),
        !.calls_with_retries = @ + One(mc.retries > 0),
        !.recovered_count = @ + One(mc.retries > 0),
        !.tokens = @ + ChargedTokens(mc)]

\* The same on _totals, all of it after the FunctionStats.
TotalsAfter(t, mc) ==
    [t EXCEPT
        !.call_count = @ + 1,
        !.success_count = @ + One(mc.successful),
        !.cache_hit_count = @ + One(mc.cache_hit),
        !.failure_count = @ + One(~mc.successful),
        !.total_retries = @ + mc.retries,
        !.total_attempts = @ + AttemptsOf(mc),
        !.calls_with_retries = @ + One(mc.retries > 0),
        !.recovered_count = @ + One(mc.successful /\ mc.retries > 0),
        !.tokens = @ + ChargedTokens(mc)]

\* Mutant: one call too few is dropped.
RetainedOneMore(h) ==
    IF HistoryLimit = 0 \/ Len(h) <= HistoryLimit + 1
    THEN h ELSE SubSeq(h, Len(h) - HistoryLimit, Len(h))

\* What is left of _history h when the overflow is deleted; a limit of 0 keeps none.
Retained(h) ==
    IF Len(h) <= HistoryLimit THEN h ELSE SubSeq(h, Len(h) - HistoryLimit + 1, Len(h))

\* Nobody holds _lock.
Unlocked == \A c \in Calls : pc[c] # "recording"

Move(c, from, to) == pc[c] = from /\ pc' = [pc EXCEPT ![c] = to]

RecordBegins(c) ==
    /\ Unlocked
    /\ Move(c, "running", "recording")
    /\ stats' = [stats EXCEPT ![FnOf[c]] = StatsBegun(@)]
    /\ UNCHANGED <<totals, categories, history, m, collected, report, log>>

RecordEnds(c) ==
    /\ Move(c, "recording", "callback")
    /\ stats' = [stats EXCEPT ![FnOf[c]] = StatsAfter(@, m[c])]
    /\ totals' = TotalsAfter(totals, m[c])
    /\ categories' = [e \in Categories |-> categories[e] + ErrorsOf(m[c])[e]]
    /\ history' = Retained(Append(history, c))
    /\ log' = Append(log, [call |-> c, m |-> m[c]])
    /\ UNCHANGED <<m, collected, report>>

\* Mutant: only calls that succeeded are handed to on_record.
CallbackIfSuccessful(c) ==
    /\ Move(c, "callback", "reported")
    /\ collected' = IF m[c].successful THEN Append(collected, c) ELSE collected
    /\ UNCHANGED <<stats, totals, categories, history, m, report, log>>

\* on_record(metrics), after the lock has been released.
Callback(c) ==
    /\ Move(c, "callback", "reported")
    /\ collected' = Append(collected, c)
    /\ UNCHANGED <<stats, totals, categories, history, m, report, log>>

\* The budget tracker raises after the record of a valid answer: the executor
\* turns the same CallMetrics, which _history may hold, into that of a failed
\* call and reports it once more.
Breach(c) ==
    /\ m[c].successful /\ ~m[c].cache_hit
    /\ Move(c, "reported", "running")
    /\ m' = [m EXCEPT ![c] = MarkFailure(NoteAttemptFailure(@, @.retries, "backend"))]
    /\ UNCHANGED <<stats, totals, categories, history, collected, report, log>>

-----------------------------------------------------------------------------
\* reset

Cleared ==
    /\ stats' = [f \in Functions |-> NewStats]
    /\ totals' = NewTotals
    /\ categories' = NoErrors
    /\ history' = << >>
    /\ log' = << >>

\* Mutant: the FunctionStats are zeroed in place instead of being dropped.
ResetInPlace ==
    /\ Unlocked
    /\ Cleared
    /\ UNCHANGED <<m, pc, collected, report>>

\* _by_function.clear() drops the FunctionStats; a row in the making keeps its own.
Reset ==
    /\ Unlocked
    /\ Cleared
    /\ report' = IF report.fn = NoFunction \/ report.detached THEN report
                 ELSE [report EXCEPT !.detached = TRUE, !.object = stats[report.fn]]
    /\ UNCHANGED <<m, pc, collected>>

-----------------------------------------------------------------------------
\* top_functions: the FunctionStats are collected under the lock, a row is read
\* from one of them field by field after it has been released.

TopFunctions(f) ==
    /\ Unlocked
    /\ report.fn = NoFunction
    /\ stats[f].call_count > 0
    /\ report' = [NoReport EXCEPT !.fn = f, !.next = "call_count"]
    /\ UNCHANGED <<stats, totals, categories, history, m, pc, collected, log>>

\* The FunctionStats the row is read from.
Object == IF report.detached THEN report.object ELSE stats[report.fn]

ReadField(field, next) ==
    /\ report.next = field
    /\ report' = [report EXCEPT ![field] = Object[field], !.next = next]
    /\ UNCHANGED <<stats, totals, categories, history, m, pc, collected, log>>

\* The row is handed to the caller.
Deliver ==
    /\ report.next = "done"
    /\ report' = NoReport
    /\ UNCHANGED <<stats, totals, categories, history, m, pc, collected, log>>

-----------------------------------------------------------------------------

Next ==
    \/ \E c \in Calls : RecordBegins(c) \/ RecordEnds(c) \/ Callback(c) \/ Breach(c)
    \/ Reset
    \/ \E f \in Functions : TopFunctions(f)
    \/ ReadField("call_count", "success_count")
    \/ ReadField("success_count", "failure_count")
    \/ ReadField("failure_count", "done")
    \/ Deliver

Spec == Init /\ [][Next]_vars

-----------------------------------------------------------------------------
(***************************************************************************)
(* Properties.                                                             *)
(***************************************************************************)

\* Every variable keeps its type.
TypeOK ==
    /\ stats      \in [Functions -> StatsType]
    /\ totals     \in TotalsType
    /\ categories \in Counts
    /\ history    \in Seq(Calls) /\ Len(history) <= HistoryLimit
    /\ m          \in [Calls -> CallMetricsType]
    /\ pc         \in [Calls -> {"running", "recording", "callback", "reported"}]
    /\ collected  \in Seq(Calls)
    /\ report     \in ReportType
    /\ log        \in Seq([call : Calls, m : CallMetricsType])

\* The calls of function f that have been recorded since the last reset.
LoggedOf(f) == {i \in DOMAIN log : FnOf[log[i].call] = f}

\* The failed attempts of category e.
FailuresIn(mc, e) ==
    Cardinality({i \in DOMAIN mc.attempt_errors : mc.attempt_errors[i].category = e})

\* What summary() returns of a function is what its CallMetrics add up to as they
\* were when recorded, whatever the threads recorded, reset and read in between.
\* Every failed attempt counts once in errors_by_category, those of a call that
\* recovered in the end included (aggregator.py:178-190).
StatsMatchLog ==
    Unlocked =>
      \A f \in Functions :
        LET Count(P(_)) == Cardinality({i \in LoggedOf(f) : P(log[i].m)}) IN
        /\ stats[f].call_count = Cardinality(LoggedOf(f))
        /\ stats[f].success_count = Count(LAMBDA mc : mc.successful)
        /\ stats[f].cache_hit_count = Count(LAMBDA mc : mc.cache_hit)
        /\ stats[f].recovered_count = Count(Recovered)
        /\ stats[f].tokens = SumFunction([i \in LoggedOf(f) |-> ChargedTokens(log[i].m)])
        /\ \A r \in 0..MaxRetries :
             stats[f].retries_histogram[r] = Count(LAMBDA mc : mc.retries = r)
        /\ \A e \in Categories :
             stats[f].errors_by_category[e] =
               SumFunction([i \in LoggedOf(f) |-> FailuresIn(log[i].m, e)])

\* The process totals, which record and reset keep apart from the per-function
\* statistics, are their sums, in every field and category.
TotalsMatchFunctions ==
    Unlocked =>
      /\ \A field \in DOMAIN totals :
           totals[field] = SumFunction([f \in Functions |-> stats[f][field]])
      /\ \A e \in Categories :
           categories[e] = SumFunction([f \in Functions |-> stats[f].errors_by_category[e]])

\* The signals an evaluation is read from agree: a call succeeds or fails, each
\* attempt that did not end a call in success has its failure category, a call
\* recovers only if it retried, and the histogram accounts for every call and
\* every retry.
EvalSignalsConsistent ==
    Unlocked =>
      \A f \in Functions :
        LET s == stats[f] IN
        /\ s.call_count = s.success_count + s.failure_count
        /\ SumFunction(s.errors_by_category) = s.total_attempts - s.success_count
        /\ s.recovered_count <= s.calls_with_retries
        /\ SumFunction(s.retries_histogram) = s.call_count
        /\ SumFunction([r \in 0..MaxRetries |-> r * s.retries_histogram[r]]) = s.total_retries
        /\ s.retries_histogram[0] = s.call_count - s.calls_with_retries

Occurrences(c, seq) == Cardinality({i \in DOMAIN seq : seq[i] = c})

\* on_record is called after the lock is released, in an order of its own, and
\* still misses nothing that history() retains: a call is retained at most as
\* often as it has been, or is about to be, handed to the callback.
CollectedCoversHistory ==
    \A c \in Calls :
      Occurrences(c, history) <= Occurrences(c, collected) + One(pc[c] = "callback")

\* A row of top_functions, though it may be torn by records, never shows more
\* outcomes than the calls its FunctionStats has counted, not even when a reset
\* comes between the reads of its fields.
ReportNeverOvercounts ==
    report.fn # NoFunction =>
      /\ report.call_count <= Object.call_count
      /\ report.success_count + report.failure_count <= Object.call_count

\* The aggregator is "thread-safe" (aggregator.py:12): in a row that top_functions
\* returns, every call has succeeded or failed.
TopFunctionsConsistent ==
    report.next = "done" =>
      report.call_count = report.success_count + report.failure_count
=============================================================================
