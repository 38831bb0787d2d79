------------------------------ MODULE Executor ------------------------------
(***************************************************************************)
(* Executor._run_sync and Executor._run_async (runtime/executor.py) as     *)
(* concurrent calls over one cache, one aggregator and one budget tracker. *)
(*                                                                         *)
(* A call is a thread (sync) or a task (async).  Everything it does        *)
(* between two accesses to shared state is one step; each access -- a      *)
(* cache get or set, Aggregator.record, BudgetTracker.record -- holds the  *)
(* owner's lock and is a step of its own, as is each end of the backend    *)
(* call and of the backoff sleep.                                          *)
(***************************************************************************)
EXTENDS CallMetrics, RetryPolicy, FiniteSets, Functions

CONSTANTS
    Calls,          \* the invocations
    Keys,           \* cache keys
    Tokens,         \* total_tokens a response can carry
    Limit,          \* limit of the process-wide "tokens" budget
    CacheMayFail,   \* whether CacheBackend.get and .set can raise
    ModeOf,         \* call -> "sync" | "async"
    KeyOf,          \* call -> its cache key (make_key)
    OverrideOf,     \* call -> request.cache_enabled: "unset" | "on" | "off"
    FnCacheOf,      \* call -> fn.cache, which the decorator has made a bool
    MaxRetriesOf,   \* call -> fn.retry_policy.max_retries
    NoAnswer        \* cache.get() is None; no result yet

Answers == [by : Calls, tokens : Tokens]

ASSUME ExecutorAssumption ==
    /\ Tokens \subseteq Nat
    /\ Limit \in Nat
    /\ CacheMayFail \in BOOLEAN
    /\ ModeOf \in [Calls -> {"sync", "async"}]
    /\ KeyOf \in [Calls -> Keys]
    /\ OverrideOf \in [Calls -> {"unset", "on", "off"}]
    /\ FnCacheOf \in [Calls -> BOOLEAN]
    /\ MaxRetriesOf \in [Calls -> Int]
    /\ NoAnswer \notin Answers

\* The invocations of one process are finitely many.
ASSUME CallsAssumption == IsFiniteSet(Calls)

VARIABLES
    cfgCache,   \* global_config().cache_enabled
    cache,      \* key -> the stored CacheEntry, or NoAnswer
    spent,      \* BudgetTracker._totals["tokens"]
    recorded,   \* call -> the outcomes Aggregator.record counted for it
    pc,         \* call -> where it is
    cacheOn,    \* call -> its local cache_enabled
    attempt,    \* call -> its local attempt
    m,          \* call -> its CallMetrics
    answer,     \* call -> the validated result it holds, tagged with its producer
    \* History: what no variable of the program keeps.
    issued,     \* call -> backend calls made
    billed,     \* call -> tokens the provider has answered with
    granted     \* tokens of the records that BudgetTracker.record accepted

shared  == <<cfgCache, cache, spent, recorded>>
history == <<issued, billed, granted>>
vars    == <<shared, pc, cacheOn, attempt, m, answer, history>>

-----------------------------------------------------------------------------
\* Where a call is.

Settled == {"returned", "exhausted", "overBudget", "renderError", "cacheError",
            "rehydrateError", "cancelled"}

Running == {"lookup", "hitRecord", "hitCharge", "loop", "backend", "backoff",
            "store", "record", "charge", "giveUp", "failCharge"}

Labels == {"idle"} \union Running \union Settled

Init ==
    /\ cfgCache \in BOOLEAN
    /\ cache    = [k \in Keys |-> NoAnswer]
    /\ spent    = 0
    /\ recorded = [c \in Calls |-> << >>]
    /\ pc       = [c \in Calls |-> "idle"]
    /\ cacheOn  = [c \in Calls |-> FALSE]
    /\ attempt  = [c \in Calls |-> 0]
    /\ m        = [c \in Calls |-> NewCallMetrics]
    /\ answer   = [c \in Calls |-> NoAnswer]
    /\ issued   = [c \in Calls |-> 0]
    /\ billed   = [c \in Calls |-> 0]
    /\ granted  = 0

\* Call c moves on from label `from` to label `to`.
Move(c, from, to) == pc[c] = from /\ pc' = [pc EXCEPT ![c] = to]

-----------------------------------------------------------------------------
\* Start of a call.

\* cache_enabled as _run_sync resolves it: the function's own setting wins.
SyncCacheEnabled(c) ==
    IF OverrideOf[c] = "unset" THEN FnCacheOf[c] ELSE OverrideOf[c] = "on"

\* cache_enabled as _run_async resolves it: the global switch must be on too.
AsyncCacheEnabled(c) ==
    IF OverrideOf[c] = "unset" THEN cfgCache /\ FnCacheOf[c] ELSE OverrideOf[c] = "on"

CacheEnabled(c) ==
    IF ModeOf[c] = "sync" THEN SyncCacheEnabled(c) ELSE AsyncCacheEnabled(c)

Begin(c) ==
    /\ Move(c, "idle", IF CacheEnabled(c) THEN "lookup" ELSE "loop")
    /\ cacheOn' = [cacheOn EXCEPT ![c] = CacheEnabled(c)]
    /\ UNCHANGED <<shared, attempt, m, answer, history>>

\* render_prompt raises: the exception leaves through the outer handler.
RenderFails(c) ==
    /\ Move(c, "idle", "renderError")
    /\ UNCHANGED <<shared, cacheOn, attempt, m, answer, history>>

-----------------------------------------------------------------------------
\* Cache lookup.

LookupMiss(c) ==
    /\ cache[KeyOf[c]] = NoAnswer
    /\ Move(c, "lookup", "loop")
    /\ UNCHANGED <<shared, cacheOn, attempt, m, answer, history>>

LookupHit(c) ==
    LET entry == cache[KeyOf[c]] IN
    /\ entry # NoAnswer
    /\ Move(c, "lookup", "hitRecord")
    /\ m' = [m EXCEPT ![c] = HitMetrics(@, entry.tokens)]
    /\ answer' = [answer EXCEPT ![c] = entry]
    /\ UNCHANGED <<shared, cacheOn, attempt, history>>

\* CacheBackend.get raises outside the retry loop: nothing is recorded.
LookupFails(c) ==
    /\ CacheMayFail
    /\ Move(c, "lookup", "cacheError")
    /\ UNCHANGED <<shared, cacheOn, attempt, m, answer, history>>

-----------------------------------------------------------------------------
\* Reporting.  The executor's _record is two critical sections: the
\* aggregator's, then the budget tracker's, which may raise.

\* Aggregator.record of call c with metrics mc.
Aggregate(c, mc) == recorded' = [recorded EXCEPT ![c] = Append(@, mc.successful)]

\* BudgetTracker.record of call c: the tokens are added, then compared.
Spent(c) == spent + ChargedTokens(m[c])

\* Mutant: the comparison uses the total from before this call.
OverBudgetBefore(c) == spent > Limit

OverBudget(c) == Spent(c) > Limit

\* Mutant: a record that raises adds nothing to the total.
ChargeBudgetUnlessOver(c) ==
    /\ spent' = IF OverBudget(c) THEN spent ELSE Spent(c)
    /\ granted' = IF OverBudget(c) THEN granted ELSE granted + ChargedTokens(m[c])

ChargeBudget(c) ==
    /\ spent' = Spent(c)
    /\ granted' = IF OverBudget(c) THEN granted ELSE granted + ChargedTokens(m[c])

RecordHit(c) ==
    /\ Move(c, "hitRecord", "hitCharge")
    /\ Aggregate(c, m[c])
    /\ UNCHANGED <<cfgCache, cache, spent, cacheOn, attempt, m, answer, history>>

\* The cached entry is rehydrated only after the call has been recorded.
ChargeHit(c) ==
    /\ \E end \in IF OverBudget(c) THEN {"overBudget"} ELSE {"returned", "rehydrateError"} :
         Move(c, "hitCharge", end)
    /\ ChargeBudget(c)
    /\ UNCHANGED <<cfgCache, cache, recorded, cacheOn, attempt, m, answer, issued, billed>>

-----------------------------------------------------------------------------
\* The retry loop: for attempt in range(max_retries + 1).

\* Mutant: the last attempt is never started.
StartAttemptOffByOne(c) ==
    /\ attempt[c] < MaxRetriesOf[c]
    /\ Move(c, "loop", "backend")
    /\ m' = [m EXCEPT ![c] = CountAttempt(@, attempt[c])]
    /\ issued' = [issued EXCEPT ![c] = @ + 1]
    /\ UNCHANGED <<shared, cacheOn, attempt, answer, billed, granted>>

StartAttempt(c) ==
    /\ attempt[c] <= MaxRetriesOf[c]
    /\ Move(c, "loop", "backend")
    /\ m' = [m EXCEPT ![c] = CountAttempt(@, attempt[c])]
    /\ issued' = [issued EXCEPT ![c] = @ + 1]
    /\ UNCHANGED <<shared, cacheOn, attempt, answer, billed, granted>>

\* range(max_retries + 1) is empty when max_retries is negative.
LoopEnds(c) ==
    /\ attempt[c] > MaxRetriesOf[c]
    /\ Move(c, "loop", "giveUp")
    /\ UNCHANGED <<shared, cacheOn, attempt, m, answer, history>>

\* The backend answers and the response parses and validates.
BackendAnswers(c) ==
    /\ Move(c, "backend", IF cacheOn[c] THEN "store" ELSE "record")
    /\ \E t \in Tokens :
         /\ m' = [m EXCEPT ![c] = MarkSuccess(AddResponse(@, attempt[c], t), attempt[c])]
         /\ answer' = [answer EXCEPT ![c] = [by |-> c, tokens |-> t]]
         /\ billed' = [billed EXCEPT ![c] = @ + t]
    /\ UNCHANGED <<shared, cacheOn, attempt, issued, granted>>

\* Tokens of a failed attempt: a response that does not parse or validate has
\* been paid for, a BackendError carries no usage.
BilledFor(category) == IF category = "backend" THEN {0} ELSE Tokens

\* Mutant: the response is cached before it is validated.
AttemptFailsCached(c) ==
    \E category \in Categories : \E t \in BilledFor(category) :
      /\ Move(c, "backend", IF IsRetryable(category, attempt[c], MaxRetriesOf[c])
                            THEN "backoff" ELSE "giveUp")
      /\ m' = [m EXCEPT ![c] = NoteAttemptFailure(@, attempt[c], category)]
      /\ cache' = IF cacheOn[c] /\ category # "backend"
                  THEN [cache EXCEPT ![KeyOf[c]] = [by |-> c, tokens |-> t]] ELSE cache
      /\ billed' = [billed EXCEPT ![c] = @ + t]
      /\ UNCHANGED <<cfgCache, spent, recorded, cacheOn, attempt, answer, issued, granted>>

\* BackendError, ParseError or ValidationError.
AttemptFails(c) ==
    \E category \in Categories : \E t \in BilledFor(category) :
      /\ Move(c, "backend", IF IsRetryable(category, attempt[c], MaxRetriesOf[c])
                            THEN "backoff" ELSE "giveUp")
      /\ m' = [m EXCEPT ![c] = NoteAttemptFailure(@, attempt[c], category)]
      /\ billed' = [billed EXCEPT ![c] = @ + t]
      /\ UNCHANGED <<shared, cacheOn, attempt, answer, issued, granted>>

\* `except Exception`: wrapped as a BackendError that is never retried.
Abort(c, from) ==
    /\ Move(c, from, "giveUp")
    /\ m' = [m EXCEPT ![c] = NoteAttemptFailure(@, attempt[c], "backend")]

BackendRaisesOther(c) ==
    /\ Abort(c, "backend")
    /\ \E t \in Tokens \union {0} : billed' = [billed EXCEPT ![c] = @ + t]
    /\ UNCHANGED <<shared, cacheOn, attempt, answer, issued, granted>>

\* sleep_or_yield / asyncio.sleep ends and the loop comes round.
Wake(c) ==
    /\ Move(c, "backoff", "loop")
    /\ attempt' = [attempt EXCEPT ![c] = @ + 1]
    /\ UNCHANGED <<shared, cacheOn, m, answer, history>>

-----------------------------------------------------------------------------
\* After a valid response, still inside the attempt's try block.

Store(c) ==
    /\ Move(c, "store", "record")
    /\ cache' = [cache EXCEPT ![KeyOf[c]] = answer[c]]
    /\ UNCHANGED <<cfgCache, spent, recorded, cacheOn, attempt, m, answer, history>>

\* Mutant: the failed write is handled like a transient backend failure.
StoreFailsRetries(c) ==
    /\ CacheMayFail
    /\ Move(c, "store", IF attempt[c] < MaxRetriesOf[c] THEN "backoff" ELSE "giveUp")
    /\ m' = [m EXCEPT ![c] = NoteAttemptFailure(@, attempt[c], "backend")]
    /\ UNCHANGED <<shared, cacheOn, attempt, answer, history>>

\* CacheBackend.set raises: the valid answer is lost and the call fails.
StoreFails(c) ==
    /\ CacheMayFail
    /\ Abort(c, "store")
    /\ UNCHANGED <<shared, cacheOn, attempt, answer, history>>

RecordSuccess(c) ==
    /\ Move(c, "record", "charge")
    /\ Aggregate(c, m[c])
    /\ UNCHANGED <<cfgCache, cache, spent, cacheOn, attempt, m, answer, history>>

\* Mutant: a breach is treated as a transient failure and tried again.
ChargeRetries(c) ==
    /\ IF OverBudget(c)
       THEN /\ Move(c, "charge", IF attempt[c] < MaxRetriesOf[c] THEN "backoff" ELSE "giveUp")
            /\ m' = [m EXCEPT ![c] = NoteAttemptFailure(@, attempt[c], "backend")]
       ELSE /\ Move(c, "charge", "returned")
            /\ UNCHANGED m
    /\ ChargeBudget(c)
    /\ UNCHANGED <<cfgCache, cache, recorded, cacheOn, attempt, answer, issued, billed>>

\* BudgetExceededError is raised inside the try block, so a breach is noted as a
\* failure of the attempt and the call, already recorded, ends like a failed one.
Charge(c) ==
    /\ IF OverBudget(c)
       THEN Abort(c, "charge")
       ELSE /\ Move(c, "charge", "returned")
            /\ UNCHANGED m
    /\ ChargeBudget(c)
    /\ UNCHANGED <<cfgCache, cache, recorded, cacheOn, attempt, answer, issued, billed>>

\* Mutant: a failed call is told to the aggregator before mark_failure.
GiveUpUnmarked(c) ==
    /\ Move(c, "giveUp", "failCharge")
    /\ m' = [m EXCEPT ![c] = MarkFailure(@)]
    /\ Aggregate(c, m[c])
    /\ UNCHANGED <<cfgCache, cache, spent, cacheOn, attempt, answer, history>>

\* The loop is over without a result: mark_failure and the aggregator.
GiveUp(c) ==
    /\ Move(c, "giveUp", "failCharge")
    /\ m' = [m EXCEPT ![c] = MarkFailure(@)]
    /\ Aggregate(c, MarkFailure(m[c]))
    /\ UNCHANGED <<cfgCache, cache, spent, cacheOn, attempt, answer, history>>

\* RetryExhaustedError, unless the budget tracker raises first.
ChargeFailure(c) ==
    /\ Move(c, "failCharge", IF OverBudget(c) THEN "overBudget" ELSE "exhausted")
    /\ ChargeBudget(c)
    /\ UNCHANGED <<cfgCache, cache, recorded, cacheOn, attempt, m, answer, issued, billed>>

-----------------------------------------------------------------------------
\* The environment.

\* CancelledError at an await: a BaseException, which no handler sees.
Cancel(c) ==
    /\ ModeOf[c] = "async"
    /\ \E from \in {"backend", "backoff"} : Move(c, from, "cancelled")
    /\ UNCHANGED <<shared, cacheOn, attempt, m, answer, history>>

\* configure(cache_enabled=...)
Configure ==
    /\ cfgCache' = ~cfgCache
    /\ UNCHANGED <<cache, spent, recorded, pc, cacheOn, attempt, m, answer, history>>

\* Eviction, expiry or clear().
Forget(k) ==
    /\ cache[k] # NoAnswer
    /\ cache' = [cache EXCEPT ![k] = NoAnswer]
    /\ UNCHANGED <<cfgCache, spent, recorded, pc, cacheOn, attempt, m, answer, history>>

-----------------------------------------------------------------------------

\* The steps that a call, once begun, takes without being interfered with.
Advance(c) ==
    \/ LookupMiss(c) \/ LookupHit(c) \/ LookupFails(c)
    \/ RecordHit(c) \/ ChargeHit(c)
    \/ StartAttempt(c) \/ LoopEnds(c)
    \/ BackendAnswers(c) \/ AttemptFails(c) \/ BackendRaisesOther(c) \/ Wake(c)
    \/ Store(c) \/ StoreFails(c) \/ RecordSuccess(c) \/ Charge(c)
    \/ GiveUp(c) \/ ChargeFailure(c)

Next ==
    \/ \E c \in Calls : Begin(c) \/ RenderFails(c) \/ Advance(c) \/ Cancel(c)
    \/ Configure
    \/ \E k \in Keys : Forget(k)

Spec == Init /\ [][Next]_vars

\* Threads and tasks are scheduled, the backend answers or times out (`timeout`
\* is passed to it) and a sleep ends: a call that can go on does.
FairSpec == Spec /\ \A c \in Calls : WF_vars(Advance(c))

-----------------------------------------------------------------------------
(***************************************************************************)
(* Properties.                                                             *)
(***************************************************************************)

\* Every variable keeps its type.
TypeOK ==
    /\ cfgCache \in BOOLEAN
    /\ cache    \in [Keys -> Answers \union {NoAnswer}]
    /\ spent    \in Nat
    /\ recorded \in [Calls -> Seq(BOOLEAN)]
    /\ pc       \in [Calls -> Labels]
    /\ cacheOn  \in [Calls -> BOOLEAN]
    /\ attempt  \in [Calls -> Nat]
    /\ m        \in [Calls -> CallMetricsType]
    /\ answer   \in [Calls -> Answers \union {NoAnswer}]
    /\ issued   \in [Calls -> Nat]
    /\ billed   \in [Calls -> Nat]
    /\ granted  \in Nat

\* The metrics a live call ends with tell how it went, however it ended:
\* `attempts` is the number of backend calls made, the failure history has one
\* entry per failed attempt, in order, and `retries` is one less than `attempts`.
\* (metrics.py:120-129 over every path of the retry loop, the budget breach and
\* the failed cache write after a valid answer included.)
AttemptAccounting ==
    \A c \in Calls :
      /\ m[c].cache_hit => issued[c] = 0
      /\ pc[c] \in {"returned", "exhausted", "overBudget"} /\ ~m[c].cache_hit =>
           /\ m[c].attempts = issued[c]
           /\ Len(m[c].attempt_errors) =
                IF pc[c] = "returned" THEN issued[c] - 1 ELSE issued[c]
           /\ \A i \in 1..Len(m[c].attempt_errors) : m[c].attempt_errors[i].attempt = i - 1
           /\ m[c].retries = IF issued[c] = 0 THEN 0 ELSE issued[c] - 1

\* What the aggregator was told of a call, by the way the call ended.  A call that
\* breaches the budget after a valid answer is the only one counted twice, as a
\* success and as a failure, and it never ends as RetryExhaustedError; a call that
\* a cache read, the prompt or a cancellation ends is not counted at all.
RecordsMatchOutcome ==
    \A c \in Calls :
      /\ pc[c] \in {"renderError", "cacheError", "cancelled"} => recorded[c] = << >>
      /\ pc[c] \in {"returned", "rehydrateError"} => recorded[c] = <<TRUE>>
      /\ pc[c] = "exhausted" => recorded[c] = <<FALSE>>
      /\ pc[c] = "overBudget" =>
           IF m[c].cache_hit THEN recorded[c] = <<TRUE>>
                             ELSE recorded[c] \in {<<FALSE>>, <<TRUE, FALSE>>}

\* However calls interleave, the tokens of the records the tracker accepted stay
\* within the limit, so those of the calls that returned do: whoever crosses the
\* limit, or comes after, gets BudgetExceededError (budget.py:115-138 as the
\* executor uses it).
GrantedWithinLimit ==
    /\ granted <= Limit
    /\ granted <= spent
    /\ \A c \in Calls : pc[c] = "returned" => ChargedTokens(m[c]) <= granted

\* The budget tracker and the aggregator agree on the tokens: the tracker's total
\* is that of the aggregator's records, less those on their way from one to the
\* other (the two critical sections of _record).
Charges(c) ==
    Len(recorded[c]) - (IF pc[c] \in {"hitCharge", "charge", "failCharge"} THEN 1 ELSE 0)

BudgetMatchesAggregator ==
    spent = SumFunction([c \in Calls |-> Charges(c) * ChargedTokens(m[c])])

\* Only validated answers are cached or served: an entry of key k, and the answer
\* of a hit, is the answer some call of that key got from the backend, with its
\* token count -- also when that call itself ended with an exception later.
CacheHoldsObtainedAnswers ==
    /\ \A k \in Keys :
         cache[k] # NoAnswer =>
           LET b == cache[k].by IN
           KeyOf[b] = k /\ cacheOn[b] /\ answer[b] = cache[k] /\ m[b].usage = cache[k].tokens
    /\ \A c \in Calls :
         m[c].cache_hit =>
           LET b == answer[c].by IN
           /\ answer[c] # NoAnswer
           /\ b # c /\ KeyOf[b] = KeyOf[c] /\ answer[b] = answer[c] /\ issued[b] > 0
           /\ m[c].total_usage = m[b].usage

\* Once a call has been reported to the aggregator it never calls the backend
\* again: neither a budget breach nor a failed write starts another attempt.
NoBackendAfterReport ==
    [][\A c \in Calls : issued'[c] # issued[c] => recorded[c] = << >>]_vars

\* A call that has begun ends: returned, raised or cancelled.
StartedCallsSettle ==
    \A c \in Calls : pc[c] \in Running ~> pc[c] \in Settled

-----------------------------------------------------------------------------
(***************************************************************************)
(* What docs and comments say and the code does not do.                    *)
(***************************************************************************)

\* One invocation is one record ("Record one call.", aggregator.py:131): two calls
\* give two metrics in capture_metrics (README.md:241-244).
OneRecordPerCall == \A c \in Calls : Len(recorded[c]) <= 1

\* total_usage is "Tokens charged across ALL attempts (including failed retries)"
\* (metrics.py:140-141): what the provider charged for a call that returned.
TotalUsageCoversAttempts ==
    \A c \in Calls :
      pc[c] = "returned" /\ ~m[c].cache_hit => m[c].total_usage = billed[c]

\* "subsequent calls check thresholds *before* running the backend call"
\* (budget.py:15-16): no backend call starts once the budget is exceeded.
NoBackendCallOverBudget ==
    [][\A c \in Calls : issued'[c] # issued[c] => spent <= Limit]_vars

\* "Async implementation -- mirrors sync" (executor.py:392): an async call resolves
\* cache_enabled to what a sync call of the same function would at that moment.
AsyncMirrorsSync ==
    [][\A c \in Calls :
          pc[c] = "idle" /\ pc'[c] \in {"lookup", "loop"} =>
              cacheOn'[c] = SyncCacheEnabled(c)]_vars

-----------------------------------------------------------------------------
(***************************************************************************)
(* The executor implements CallProtocol.  An answer is the call's own when *)
(* it is not a cache hit; tries are backend calls issued.                  *)
(***************************************************************************)
phaseBar ==
    [c \in Calls |-> IF pc[c] = "idle" THEN "ready"
                     ELSE IF pc[c] \in Running THEN "running"
                     ELSE IF pc[c] = "returned" THEN "returned" ELSE "raised"]

obtainedBar == [c \in Calls |-> IF m[c].cache_hit THEN NoAnswer ELSE answer[c]]

resultBar == [c \in Calls |-> IF pc[c] = "returned" THEN answer[c] ELSE NoAnswer]

Protocol ==
    INSTANCE CallProtocol
        WITH phase <- phaseBar, tries <- issued, obtained <- obtainedBar, result <- resultBar

\* Every behaviour of the executor is one of the protocol its callers rely on.
ImplementsProtocol == Protocol!PSpec
=============================================================================
