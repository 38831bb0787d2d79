# agentic-function: TLA+ models, checks and proofs

`agentic-function` turns a typed Python signature into a call of a language
model: the prompt is rendered from the arguments, the response is parsed and
validated against a schema, failures are retried, answers are cached, and each
call is reported to an aggregator and a budget tracker.  This directory holds
TLA+ modules of that machinery -- of the state that several calls share, and of
what happens to the data of one call -- TLC configurations that check them on
small instances, and TLAPS proofs for all instances.  Paths below are relative to `src/agentic_function/`.

    tlc -config executor_safety.cfg MCExecutor     model-check one run
    tlapm ExecutorProofs.tla                       check the proofs of a module

`PROJECT.json` lists components, runs, mutants, theorems, the hazards the
properties are aimed at, and for every definition the source lines it models.

## Inventory

| Component | State | Operations | Hard behaviour | What makes it correct |
|---|---|---|---|---|
| Executor (`runtime/executor.py`) | locals of each call, a `CallMetrics` object | `execute`, `aexecute` | threads and tasks interleave at every access to the cache, the aggregator and the budget tracker; retries; exceptions from any collaborator; cancellation | metrics tell what happened; a report matches the end of the call; bounded tries; only validated answers are returned or cached; every call ends |
| Call metrics (`runtime/metrics.py`) | counters and failure history of one call | `note_attempt_failure`, `mark_success`, `mark_failure` | counters written from several places | attempts, retries and history agree |
| Retry policy (`runtime/retry.py`) | none | `is_retryable`, `delay_for` | boundaries | no retry past `max_retries` |
| Budget tracker (`runtime/budget.py`) | totals per metric, list of budgets | `add`, `record`, `check` (which nothing calls), `reset` | concurrent records around the limit | whoever crosses the limit, or comes later, is told; what was accepted is within every limit |
| Aggregator (`runtime/aggregator.py`) | statistics per function, totals, history | `record`, `summary`, `top_functions`, `history`, `reset` | readers and callbacks outside the lock; objects changed after they were recorded | statistics are the sum of the records; totals are the sum of the statistics |
| Caches (`runtime/cache.py`) | two dicts and a lock; a directory of files | `get`, `set`, `clear` | eviction against expiry; several processes, crashes, torn files | an answer is the one last set, unexpired and whole, or a miss |
| Tracing (`runtime/trace.py`) | span list and span stack of a context | `start_span`, `end_span`, `trace` | tasks share one stack; spans left open | an attempt's span descends from its call's |
| Process-wide state (`config.py`, `core/decorator.py`, `core/function.py`, `backends/base.py`, `testing.py`) | default executor, backend, cache, aggregator, tracker, config; the executor pinned in a function, the cache pinned in an executor | setters, `isolate_execution`, `capture_metrics`, decoration, the lookups of a call | late or early binding; nested and overlapping blocks; slots replaced while a call is under way | what a block replaces is back when it is left; a call reports to what was installed when it began and looks in the cache of its block |
| Mock backend (`backends/mock_backend.py`, `testing.py`) | registrations, one row counter per table | `register`, `complete`, `mock_llm_table` | counters under threads, first match wins | each call gets its fixture, the rows in order |
| Remote backends (`backends/openai_backend.py`, `backends/anthropic_backend.py`) | none that calls share | conversion of messages and of replies | each API has its own form of both | nothing that is said is lost; an answer is understood the same from either |
| Prompt (`core/prompt.py`) | none | `render_prompt`, `_safe_format` | values are formatted together with the template; order of exemplars | what is no placeholder stays as it is |
| Answers (`runtime/executor.py`, `validation/`) | none | `_extract_json`, `_parse_and_validate`, `coerce_value` | brackets in strings, prose and fences around JSON | an object that is there is found; a coerced value has its type and its number |
| Diagnostics (`runtime/diagnostics.py`) | none | `diagnose`, `explain_failure` | five ways to end | the explanation is what happened |
| Schema resolution, composition, utilities | none that calls share | | | |

How they interact: `AgenticFunction.__call__` and `acall` hand a request to the
executor.  The executor asks the cache (`get`), else calls the backend up to
`max_retries + 1` times, stores a valid answer (`set`), then reports the
`CallMetrics` object to the aggregator, which hands it to the `on_record`
callback, and to the budget tracker, which may raise into the executor.

## Modules

    CacheContract                        CallMetrics   RetryPolicy
      ^          ^                          ^     ^        ^
      | implements                          |     |        |
    MemoryCache  DiskCache          Aggregator   Executor ---implements--> CallProtocol
      ^          ^  ^                 ^    ^       ^  ^
      |          |  DiskCacheProofs   |    |       |  |
      |      MCDiskCache              |    |       |  |
    MemoryCacheProofs       MCAggregator   |       |  |
                                           |       |  |
                              AggregatorProofs     |  |
                                          MCExecutor  |
             Tracing <----------------------- TracedExecutor
                                                ^       ^
                                  MCTracedExecutor      ExecutorProofs

    ProcessState  BudgetTracker     JsonExtraction            CallMetrics  RetryPolicy
          ^          ^                    ^                        ^            ^
          |          |              BackendAdapters  PromptRendering            |
          Session ---+                ^     ^          ^    ^  +----------------+
           ^   ^                      |     +-Pipeline-+    |
    MCSession  SessionProofs          |        ^    ^       |
                                      +--------|----|-------+-- TextTheorems
                                               |    |                ^
                                               |    +-- PipelineProofs
                                       PipelineAndCoercion --> Coercion
                                               ^             (INSTANCE)
                                           MCPipeline

    SumTheorems, about sums over sets, is used by ExecutorProofs, AggregatorProofs,
    SessionProofs, TextTheorems and PipelineProofs.

**CallMetrics** is the metrics object as a record, with one operator per mutator
and for the accounting the executor writes inline.  A `TokenUsage` is its
`total_tokens`; costs, latencies and snapshots are left out, because nothing
branches on them.  **RetryPolicy** is `is_retryable`.

**Executor** runs any number of calls, each `sync` (a thread) or `async` (a
task), over one cache, aggregator and budget tracker.  `pc` says where a call
is; what a call does between two accesses to shared state is one step, and each
access holds its owner's lock and is one step.

| Label | Code | Actions that leave it |
|---|---|---|
| `idle` | before `_run_sync` / `_run_async` | `Begin`, `RenderFails` |
| `lookup` | `self.cache.get` | `LookupHit`, `LookupMiss`, `LookupFails` |
| `hitRecord`, `hitCharge` | `_record` of a hit, aggregator then budget | `RecordHit`, `ChargeHit` |
| `loop` | `for attempt in range(max_retries + 1)` | `StartAttempt`, `LoopEnds` |
| `backend` | the backend call, parsing and validation | `BackendAnswers`, `AttemptFails`, `BackendRaisesOther` |
| `backoff` | `sleep_or_yield`, `asyncio.sleep` | `Wake` |
| `store` | `self.cache.set` | `Store`, `StoreFails` |
| `record`, `charge` | `_record` of a success, still inside the `try` | `RecordSuccess`, `Charge` |
| `giveUp`, `failCharge` | after the loop: `mark_failure`, `_record` | `GiveUp`, `ChargeFailure` |

An async call may also be cancelled at either await (`Cancel`); `Configure`
switches the cache in the global config, `Forget` is any eviction, expiry or
clear.  A cached or returned answer is tagged with the call that obtained it.
`issued`, `billed` and `granted` are history variables.  The cache is a map here
because **MemoryCache** and **DiskCache** are shown to implement
**CacheContract**, which is what the executor relies on.  **CallProtocol** is
what a caller may expect of a call; the refinement mapping is at the end of
`Executor`.

**MemoryCache**: `store` and `expiry` are the two dicts, `order` is the order in
which a dict keeps its keys, since eviction takes the first.  Everything happens
under the lock, so `Get`, `Set` and `Clear` are one step each; the clock moves
between them.  Each entry carries, as history, the deadline its own `set` gave it.

**DiskCache**: a directory maps a key to the inode of `<key>.json` and of
`<key>.json.tmp`, inodes to content.  Each process has a lock of its own, so
its operations come one at a time, but all file operations of different
processes interleave.  A `set` is `OpenTmp`, `Write`, `Replace`; a `get` is
`GetFound`, `OpenEntry`, then one of the `Load` actions and perhaps
`RemoveExpired`; a `clear` is `ListDir` and one `RemoveListed` per file.  A
process may crash between any two, a write may fail, and the directory may
start with files an earlier power loss has torn.  The lock is one per instance and
the temporary name one per key, so two processes may `set` one key at once, and the
model lets them: the second `open` empties the file that the first writes, two writers of one
inode leave either entry or a mixture (`Torn`; how many bytes of which does not
matter, since readers reject every mixture alike), and one may rename the file that the other still
writes.  Such sets are noted (`crossed`), and the key that one of them installs is
`suspect`, as is one whose file a power loss has torn, until a set that overlaps no
other replaces the file.  **MCDiskCache** adds the `VIEW` of the run: it leaves out
what inodes are called, what an inode holds that nothing leads to, and history that no later step
looks at.

**Aggregator**: `record` is two steps under the lock (`RecordBegins`, `RecordEnds`),
because a row of `top_functions`, which is read after the lock has been released
(`TopFunctions`, `ReadField`, `Deliver`), can fall between them.  `Callback` is
`on_record`, also outside the lock.  `Breach` is the executor turning an already
recorded success into a failure and reporting it again.  `Reset` drops the
`FunctionStats`, so a row in the making keeps the one it reads from
(`detached`).  `log` is a history variable: what was recorded since the last reset.

**Tracing** is a `TraceContext`: the list of spans, a span known by its place in
it, and the stack of the open ones.  **TracedExecutor** adds to every step of
`Executor` what that step does to the spans (`TSpanless` are those that do nothing to them): `TBegin` opens the call's span,
`TStartAttempt` opens an attempt's under whatever is on top of the stack, an
attempt's span is closed by `EndSpan`, a call's span by `FinishSpan`, which leaves
it on the stack.  All tasks started inside a `trace()` block share its one
context; `Traced` says which calls did.

**BudgetTracker** is the tracker as a record, with `record` and `reset`
over any list of budgets; `check`, which nothing calls, is left out.  **ProcessState** has the process-wide slots, the
cache that an executor has pinned, and entering and leaving the blocks of
`testing.py`; what a block creates is named after the block.  **Session** puts
calls of one decorated function among them: `Decorate` pins the executor, `Begin`
looks up the aggregator and the tracker, `Lookup` pins the executor's cache,
`Attempt` resolves the backend, `Answer` resolves it again for `metrics.backend`,
`Report` tells the objects that `Begin` found.  `home` notes under which blocks the
function was decorated and its executor first used.  A report is one step here, and an
attempt fails only for want of a backend: the interleaving within a report and
the other failures are `Executor`'s.

**Pipeline** follows the data of a call: `Render`, the cache key, the request
that an adapter makes or the mock's table handler (`ReadCounter`, `LoadCounter`,
`StoreCounter`: the Python statements between which another thread may run),
`ParseSucceeds` or `ParseFails`, and what diagnosis says at the end.  Its parts
are operators: **PromptRendering** (`render_prompt`, `_safe_format`),
**BackendAdapters** (the two adapters' conversions and `_materialise`),
**JsonExtraction** (`_extract_json`: the text as a whole, without fences, then the
first balanced candidate).  **PipelineAndCoercion** adds **Coercion**
(`coerce_value`, by recursion on the value, which is why it stands apart: no theorem
can be about a module that uses it).  A text is a sequence of symbols -- brackets, quotes, fences, and `word` for everything else
-- so that each decision of the code about a character is a decision here.
`json.loads` and `str.format_map` are external: `Loads` and `Format` are what
they do on such texts.

## Runs

| Run | Module | Shows | Bounds |
|---|---|---|---|
| `executor_safety` | MCExecutor | the safety, action and refinement properties of the executor | 3 calls of one key: a sync one without retries, an async one with one retry, one that may only use the cache; answers of 1 or 2 tokens, limit 2; cache errors on |
| `executor_liveness` | MCTracedExecutor | every call that begins ends; attempts stay under the calls that made them, and spans tell how they ended | a sync call without retries and an async one with one, both in one trace; 1 token is the budget |
| `memory_cache` | MemoryCache | bounded, fresh, implements CacheContract | 3 keys for 2 places, 2 values, ttl 0, 1 or none, clock 0..2 |
| `disk_cache` | MCDiskCache | never torn and implements CacheContract, but where sets have overlapped or power was lost | 2 processes, 1 key, ttl 0, 1 or none, 4 inodes, clock 0..1 |
| `aggregator` | MCAggregator | statistics, totals, history, callback and rows | 3 calls of 2 functions, history of 2; calls end at the first try, the second try, exhausted, without any attempt, or as a hit |
| `session` | MCSession | what is bound when: blocks bring and restore their objects, reports go where they belong, calls use the cache of their block, budgets of several metrics and scopes hold | 2 calls with at most one retry, one `isolate_execution` with a cache, one `capture_metrics`; the function's backend unset or by name; a cost limit of 1, token limits of 4 and 5 and a function-scope limit of 0 |
| `pipeline` | MCPipeline | prompts, requests, mock tables, extraction of JSON, coercion, explanations, each against a reference statement | one call over 91 x 13 x 14 texts, 784 templates with 6 values, 30 pairs of replies, and 781 Python values against 29 types; two and three calls over tables of 4 rows, one call with a model of its own |
| `budget_double_record` | MCExecutor | finding 1 | limit 1 |
| `total_usage` | MCExecutor | finding 2 | one retry |
| `budget_precheck` | MCExecutor | finding 3 | limit 1 |
| `async_cache_switch` | MCExecutor | finding 4 | one sync and one async call |
| `top_functions` | MCAggregator | finding 5 | as `aggregator` |

The bounds are the smallest with which the interesting cases meet.  Three calls
let one hold an answer, one be served it and a third cross the budget between
them; a limit of 2 is crossed by one answer and by two; one retry gives a failure
history with both a recovered and an exhausted call.  One key is enough for
the executor, whose calls meet only through a key, and for the disk cache, whose
files of different keys have nothing in common but inodes.  Three keys for
two places make the in-memory cache evict while the key to set is there and
while it is not; three clock values let a deadline be set, replaced and passed.
Two processes are all that `os.path.exists`, `open`, `os.remove` and `os.replace`
need to race; four inodes cover one name each for the entry and the temporary
file and one open file per process, so no `set` waits for an inode.
For `session`, one block of either kind gives all nestings and overlaps of two
(each can begin and end before, inside and across the other), and a second call
meets what the first has left pinned.  The budgets make the second answer of
two cross the cost limit, and the record of that breach cross a token limit that two
budgets on one metric bring nearer.  For `pipeline`, texts are
every prefix of up to two symbols, one of 13 bodies that are hard to tell apart
and a suffix; templates are all sequences of up to four symbols; three calls and
four rows make handlers overlap in every way and rows run out under retries.
Symmetry is used in `session` only, where the two calls are alike and no
property is about liveness; in the executor's runs the calls differ.

Deadlock checking is off where a run can stop: when every call has ended
(`executor_liveness`, `pipeline`) or reported and nobody reads (`aggregator`,
`session`).  `executor_safety` never stops because `Configure` is always
possible, so what shows the executor's progress is `StartedCallsSettle`.

**Fairness.** `FairSpec` assumes weak fairness of each call's own steps
(`Advance`, and in `TFairSpec` the same steps with their spans, which never hold a
call back): threads and tasks are scheduled, the backend answers or fails
(every backend is given a timeout, `config.py:36`), a sleep ends.  Nothing is
assumed of when calls begin, of cancellation, of the configuration or of
eviction.  Weak fairness suffices because no step of a call can be disabled by
another call without enabling an alternative (a lookup is a hit or a miss).

**Mutants.** For each property of each passing run there is a definition of the code
changed the way a plausible bug would change it, and TLC finds the property
violated.  The changed definitions stand next to the original ones, marked
`Mutant`.

## Findings

1. A budget breach after a valid answer is raised inside the attempt's `try`
   block, caught there as an unexpected backend error, and the call is recorded
   and charged a second time as a failure (`executor.py:329`, `:356`, `:378`).
   `RecordsMatchOutcome` says exactly which calls this happens to.
2. `total_usage` leaves out the tokens of failed attempts, although it is
   documented to include them (`executor.py:264`, `metrics.py:140`).
3. No call checks the budget before its backend call (`budget.py:15`, `:85`).
4. `acall` needs the global cache switch as well as `cache=True`; the sync call
   does not (`executor.py:419`, `:188`).
5. A row of `top_functions` can be torn, although the aggregator is documented
   as thread-safe (`aggregator.py:270`, `:12`).

Smaller disagreements between comments and code, met while modelling and not
given a run.  No property demands what the code does there against its documentation;
where one is near, it leaves the case open:

- `trace.py:5-6` promises a proper tree of which function called which.  A call's span is
  finished but never popped (`executor.py:170`, `trace.py:72-82`), so that every later
  call of the trace becomes its descendant, and calls of concurrent tasks each
  other's.  `AttemptsUnderTheirCall` says what is left: an attempt is found under its call.
- `testing.py:11-13` and `167-172` say that a block replaces executor, cache, backend,
  aggregator and budget tracker by fresh ones and restores everything.  The default
  backend is not restored, executor and cache are only replaced if a cache is given, and a
  `budget_tracker` is never installed (`testing.py:183-227`).  `SlotsRestored` is about
  the rest.
- `function.py:114-118` says that the executor can be swapped after decoration, but the
  decorator always pins it (`decorator.py:201`), and an executor keeps the cache of its
  first use (`executor.py:141-145`), which may be that of a test block long left.
  `CallsUseTheirBlocksCache` exempts functions decorated, or executors first used,
  under other blocks than those open now.
- `budget.py:7-9` has function-scoped budgets checked after each call to the function;
  nothing records with that scope.  `budget.py:35` and `:51` speak of the running total
  and of a single ceiling; with several budgets on one metric each adds to the one total,
  so that their limits are reached early (`budget.py:120-123`).  `BudgetsHold` asks that
  limits hold, and for exact totals only of metrics with one budget.
- The repository's `README.md:220` says that cache keys cover the model; they cover the
  function's, not the one that a call overrides it with (`executor.py:202`), so such a call is
  served the other model's answer.  `HitsMatchRequests` is about calls of one model.
- `prompt.py:10-11` says that exemplars follow the system message; they follow the
  question (`prompt.py:134-145`).  `RequestIsWhole` leaves open which comes first.
- `prompt.py:31-33` says that a KeyError is never raised, but a brace in a value can
  raise or be expanded again (`PlainValuesVerbatim` says when it cannot).
- `diagnostics.py:220` names the category "validation" where `explain_failure` gives
  "retry_exhausted" and puts "validation" into the root category
  (`ExplanationTellsAttempts`).
- `cache.py:144-145` says that `DiskCache` is not optimised for concurrent access; more
  than that, sets of one key that overlap may leave a torn file, which every get then
  raises on until the next set or clear.  `NeverTorn` exempts it until then.

## Proofs

`ExecutorProofs` proves, for any sets of calls, keys and token counts, any budget
limit and any retry policies:

- `TypeCorrect`: `TypeOK` is invariant; by itself inductive, with one lemma per
  mutator of `CallMetrics`.
- `RecordsCorrect`: `RecordsMatchOutcome`.  It constrains only calls that have
  ended, so the inductive invariant `ReportInv` also says, of every label on the
  way there, what has been recorded and whether the call is a hit or a success.
  The crux is a call that gives up after it was recorded as a success: that
  happens only over budget, the total never goes down, so its second charge
  raises too and it cannot end as `RetryExhaustedError`.
- `BudgetHolds`: `GrantedWithinLimit`, which is another part of `ReportInv`; it
  needs that a call that has returned keeps its metrics.
- `NoBackendAfterReportHolds`: an action property, from the same invariant as
  `RecordsCorrect`: a call at `loop` has no record.
- `BudgetAgreesWithAggregator`: `BudgetMatchesAggregator`, a sum over all calls.
  Every step is shown to change one summand at most (`ReportInv` says which
  calls are between the aggregator and the tracker), and `SumTheorems` how the sum
  follows it.

and on top of these:

- `AccountingHolds`: `AttemptAccounting`.  The inductive
  invariant `AccountInv` relates the counters, the failure history, the backend
  calls issued and the local `attempt` at every label: at `loop` each attempt so
  far has failed, from the answer on the last one has not.  A budget breach is the
  case to look at, because it turns the successful attempt into a failed one.
- `ReportsAreAccounted`: a call's metrics add up at the very moment it is reported,
  which is what `Aggregator` assumes of the calls that report to it
  (`OutcomesAssumption`).
- `CachedAnswersHold`: `CacheHoldsObtainedAnswers`.  The
  invariant `AnswerInv` says where a call has no answer yet and that, once it
  holds one that is not a hit's, it keeps it together with its usage, whatever
  happens to the call afterwards; so a cache entry stays true of the call that it
  is tagged with, and a call that is served an entry is not its producer.
- `ExecutorImplementsProtocol`, from both invariants: the
  first gives that no try is one too many (at `loop`, `issued` is `attempt`), the
  second that a hit's answer is held by another call.  Each step of a call is shown to
  look to its caller like one of the protocol's five, or like nothing (`StepIsSeen`).

and, for any number of calls of which any may be traced:

- `TracingIsTransparent`: a behaviour of traced calls is one of `Executor`, so that
  the theorems above hold of traced calls too;
- `AttemptsUnder`: `AttemptsUnderTheirCall`.  The property speaks of spans
  that exist, but the parent of the next one is the top of the stack; so the
  inductive invariant (`SpanInv`) says of the stack that it is ordered, that every
  call's span is on it for ever, which holds because only attempts' spans are
  popped, and that `attempt_span` of every call is none or an attempt's span.  Since
  the parent of a span is never before the latest call's, all spans from a
  call's on descend from it (`LaterSpansDescend`), its attempts among them (`CallFirst`);
- `SpansTell`: `SpansTellOutcome`.  It looks at ended calls; the inductive invariant
  (`TellInv`) says of every label what the call's span and its latest attempt's
  show so far, and that no two calls have a span in common, so that no call
  finishes another's.

`MemoryCacheProofs` proves for any keys, values, ttls, `max_size > 0` and
number of threads that `InMemoryCache` keeps its bound and its two dicts in step
(`BoundedHolds`), never serves an expired entry (`FreshnessHolds`) and
implements `CacheContract` (`Implementation`), with variables that keep their types
(`MemoryTypeHolds`).  The inductive invariant
(`Invariant`) adds two facts to the properties: a stored entry with a deadline
of its own has one in `_expiry` that is no later (a `set` without ttl may leave
an earlier one of the entry it replaces), and a stored entry is the one
last set for its key.

`DiskCacheProofs` proves, for any number of processes, any keys, ttls and inodes,
and any crashes, failed writes, overlapping sets and files damaged before, that an
entry is not torn unless its key is suspect (`NeverTornHolds`) and that `DiskCache`
implements `CacheContract`, where a get that opens a suspect key's file counts as a miss
(`DiskImplementation`).  The run has one key; the proof also covers processes that
work on several.  The inductive invariant (`DirectoryInv`) says who may write what:
a temporary file is no entry's, no other key's and no open reader's; the file of
a key that is not suspect holds the entry last installed and nobody has it open for
writing; and a set that overlaps no other has the temporary file to itself, empty before
its `json.dump` and whole after.  The crux is that the file which such a set installs
has no writer left: whoever opened it before has closed it, or it would be a set
that overlaps.  Variables keep their types (`DiskTypeHolds`).

`AggregatorProofs` proves every safety property of the aggregator for any number of
calls and functions, any outcomes that add up and any length of the history:

- `TypeCorrect`: `TypeOK`.
- `EvalSignalsAgree`: `EvalSignalsConsistent`.  `record` is two steps, so the
  invariant says it of the statistics as they will be when the lock is
  released (`StatsBegun` counts the call, `StatsAfter` the rest).
- `RowsNeverOvercount`: `ReportNeverOvercounts`, of rows read outside the lock.  The
  invariant (`RowInv`) relates what the row holds to what the object that it is read from
  has now: counters of an object never go down, and one that a reset has dropped
  stays as it was.
- `CallbackMissesNothing`: `CollectedCoversHistory`.  How often a call occurs in a
  history that is cut at its front, against how often it was called back.
- `TotalsAreSums`: `TotalsMatchFunctions`, per field and per category.
- `SummaryAddsUp`: `StatsMatchLog`, the statistics against the records themselves:
  each count is the cardinality of the records of a kind, tokens and categories
  are sums over them.

`SessionProofs` proves every property of `Session` for any number of calls and
blocks, any retry policy and any list of budgets:

- `SessionTypeHolds`: `TypeOK`, with what each label needs of the call's locals
  (`TypeInv`).
- `SlotsAreRestored`: `SlotsRestored`.  The run has two blocks; the theorem has
  any number, nested to any depth.  The inductive invariant (`NestInv`) says that the open blocks
  are those of `nest`, each once; that the slots follow all of them; and that what the
  i-th has saved follows the i - 1 around it.  So what a block restores is right.
  It holds only until blocks overlap, from when on nothing is promised.
- `RecordsFollow`: the action property `RecordsFollowBlocks`, from `SlotsAreRestored`'s
  invariant at the time a call begins, and from nobody changing what it has taken.
- `BlocksCacheUsed`: `CallsUseTheirBlocksCache`.  The invariant (`CacheInv`) is that the
  function's executor, if its cache was taken under the blocks of the decoration, has
  that of the innermost isolate among them; that nothing but an isolate gives an
  executor a cache before the function is decorated; and that a block not
  yet entered has its executor nowhere (`Unheard`), so that entering it pins no other cache
  in the function's.
- `ReportedBackendIsTheOne`: `ReportedBackendAnswered`.
- `BudgetsHoldAlways`: `BudgetsHold`.  The invariant (`BudgetInv`) has the product that
  the property does without: a metric's total is what has been charged times the
  number of its budgets, and what was accepted, times that number, is within each limit.

`PipelineProofs` proves what calls in threads have to do with each other, and what
is said of them, for any number of calls, any tables, any replies and any answers:

- `HitsMatch`: `HitsMatchRequests`.  The inductive invariant (`CacheInv`) is that
  every entry is the result of a settled call whose key it is under, and a settled
  call stays as it is; the property leaves out hits across models.
- `RowsAreServedInOrder`: `RowsInOrder`.  `CountersInv` counts the handlers that have
  read a table's counter and not stored it yet: counter and handlers together never
  exceed the number of reads, and are equal to it, with one handler at most, until two
  have overlapped.  Without the handlers that are under way it is not inductive: between the read
  and the store the counter is behind.  `HandlerInv` says the same of the number that a
  handler has loaded, which is what it is going to store.
- `ExplanationsTell`: `ExplanationTellsAttempts`.  The invariant (`AttemptsInv`) says
  of every label which of the contents so far the failure history speaks of.
- `OnlyValidResults`: whatever is returned or kept has passed the schema.

and, for any templates, arguments, exemplars and answers, of the texts themselves:

- `TypeCorrect`: `TypeOK`, with what is found in an answer being an object, an array or
  a string.
- `RequestsAreWhole`: `RequestIsWhole`, through what either adapter makes of the messages
  (`QuestionAndPairs`: the turns are a question and pairs).
- `PlainValues`: `PlainValuesVerbatim`, through both passes of `_safe_format`.
- `AdaptersAreAlike`: `AdaptersAgree`.
- `ObjectsAreFound`: `ObjectIsFound`.

Their inductive invariant (`TextsInv`) is small: at each label, which of the messages,
the request and the content are what the code before it makes of the job.  The rest
is about what that code computes, whatever the text, and is proved in `TextTheorems`:

- A fold over a text (`FoldLeft`) is shown to be what its steps make of it one after the
  other: a function `f` with `f[0]` the first state, `f[i]` what the i-th symbol makes of
  `f[i - 1]`, and the fold's value as its last.  It is passed around as a function, since the
  provers cannot instantiate a theorem about an operator; inductions are over the
  set of the numbers that a claim holds for, as in `SumTheorems`.  The states of
  the reader, the formatter and the bracket scan are shown to stay among `Readers`,
  `Formatters` and `Scanners`.
- Selections and joined pieces (`FlattenSeq`) are split wherever a sequence is: what is
  sent to a backend, what is stripped and what is rendered is put together of the parts'.
- `PlainValuesVerbatim`: what a text has been formatted to, between two fields
  (`Writes`), grows with each piece of the first pass: by the brace for a doubled brace, by
  the value for a placeholder, by itself for plain text.
- `AdaptersAgree`: what the Anthropic adapter decodes, the executor would have found: a
  text without a fence in front as a whole; with one, no such text is JSON
  (`FenceIsNoJson`) and both look between the same two symbols (`FencesAgree`).
- `ObjectIsFound`: the reader of `json.loads` and the scan of `_find_top_level_json` run
  over the same symbols.  They are kept together (`Parallel`): both are in a
  string or neither is, and the depth of the scan is the number of frames of its own
  bracket on the reader's stack (`HasDepth`), which are pushed and popped where the scan counts.
  So a value that begins at a bracket ends exactly where the scan says
  (`ValueIsBalanced`).  What is left is arithmetic of
  places: the same value is found in the text as it is, without what is stripped, and
  between the fences (`ValueIsExtracted`).

`SumTheorems` has the lemmas about `SumFunctionOnSet` that those sums need: over the
empty set, over one element more, with one summand changed, with summands that
agree or are all zero.  An induction over a finite set is stated there over the set of the numbers for which
the claim holds (`NatSetInduction`), because the library's induction theorems
take an operator as a parameter.

Assumptions are those named in the modules: `ExecutorAssumption`,
`CallsAssumption`, `TracedAssumption`, `MemoryCacheAssumption`, `NoEntryAssumption`,
`DiskCacheAssumption`, `ContentAssumption`, `OutcomesAssumption`,
`FunctionsAssumption`, `ProcessAssumption`, `SessionAssumption`,
`NamesAssumption`, `ScenariosAssumption`.  They say that constants are of the right
kind; that calls and functions are finitely many (where something is summed over them);
that `NoAnswer`, `NoEntry`, `NoFile`, `Empty` and `Torn` are not answers, entries, inodes or
contents of an entry; that there is an inode for each key; that the outcomes
reported to `Aggregator` add up, which `ReportsAreAccounted` proves of `Executor`;
that blocks of different kinds are different; that no brace is an identifier; and that the
templates, arguments and answers are texts of the symbols modelled, what a tool call is given is a dict, and a mock
table has rows (`mock_llm_table` refuses none), each a string or a dict.  A dict
is one that `json.dumps` writes to text that `json.loads` reads as the same again (`IsDict`).
`max_size = 0` is excluded because there every `set` raises.

Only model-checked: `CoercionSettles`, about a recursive operator on trees of values;
the refutations of the five findings; and liveness (`StartedCallsSettle`), which is
out of the prover's reach, as is ENABLED.

## Plan

In this order, the most important behaviour first:

1. Done: call metrics, retry policy, executor, caches, aggregator, their runs
   and proofs.
2. Done: proofs that the executor's accounting is right and that it implements
   `CallProtocol`; `Tracing` and `TracedExecutor`, with a proof for any number of calls.
3. Done: `ProcessState`, `BudgetTracker` and their composition `Session`.
4. Done: `Pipeline` and its algorithms, against reference statements over bounded
   inputs; the mock backend's tables under threads.
5. Done: proofs of all properties of `Executor`, `TracedExecutor`, the caches,
   `Aggregator`, `Session` and `Pipeline` but liveness and coercion, those about what
   happens to a text included.
6. Left, models: the bounds of `delay_for`, the canonical form that
   `utils/hashing.py` makes of arguments, `RowsInOrder` for handlers that raise.

## Not modelled

- Schema resolution, JSON schemas and pydantic models (`core/schema.py`), costs
  (`utils/cost.py`), logging, timings and debug snapshots: pure functions of Python
  types and numbers, and values that nothing branches on.  A schema in `Pipeline`
  has one field.
- `stable_hash` is taken to tell different requests apart; `key_fn` is left out.
- Clients, request options, usage and streams of the remote backends;
  `default_response`, `calls` and `call_count` of the mock, and its rows that are neither
  strings nor dicts.
- `trace()` itself and the recorder.  `trace()` is a bare generator in the source
  (`trace.py`), although the README uses it in a `with` statement; `TracedExecutor`
  starts from the context that it installs.
- `coerce_value` is not called by the executor; pydantic validates its answers.
  `Coercion` models it for its own sake.  The formatting of validation errors
  (`validation/validator.py`), `to_text` and Prometheus output are text.
- `freeze_time` and `eval_summary` of `testing.py`; `NullCache`, which keeps nothing.
- Composition (`composition/`): a dict of functions, of which nothing else depends.
- `KeyboardInterrupt` in a sync call leaves by the same path as a cancelled task.
- In `Executor` the aggregator and the budget tracker are installed for good; calls
  made while they are being replaced belong to `Session`.
