------------------------------- MODULE Session -------------------------------
(***************************************************************************)
(* Calls of one decorated function while test blocks come and go: what a   *)
(* call takes from the process-wide slots (ProcessState), when it does,    *)
(* and what it reports to the objects it took.  Calls and blocks run in    *)
(* threads of their own.  An attempt fails here only for want of a         *)
(* backend, and a report is one step: Executor has the other failures, and *)
(* the interleaving inside a report.                                       *)
(***************************************************************************)
EXTENDS ProcessState, BudgetTracker

CONSTANTS
    Calls,          \* the invocations, with equal arguments and caching on
    MaxRetries,     \* of the function's retry policy
    BudgetList,     \* the budgets that the tracker is made with
    FnBackends      \* the kinds of backend argument that the function may have

ASSUME SessionAssumption ==
    /\ MaxRetries \in Nat
    /\ BudgetList \in Seq(Budgets)
    /\ FnBackends \subseteq {"unset", "named", "object"}

\* A backend that the registry has under a name, and one given as an object.
Registered == "registered"
Given      == "given"
Backends   == Owners \union {Registered, Given}

VARIABLES
    fn,         \* the function: its backend argument, and its executor once decorated
    entries,    \* the caches that hold the calls' answer
    tracker,    \* the BudgetTracker that Process has installed
    recorded,   \* aggregator -> how many records it has been given
    pc,         \* call -> where it is
    call,       \* call -> its locals
    \* History
    seen,       \* call -> what was the case at its begin, its lookup, its backend's
    home,       \* the blocks open when the function was decorated, and whether its
                \* executor took its cache while they were
    charged,    \* what has been recorded with the tracker since its last reset ...
    accepted    \* ... by the records that did not raise

callVars == <<fn, entries, tracker, recorded, pc, call>>
history  == <<seen, home, charged, accepted>>
vars     == <<slotVars, callVars, history>>

Labels == {"idle", "lookup", "attempt", "answer", "report", "settled"}

NewCall ==
    [executor |-> None, cache |-> None, agg |-> None, trk |-> None, attempt |-> 0,
     backend |-> None, reported |-> None, ok |-> FALSE, hit |-> FALSE]

NewSeen ==
    [innermost |-> None, shielded |-> FALSE, owner |-> None, switched |-> FALSE]

Init ==
    /\ SlotsInit
    /\ fn \in [backend : FnBackends, executor : {None}]
    /\ entries  = {}
    /\ tracker  = [NewTracker EXCEPT !.budgets = BudgetList]
    /\ recorded = [o \in Owners |-> 0]
    /\ pc       = [c \in Calls |-> "idle"]
    /\ call     = [c \in Calls |-> NewCall]
    /\ seen     = [c \in Calls |-> NewSeen]
    /\ home     = [nest |-> << >>, kept |-> FALSE]
    /\ charged  = Nothing
    /\ accepted = Nothing

-----------------------------------------------------------------------------
\* The function.

\* @agentic_function: the executor argument is left out.
Decorate ==
    /\ fn.executor = None
    /\ fn' = [fn EXCEPT !.executor = slots.executor]
    /\ home' = [nest |-> nest, kept |-> ~overlapped]
    /\ UNCHANGED <<slotVars, entries, tracker, recorded, pc, call,
                   seen, charged, accepted>>

\* The blocks are those that were open when the function was decorated.
AtHome == ~overlapped /\ nest = home.nest

\* AgenticFunction.executor: the decorator has always set the override.
FnExecutor == IF fn.executor # None THEN fn.executor ELSE slots.executor

\* AgenticFunction.backend; None is the BackendError of get_backend.  A default
\* backend wins over one that is given by name.
ResolvedBackend ==
    IF fn.backend = "object" THEN Given
    ELSE IF slots.backend # None THEN slots.backend
    ELSE IF fn.backend = "named" THEN Registered ELSE None

-----------------------------------------------------------------------------
\* Calls.

Goto(c, from, to) == pc[c] = from /\ pc' = [pc EXCEPT ![c] = to]

\* The executor, the aggregator and the budget tracker are taken at the start.
Begin(c) ==
    /\ fn.executor # None
    /\ Goto(c, "idle", "lookup")
    /\ call' = [call EXCEPT ![c].executor = FnExecutor,
                            ![c].agg = slots.aggregator,
                            ![c].trk = slots.tracker]
    /\ seen' = [seen EXCEPT
                    ![c].innermost = IF overlapped THEN None ELSE Innermost(Blocks),
                    ![c].shielded = Innermost(Isolates) # Process]
    /\ UNCHANGED <<slotVars, fn, entries, tracker, recorded,
                   home, charged, accepted>>

\* Executor.cache, pinned on its first use, and the lookup in it.
Lookup(c) ==
    LET cache == CacheOf(call[c].executor)
        hit   == cache \in entries IN
    /\ Goto(c, "lookup", IF hit THEN "report" ELSE "attempt")
    /\ Pin(call[c].executor)
    /\ call' = [call EXCEPT ![c].executor = None, ![c].cache = cache,
                            ![c].hit = hit, ![c].ok = hit]
    /\ home' = [home EXCEPT !.kept = @ /\ (pinned[call[c].executor] = None => AtHome)]
    /\ seen' = [seen EXCEPT ![c].owner =
                    IF home'.kept /\ AtHome /\ Innermost(Isolates) \in WithCache \union {Process}
                    THEN Innermost(Isolates) ELSE None]
    /\ UNCHANGED <<fn, entries, tracker, recorded, charged, accepted>>

\* Mutant: one attempt more.
AfterFailureOneMore(c) == IF call[c].attempt <= MaxRetries THEN "attempt" ELSE "report"

\* A failed attempt of c: another one, or the end of the loop.
AfterFailure(c) == IF call[c].attempt < MaxRetries THEN "attempt" ELSE "report"

\* _call_backend resolves the backend anew for every attempt.
Attempt(c) ==
    /\ Goto(c, "attempt", IF ResolvedBackend = None THEN AfterFailure(c)
                          ELSE "answer")
    /\ call' = [call EXCEPT ![c].backend = ResolvedBackend,
                            ![c].attempt = IF ResolvedBackend = None THEN @ + 1 ELSE @]
    /\ seen' = [seen EXCEPT ![c].switched = FALSE]
    /\ UNCHANGED <<slotVars, fn, entries, tracker, recorded,
                   home, charged, accepted>>

\* Mutant: the name stored when the function was made.
BackendForMetricsByName == None

\* _backend_for_metrics resolves it again; None is the fallback's name.
BackendForMetrics == ResolvedBackend

Answer(c) ==
    /\ Goto(c, "answer", "report")
    /\ call' = [call EXCEPT ![c].reported = BackendForMetrics, ![c].ok = TRUE]
    /\ entries' = entries \union {call[c].cache}
    /\ UNCHANGED <<slotVars, fn, tracker, recorded, history>>

-----------------------------------------------------------------------------
\* Reporting.

\* _extract_value of a report: the token and cost totals are those of the answer.
Spent(ok) ==
    [metric \in Metrics |-> IF metric = "latency_ms" \/ ok THEN 1 ELSE 0]

Plus(s, t) == [metric \in Metrics |-> s[metric] + t[metric]]

\* What the call's budget tracker is told, the breach of an own answer included:
\* that is caught, and the call is reported a second time as a failure.
ChargeTo(c) ==
    LET spent == Spent(call[c].ok)
        over  == RecordRaises(tracker, spent, "process")
        twice == over /\ call[c].ok /\ ~call[c].hit
        once  == Record(tracker, spent, "process") IN
    IF call[c].trk = None
    THEN UNCHANGED <<tracker, charged, accepted>>
    ELSE /\ tracker' = IF twice THEN Record(once, spent, "process") ELSE once
         /\ charged' = IF twice THEN Plus(Plus(charged, spent), spent)
                                ELSE Plus(charged, spent)
         /\ accepted' = IF over THEN accepted ELSE Plus(accepted, spent)

\* Whether the report of c is made twice.
Breaches(c) ==
    /\ call[c].trk # None /\ call[c].ok /\ ~call[c].hit
    /\ RecordRaises(tracker, Spent(TRUE), "process")

\* Mutant: the aggregator is looked up again.
AggregatorNow(c) == slots.aggregator

AggregatorOf(c) == call[c].agg

\* The call is over.
Report(c) ==
    /\ Goto(c, "report", "settled")
    /\ recorded' =
         IF AggregatorOf(c) = None THEN recorded
         ELSE [recorded EXCEPT ![AggregatorOf(c)] = @ + IF Breaches(c) THEN 2 ELSE 1]
    /\ ChargeTo(c)
    /\ call' = [call EXCEPT ![c] = NewCall]
    /\ seen' = [seen EXCEPT ![c] = NewSeen]
    /\ UNCHANGED <<slotVars, fn, entries, home>>

\* BudgetTracker.reset
ResetBudget ==
    /\ tracker.record_count > 0
    /\ tracker' = Reset(tracker)
    /\ charged' = Nothing
    /\ accepted' = Nothing
    /\ UNCHANGED <<slotVars, fn, entries, recorded, pc, call, seen, home>>

-----------------------------------------------------------------------------
\* Blocks and fixtures.

\* The calls between the two lookups of their backend, when the default changes.
NoteSwitch ==
    seen' = [c \in Calls |->
        IF pc[c] = "answer" /\ slots'.backend # slots.backend
        THEN [seen[c] EXCEPT !.switched = TRUE] ELSE seen[c]]

EnterBlock(b) == EnterIsolate(b) \/ EnterCapture(b)
LeaveBlock(b) == LeaveIsolate(b) \/ LeaveCapture(b)

ChangeSlots ==
    /\ \/ \E b \in Blocks : EnterBlock(b) \/ LeaveBlock(b)
       \/ \E backend \in {Process, None} \ {slots.backend} : SetDefaultBackend(backend)
    /\ NoteSwitch
    /\ UNCHANGED <<callVars, home, charged, accepted>>

Next ==
    \/ Decorate
    \/ \E c \in Calls :
         \/ Begin(c) \/ Lookup(c) \/ Attempt(c)
         \/ Answer(c) \/ Report(c)
    \/ ResetBudget
    \/ ChangeSlots

Spec == Init /\ [][Next]_vars

-----------------------------------------------------------------------------
(***************************************************************************)
(* Properties.                                                             *)
(***************************************************************************)

CallType ==
    [executor : Owners \union {None}, cache : Owners \union {None},
     agg : Owners \union {None}, trk : {Process, None}, attempt : 0..(MaxRetries + 1),
     backend : Backends \union {None}, reported : Backends \union {None},
     ok : BOOLEAN, hit : BOOLEAN]

\* Every variable keeps its type; a call makes at most MaxRetries + 1 attempts.
TypeOK ==
    /\ slots \in Slots
    /\ pinned \in [Owners -> Owners \union {None}]
    /\ saved \in [Blocks -> Slots]
    /\ phase \in [Blocks -> {"new", "open", "closed"}]
    /\ nest \in Seq(Blocks)
    /\ fn \in [backend : FnBackends, executor : Owners \union {None}]
    /\ entries \subseteq Owners
    /\ tracker \in Trackers
    /\ recorded \in [Owners -> Nat]
    /\ pc \in [Calls -> Labels]
    /\ call \in [Calls -> CallType]

\* While blocks nest, a block's objects are in their slots for as long as it is the
\* innermost that brings one, however many have come and gone inside it; and once all
\* are left, executor, cache, aggregator and tracker are what they were at first
\* (testing.py:188-227, 246-267).  Not promised, as the code does not keep it: that
\* the default backend is restored, that an isolate without a cache brings an executor
\* and a cache, and that one installs the tracker it is given (testing.py:167-172).
SlotsRestored ==
    ~overlapped =>
        /\ slots.aggregator = Innermost(Blocks)
        /\ Innermost(Blocks) \in Captures \union WithCache => slots.executor = Innermost(Blocks)
        /\ Innermost(Isolates) \in WithCache => slots.cache = Innermost(Isolates)
        /\ Innermost(Isolates) # Process => slots.tracker # Process
        /\ nest = << >> =>
             slots.executor = Process /\ slots.cache = Process /\ slots.tracker = Process

\* A call is reported to the aggregator of the innermost block open when it began,
\* and to no other, also if it ends after the block has been left; and it is charged
\* to the tracker exactly if it did not begin inside an isolate_execution
\* (executor.py:172-184).
RecordsFollowBlocks ==
    [][\A c \in Calls :
          pc[c] = "report" /\ pc'[c] = "settled" /\ seen[c].innermost # None =>
              /\ \A o \in Owners : recorded'[o] > recorded[o] <=> o = seen[c].innermost
              /\ tracker' # tracker <=> ~seen[c].shielded]_vars

\* A call looks in the cache of the innermost isolate that is open, and outside of all
\* in the process's -- whatever other blocks have come and gone since, and whoever used
\* the executor first (executor.py:141-145, testing.py:167-172).  It is promised where
\* the function was decorated and its executor first used under the blocks that are open
\* now: elsewhere the executor is the one of the decoration and keeps the cache of its
\* first use, also a block's that has been left (decorator.py:201).
CallsUseTheirBlocksCache ==
    \A c \in Calls : seen[c].owner # None => call[c].cache = seen[c].owner

\* metrics.backend, as it is reported, names the backend that answered, unless the default backend was
\* replaced while the call waited: it is resolved a second time after the answer
\* (executor.py:290-291, 605-613).
ReportedBackendAnswered ==
    \A c \in Calls :
        pc[c] = "report" /\ call[c].ok /\ ~call[c].hit /\ ~seen[c].switched => call[c].reported = call[c].backend

\* No process budget is exceeded by the calls that the tracker accepted, in whatever
\* order they report; and a metric with one such budget is charged what its calls
\* spent, those that breached twice included (budget.py:115-138, executor.py:184).  Of
\* several budgets on one metric each adds to its total, so that their limits are
\* reached early: what is accepted is still within them.
BudgetsHold ==
    /\ \A i \in InScope(tracker, "process") :
         accepted[tracker.budgets[i].metric] <= tracker.budgets[i].limit
    /\ \A metric \in Metrics :
         Cardinality(OnMetric(tracker, "process", metric)) = 1 =>
             tracker.totals[metric] = charged[metric]
=============================================================================
