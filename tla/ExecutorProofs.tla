--------------------------- MODULE ExecutorProofs ----------------------------
(***************************************************************************)
(* Proofs about Executor for every number of calls, every key and mode     *)
(* assignment, every budget limit and every retry policy: types, reports   *)
(* and the budget, what a call's metrics say of its attempts when it ends  *)
(* and when the aggregator is told, where the answers in the cache come    *)
(* from, and that Executor implements CallProtocol.  At the end, proofs    *)
(* about TracedExecutor: tracing takes no part in what a call does, spans  *)
(* stay under the calls that began before them, and once a call has        *)
(* settled they tell how.                                                  *)
(***************************************************************************)
EXTENDS TracedExecutor, SumTheorems, SequenceTheorems, TLAPS

-----------------------------------------------------------------------------
(***************************************************************************)
(* The mutators of CallMetrics keep its type, and leave alone the fields   *)
(* they do not assign.                                                     *)
(***************************************************************************)

\* A fresh CallMetrics is well typed.
LEMMA NewCallMetricsType == NewCallMetrics \in CallMetricsType
BY DEF NewCallMetrics, CallMetricsType, NoCategory

\* The head of the loop assigns attempts only.
LEMMA CountAttemptFacts ==
    ASSUME NEW mc \in CallMetricsType, NEW a \in Nat
    PROVE  LET n == CountAttempt(mc, a) IN
           /\ n \in CallMetricsType
           /\ n.attempts = a + 1
           /\ n.successful = mc.successful
           /\ n.retries = mc.retries
           /\ n.cache_hit = mc.cache_hit
           /\ n.usage = mc.usage
           /\ n.total_usage = mc.total_usage
           /\ n.attempt_errors = mc.attempt_errors
<1>1. a + 1 \in Nat
  OBVIOUS
<1> QED
  BY <1>1 DEF CountAttempt, CallMetricsType

\* note_attempt_failure appends one entry and assigns retries and error_category.
LEMMA NoteAttemptFailureFacts ==
    ASSUME NEW mc \in CallMetricsType, NEW a \in Nat, NEW category \in Categories
    PROVE  LET n == NoteAttemptFailure(mc, a, category) IN
           /\ n \in CallMetricsType
           /\ n.attempts = mc.attempts
           /\ n.successful = mc.successful
           /\ n.retries = a
           /\ n.cache_hit = mc.cache_hit
           /\ n.usage = mc.usage
           /\ n.total_usage = mc.total_usage
           /\ n.attempt_errors =
                Append(mc.attempt_errors, [attempt |-> a, category |-> category])
<1>1. [attempt |-> a, category |-> category] \in AttemptErrors
  BY DEF AttemptErrors
<1>2. Append(mc.attempt_errors, [attempt |-> a, category |-> category]) \in Seq(AttemptErrors)
  BY <1>1, AppendProperties DEF CallMetricsType
<1> QED
  BY <1>2 DEF NoteAttemptFailure, CallMetricsType

\* mark_success after the accounting of a response.
LEMMA AnsweredFacts ==
    ASSUME NEW mc \in CallMetricsType, NEW a \in Nat, NEW t \in Nat
    PROVE  LET n == MarkSuccess(AddResponse(mc, a, t), a) IN
           /\ n \in CallMetricsType
           /\ n.attempts = a + 1
           /\ n.successful = TRUE
           /\ n.retries = a
           /\ n.cache_hit = mc.cache_hit
           /\ n.usage = t
           /\ n.attempt_errors = mc.attempt_errors
<1> DEFINE r == AddResponse(mc, a, t)
<1>1. /\ r \in CallMetricsType
      /\ r.usage = t
      /\ r.cache_hit = mc.cache_hit
      /\ r.attempt_errors = mc.attempt_errors
  <2>1. CASE a = 0
    BY <2>1 DEF AddResponse, CallMetricsType
  <2>2. CASE a # 0
    <3>1. mc.total_usage + t \in Nat
      BY DEF CallMetricsType
    <3> QED
      BY <2>2, <3>1 DEF AddResponse, CallMetricsType
  <2> QED
    BY <2>1, <2>2
<1> HIDE DEF r
<1>2. a + 1 \in Nat
  OBVIOUS
<1>3. MarkSuccess(r, a) \in CallMetricsType
  BY <1>1, <1>2 DEF MarkSuccess, CallMetricsType, NoCategory
<1> QED
  BY <1>1, <1>3 DEF MarkSuccess, CallMetricsType, r

\* The metrics of a cache hit.
LEMMA HitMetricsFacts ==
    ASSUME NEW mc \in CallMetricsType, NEW t \in Nat
    PROVE  LET n == HitMetrics(mc, t) IN
           /\ n \in CallMetricsType
           /\ n.successful = TRUE
           /\ n.cache_hit = TRUE
           /\ n.usage = t
           /\ n.total_usage = t
           /\ n.attempt_errors = mc.attempt_errors
<1> DEFINE r == [mc EXCEPT !.cache_hit = TRUE, !.usage = t, !.total_usage = t]
<1>1. /\ r \in CallMetricsType
      /\ r.cache_hit = TRUE
      /\ r.usage = t
      /\ r.total_usage = t
      /\ r.attempt_errors = mc.attempt_errors
  BY DEF CallMetricsType
<1> HIDE DEF r
<1>2. MarkSuccess(r, 0) = [r EXCEPT !.successful = TRUE, !.retries = 0, !.attempts = 1,
                                    !.error_category = NoCategory]
  BY DEF MarkSuccess
<1>3. /\ MarkSuccess(r, 0) \in CallMetricsType
      /\ MarkSuccess(r, 0).successful = TRUE
      /\ MarkSuccess(r, 0).cache_hit = TRUE
      /\ MarkSuccess(r, 0).usage = t
      /\ MarkSuccess(r, 0).total_usage = t
      /\ MarkSuccess(r, 0).attempt_errors = mc.attempt_errors
  <2>1. 0 \in Nat /\ 1 \in Nat
    OBVIOUS
  <2> QED
    BY <1>1, <1>2, <2>1 DEF CallMetricsType, NoCategory
<1> QED
  BY <1>3 DEF HitMetrics, r

\* mark_failure makes retries at least attempts - 1.
LEMMA MarkFailureFacts ==
    ASSUME NEW mc \in CallMetricsType
    PROVE  LET n == MarkFailure(mc) IN
           /\ n \in CallMetricsType
           /\ n.attempts = mc.attempts
           /\ n.successful = FALSE
           /\ n.retries = IF mc.attempts > 0 /\ mc.attempts - 1 > mc.retries
                          THEN mc.attempts - 1 ELSE mc.retries
           /\ n.cache_hit = mc.cache_hit
           /\ n.usage = mc.usage
           /\ n.total_usage = mc.total_usage
           /\ n.attempt_errors = mc.attempt_errors
<1> DEFINE k == IF mc.attempts > 0 /\ mc.attempts - 1 > mc.retries
                THEN mc.attempts - 1 ELSE mc.retries
<1>1. k \in Nat
  BY DEF CallMetricsType
<1>2. MarkFailure(mc) = [mc EXCEPT !.successful = FALSE, !.retries = k]
  BY DEF MarkFailure
<1> HIDE DEF k
<1>3. /\ MarkFailure(mc) \in CallMetricsType
      /\ MarkFailure(mc).retries = k
      /\ MarkFailure(mc).successful = FALSE
      /\ MarkFailure(mc).attempts = mc.attempts
      /\ MarkFailure(mc).cache_hit = mc.cache_hit
      /\ MarkFailure(mc).usage = mc.usage
      /\ MarkFailure(mc).total_usage = mc.total_usage
      /\ MarkFailure(mc).attempt_errors = mc.attempt_errors
  BY <1>1, <1>2 DEF CallMetricsType
<1> QED
  BY <1>3 DEF k

\* What the budget tracker takes from well-typed metrics is a number of tokens.
LEMMA ChargedTokensNat ==
    ASSUME NEW mc \in CallMetricsType
    PROVE  ChargedTokens(mc) \in Nat
BY DEF ChargedTokens, CallMetricsType

-----------------------------------------------------------------------------
(***************************************************************************)
(* Type correctness.                                                       *)
(***************************************************************************)

USE DEF Labels, Running, Settled

\* The initial state is well typed.
LEMMA InitType == Init => TypeOK
BY NewCallMetricsType DEF Init, TypeOK

\* Both critical sections of the budget tracker keep its totals natural.
LEMMA ChargeBudgetType ==
    ASSUME TypeOK, NEW c \in Calls, ChargeBudget(c)
    PROVE  spent' \in Nat /\ granted' \in Nat
<1>1. ChargedTokens(m[c]) \in Nat
  BY ChargedTokensNat DEF TypeOK
<1> QED
  BY <1>1 DEF ChargeBudget, Spent, TypeOK

\* A step of one call keeps the types.
LEMMA CallStepType ==
    ASSUME TypeOK, NEW c \in Calls,
           Begin(c) \/ RenderFails(c) \/ Advance(c) \/ Cancel(c)
    PROVE  TypeOK'
<1> USE DEF Move
<1>m. /\ m[c] \in CallMetricsType
      /\ attempt[c] \in Nat
      /\ "backend" \in Categories
  BY DEF TypeOK, Categories
<1>1. CASE Begin(c)
  <2>1. CacheEnabled(c) \in BOOLEAN
    BY ExecutorAssumption DEF CacheEnabled, SyncCacheEnabled, AsyncCacheEnabled, TypeOK
  <2> QED
    BY <1>1, <2>1 DEF Begin, shared, history, TypeOK
<1>2. CASE RenderFails(c)
  BY <1>2 DEF RenderFails, shared, history, TypeOK
<1>3. CASE LookupMiss(c)
  BY <1>3 DEF LookupMiss, shared, history, TypeOK
<1>4. CASE LookupHit(c)
  <2>1. cache[KeyOf[c]] \in Answers
    BY <1>4, ExecutorAssumption DEF LookupHit, TypeOK
  <2>2. cache[KeyOf[c]].tokens \in Nat
    BY <2>1, ExecutorAssumption DEF Answers
  <2>3. HitMetrics(m[c], cache[KeyOf[c]].tokens) \in CallMetricsType
    BY <1>m, <2>2, HitMetricsFacts
  <2> QED
    BY <1>4, <2>1, <2>3 DEF LookupHit, shared, history, TypeOK
<1>5. CASE LookupFails(c)
  BY <1>5 DEF LookupFails, shared, history, TypeOK
<1>6. CASE RecordHit(c)
  <2>1. Append(recorded[c], m[c].successful) \in Seq(BOOLEAN)
    BY <1>m, AppendProperties DEF TypeOK, CallMetricsType
  <2> QED
    BY <1>6, <2>1 DEF RecordHit, Aggregate, history, TypeOK
<1>7. CASE ChargeHit(c)
  BY <1>7, ChargeBudgetType DEF ChargeHit, TypeOK
<1>8. CASE StartAttempt(c)
  <2>1. CountAttempt(m[c], attempt[c]) \in CallMetricsType
    BY <1>m, CountAttemptFacts
  <2> QED
    BY <1>8, <2>1 DEF StartAttempt, shared, TypeOK
<1>9. CASE LoopEnds(c)
  BY <1>9 DEF LoopEnds, shared, history, TypeOK
<1>10. CASE BackendAnswers(c)
  <2>1. PICK t \in Tokens :
          /\ m' = [m EXCEPT ![c] = MarkSuccess(AddResponse(@, attempt[c], t), attempt[c])]
          /\ answer' = [answer EXCEPT ![c] = [by |-> c, tokens |-> t]]
          /\ billed' = [billed EXCEPT ![c] = @ + t]
    BY <1>10 DEF BackendAnswers
  <2>2. t \in Nat /\ [by |-> c, tokens |-> t] \in Answers
    BY ExecutorAssumption DEF Answers
  <2>3. MarkSuccess(AddResponse(m[c], attempt[c], t), attempt[c]) \in CallMetricsType
    BY <1>m, <2>2, AnsweredFacts
  <2> QED
    BY <1>10, <2>1, <2>2, <2>3 DEF BackendAnswers, shared, TypeOK
<1>11. CASE AttemptFails(c)
  <2>1. PICK category \in Categories, t \in Nat :
          /\ pc' = [pc EXCEPT ![c] = IF IsRetryable(category, attempt[c], MaxRetriesOf[c])
                                     THEN "backoff" ELSE "giveUp"]
          /\ m' = [m EXCEPT ![c] = NoteAttemptFailure(@, attempt[c], category)]
          /\ billed' = [billed EXCEPT ![c] = @ + t]
    BY <1>11, ExecutorAssumption DEF AttemptFails, BilledFor
  <2>2. NoteAttemptFailure(m[c], attempt[c], category) \in CallMetricsType
    BY <1>m, NoteAttemptFailureFacts
  <2> QED
    BY <1>11, <2>1, <2>2 DEF AttemptFails, shared, TypeOK
<1>12. CASE BackendRaisesOther(c)
  <2>1. PICK t \in Nat : billed' = [billed EXCEPT ![c] = @ + t]
    BY <1>12, ExecutorAssumption DEF BackendRaisesOther
  <2>2. NoteAttemptFailure(m[c], attempt[c], "backend") \in CallMetricsType
    BY <1>m, NoteAttemptFailureFacts
  <2> QED
    BY <1>12, <2>1, <2>2 DEF BackendRaisesOther, Abort, shared, TypeOK
<1>13. CASE Wake(c)
  BY <1>13 DEF Wake, shared, history, TypeOK
<1>14. CASE Store(c)
  BY <1>14, ExecutorAssumption DEF Store, history, TypeOK
<1>15. CASE StoreFails(c)
  <2>1. NoteAttemptFailure(m[c], attempt[c], "backend") \in CallMetricsType
    BY <1>m, NoteAttemptFailureFacts
  <2> QED
    BY <1>15, <2>1 DEF StoreFails, Abort, shared, history, TypeOK
<1>16. CASE RecordSuccess(c)
  <2>1. Append(recorded[c], m[c].successful) \in Seq(BOOLEAN)
    BY <1>m, AppendProperties DEF TypeOK, CallMetricsType
  <2> QED
    BY <1>16, <2>1 DEF RecordSuccess, Aggregate, history, TypeOK
<1>17. CASE Charge(c)
  <2>1. spent' \in Nat /\ granted' \in Nat
    BY <1>17, ChargeBudgetType DEF Charge
  <2>2. NoteAttemptFailure(m[c], attempt[c], "backend") \in CallMetricsType
    BY <1>m, NoteAttemptFailureFacts
  <2>3. m' \in [Calls -> CallMetricsType] /\ pc' \in [Calls -> Labels]
    BY <1>17, <2>2 DEF Charge, Abort, TypeOK
  <2> QED
    BY <1>17, <2>1, <2>3 DEF Charge, TypeOK
<1>18. CASE GiveUp(c)
  <2>1. MarkFailure(m[c]) \in CallMetricsType
    BY <1>m, MarkFailureFacts
  <2>2. Append(recorded[c], MarkFailure(m[c]).successful) \in Seq(BOOLEAN)
    BY <1>m, <2>1, MarkFailureFacts, AppendProperties DEF TypeOK
  <2> QED
    BY <1>18, <2>1, <2>2 DEF GiveUp, Aggregate, history, TypeOK
<1>19. CASE ChargeFailure(c)
  <2>1. spent' \in Nat /\ granted' \in Nat
    BY <1>19, ChargeBudgetType DEF ChargeFailure
  <2> QED
    BY <1>19, <2>1 DEF ChargeFailure, TypeOK
<1>20. CASE Cancel(c)
  BY <1>20 DEF Cancel, shared, history, TypeOK
<1> QED
  BY <1>1, <1>2, <1>3, <1>4, <1>5, <1>6, <1>7, <1>8, <1>9, <1>10, <1>11, <1>12, <1>13,
     <1>14, <1>15, <1>16, <1>17, <1>18, <1>19, <1>20 DEF Advance

\* Every step, and a stutter, keeps the types.
LEMMA NextType == TypeOK /\ [Next]_vars => TypeOK'
<1> SUFFICES ASSUME TypeOK, [Next]_vars PROVE TypeOK'
  OBVIOUS
<1>1. CASE Configure
  BY <1>1 DEF Configure, history, TypeOK
<1>2. ASSUME NEW k \in Keys, Forget(k) PROVE TypeOK'
  BY <1>2 DEF Forget, history, TypeOK
<1>3. CASE UNCHANGED vars
  BY <1>3 DEF vars, shared, history, TypeOK
<1> QED
  BY <1>1, <1>2, <1>3, CallStepType DEF Next

\* Type correctness, for every value of the constants.
THEOREM TypeCorrect == Spec => []TypeOK
BY InitType, NextType, PTL DEF Spec

-----------------------------------------------------------------------------
(***************************************************************************)
(* RecordsMatchOutcome and GrantedWithinLimit.                             *)
(*                                                                         *)
(* RecordsMatchOutcome speaks of ended calls; it is inductive once it says *)
(* of every label what has been recorded by then.  The crux is a call that *)
(* gives up after it was recorded as a success: it does so only over       *)
(* budget, the total never goes down, so its second charge must raise.     *)
(***************************************************************************)

\* Labels of a call that the aggregator has not heard of yet.
Unreported == {"idle", "lookup", "hitRecord", "loop", "backend", "backoff", "store",
               "record", "renderError", "cacheError", "cancelled"}

\* Labels of a cache hit, and those only a hit reaches.
HitLabels  == {"hitRecord", "hitCharge", "returned", "rehydrateError", "overBudget"}
HitOnly    == {"hitRecord", "hitCharge", "rehydrateError"}

RecordsOf(c) ==
    /\ pc[c] \in Unreported => recorded[c] = << >>
    /\ pc[c] \in {"hitCharge", "charge", "returned", "rehydrateError"} =>
         recorded[c] = <<TRUE>>
    /\ pc[c] = "giveUp" =>
         recorded[c] = << >> \/ (recorded[c] = <<TRUE>> /\ spent > Limit)
    /\ pc[c] = "failCharge" =>
         recorded[c] = <<FALSE>> \/ (recorded[c] = <<TRUE, FALSE>> /\ spent > Limit)
    /\ pc[c] = "exhausted" => recorded[c] = <<FALSE>>
    /\ pc[c] = "overBudget" =>
         IF m[c].cache_hit THEN recorded[c] = <<TRUE>>
                           ELSE recorded[c] \in {<<FALSE>>, <<TRUE, FALSE>>}

SuccessOf(c) ==
    /\ pc[c] \in HitOnly => m[c].cache_hit
    /\ m[c].cache_hit => pc[c] \in HitLabels
    /\ pc[c] \in {"hitRecord", "store", "record"} => m[c].successful = TRUE

GrantedTo(c) == pc[c] = "returned" => ChargedTokens(m[c]) <= granted

ReportInv ==
    /\ granted <= Limit /\ granted <= spent
    /\ \A c \in Calls : RecordsOf(c) /\ SuccessOf(c) /\ GrantedTo(c)

LEMMA InitReport == Init => ReportInv
BY ExecutorAssumption
   DEF Init, ReportInv, RecordsOf, SuccessOf, GrantedTo, Unreported, HitOnly, NewCallMetrics

\* A step of call c leaves the locals of every other call alone.
Local(d) == <<pc[d], cacheOn[d], attempt[d], m[d], answer[d], issued[d], billed[d], recorded[d]>>

LEMMA StepIsLocal ==
    ASSUME TypeOK, NEW c \in Calls, NEW d \in Calls, d # c,
           Begin(c) \/ RenderFails(c) \/ Advance(c) \/ Cancel(c)
    PROVE  Local(d)' = Local(d)
BY DEF TypeOK, Local, Move, shared, history, Begin, RenderFails, Advance, Cancel, LookupMiss,
       LookupHit, LookupFails, RecordHit, ChargeHit, StartAttempt, LoopEnds, BackendAnswers,
       AttemptFails, BackendRaisesOther, Wake, Store, StoreFails, RecordSuccess, Charge, GiveUp,
       ChargeFailure, Abort, Aggregate

\* The totals never go down, and what is granted stays within what is spent and
\* within the limit.
LEMMA StepTotals ==
    ASSUME TypeOK, granted <= Limit, granted <= spent, NEW c \in Calls,
           Begin(c) \/ RenderFails(c) \/ Advance(c) \/ Cancel(c)
    PROVE  spent' >= spent /\ granted' >= granted /\ granted' <= Limit /\ granted' <= spent'
<1>1. CASE ChargeBudget(c)
  <2>1. ChargedTokens(m[c]) \in Nat
    BY ChargedTokensNat DEF TypeOK
  <2> QED
    BY <1>1, <2>1, ExecutorAssumption DEF ChargeBudget, OverBudget, Spent, TypeOK
<1>2. CASE UNCHANGED <<spent, granted>>
  BY <1>2 DEF TypeOK
<1>3. ChargeBudget(c) \/ UNCHANGED <<spent, granted>>
  BY DEF shared, history, Begin, RenderFails, Advance, Cancel, LookupMiss, LookupHit,
         LookupFails, RecordHit, ChargeHit, StartAttempt, LoopEnds, BackendAnswers,
         AttemptFails, BackendRaisesOther, Wake, Store, StoreFails, RecordSuccess, Charge,
         GiveUp, ChargeFailure
<1> QED
  BY <1>1, <1>2, <1>3

\* The two sequences that reports build.
LEMMA AppendShort ==
    ASSUME NEW S, NEW x \in S, NEW y \in S
    PROVE  Append(<< >>, x) = <<x>> /\ Append(<<x>>, y) = <<x, y>>
<1>1. <<x>> \in Seq(S) /\ <<x, y>> \in Seq(S)
  OBVIOUS
<1>2. Append(<<x>>, y) \in Seq(S)
  BY <1>1, AppendProperties
<1>3. Len(Append(<<x>>, y)) = Len(<<x, y>>)
  BY <1>1, AppendProperties
<1>4. \A i \in 1..2 : Append(<<x>>, y)[i] = <<x, y>>[i]
  BY <1>1, AppendProperties
<1>5. Append(<<x>>, y) = <<x, y>>
  BY <1>1, <1>2, <1>3, <1>4, SeqEqual
<1>6. Append(<< >>, x) = <<x>>
  OBVIOUS
<1> QED
  BY <1>5, <1>6

\* What a step of call c makes of the call itself.
LEMMA OwnReport ==
    ASSUME TypeOK, TypeOK', ReportInv, NEW c \in Calls,
           Begin(c) \/ RenderFails(c) \/ Advance(c) \/ Cancel(c)
    PROVE  RecordsOf(c)' /\ SuccessOf(c)' /\ GrantedTo(c)'
<1> USE DEF Move, Unreported, HitLabels, HitOnly, RecordsOf, SuccessOf, GrantedTo
<1>m. /\ m[c] \in CallMetricsType /\ attempt[c] \in Nat /\ "backend" \in Categories
      /\ RecordsOf(c) /\ SuccessOf(c) /\ GrantedTo(c)
  BY DEF TypeOK, ReportInv, Categories
<1>t. spent' >= spent /\ granted' >= granted
  BY StepTotals DEF ReportInv
<1>a. /\ Append(<< >>, TRUE) = <<TRUE>>
      /\ Append(<< >>, FALSE) = <<FALSE>>
      /\ Append(<<TRUE>>, FALSE) = <<TRUE, FALSE>>
  BY TRUE \in BOOLEAN, FALSE \in BOOLEAN, AppendShort
<1>n. /\ NoteAttemptFailure(m[c], attempt[c], "backend").cache_hit = m[c].cache_hit
      /\ NoteAttemptFailure(m[c], attempt[c], "backend").successful = m[c].successful
  BY <1>m, NoteAttemptFailureFacts
<1>1. CASE Begin(c)
  BY <1>m, <1>1 DEF Begin, shared, history, TypeOK
<1>2. CASE RenderFails(c)
  BY <1>m, <1>2 DEF RenderFails, shared, history, TypeOK
<1>3. CASE LookupMiss(c)
  BY <1>m, <1>3 DEF LookupMiss, shared, history, TypeOK
<1>4. CASE LookupHit(c)
  <2>1. cache[KeyOf[c]].tokens \in Nat
    BY <1>4, ExecutorAssumption DEF LookupHit, TypeOK, Answers
  <2>2. /\ HitMetrics(m[c], cache[KeyOf[c]].tokens).successful = TRUE
        /\ HitMetrics(m[c], cache[KeyOf[c]].tokens).cache_hit = TRUE
    BY <1>m, <2>1, HitMetricsFacts
  <2>3. m'[c] = HitMetrics(m[c], cache[KeyOf[c]].tokens)
    BY <1>4 DEF LookupHit, TypeOK
  <2> QED
    BY <1>m, <1>4, <2>2, <2>3 DEF LookupHit, shared, history, TypeOK
<1>5. CASE LookupFails(c)
  BY <1>m, <1>5 DEF LookupFails, shared, history, TypeOK
<1>6. CASE RecordHit(c)
  BY <1>m, <1>a, <1>6 DEF RecordHit, Aggregate, history, TypeOK
<1>7. CASE ChargeHit(c)
  <2>1. /\ recorded'[c] = <<TRUE>> /\ m'[c] = m[c] /\ m[c].cache_hit
        /\ pc'[c] \in {"overBudget", "returned", "rehydrateError"}
    BY <1>m, <1>7 DEF ChargeHit, TypeOK
  <2>2. pc'[c] = "returned" => ChargedTokens(m'[c]) <= granted'
    <3>1. ChargedTokens(m[c]) \in Nat
      BY <1>m, ChargedTokensNat
    <3> QED
      BY <1>7, <2>1, <3>1 DEF ChargeHit, ChargeBudget, TypeOK
  <2> QED
    BY <2>1, <2>2
<1>8. CASE StartAttempt(c)
  <2>1. /\ CountAttempt(m[c], attempt[c]).cache_hit = m[c].cache_hit
        /\ CountAttempt(m[c], attempt[c]).successful = m[c].successful
    BY <1>m, CountAttemptFacts
  <2> QED
    BY <1>m, <1>8, <2>1 DEF StartAttempt, shared, TypeOK
<1>9. CASE LoopEnds(c)
  BY <1>m, <1>9 DEF LoopEnds, shared, history, TypeOK
<1>10. CASE BackendAnswers(c)
  <2>1. PICK t \in Tokens :
          m' = [m EXCEPT ![c] = MarkSuccess(AddResponse(@, attempt[c], t), attempt[c])]
    BY <1>10 DEF BackendAnswers
  <2>2. m'[c] = MarkSuccess(AddResponse(m[c], attempt[c], t), attempt[c])
    BY <2>1 DEF TypeOK
  <2>3. m'[c].cache_hit = m[c].cache_hit /\ m'[c].successful = TRUE
    <3>1. t \in Nat
      BY ExecutorAssumption
    <3>2. LET n == MarkSuccess(AddResponse(m[c], attempt[c], t), attempt[c]) IN
          n.cache_hit = m[c].cache_hit /\ n.successful = TRUE
      BY <1>m, <3>1, AnsweredFacts
    <3> QED
      BY <2>2, <3>2
  <2> QED
    BY <1>m, <1>10, <2>3 DEF BackendAnswers, shared, TypeOK
<1>11. CASE AttemptFails(c)
  <2>1. PICK category \in Categories :
          /\ pc' = [pc EXCEPT ![c] = IF IsRetryable(category, attempt[c], MaxRetriesOf[c])
                                     THEN "backoff" ELSE "giveUp"]
          /\ m' = [m EXCEPT ![c] = NoteAttemptFailure(@, attempt[c], category)]
    BY <1>11 DEF AttemptFails
  <2>2. m'[c].cache_hit = m[c].cache_hit
    BY <1>m, <2>1, NoteAttemptFailureFacts DEF TypeOK
  <2> QED
    BY <1>m, <1>11, <2>1, <2>2 DEF AttemptFails, shared, TypeOK
<1>12. CASE BackendRaisesOther(c)
  BY <1>m, <1>n, <1>12 DEF BackendRaisesOther, Abort, shared, TypeOK
<1>13. CASE Wake(c)
  BY <1>m, <1>13 DEF Wake, shared, history, TypeOK
<1>14. CASE Store(c)
  BY <1>m, <1>14 DEF Store, history, TypeOK
<1>15. CASE StoreFails(c)
  BY <1>m, <1>n, <1>15 DEF StoreFails, Abort, shared, history, TypeOK
<1>16. CASE RecordSuccess(c)
  BY <1>m, <1>a, <1>16 DEF RecordSuccess, Aggregate, history, TypeOK
<1>17. CASE Charge(c)
  <2>1. recorded'[c] = <<TRUE>> /\ ~m[c].cache_hit
    BY <1>m, <1>17 DEF Charge, Abort, TypeOK
  <2>2. CASE OverBudget(c)
    <3>1. pc'[c] = "giveUp" /\ spent' > Limit /\ ~m'[c].cache_hit
      BY <1>n, <1>17, <2>1, <2>2 DEF Charge, Abort, ChargeBudget, OverBudget, TypeOK
    <3> QED
      BY <2>1, <3>1
  <2>3. CASE ~OverBudget(c)
    <3>1. ChargedTokens(m[c]) \in Nat
      BY <1>m, ChargedTokensNat
    <3>2. pc'[c] = "returned" /\ m'[c] = m[c] /\ ChargedTokens(m'[c]) <= granted'
      BY <1>17, <2>3, <3>1 DEF Charge, ChargeBudget, TypeOK
    <3> QED
      BY <2>1, <3>2
  <2> QED
    BY <2>2, <2>3
<1>18. CASE GiveUp(c)
  <2>1. /\ pc'[c] = "failCharge" /\ m'[c] = MarkFailure(m[c]) /\ spent' = spent
        /\ recorded'[c] = Append(recorded[c], MarkFailure(m[c]).successful)
    BY <1>18 DEF GiveUp, Aggregate, TypeOK
  <2>2. MarkFailure(m[c]).successful = FALSE /\ MarkFailure(m[c]).cache_hit = m[c].cache_hit
    BY <1>m, MarkFailureFacts
  <2>3. recorded[c] = << >> \/ (recorded[c] = <<TRUE>> /\ spent > Limit)
    BY <1>m, <1>18 DEF GiveUp
  <2>4. recorded'[c] = <<FALSE>> \/ (recorded'[c] = <<TRUE, FALSE>> /\ spent' > Limit)
    BY <1>a, <2>1, <2>2, <2>3
  <2>5. ~m'[c].cache_hit
    BY <1>m, <1>18, <2>1, <2>2 DEF GiveUp
  <2> QED
    BY <2>1, <2>4, <2>5
<1>19. CASE ChargeFailure(c)
  <2>1. /\ recorded'[c] = recorded[c] /\ m'[c] = m[c] /\ ~m[c].cache_hit
        /\ pc'[c] = IF OverBudget(c) THEN "overBudget" ELSE "exhausted"
        /\ recorded[c] = <<FALSE>> \/ (recorded[c] = <<TRUE, FALSE>> /\ spent > Limit)
    BY <1>m, <1>19 DEF ChargeFailure, TypeOK
  <2>2. spent > Limit => OverBudget(c)
    BY <1>t, <1>19, ExecutorAssumption DEF ChargeFailure, ChargeBudget, OverBudget, TypeOK
  <2> QED
    BY <2>1, <2>2
<1>20. CASE Cancel(c)
  BY <1>m, <1>20 DEF Cancel, shared, history, TypeOK
<1> QED
  BY <1>1, <1>2, <1>3, <1>4, <1>5, <1>6, <1>7, <1>8, <1>9, <1>10, <1>11, <1>12, <1>13,
     <1>14, <1>15, <1>16, <1>17, <1>18, <1>19, <1>20 DEF Advance

LEMMA NextReport == TypeOK /\ TypeOK' /\ ReportInv /\ [Next]_vars => ReportInv'
<1> SUFFICES ASSUME TypeOK, TypeOK', ReportInv, [Next]_vars PROVE ReportInv'
  OBVIOUS
<1>1. ASSUME NEW c \in Calls, Begin(c) \/ RenderFails(c) \/ Advance(c) \/ Cancel(c)
      PROVE  ReportInv'
  <2>1. spent' >= spent /\ granted' >= granted /\ granted' <= Limit /\ granted' <= spent'
    BY <1>1, StepTotals DEF ReportInv
  <2>2. ASSUME NEW d \in Calls PROVE (RecordsOf(d) /\ SuccessOf(d) /\ GrantedTo(d))'
    <3>1. CASE d = c
      BY <1>1, <3>1, OwnReport
    <3>2. CASE d # c
      <4>1. pc'[d] = pc[d] /\ m'[d] = m[d] /\ recorded'[d] = recorded[d]
        BY <1>1, <3>2, StepIsLocal DEF Local
      <4>2. ChargedTokens(m[d]) \in Nat
        BY ChargedTokensNat DEF TypeOK
      <4>3. RecordsOf(d) /\ SuccessOf(d) /\ GrantedTo(d)
        BY DEF ReportInv
      <4>4. spent > Limit => spent' > Limit
        BY <2>1, ExecutorAssumption DEF TypeOK
      <4>5. RecordsOf(d)' /\ SuccessOf(d)'
        BY <4>1, <4>3, <4>4 DEF RecordsOf, SuccessOf
      <4>6. GrantedTo(d)'
        BY <2>1, <4>1, <4>2, <4>3 DEF GrantedTo, TypeOK
      <4> QED
        BY <4>5, <4>6
    <3> QED
      BY <3>1, <3>2
  <2> QED
    BY <2>1, <2>2 DEF ReportInv
<1>2. ASSUME UNCHANGED <<spent, granted, pc, m, recorded>> PROVE ReportInv'
  BY <1>2 DEF ReportInv, RecordsOf, SuccessOf, GrantedTo
<1>3. ASSUME Configure \/ (\E k \in Keys : Forget(k)) \/ UNCHANGED vars
      PROVE UNCHANGED <<spent, granted, pc, m, recorded>>
  BY <1>3 DEF Configure, Forget, vars, shared, history
<1> QED
  BY <1>1, <1>2, <1>3 DEF Next

LEMMA ReportInvariant == Spec => []ReportInv
<1>1. TypeOK /\ ReportInv /\ [Next]_vars => ReportInv'
  BY NextType, NextReport
<1> QED
  BY InitReport, TypeCorrect, <1>1, PTL DEF Spec

\* Every call is reported as it ended; only a call whose valid answer broke the
\* budget is reported twice.
THEOREM RecordsCorrect == Spec => []RecordsMatchOutcome
<1>1. ReportInv => RecordsMatchOutcome
  BY DEF ReportInv, RecordsOf, RecordsMatchOutcome, Unreported
<1> QED
  BY <1>1, ReportInvariant, PTL

\* The calls that return never cost more than the limit together.
THEOREM BudgetHolds == Spec => []GrantedWithinLimit
<1>1. ReportInv => GrantedWithinLimit
  BY DEF ReportInv, GrantedTo, GrantedWithinLimit
<1> QED
  BY <1>1, ReportInvariant, PTL

\* A call that has been reported makes no further backend call.
THEOREM NoBackendAfterReportHolds == Spec => NoBackendAfterReport
<1>1. TypeOK /\ ReportInv /\ [Next]_vars =>
        [\A c \in Calls : issued'[c] # issued[c] => recorded[c] = << >>]_vars
  <2> SUFFICES ASSUME TypeOK, ReportInv, Next, NEW c \in Calls, issued'[c] # issued[c]
               PROVE  recorded[c] = << >>
    BY DEF vars
  <2>1. StartAttempt(c)
    BY DEF Next, TypeOK, Move, shared, history, Begin, RenderFails, Advance, Cancel,
           LookupMiss, LookupHit, LookupFails, RecordHit, ChargeHit, StartAttempt, LoopEnds,
           BackendAnswers, AttemptFails, BackendRaisesOther, Wake, Store, StoreFails,
           RecordSuccess, Charge, GiveUp, ChargeFailure, Abort, Configure, Forget
  <2> QED
    BY <2>1 DEF StartAttempt, Move, ReportInv, RecordsOf, Unreported
<1> QED
  BY <1>1, TypeCorrect, ReportInvariant, PTL DEF Spec, NoBackendAfterReport

-----------------------------------------------------------------------------
(***************************************************************************)
(* The budget tracker's total, a sum over all calls.  A step of one call   *)
(* changes one term of it, by what the step charges: reports add a charge  *)
(* in advance, and only a call without reports gets other tokens.          *)
(***************************************************************************)

Term(c) == Charges(c) * ChargedTokens(m[c])

LEMMA TermIsInt == ASSUME TypeOK, NEW c \in Calls PROVE Charges(c) \in Int /\ Term(c) \in Int
<1>1. ChargedTokens(m[c]) \in Nat
  BY ChargedTokensNat DEF TypeOK
<1>2. Len(recorded[c]) \in Nat
  BY DEF TypeOK
<1>3. Charges(c) \in Int
  BY <1>2 DEF Charges
<1> QED
  BY <1>1, <1>3 DEF Term

\* One more charge of t.
LEMMA ChargedOnce == \A k, t \in Int : (k + 1) * t = k * t + t
OBVIOUS

\* A failure, noted or final, leaves the charged tokens as they are.
LEMMA FailureChargesSame ==
    ASSUME NEW mc \in CallMetricsType, NEW a \in Nat, NEW category \in Categories
    PROVE  /\ ChargedTokens(NoteAttemptFailure(mc, a, category)) = ChargedTokens(mc)
           /\ ChargedTokens(MarkFailure(mc)) = ChargedTokens(mc)
           /\ ChargedTokens(CountAttempt(mc, a)) = ChargedTokens(mc)
<1>1. /\ NoteAttemptFailure(mc, a, category).usage = mc.usage
      /\ NoteAttemptFailure(mc, a, category).total_usage = mc.total_usage
  BY NoteAttemptFailureFacts
<1>2. MarkFailure(mc).usage = mc.usage /\ MarkFailure(mc).total_usage = mc.total_usage
  BY MarkFailureFacts
<1>3. CountAttempt(mc, a).usage = mc.usage /\ CountAttempt(mc, a).total_usage = mc.total_usage
  BY CountAttemptFacts
<1> QED
  BY <1>1, <1>2, <1>3 DEF ChargedTokens

\* A step of call c moves its term by what it adds to the tracker's total.
LEMMA OwnTerm ==
    ASSUME TypeOK, ReportInv, NEW c \in Calls,
           Begin(c) \/ RenderFails(c) \/ Advance(c) \/ Cancel(c)
    PROVE  Term(c)' = Term(c) + (spent' - spent)
<1> USE DEF Move
<1>m. /\ m[c] \in CallMetricsType /\ attempt[c] \in Nat /\ "backend" \in Categories
      /\ recorded[c] \in Seq(BOOLEAN) /\ spent \in Int
  BY DEF TypeOK, Categories
<1>i. Charges(c) \in Int /\ Term(c) \in Int /\ ChargedTokens(m[c]) \in Int
  BY <1>m, TermIsInt, ChargedTokensNat
\* No charge: the reports, those in progress and the tokens stay.
<1>k. ASSUME spent' = spent, Charges(c)' = Charges(c),
             ChargedTokens(m[c])' = ChargedTokens(m[c])
      PROVE  Term(c)' = Term(c) + (spent' - spent)
  BY <1>m, <1>i, <1>k DEF Term
\* No charge: nothing has been reported of the call.
<1>u. ASSUME spent' = spent, recorded'[c] = << >>, recorded[c] = << >>,
             pc[c] \in {"lookup", "backend"}, pc'[c] \in {"hitRecord", "store", "record"},
             ChargedTokens(m[c])' \in Nat
      PROVE  Term(c)' = Term(c) + (spent' - spent)
  <2>1. Charges(c) = 0 /\ Charges(c)' = 0
    BY <1>u DEF Charges
  <2> QED
    BY <1>m, <1>i, <1>u, <2>1 DEF Term
\* The critical section of the budget tracker.
<1>c. ASSUME ChargeBudget(c), recorded'[c] = recorded[c],
             ChargedTokens(m[c])' = ChargedTokens(m[c]),
             pc[c] \in {"hitCharge", "charge", "failCharge"},
             pc'[c] \notin {"hitCharge", "charge", "failCharge"}
      PROVE  Term(c)' = Term(c) + (spent' - spent)
  <2>1. Charges(c)' = Charges(c) + 1
    BY <1>m, <1>c DEF Charges
  <2>2. spent' - spent = ChargedTokens(m[c])
    BY <1>m, <1>i, <1>c DEF ChargeBudget, Spent
  <2>3. Term(c)' = (Charges(c) + 1) * ChargedTokens(m[c])
    BY <1>c, <2>1 DEF Term
  <2>4. (Charges(c) + 1) * ChargedTokens(m[c]) = Term(c) + ChargedTokens(m[c])
    BY <1>i, ChargedOnce DEF Term
  <2> QED
    BY <2>2, <2>3, <2>4
\* Aggregator.record, from a label without a charge in progress to one with it.
<1>a. ASSUME NEW b \in BOOLEAN, spent' = spent, recorded'[c] = Append(recorded[c], b),
             ChargedTokens(m[c])' = ChargedTokens(m[c]),
             pc[c] \notin {"hitCharge", "charge", "failCharge"},
             pc'[c] \in {"hitCharge", "charge", "failCharge"}
      PROVE  Term(c)' = Term(c) + (spent' - spent)
  <2>1. Len(recorded'[c]) = Len(recorded[c]) + 1
    BY <1>m, <1>a, AppendProperties
  <2>2. Charges(c)' = Charges(c)
    BY <1>m, <1>a, <2>1 DEF Charges
  <2> QED
    BY <1>k, <1>a, <2>2
\* A step that reports and charges nothing, between labels without a charge in progress.
<1>q. ASSUME spent' = spent, recorded'[c] = recorded[c],
             ChargedTokens(m[c])' = ChargedTokens(m[c]),
             pc[c] \notin {"hitCharge", "charge", "failCharge"},
             pc'[c] \notin {"hitCharge", "charge", "failCharge"}
      PROVE  Term(c)' = Term(c) + (spent' - spent)
  <2>1. Charges(c)' = Charges(c)
    BY <1>q DEF Charges
  <2> QED
    BY <1>k, <1>q, <2>1
<1>f. /\ \A category \in Categories :
           ChargedTokens(NoteAttemptFailure(m[c], attempt[c], category)) = ChargedTokens(m[c])
      /\ ChargedTokens(MarkFailure(m[c])) = ChargedTokens(m[c])
      /\ ChargedTokens(CountAttempt(m[c], attempt[c])) = ChargedTokens(m[c])
  BY <1>m, FailureChargesSame
<1>1. CASE Begin(c) \/ RenderFails(c) \/ LookupMiss(c) \/ LookupFails(c) \/ LoopEnds(c)
           \/ Wake(c) \/ Store(c) \/ Cancel(c)
  <2>1. m'[c] = m[c] /\ spent' = spent /\ recorded'[c] = recorded[c]
    BY <1>1 DEF Begin, RenderFails, LookupMiss, LookupFails, LoopEnds, Wake, Store, Cancel,
                shared, history
  <2>2. /\ pc[c] \notin {"hitCharge", "charge", "failCharge"}
        /\ pc'[c] \notin {"hitCharge", "charge", "failCharge"}
    BY <1>1 DEF Begin, RenderFails, LookupMiss, LookupFails, LoopEnds, Wake, Store, Cancel, TypeOK
  <2> QED
    BY <1>q, <2>1, <2>2
<1>2. CASE LookupHit(c)
  <2>1. cache[KeyOf[c]].tokens \in Nat
    BY <1>2, ExecutorAssumption DEF LookupHit, TypeOK, Answers
  <2>2. m'[c] = HitMetrics(m[c], cache[KeyOf[c]].tokens)
    BY <1>2 DEF LookupHit, TypeOK
  <2>3. HitMetrics(m[c], cache[KeyOf[c]].tokens) \in CallMetricsType
    BY <1>m, <2>1, HitMetricsFacts
  <2>4. ChargedTokens(m[c])' \in Nat
    BY <2>2, <2>3, ChargedTokensNat
  <2>5. pc[c] = "lookup" /\ pc'[c] = "hitRecord" /\ spent' = spent /\ recorded' = recorded
    BY <1>2 DEF LookupHit, shared, TypeOK
  <2>6. recorded[c] = << >>
    BY <2>5 DEF ReportInv, RecordsOf, Unreported
  <2> QED
    BY <1>u, <2>4, <2>5, <2>6
<1>3. CASE BackendAnswers(c)
  <2>1. PICK t \in Tokens :
          m' = [m EXCEPT ![c] = MarkSuccess(AddResponse(@, attempt[c], t), attempt[c])]
    BY <1>3 DEF BackendAnswers
  <2>2. t \in Nat
    BY ExecutorAssumption
  <2>3. m'[c] = MarkSuccess(AddResponse(m[c], attempt[c], t), attempt[c])
    BY <2>1 DEF TypeOK
  <2>4. MarkSuccess(AddResponse(m[c], attempt[c], t), attempt[c]) \in CallMetricsType
    BY <1>m, <2>2, AnsweredFacts, Zenon
  <2>5. ChargedTokens(m[c])' \in Nat
    BY <2>3, <2>4, ChargedTokensNat
  <2>6. /\ pc[c] = "backend" /\ pc'[c] \in {"store", "record"} /\ spent' = spent
        /\ recorded' = recorded
    BY <1>3 DEF BackendAnswers, shared, TypeOK
  <2>7. recorded[c] = << >>
    BY <2>6 DEF ReportInv, RecordsOf, Unreported
  <2> QED
    BY <1>u, <2>5, <2>6, <2>7
<1>4. CASE StartAttempt(c)
  <2>1. m'[c] = CountAttempt(m[c], attempt[c])
    BY <1>4 DEF StartAttempt, TypeOK
  <2>2. pc[c] = "loop" /\ pc'[c] = "backend" /\ spent' = spent /\ recorded'[c] = recorded[c]
    BY <1>4 DEF StartAttempt, shared, TypeOK
  <2> QED
    BY <1>f, <1>q, <2>1, <2>2
<1>5. CASE AttemptFails(c)
  <2>1. PICK category \in Categories :
          /\ pc' = [pc EXCEPT ![c] = IF IsRetryable(category, attempt[c], MaxRetriesOf[c])
                                     THEN "backoff" ELSE "giveUp"]
          /\ m' = [m EXCEPT ![c] = NoteAttemptFailure(@, attempt[c], category)]
    BY <1>5 DEF AttemptFails
  <2>2. /\ pc[c] = "backend" /\ pc'[c] \in {"backoff", "giveUp"} /\ spent' = spent
        /\ recorded'[c] = recorded[c]
        /\ m'[c] = NoteAttemptFailure(m[c], attempt[c], category)
    BY <1>5, <2>1 DEF AttemptFails, shared, TypeOK
  <2> QED
    BY <1>f, <1>q, <2>2
<1>6. CASE BackendRaisesOther(c) \/ StoreFails(c)
  <2>1. /\ pc[c] \in {"backend", "store"} /\ pc'[c] = "giveUp" /\ spent' = spent
        /\ recorded'[c] = recorded[c]
        /\ m'[c] = NoteAttemptFailure(m[c], attempt[c], "backend")
    BY <1>6 DEF BackendRaisesOther, StoreFails, Abort, shared, TypeOK
  <2> QED
    BY <1>f, <1>m, <1>q, <2>1
<1>7. CASE RecordHit(c) \/ RecordSuccess(c)
  <2>1. /\ pc[c] \in {"hitRecord", "record"} /\ pc'[c] \in {"hitCharge", "charge"}
        /\ spent' = spent /\ m' = m /\ recorded'[c] = Append(recorded[c], m[c].successful)
    BY <1>7 DEF RecordHit, RecordSuccess, Aggregate, TypeOK
  <2>2. m[c].successful \in BOOLEAN
    BY <1>m DEF CallMetricsType
  <2> QED
    BY <1>a, <2>1, <2>2
<1>8. CASE GiveUp(c)
  <2>1. /\ pc[c] = "giveUp" /\ pc'[c] = "failCharge" /\ spent' = spent
        /\ m'[c] = MarkFailure(m[c])
        /\ recorded'[c] = Append(recorded[c], MarkFailure(m[c]).successful)
    BY <1>8 DEF GiveUp, Aggregate, TypeOK
  <2>2. MarkFailure(m[c]).successful \in BOOLEAN
    BY <1>m, MarkFailureFacts
  <2> QED
    BY <1>a, <1>f, <2>1, <2>2
<1>9. CASE ChargeHit(c) \/ ChargeFailure(c) \/ (Charge(c) /\ ~OverBudget(c))
  <2>1. ChargeBudget(c) /\ recorded' = recorded /\ m' = m
    BY <1>9 DEF ChargeHit, ChargeFailure, Charge
  <2>2. /\ pc[c] \in {"hitCharge", "charge", "failCharge"}
        /\ pc'[c] \in {"overBudget", "returned", "rehydrateError", "exhausted"}
    BY <1>9 DEF ChargeHit, ChargeFailure, Charge, TypeOK
  <2> QED
    BY <1>c, <2>1, <2>2
<1>10. CASE Charge(c) /\ OverBudget(c)
  <2>1. ChargeBudget(c) /\ recorded' = recorded
    BY <1>10 DEF Charge
  <2>2. /\ pc[c] = "charge" /\ pc'[c] = "giveUp"
        /\ m'[c] = NoteAttemptFailure(m[c], attempt[c], "backend")
    BY <1>10 DEF Charge, Abort, TypeOK
  <2>3. ChargedTokens(m[c])' = ChargedTokens(m[c])
    BY <1>f, <1>m, <2>2
  <2> QED
    BY <1>c, <2>1, <2>2, <2>3
<1> QED
  BY <1>1, <1>2, <1>3, <1>4, <1>5, <1>6, <1>7, <1>8, <1>9, <1>10 DEF Advance

\* The sum, over an explicit set.
Terms == [c \in Calls |-> Term(c)]

LEMMA BudgetIsSum == BudgetMatchesAggregator <=> spent = SumFunctionOnSet(Terms, Calls)
BY DEF BudgetMatchesAggregator, SumFunction, Terms, Term

LEMMA InitBudget == Init => BudgetMatchesAggregator
<1> SUFFICES ASSUME Init PROVE spent = SumFunctionOnSet(Terms, Calls)
  BY BudgetIsSum
<1>1. ASSUME NEW c \in Calls PROVE Terms[c] = 0
  BY DEF Init, Terms, Term, Charges, NewCallMetrics, ChargedTokens
<1>2. SumFunctionOnSet(Terms, Calls) = 0
  BY <1>1, CallsAssumption, SumOfZeros
<1> QED
  BY <1>2 DEF Init

LEMMA NextBudget ==
    TypeOK /\ TypeOK' /\ ReportInv /\ BudgetMatchesAggregator /\ [Next]_vars
        => BudgetMatchesAggregator'
<1> SUFFICES ASSUME TypeOK, TypeOK', ReportInv, spent = SumFunctionOnSet(Terms, Calls), [Next]_vars
             PROVE  spent' = SumFunctionOnSet(Terms', Calls)
  <2>1. BudgetMatchesAggregator' <=> spent' = SumFunctionOnSet(Terms', Calls)
    BY DEF BudgetMatchesAggregator, SumFunction, Terms, Term
  <2> QED
    BY <2>1, BudgetIsSum
<1>t. \A d \in Calls : Terms[d] = Term(d) /\ Terms'[d] = Term(d)'
  BY DEF Terms
<1>n. \A d \in Calls : Term(d) \in Int /\ Term(d)' \in Int
  <2> SUFFICES ASSUME NEW d \in Calls PROVE Term(d) \in Int /\ Term(d)' \in Int
    OBVIOUS
  <2>1. m'[d] \in CallMetricsType /\ Len(recorded'[d]) \in Nat
    BY DEF TypeOK
  <2>2. ChargedTokens(m'[d]) \in Int
    BY <2>1, ChargedTokensNat
  <2>3. Charges(d)' \in Int
    BY <2>1 DEF Charges
  <2>4. Term(d)' \in Int
    BY <2>2, <2>3 DEF Term
  <2> QED
    BY <2>4, TermIsInt
<1>1. ASSUME NEW c \in Calls, Begin(c) \/ RenderFails(c) \/ Advance(c) \/ Cancel(c)
      PROVE  spent' = SumFunctionOnSet(Terms', Calls)
  <2>1. Term(c)' = Term(c) + (spent' - spent)
    BY <1>1, OwnTerm
  <2>2. ASSUME NEW d \in Calls, d # c PROVE Term(d)' = Term(d)
    <3>1. Local(d)' = Local(d)
      BY <1>1, <2>2, StepIsLocal
    <3> QED
      BY <3>1 DEF Local, Term, Charges
  <2>3. \A d \in Calls \ {c} : Terms'[d] = Terms[d]
    BY <1>t, <2>2
  <2>4. \A d \in Calls : Terms[d] \in Int /\ Terms'[d] \in Int
    BY <1>t, <1>n
  <2>5. SumFunctionOnSet(Terms', Calls)
          = SumFunctionOnSet(Terms, Calls) + (Terms'[c] - Terms[c])
    BY <2>3, <2>4, CallsAssumption, SumChangedAtOne
  <2>6. spent \in Int /\ spent' \in Int
    BY DEF TypeOK
  <2> QED
    BY <1>n, <1>t, <2>1, <2>5, <2>6
<1>2. CASE UNCHANGED <<spent, pc, m, recorded>>
  <2>1. Terms' = Terms
    BY <1>2 DEF Terms, Term, Charges
  <2> QED
    BY <1>2, <2>1
<1>3. Configure \/ (\E k \in Keys : Forget(k)) \/ UNCHANGED vars
        => UNCHANGED <<spent, pc, m, recorded>>
  BY DEF Configure, Forget, vars, shared, history
<1> QED
  BY <1>1, <1>2, <1>3 DEF Next

\* The tracker's total is at all times what the aggregator's records amount to, less
\* the ones on their way from one to the other, for any finite number of calls.
THEOREM BudgetAgreesWithAggregator == Spec => []BudgetMatchesAggregator
<1>1. TypeOK /\ ReportInv /\ BudgetMatchesAggregator /\ [Next]_vars => BudgetMatchesAggregator'
  BY NextType, NextBudget
<1> QED
  BY InitBudget, TypeCorrect, ReportInvariant, <1>1, PTL DEF Spec

-----------------------------------------------------------------------------
(***************************************************************************)
(* AttemptAccounting speaks of ended calls.  It is inductive once it says  *)
(* of every label how the counters, the failure history and the local      *)
(* `attempt` are related there.  A budget breach is the odd case: it turns *)
(* the attempt that has succeeded into a failed one.                       *)
(***************************************************************************)

\* Labels of a call that has made no attempt and has not been served.
Fresh == {"idle", "lookup", "renderError", "cacheError"}

\* Labels of a call whose last attempt is answered.
Answered == {"store", "record", "charge", "returned"}

\* Labels of a call that has no more attempts, and of its failed ends.
GivenUp == {"giveUp", "failCharge", "exhausted", "overBudget"}

Less(n) == IF n = 0 THEN 0 ELSE n - 1

\* The failure history of metrics mc: n failures, of the attempts 0 to n - 1.
FailuresOf(mc, n) ==
    /\ Len(mc.attempt_errors) = n
    /\ \A i \in 1..n : mc.attempt_errors[i].attempt = i - 1

\* `begun` attempts, of which `failed` have failed, were the last to set retries.
Accounts(c, begun, failed, retries) ==
    /\ issued[c] = begun
    /\ m[c].attempts = begun
    /\ FailuresOf(m[c], failed)
    /\ m[c].retries = retries

\* Where call c, no hit, is in its attempts.
AccountOf(c) ==
    /\ pc[c] \in Fresh \union {"loop"} =>
         Accounts(c, attempt[c], attempt[c], Less(attempt[c]))
    /\ pc[c] = "backend" =>
         Accounts(c, attempt[c] + 1, attempt[c], Less(attempt[c]))
    /\ pc[c] \in Answered =>
         Accounts(c, attempt[c] + 1, attempt[c], attempt[c])
    /\ pc[c] = "backoff" =>
         Accounts(c, attempt[c] + 1, attempt[c] + 1, attempt[c])
    /\ pc[c] \in GivenUp =>
         Accounts(c, issued[c], issued[c], Less(issued[c]))

\* A call that is before its loop has issued nothing; nor has a hit, ever.
HitOf(c) ==
    /\ pc[c] \in Fresh => issued[c] = 0 /\ attempt[c] = 0
    /\ pc[c] \in HitOnly => m[c].cache_hit
    /\ m[c].cache_hit => issued[c] = 0 /\ pc[c] \in HitLabels

AccountInv == \A c \in Calls : HitOf(c) /\ (~m[c].cache_hit => AccountOf(c))

\* A failure noted of attempt n, after those of 0 to n - 1, keeps the history in order.
LEMMA FailureNoted ==
    ASSUME NEW mc \in CallMetricsType, NEW n \in Nat, NEW category \in Categories,
           FailuresOf(mc, n)
    PROVE  FailuresOf(NoteAttemptFailure(mc, n, category), n + 1)
<1> DEFINE errors == mc.attempt_errors
           entry  == [attempt |-> n, category |-> category]
<1>1. errors \in Seq(AttemptErrors) /\ entry \in AttemptErrors
  BY DEF CallMetricsType, AttemptErrors
<1>2. NoteAttemptFailure(mc, n, category).attempt_errors = Append(errors, entry)
  BY NoteAttemptFailureFacts
<1>3. /\ Len(Append(errors, entry)) = n + 1
      /\ \A i \in 1..n : Append(errors, entry)[i] = errors[i]
      /\ Append(errors, entry)[n + 1] = entry
  BY <1>1, AppendProperties DEF FailuresOf
<1>4. \A i \in 1..(n + 1) : i \in 1..n \/ i = n + 1
  OBVIOUS
<1> QED
  BY <1>2, <1>3, <1>4 DEF FailuresOf

\* The end of an attempt that is answered, as far as it is counted here.
LEMMA AnswerCounted ==
    ASSUME NEW mc \in CallMetricsType, NEW n \in Nat, NEW t \in Nat, NEW next,
           next = MarkSuccess(AddResponse(mc, n, t), n)
    PROVE  /\ next.attempts = n + 1 /\ next.retries = n
           /\ next.cache_hit = mc.cache_hit /\ next.attempt_errors = mc.attempt_errors
<1> DEFINE r == MarkSuccess(AddResponse(mc, n, t), n)
<1>1. /\ r \in CallMetricsType
      /\ r.attempts = n + 1
      /\ r.successful = TRUE
      /\ r.retries = n
      /\ r.cache_hit = mc.cache_hit
      /\ r.usage = t
      /\ r.attempt_errors = mc.attempt_errors
  BY AnsweredFacts, Zenon
<1> QED
  BY <1>1

LEMMA InitAccount == Init => AccountInv
BY DEF Init, AccountInv, HitOf, AccountOf, Accounts, FailuresOf, Less, Fresh, HitOnly, Answered,
       GivenUp, NewCallMetrics

\* What a step of call c makes of the call itself.
LEMMA OwnAccount ==
    ASSUME TypeOK, NEW c \in Calls, HitOf(c), ~m[c].cache_hit => AccountOf(c),
           Begin(c) \/ RenderFails(c) \/ Advance(c) \/ Cancel(c)
    PROVE  (HitOf(c) /\ (~m[c].cache_hit => AccountOf(c)))'
<1>m. m[c] \in CallMetricsType /\ attempt[c] \in Nat /\ issued[c] \in Nat
  BY DEF TypeOK
<1> USE DEF Fresh, Answered, GivenUp, HitLabels, HitOnly, HitOf, AccountOf
<1>f. ASSUME NEW category \in Categories
      PROVE  LET n == NoteAttemptFailure(m[c], attempt[c], category) IN
             /\ n.attempts = m[c].attempts /\ n.retries = attempt[c]
             /\ n.cache_hit = m[c].cache_hit
             /\ FailuresOf(m[c], attempt[c]) => FailuresOf(n, attempt[c] + 1)
  BY <1>m, NoteAttemptFailureFacts, FailureNoted
\* A failed attempt, in which the call goes on to wait or to give up.
<1>g. ASSUME NEW category \in Categories, pc[c] \in {"backend", "store", "charge"},
             pc'[c] \in {"backoff", "giveUp"}, issued'[c] = issued[c],
             attempt'[c] = attempt[c],
             m'[c] = NoteAttemptFailure(m[c], attempt[c], category)
      PROVE  (HitOf(c) /\ (~m[c].cache_hit => AccountOf(c)))'
  BY <1>m, <1>f, <1>g DEF Accounts, Less
\* A step that changes nothing that is counted.
<1>k. ASSUME m'[c] = m[c], attempt'[c] = attempt[c], issued'[c] = issued[c],
             \/ pc[c] \in Fresh /\ pc'[c] \in Fresh \union {"loop"}
             \/ pc[c] \in {"store", "record", "charge"} /\ pc'[c] \in Answered
             \/ pc[c] \in {"giveUp", "failCharge"} /\ pc'[c] \in GivenUp
             \/ pc[c] = "loop" /\ pc'[c] = "giveUp"
             \/ pc[c] \in HitOnly /\ pc'[c] \in HitLabels
             \/ ~m[c].cache_hit /\ pc'[c] = "cancelled"
      PROVE  (HitOf(c) /\ (~m[c].cache_hit => AccountOf(c)))'
  BY <1>m, <1>k DEF Accounts, FailuresOf
<1> USE DEF Move
<1>1. CASE Begin(c) \/ RenderFails(c) \/ LookupMiss(c) \/ LookupFails(c)
  BY <1>k, <1>1 DEF Begin, RenderFails, LookupMiss, LookupFails, shared, history, TypeOK
<1>2. CASE LookupHit(c)
  <2>1. cache[KeyOf[c]].tokens \in Nat
    BY <1>2, ExecutorAssumption DEF LookupHit, TypeOK, Answers
  <2>2. HitMetrics(m[c], cache[KeyOf[c]].tokens).cache_hit = TRUE
    BY <1>m, <2>1, HitMetricsFacts
  <2>3. /\ m'[c] = HitMetrics(m[c], cache[KeyOf[c]].tokens) /\ issued'[c] = issued[c]
        /\ pc[c] = "lookup" /\ pc'[c] = "hitRecord"
    BY <1>2 DEF LookupHit, history, TypeOK
  <2> QED
    BY <2>2, <2>3
<1>3. CASE RecordHit(c) \/ ChargeHit(c)
  BY <1>k, <1>3 DEF RecordHit, ChargeHit, history, TypeOK
<1>4. CASE StartAttempt(c)
  <2>1. /\ m'[c] = CountAttempt(m[c], attempt[c]) /\ attempt'[c] = attempt[c]
        /\ issued'[c] = issued[c] + 1 /\ pc[c] = "loop" /\ pc'[c] = "backend"
    BY <1>4 DEF StartAttempt, TypeOK
  <2>2. LET n == CountAttempt(m[c], attempt[c]) IN
        /\ n.attempts = attempt[c] + 1 /\ n.retries = m[c].retries
        /\ n.cache_hit = m[c].cache_hit /\ n.attempt_errors = m[c].attempt_errors
    BY <1>m, CountAttemptFacts
  <2> QED
    BY <1>m, <2>1, <2>2 DEF Accounts, FailuresOf
<1>5. CASE LoopEnds(c)
  BY <1>k, <1>5 DEF LoopEnds, shared, history, TypeOK
<1>6. CASE BackendAnswers(c)
  <2>1. PICK t \in Tokens :
          m' = [m EXCEPT ![c] = MarkSuccess(AddResponse(@, attempt[c], t), attempt[c])]
    BY <1>6 DEF BackendAnswers
  <2>2. /\ m'[c] = MarkSuccess(AddResponse(m[c], attempt[c], t), attempt[c])
        /\ attempt'[c] = attempt[c] /\ issued'[c] = issued[c]
        /\ pc[c] = "backend" /\ pc'[c] \in {"store", "record"}
    BY <1>6, <2>1 DEF BackendAnswers, TypeOK
  <2>3. /\ m'[c].attempts = attempt[c] + 1 /\ m'[c].retries = attempt[c]
        /\ m'[c].cache_hit = m[c].cache_hit /\ m'[c].attempt_errors = m[c].attempt_errors
    <3>1. t \in Nat
      BY ExecutorAssumption
    <3> QED
      BY <1>m, <2>2, <3>1, AnswerCounted
  <2> QED
    BY <1>m, <2>2, <2>3 DEF Accounts, FailuresOf
<1>7. CASE AttemptFails(c)
  <2>1. PICK category \in Categories :
          /\ pc' = [pc EXCEPT ![c] = IF IsRetryable(category, attempt[c], MaxRetriesOf[c])
                                     THEN "backoff" ELSE "giveUp"]
          /\ m' = [m EXCEPT ![c] = NoteAttemptFailure(@, attempt[c], category)]
    BY <1>7 DEF AttemptFails
  <2>2. /\ pc[c] = "backend" /\ pc'[c] \in {"backoff", "giveUp"} /\ issued'[c] = issued[c]
        /\ attempt'[c] = attempt[c]
        /\ m'[c] = NoteAttemptFailure(m[c], attempt[c], category)
    BY <1>7, <2>1 DEF AttemptFails, TypeOK
  <2> QED
    BY <1>g, <2>2
<1>8. CASE BackendRaisesOther(c) \/ StoreFails(c) \/ (Charge(c) /\ OverBudget(c))
  <2>1. /\ pc[c] \in {"backend", "store", "charge"} /\ pc'[c] = "giveUp"
        /\ issued'[c] = issued[c] /\ attempt'[c] = attempt[c]
        /\ m'[c] = NoteAttemptFailure(m[c], attempt[c], "backend")
    BY <1>8 DEF BackendRaisesOther, StoreFails, Charge, Abort, history, TypeOK
  <2> QED
    BY <1>g, <2>1 DEF Categories
<1>9. CASE Wake(c)
  <2>1. /\ pc[c] = "backoff" /\ pc'[c] = "loop" /\ m'[c] = m[c] /\ issued'[c] = issued[c]
        /\ attempt'[c] = attempt[c] + 1
    BY <1>9 DEF Wake, history, TypeOK
  <2> QED
    BY <1>m, <2>1 DEF Accounts, FailuresOf, Less
<1>10. CASE Store(c) \/ RecordSuccess(c) \/ (Charge(c) /\ ~OverBudget(c))
  BY <1>k, <1>10 DEF Store, RecordSuccess, Charge, history, TypeOK
<1>11. CASE GiveUp(c)
  <2>1. /\ pc[c] = "giveUp" /\ pc'[c] = "failCharge" /\ m'[c] = MarkFailure(m[c])
        /\ issued'[c] = issued[c]
    BY <1>11 DEF GiveUp, history, TypeOK
  <2>2. LET n == MarkFailure(m[c]) IN
        /\ n.attempts = m[c].attempts /\ n.attempt_errors = m[c].attempt_errors
        /\ n.cache_hit = m[c].cache_hit
        /\ n.retries = IF m[c].attempts > 0 /\ m[c].attempts - 1 > m[c].retries
                       THEN m[c].attempts - 1 ELSE m[c].retries
    BY <1>m, MarkFailureFacts
  <2> QED
    BY <1>m, <2>1, <2>2 DEF Accounts, FailuresOf, Less
<1>12. CASE ChargeFailure(c)
  BY <1>k, <1>12 DEF ChargeFailure, TypeOK
<1>13. CASE Cancel(c)
  BY <1>k, <1>13 DEF Cancel, shared, history, TypeOK
<1> QED
  BY <1>1, <1>2, <1>3, <1>4, <1>5, <1>6, <1>7, <1>8, <1>9, <1>10, <1>11, <1>12, <1>13
     DEF Advance

LEMMA NextAccount == TypeOK /\ AccountInv /\ [Next]_vars => AccountInv'
<1> SUFFICES ASSUME TypeOK, AccountInv, [Next]_vars, NEW d \in Calls
             PROVE  (HitOf(d) /\ (~m[d].cache_hit => AccountOf(d)))'
  BY DEF AccountInv
<1>1. HitOf(d) /\ (~m[d].cache_hit => AccountOf(d))
  BY DEF AccountInv
<1>2. CASE UNCHANGED <<pc, m, attempt, issued>>
  BY <1>1, <1>2 DEF HitOf, AccountOf, Accounts
<1>3. ASSUME NEW c \in Calls, Begin(c) \/ RenderFails(c) \/ Advance(c) \/ Cancel(c)
      PROVE  (HitOf(d) /\ (~m[d].cache_hit => AccountOf(d)))'
  <2>1. CASE d = c
    BY <1>1, <1>3, <2>1, OwnAccount
  <2>2. CASE d # c
    <3>1. /\ pc'[d] = pc[d] /\ m'[d] = m[d] /\ attempt'[d] = attempt[d]
          /\ issued'[d] = issued[d]
      BY <1>3, <2>2, StepIsLocal DEF Local
    <3> QED
      BY <1>1, <3>1 DEF HitOf, AccountOf, Accounts
  <2> QED
    BY <2>1, <2>2
<1>4. Configure \/ (\E k \in Keys : Forget(k)) \/ UNCHANGED vars
        => UNCHANGED <<pc, m, attempt, issued>>
  BY DEF Configure, Forget, vars, history
<1> QED
  BY <1>2, <1>3, <1>4 DEF Next

LEMMA AccountInvariant == Spec => []AccountInv
BY InitAccount, NextAccount, TypeCorrect, PTL DEF Spec

\* The metrics of a call that has ended count its attempts, its failures and its
\* retries, whatever mixture of failures, cache errors and breaches it met.
THEOREM AccountingHolds == Spec => []AttemptAccounting
<1>1. TypeOK /\ AccountInv => AttemptAccounting
  <2> SUFFICES ASSUME TypeOK, AccountInv, NEW c \in Calls
               PROVE  /\ m[c].cache_hit => issued[c] = 0
                      /\ pc[c] \in {"returned", "exhausted", "overBudget"} /\ ~m[c].cache_hit =>
                           /\ m[c].attempts = issued[c]
                           /\ Len(m[c].attempt_errors) =
                                IF pc[c] = "returned" THEN issued[c] - 1 ELSE issued[c]
                           /\ \A i \in 1..Len(m[c].attempt_errors) :
                                m[c].attempt_errors[i].attempt = i - 1
                           /\ m[c].retries = IF issued[c] = 0 THEN 0 ELSE issued[c] - 1
    BY DEF AttemptAccounting
  <2>1. HitOf(c) /\ (~m[c].cache_hit => AccountOf(c))
    BY DEF AccountInv
  <2>2. attempt[c] \in Nat /\ issued[c] \in Nat
    BY DEF TypeOK
  <2> QED
    BY <2>1, <2>2 DEF HitOf, AccountOf, Accounts, FailuresOf, Less, Answered, GivenUp
<1> QED
  BY <1>1, TypeCorrect, AccountInvariant, PTL

-----------------------------------------------------------------------------
(***************************************************************************)
(* ReportsAreAccounted: what the aggregator is told.  Aggregator assumes   *)
(* that the CallMetrics it records are accounted; the executor reports no  *)
(* others.                                                                 *)
(***************************************************************************)

\* A failure category comes with a failure history; a hit has neither.
ShapeOf(mc) ==
    /\ mc.attempt_errors = << >> => mc.error_category = NoCategory
    /\ mc.cache_hit => mc.attempts = 1 /\ mc.retries = 0 /\ mc.attempt_errors = << >>

ShapeInv == \A c \in Calls : ShapeOf(m[c])

\* What the mutators make of the shape of metrics mc that are no hit's.
LEMMA ShapesKept ==
    ASSUME NEW mc \in CallMetricsType, ShapeOf(mc), ~mc.cache_hit,
           NEW a \in Nat, NEW t \in Nat, NEW category \in Categories
    PROVE  /\ ShapeOf(CountAttempt(mc, a))
           /\ ShapeOf(MarkSuccess(AddResponse(mc, a, t), a))
           /\ ShapeOf(NoteAttemptFailure(mc, a, category))
           /\ ShapeOf(MarkFailure(mc))
           /\ mc.attempt_errors = << >> => ShapeOf(HitMetrics(mc, t))
<1>1. ShapeOf(CountAttempt(mc, a))
  <2>1. CountAttempt(mc, a).error_category = mc.error_category
    BY DEF CountAttempt, CallMetricsType
  <2> QED
    BY <2>1, CountAttemptFacts DEF ShapeOf
<1>2. ShapeOf(MarkSuccess(AddResponse(mc, a, t), a))
  <2> DEFINE r == MarkSuccess(AddResponse(mc, a, t), a)
  <2>1. r.error_category = NoCategory
    <3>1. DOMAIN AddResponse(mc, a, t) = DOMAIN mc
      BY DEF AddResponse
    <3>2. "error_category" \in DOMAIN mc
      BY DEF CallMetricsType
    <3> QED
      BY <3>1, <3>2 DEF MarkSuccess
  <2>2. r.cache_hit = mc.cache_hit
    BY AnswerCounted
  <2> QED
    BY <2>1, <2>2 DEF ShapeOf
<1>3. ShapeOf(NoteAttemptFailure(mc, a, category))
  <2> DEFINE r == NoteAttemptFailure(mc, a, category)
             entry == [attempt |-> a, category |-> category]
  <2>1. r.cache_hit = mc.cache_hit /\ r.attempt_errors = Append(mc.attempt_errors, entry)
    BY NoteAttemptFailureFacts
  <2>2. mc.attempt_errors \in Seq(AttemptErrors) /\ entry \in AttemptErrors
    BY DEF CallMetricsType, AttemptErrors
  <2>3. Append(mc.attempt_errors, entry) # << >>
    BY <2>2, AppendProperties
  <2> QED
    BY <2>1, <2>3 DEF ShapeOf
<1>4. ShapeOf(MarkFailure(mc))
  <2>1. MarkFailure(mc).error_category = mc.error_category
    BY DEF MarkFailure, CallMetricsType
  <2> QED
    BY <2>1, MarkFailureFacts DEF ShapeOf
<1>5. ASSUME mc.attempt_errors = << >> PROVE ShapeOf(HitMetrics(mc, t))
  <2> DEFINE h == [mc EXCEPT !.cache_hit = TRUE, !.usage = t, !.total_usage = t]
  <2>1. {"attempts", "retries", "error_category"} \subseteq DOMAIN h
    BY DEF CallMetricsType
  <2> HIDE DEF h
  <2>2. /\ MarkSuccess(h, 0).attempts = 1 /\ MarkSuccess(h, 0).retries = 0
        /\ MarkSuccess(h, 0).error_category = NoCategory
    BY <2>1 DEF MarkSuccess
  <2>3. HitMetrics(mc, t) = MarkSuccess(h, 0)
    BY DEF HitMetrics, h
  <2>4. HitMetrics(mc, t).attempt_errors = << >>
    BY <1>5, HitMetricsFacts
  <2> QED
    BY <2>2, <2>3, <2>4 DEF ShapeOf
<1> QED
  BY <1>1, <1>2, <1>3, <1>4, <1>5

LEMMA OwnShape ==
    ASSUME TypeOK, AccountInv, NEW c \in Calls, ShapeOf(m[c]),
           Begin(c) \/ RenderFails(c) \/ Advance(c) \/ Cancel(c)
    PROVE  ShapeOf(m'[c])
<1>t. m[c] \in CallMetricsType /\ attempt[c] \in Nat
      /\ m \in [Calls -> CallMetricsType]
  BY DEF TypeOK
<1>h. pc[c] \in {"lookup", "loop", "backend", "store", "charge", "giveUp"} => ~m[c].cache_hit
  <2>1. m[c].cache_hit => pc[c] \in HitLabels
    BY DEF AccountInv, HitOf
  <2> QED
    BY <2>1 DEF HitLabels
<1> USE DEF Move
<1>1. CASE StartAttempt(c)
  <2>1. m'[c] = CountAttempt(m[c], attempt[c]) /\ pc[c] = "loop"
    BY <1>1, <1>t DEF StartAttempt
  <2> QED
    BY <1>h, <1>t, <2>1, ShapesKept DEF Categories
<1>2. CASE LookupHit(c)
  <2> DEFINE t == cache[KeyOf[c]].tokens
  <2>1. t \in Nat
    BY <1>2, ExecutorAssumption DEF LookupHit, TypeOK, Answers
  <2>2. m'[c] = HitMetrics(m[c], t) /\ pc[c] = "lookup"
    BY <1>2, <1>t DEF LookupHit
  <2>3. m[c].attempt_errors = << >>
    <3>1. Len(m[c].attempt_errors) = attempt[c] /\ attempt[c] = 0
      BY <1>h, <2>2 DEF AccountInv, HitOf, AccountOf, Accounts, FailuresOf, Fresh
    <3>2. m[c].attempt_errors \in Seq(AttemptErrors)
      BY <1>t DEF CallMetricsType
    <3> QED
      BY <3>1, <3>2
  <2> HIDE DEF t
  <2> QED
    BY <1>h, <1>t, <2>1, <2>2, <2>3, ShapesKept DEF Categories
<1>3. CASE BackendAnswers(c)
  <2>1. PICK t \in Tokens :
          m' = [m EXCEPT ![c] = MarkSuccess(AddResponse(@, attempt[c], t), attempt[c])]
    BY <1>3 DEF BackendAnswers
  <2>2. m'[c] = MarkSuccess(AddResponse(m[c], attempt[c], t), attempt[c])
        /\ pc[c] = "backend" /\ t \in Nat
    BY <1>3, <1>t, <2>1, ExecutorAssumption DEF BackendAnswers
  <2> QED
    BY <1>h, <1>t, <2>2, ShapesKept DEF Categories
<1>4. CASE AttemptFails(c) \/ BackendRaisesOther(c) \/ StoreFails(c)
           \/ (Charge(c) /\ OverBudget(c))
  <2>1. PICK category \in Categories :
          m' = [m EXCEPT ![c] = NoteAttemptFailure(@, attempt[c], category)]
    BY <1>4 DEF AttemptFails, BackendRaisesOther, StoreFails, Charge, Abort, Categories
  <2>2. m'[c] = NoteAttemptFailure(m[c], attempt[c], category)
        /\ pc[c] \in {"backend", "store", "charge"}
    BY <1>4, <1>t, <2>1 DEF AttemptFails, BackendRaisesOther, StoreFails, Charge, Abort
  <2> QED
    BY <1>h, <1>t, <2>2, ShapesKept
<1>5. CASE GiveUp(c)
  <2>1. m'[c] = MarkFailure(m[c]) /\ pc[c] = "giveUp"
    BY <1>5, <1>t DEF GiveUp
  <2> QED
    BY <1>h, <1>t, <2>1, ShapesKept DEF Categories
<1>6. CASE m' = m
  BY <1>6
<1>7. ASSUME \/ Begin(c) \/ RenderFails(c) \/ LookupMiss(c) \/ LookupFails(c) \/ RecordHit(c)
             \/ ChargeHit(c) \/ LoopEnds(c) \/ Wake(c) \/ Store(c) \/ RecordSuccess(c)
             \/ (Charge(c) /\ ~OverBudget(c)) \/ ChargeFailure(c) \/ Cancel(c)
      PROVE  m' = m
  BY <1>7 DEF Begin, RenderFails, LookupMiss, LookupFails, RecordHit, ChargeHit, LoopEnds,
              Wake, Store, RecordSuccess, Charge, ChargeFailure, Cancel
<1> QED
  BY <1>1, <1>2, <1>3, <1>4, <1>5, <1>6, <1>7 DEF Advance

LEMMA NextShape == TypeOK /\ AccountInv /\ ShapeInv /\ [Next]_vars => ShapeInv'
<1> SUFFICES ASSUME TypeOK, AccountInv, ShapeInv, [Next]_vars, NEW d \in Calls
             PROVE  ShapeOf(m'[d])
  BY DEF ShapeInv
<1>1. ShapeOf(m[d])
  BY DEF ShapeInv
<1>2. ASSUME NEW c \in Calls, Begin(c) \/ RenderFails(c) \/ Advance(c) \/ Cancel(c)
      PROVE  ShapeOf(m'[d])
  <2>1. CASE d = c
    BY <1>1, <1>2, <2>1, OwnShape
  <2>2. CASE d # c
    <3>1. m'[d] = m[d]
      BY <1>2, <2>2, StepIsLocal DEF Local
    <3> QED
      BY <1>1, <3>1
  <2> QED
    BY <2>1, <2>2
<1>3. Configure \/ (\E k \in Keys : Forget(k)) \/ UNCHANGED vars => m' = m
  BY DEF Configure, Forget, vars
<1> QED
  BY <1>1, <1>2, <1>3 DEF Next

LEMMA ShapeInvariant == Spec => []ShapeInv
<1>1. Init => ShapeInv
  BY DEF Init, ShapeInv, ShapeOf, NewCallMetrics
<1> QED
  BY <1>1, NextShape, TypeCorrect, AccountInvariant, PTL DEF Spec

\* What a step that reports call c reports.
LEMMA ReportAccounted ==
    ASSUME TypeOK, AccountInv, ReportInv, ShapeInv, NEW c \in Calls,
           RecordHit(c) \/ RecordSuccess(c) \/ GiveUp(c)
    PROVE  Accounted(m'[c])
<1> DEFINE len == Len(m[c].attempt_errors)
<1>t. /\ m[c] \in CallMetricsType /\ attempt[c] \in Nat /\ issued[c] \in Nat
      /\ m \in [Calls -> CallMetricsType] /\ pc \in [Calls -> Labels]
      /\ m[c].attempts \in Nat /\ m[c].retries \in Nat
  BY DEF TypeOK, CallMetricsType
<1>s. ShapeOf(m[c]) /\ HitOf(c) /\ (~m[c].cache_hit => AccountOf(c)) /\ SuccessOf(c)
  BY DEF ShapeInv, AccountInv, ReportInv
<1>1. CASE RecordHit(c)
  <2>1. m' = m /\ pc[c] = "hitRecord"
    BY <1>1 DEF RecordHit, Move
  <2>2. m[c].cache_hit /\ m[c].successful
    BY <1>s, <2>1 DEF SuccessOf, HitOnly
  <2>3. m[c].attempts = 1 /\ m[c].retries = 0 /\ m[c].attempt_errors = << >>
        /\ m[c].error_category = NoCategory
    BY <1>s, <2>2 DEF ShapeOf
  <2> QED
    BY <2>1, <2>2, <2>3 DEF Accounted
<1>2. CASE RecordSuccess(c)
  <2>1. m' = m /\ pc[c] = "record"
    BY <1>2 DEF RecordSuccess, Move
  <2>2. ~m[c].cache_hit /\ m[c].successful
    BY <1>s, <2>1 DEF SuccessOf, HitLabels
  <2>3. m[c].attempts = attempt[c] + 1 /\ len = attempt[c] /\ m[c].retries = attempt[c]
    BY <1>s, <2>1, <2>2 DEF AccountOf, Accounts, FailuresOf, Answered
  <2>4. /\ m[c].attempts = len + IF m[c].successful THEN 1 ELSE 0
        /\ m[c].retries = IF m[c].attempts = 0 THEN 0 ELSE m[c].attempts - 1
    BY <1>t, <2>2, <2>3
  <2> QED
    BY <1>s, <2>1, <2>2, <2>4 DEF Accounted, ShapeOf
<1>3. CASE GiveUp(c)
  <2>1. m'[c] = MarkFailure(m[c]) /\ pc[c] = "giveUp"
    BY <1>3, <1>t DEF GiveUp, Move
  <2>2. ~m[c].cache_hit
    BY <1>s, <2>1 DEF SuccessOf, HitLabels
  <2>3. m[c].attempts = issued[c] /\ len = issued[c] /\ m[c].retries = Less(issued[c])
    BY <1>s, <2>1, <2>2 DEF AccountOf, Accounts, FailuresOf, GivenUp
  <2>4. /\ m'[c].attempts = m[c].attempts /\ m'[c].attempt_errors = m[c].attempt_errors
        /\ m'[c].successful = FALSE /\ m'[c].cache_hit = m[c].cache_hit
        /\ m'[c].retries = IF m[c].attempts > 0 /\ m[c].attempts - 1 > m[c].retries
                           THEN m[c].attempts - 1 ELSE m[c].retries
    <3>1. LET n == MarkFailure(m[c]) IN
          /\ n.attempts = m[c].attempts /\ n.attempt_errors = m[c].attempt_errors
          /\ n.successful = FALSE /\ n.cache_hit = m[c].cache_hit
          /\ n.retries = IF m[c].attempts > 0 /\ m[c].attempts - 1 > m[c].retries
                         THEN m[c].attempts - 1 ELSE m[c].retries
      BY <1>t, MarkFailureFacts
    <3> QED
      BY <2>1, <3>1
  <2>5. ShapeOf(m'[c])
    BY <1>t, <1>s, <2>1, <2>2, ShapesKept DEF Categories
  <2>6. /\ m'[c].attempts = len + 0
        /\ m'[c].retries = IF m'[c].attempts = 0 THEN 0 ELSE m'[c].attempts - 1
    BY <1>t, <2>3, <2>4 DEF Less
  <2> QED
    BY <2>2, <2>4, <2>5, <2>6 DEF Accounted, ShapeOf
<1> QED
  BY <1>1, <1>2, <1>3

\* Whenever the aggregator is told of a call, its CallMetrics are accounted: its attempts
\* are its failures, and the success if it was one, and its retries are those after the
\* first.  This is what Aggregator assumes of the calls that report to it.
THEOREM ReportsAreAccounted ==
    Spec => [][\A c \in Calls : recorded'[c] # recorded[c] => Accounted(m'[c])]_vars
<1>1. TypeOK /\ AccountInv /\ ReportInv /\ ShapeInv /\ [Next]_vars
        => [\A c \in Calls : recorded'[c] # recorded[c] => Accounted(m'[c])]_vars
  <2> SUFFICES ASSUME TypeOK, AccountInv, ReportInv, ShapeInv, Next, NEW d \in Calls,
                      recorded'[d] # recorded[d]
               PROVE  Accounted(m'[d])
    OBVIOUS
  <2>1. PICK c \in Calls : Begin(c) \/ RenderFails(c) \/ Advance(c) \/ Cancel(c)
    BY DEF Next, Configure, Forget
  <2>2. d = c
    BY <2>1, StepIsLocal DEF Local
  <2>3. RecordHit(c) \/ RecordSuccess(c) \/ GiveUp(c)
    BY <2>1, <2>2
       DEF Advance, shared, Begin, RenderFails, LookupMiss, LookupHit, LookupFails, ChargeHit,
           StartAttempt, LoopEnds, BackendAnswers, AttemptFails, BackendRaisesOther, Wake,
           Store, StoreFails, Charge, ChargeFailure, Cancel
  <2> QED
    BY <2>2, <2>3, ReportAccounted
<1> QED
  BY <1>1, TypeCorrect, AccountInvariant, ReportInvariant, ShapeInvariant, PTL DEF Spec

-----------------------------------------------------------------------------
(***************************************************************************)
(* CacheHoldsObtainedAnswers: an entry outlives its place in the cache and *)
(* the call that made it, so the property rests on what a call that holds  *)
(* an answer does not change any more: the answer, its token count and the *)
(* local cache_enabled.  To that end the inductive invariant says where a  *)
(* call has no answer yet, and that a call whose answer is its own is no   *)
(* hit.                                                                    *)
(***************************************************************************)

\* Labels of a call that has not got an answer.
Unanswered == {"idle", "lookup", "renderError", "cacheError", "loop", "backend", "backoff"}

AnswerOf(c) ==
    /\ pc[c] \in Unanswered => answer[c] = NoAnswer /\ ~m[c].cache_hit
    /\ pc[c] = "backend" => issued[c] > 0
    /\ pc[c] \in {"store", "record", "charge"} => answer[c] # NoAnswer /\ ~m[c].cache_hit
    /\ pc[c] = "store" => cacheOn[c]
    /\ m[c].cache_hit => answer[c] # NoAnswer
    /\ answer[c] # NoAnswer /\ ~m[c].cache_hit =>
         answer[c].by = c /\ answer[c].tokens = m[c].usage /\ issued[c] > 0

\* answer e of key k is one that its call holds, as it got it, with the cache on.
Obtained(e, k) ==
    /\ e # NoAnswer
    /\ KeyOf[e.by] = k
    /\ cacheOn[e.by]
    /\ answer[e.by] = e
    /\ m[e.by].usage = e.tokens
    /\ ~m[e.by].cache_hit
    /\ issued[e.by] > 0

HitObtained(c) ==
    m[c].cache_hit =>
        Obtained(answer[c], KeyOf[c]) /\ m[c].total_usage = answer[c].tokens

AnswerInv ==
    /\ \A c \in Calls : AnswerOf(c) /\ HitObtained(c)
    /\ \A k \in Keys : cache[k] # NoAnswer => Obtained(cache[k], k)

\* What a call that holds an answer keeps of it.
Keeps(c) ==
    /\ answer'[c] = answer[c] /\ cacheOn'[c] = cacheOn[c] /\ issued'[c] = issued[c]
    /\ m'[c].usage = m[c].usage /\ m'[c].total_usage = m[c].total_usage
    /\ m'[c].cache_hit = m[c].cache_hit

LEMMA InitAnswer == Init => AnswerInv
BY DEF Init, AnswerInv, AnswerOf, HitObtained, Unanswered, NewCallMetrics

\* The end of an attempt that is answered, as far as it concerns the answer.
LEMMA AnswerHeld ==
    ASSUME NEW mc \in CallMetricsType, NEW n \in Nat, NEW t \in Nat
    PROVE  LET r == MarkSuccess(AddResponse(mc, n, t), n) IN
           r.usage = t /\ r.cache_hit = mc.cache_hit
<1> DEFINE r == MarkSuccess(AddResponse(mc, n, t), n)
<1>1. /\ r \in CallMetricsType
      /\ r.attempts = n + 1
      /\ r.successful = TRUE
      /\ r.retries = n
      /\ r.cache_hit = mc.cache_hit
      /\ r.usage = t
      /\ r.attempt_errors = mc.attempt_errors
  BY AnsweredFacts, Zenon
<1> QED
  BY <1>1

\* A failed attempt leaves the usage and the hit mark as they are.
LEMMA FailureKeeps ==
    ASSUME NEW mc \in CallMetricsType, NEW n \in Nat, NEW category \in Categories
    PROVE  /\ NoteAttemptFailure(mc, n, category).usage = mc.usage
           /\ NoteAttemptFailure(mc, n, category).total_usage = mc.total_usage
           /\ NoteAttemptFailure(mc, n, category).cache_hit = mc.cache_hit
BY DEF NoteAttemptFailure, CallMetricsType

\* A step of call c but for the two that get an answer: it changes no answer, and an
\* answer that c holds already it keeps as it is.
LEMMA OtherSteps ==
    ASSUME TypeOK, NEW c \in Calls, AnswerOf(c),
           Begin(c) \/ RenderFails(c) \/ Advance(c) \/ Cancel(c),
           ~LookupHit(c), ~BackendAnswers(c)
    PROVE  /\ answer'[c] = answer[c]
           /\ m'[c].cache_hit = m[c].cache_hit
           /\ answer[c] # NoAnswer => Keeps(c)
           /\ AnswerOf(c)'
<1> USE DEF Move, Unanswered, AnswerOf, Keeps
<1>m. m[c] \in CallMetricsType /\ attempt[c] \in Nat /\ issued[c] \in Nat
  BY DEF TypeOK
<1>1. CASE \/ Begin(c) \/ RenderFails(c) \/ LookupMiss(c) \/ LookupFails(c)
           \/ LoopEnds(c) \/ Wake(c) \/ Cancel(c)
  BY <1>1 DEF Begin, RenderFails, LookupMiss, LookupFails, LoopEnds, Wake, Cancel, shared,
              history, TypeOK
<1>2. CASE RecordHit(c) \/ ChargeHit(c)
  BY <1>2 DEF RecordHit, ChargeHit, history, TypeOK
<1>3. CASE StartAttempt(c)
  <2>1. /\ m'[c] = CountAttempt(m[c], attempt[c]) /\ issued'[c] = issued[c] + 1
        /\ answer'[c] = answer[c] /\ pc[c] = "loop" /\ pc'[c] = "backend"
    BY <1>3 DEF StartAttempt, TypeOK
  <2>2. CountAttempt(m[c], attempt[c]).cache_hit = m[c].cache_hit
    BY <1>m, CountAttemptFacts
  <2> QED
    BY <1>m, <2>1, <2>2
<1>4. CASE AttemptFails(c) \/ BackendRaisesOther(c) \/ StoreFails(c)
           \/ (Charge(c) /\ OverBudget(c))
  <2>1. PICK category \in Categories :
          m' = [m EXCEPT ![c] = NoteAttemptFailure(@, attempt[c], category)]
    BY <1>4 DEF AttemptFails, BackendRaisesOther, StoreFails, Charge, Abort, Categories
  <2>2. /\ m'[c] = NoteAttemptFailure(m[c], attempt[c], category)
        /\ answer'[c] = answer[c] /\ cacheOn'[c] = cacheOn[c] /\ issued'[c] = issued[c]
        /\ pc[c] \in {"backend", "store", "charge"} /\ pc'[c] \in {"backoff", "giveUp"}
        /\ pc'[c] = "backoff" => pc[c] = "backend"
    BY <1>4, <2>1
       DEF AttemptFails, BackendRaisesOther, StoreFails, Charge, Abort, history, TypeOK
  <2>3. m'[c].usage = m[c].usage /\ m'[c].total_usage = m[c].total_usage
        /\ m'[c].cache_hit = m[c].cache_hit
    BY ONLY <1>m, <2>1, <2>2, FailureKeeps
  <2> QED
    BY <2>2, <2>3
<1>5. CASE Store(c) \/ RecordSuccess(c) \/ (Charge(c) /\ ~OverBudget(c))
  BY <1>5 DEF Store, RecordSuccess, Charge, history, TypeOK
<1>6. CASE GiveUp(c)
  <2>1. /\ m'[c] = MarkFailure(m[c]) /\ issued'[c] = issued[c] /\ cacheOn'[c] = cacheOn[c]
        /\ answer'[c] = answer[c] /\ pc'[c] = "failCharge"
    BY <1>6 DEF GiveUp, history, TypeOK
  <2>2. LET n == MarkFailure(m[c]) IN
        /\ n.usage = m[c].usage /\ n.total_usage = m[c].total_usage
        /\ n.cache_hit = m[c].cache_hit
    BY <1>m, MarkFailureFacts
  <2> QED
    BY <2>1, <2>2
<1>7. CASE ChargeFailure(c)
  BY <1>7 DEF ChargeFailure, TypeOK
<1> QED
  BY <1>1, <1>2, <1>3, <1>4, <1>5, <1>6, <1>7 DEF Advance

\* The two steps that get an answer.
LEMMA AnswerSteps ==
    ASSUME TypeOK, AnswerInv, NEW c \in Calls, LookupHit(c) \/ BackendAnswers(c)
    PROVE  /\ answer[c] = NoAnswer /\ ~m[c].cache_hit /\ UNCHANGED cache
           /\ AnswerOf(c)'
           /\ m'[c].cache_hit => /\ Obtained(answer'[c], KeyOf[c])
                                 /\ m'[c].total_usage = answer'[c].tokens
<1>m. /\ m[c] \in CallMetricsType /\ attempt[c] \in Nat /\ issued[c] \in Nat
      /\ AnswerOf(c) /\ KeyOf[c] \in Keys
  BY ExecutorAssumption DEF TypeOK, AnswerInv
<1>1. CASE LookupHit(c)
  <2> DEFINE entry == cache[KeyOf[c]]
  <2>1. entry \in Answers /\ entry.tokens \in Nat /\ entry # NoAnswer
    BY <1>1, <1>m, ExecutorAssumption DEF LookupHit, TypeOK, Answers
  <2>2. /\ m'[c] = HitMetrics(m[c], entry.tokens) /\ answer'[c] = entry
        /\ pc[c] = "lookup" /\ pc'[c] = "hitRecord" /\ UNCHANGED cache
    BY <1>1 DEF LookupHit, Move, shared, TypeOK
  <2>3. m'[c].cache_hit = TRUE /\ m'[c].total_usage = entry.tokens
    <3>1. HitMetrics(m[c], entry.tokens).cache_hit = TRUE
      BY <1>m, <2>1, HitMetricsFacts
    <3>2. HitMetrics(m[c], entry.tokens).total_usage = entry.tokens
      BY <1>m, <2>1, HitMetricsFacts
    <3> QED
      BY <2>2, <3>1, <3>2
  <2>4. Obtained(entry, KeyOf[c])
    BY <1>m, <2>1 DEF AnswerInv
  <2> HIDE DEF entry
  <2> QED
    BY <1>m, <2>1, <2>2, <2>3, <2>4 DEF AnswerOf, Unanswered
<1>2. CASE BackendAnswers(c)
  <2>1. PICK t \in Tokens :
          /\ m' = [m EXCEPT ![c] = MarkSuccess(AddResponse(@, attempt[c], t), attempt[c])]
          /\ answer' = [answer EXCEPT ![c] = [by |-> c, tokens |-> t]]
    BY <1>2 DEF BackendAnswers
  <2>2. /\ m'[c] = MarkSuccess(AddResponse(m[c], attempt[c], t), attempt[c])
        /\ answer'[c] = [by |-> c, tokens |-> t] /\ issued'[c] = issued[c]
        /\ cacheOn'[c] = cacheOn[c] /\ UNCHANGED cache
        /\ pc[c] = "backend" /\ pc'[c] = IF cacheOn[c] THEN "store" ELSE "record"
    BY <1>2, <2>1 DEF BackendAnswers, Move, shared, TypeOK
  <2>3. t \in Nat /\ [by |-> c, tokens |-> t] \in Answers
    BY ExecutorAssumption DEF Answers
  <2>4. answer'[c] # NoAnswer
    BY <2>2, <2>3, ExecutorAssumption
  <2>5. m'[c].usage = t /\ m'[c].cache_hit = m[c].cache_hit
    BY <1>m, <2>2, <2>3, AnswerHeld
  <2> QED
    BY <1>m, <2>2, <2>4, <2>5 DEF AnswerOf, Unanswered
<1> QED
  BY <1>1, <1>2

\* A step of one call keeps the invariant: what is obtained is kept by its call.
LEMMA CallStepAnswer ==
    ASSUME TypeOK, TypeOK', AnswerInv, NEW c \in Calls,
           Begin(c) \/ RenderFails(c) \/ Advance(c) \/ Cancel(c)
    PROVE  AnswerInv'
<1>1. \A d \in Calls : AnswerOf(d) /\ HitObtained(d)
  BY DEF AnswerInv
<1>2. ASSUME NEW d \in Calls, d # c
      PROVE  /\ pc'[d] = pc[d] /\ m'[d] = m[d] /\ Keeps(d)
  BY <1>2, StepIsLocal DEF Local, Keeps
<1>3. /\ answer[c] # NoAnswer => Keeps(c)
      /\ AnswerOf(c)'
      /\ m'[c].cache_hit => /\ Obtained(answer'[c], KeyOf[c])
                            /\ m'[c].total_usage = answer'[c].tokens
  <2>1. CASE LookupHit(c) \/ BackendAnswers(c)
    BY <2>1, AnswerSteps
  <2>2. CASE ~LookupHit(c) /\ ~BackendAnswers(c)
    <3>1. /\ answer'[c] = answer[c] /\ m'[c].cache_hit = m[c].cache_hit
          /\ answer[c] # NoAnswer => Keeps(c)
          /\ AnswerOf(c)'
      BY <1>1, <2>2, OtherSteps
    <3>2. m[c].cache_hit => answer[c] # NoAnswer
      BY <1>1 DEF AnswerOf
    <3> QED
      BY <1>1, <3>1, <3>2 DEF HitObtained, Keeps
  <2> QED
    BY <2>1, <2>2
<1>4. ASSUME NEW k \in Keys, cache'[k] # NoAnswer
      PROVE  Obtained(cache'[k], k)
  <2>1. CASE cache'[k] = cache[k]
    BY <1>4, <2>1 DEF AnswerInv
  <2>2. CASE cache'[k] # cache[k]
    <3>1. Store(c) /\ k = KeyOf[c] /\ cache'[k] = answer[c]
      BY <2>2 DEF TypeOK, shared, Begin, RenderFails, Advance, Cancel, LookupMiss, LookupHit,
                  LookupFails, RecordHit, ChargeHit, StartAttempt, LoopEnds, BackendAnswers,
                  AttemptFails, BackendRaisesOther, Wake, Store, StoreFails, RecordSuccess,
                  Charge, GiveUp, ChargeFailure
    <3> QED
      BY <1>1, <3>1 DEF Store, Move, AnswerOf, Obtained
  <2> QED
    BY <2>1, <2>2
<1>5. ASSUME NEW e \in Answers, NEW k, Obtained(e, k)
      PROVE  /\ cacheOn'[e.by] /\ answer'[e.by] = e /\ m'[e.by].usage = e.tokens
             /\ ~m'[e.by].cache_hit /\ issued'[e.by] > 0
             /\ e # NoAnswer /\ KeyOf[e.by] = k
  <2>1. e.by \in Calls /\ answer[e.by] # NoAnswer
    BY <1>5 DEF Answers, Obtained
  <2>2. Keeps(e.by)
    BY <1>2, <1>3, <2>1
  <2> QED
    BY <1>5, <2>2 DEF Keeps, Obtained
<1>6. ASSUME NEW d \in Calls PROVE (AnswerOf(d) /\ HitObtained(d))'
  <2>1. AnswerOf(d)'
    <3>1. CASE d = c
      BY <1>3, <3>1
    <3>2. CASE d # c
      BY <1>1, <1>2, <3>2 DEF AnswerOf, Keeps
    <3> QED
      BY <3>1, <3>2
  <2>2. m'[d].cache_hit =>
          Obtained(answer'[d], KeyOf[d]) /\ m'[d].total_usage = answer'[d].tokens
    <3>1. CASE d = c
      BY <1>3, <3>1
    <3>2. CASE d # c
      BY <1>1, <1>2, <3>2 DEF HitObtained, Keeps
    <3> QED
      BY <3>1, <3>2
  <2>3. answer'[d] # NoAnswer => answer'[d] \in Answers
    BY DEF TypeOK
  <2>4. HitObtained(d)'
    <3> SUFFICES ASSUME m'[d].cache_hit
                 PROVE  Obtained(answer[d], KeyOf[d])' /\ m'[d].total_usage = answer'[d].tokens
      BY DEF HitObtained
    <3>1. answer'[d] # NoAnswer
      BY <2>2 DEF Obtained
    <3> QED
      BY <1>5, <2>2, <2>3, <3>1 DEF Obtained
  <2> QED
    BY <2>1, <2>4
<1>7. ASSUME NEW k \in Keys, cache'[k] # NoAnswer PROVE Obtained(cache[k], k)'
  <2>1. cache'[k] \in Answers /\ Obtained(cache'[k], k)
    BY <1>4, <1>7 DEF TypeOK
  <2> QED
    BY <1>5, <2>1 DEF Obtained
<1> QED
  BY <1>6, <1>7 DEF AnswerInv

LEMMA NextAnswer == TypeOK /\ TypeOK' /\ AnswerInv /\ [Next]_vars => AnswerInv'
<1> SUFFICES ASSUME TypeOK, TypeOK', AnswerInv, [Next]_vars PROVE AnswerInv'
  OBVIOUS
<1>1. ASSUME UNCHANGED <<pc, m, answer, cacheOn, issued>>,
             \A k \in Keys : cache'[k] = cache[k] \/ cache'[k] = NoAnswer
      PROVE  AnswerInv'
  BY <1>1 DEF AnswerInv, AnswerOf, HitObtained, Obtained
<1>2. ASSUME Configure \/ (\E k \in Keys : Forget(k)) \/ UNCHANGED vars
      PROVE  /\ UNCHANGED <<pc, m, answer, cacheOn, issued>>
             /\ \A k \in Keys : cache'[k] = cache[k] \/ cache'[k] = NoAnswer
  BY <1>2 DEF Configure, Forget, vars, shared, history, TypeOK
<1> QED
  BY <1>1, <1>2, CallStepAnswer DEF Next

LEMMA AnswerInvariant == Spec => []AnswerInv
<1>1. TypeOK /\ AnswerInv /\ [Next]_vars => AnswerInv'
  BY NextType, NextAnswer
<1> QED
  BY InitAnswer, TypeCorrect, <1>1, PTL DEF Spec

\* Whatever is cached or served is an answer that a call of the same key got from the
\* backend, validated and still holds, however that call ended.
THEOREM CachedAnswersHold == Spec => []CacheHoldsObtainedAnswers
<1>1. AnswerInv => CacheHoldsObtainedAnswers
  BY DEF AnswerInv, HitObtained, Obtained, CacheHoldsObtainedAnswers
<1> QED
  BY <1>1, AnswerInvariant, PTL

-----------------------------------------------------------------------------
(***************************************************************************)
(* CallProtocol: each step of a call is a step of the protocol, or one     *)
(* that the caller cannot see.  It rests on the two invariants above:      *)
(* issued tries are counted right (no try too many), and a hit's answer is *)
(* held by the other call that obtained it.                                *)
(***************************************************************************)

\* The protocol's view of one call.
PhaseOf(c) ==
    IF pc[c] = "idle" THEN "ready"
    ELSE IF pc[c] \in Running THEN "running"
    ELSE IF pc[c] = "returned" THEN "returned" ELSE "raised"

ObtainedOf(c) == IF m[c].cache_hit THEN NoAnswer ELSE answer[c]

ResultOf(c) == IF pc[c] = "returned" THEN answer[c] ELSE NoAnswer

\* The parts of the invariants that a step of c may rely on.
KnownOf(c) ==
    /\ pc[c] \in {"loop", "backend"} => ~m[c].cache_hit /\ answer[c] = NoAnswer
    /\ pc[c] = "loop" => issued[c] = attempt[c]
    /\ pc[c] = "backend" => issued[c] > 0
    /\ pc[c] = "lookup" => ~m[c].cache_hit /\ answer[c] = NoAnswer
    /\ pc[c] = "charge" => ~m[c].cache_hit /\ answer[c] # NoAnswer
    /\ pc[c] = "hitCharge" =>
         /\ m[c].cache_hit /\ issued[c] = 0
         /\ \E d \in Calls \ {c} :
              KeyOf[d] = KeyOf[c] /\ ObtainedOf(d) = answer[c] /\ answer[c] # NoAnswer

\* The invariants say what a step relies on.
LEMMA Known ==
    ASSUME TypeOK, AccountInv, AnswerInv, NEW c \in Calls
    PROVE  KnownOf(c)
<1>1. AnswerOf(c) /\ HitObtained(c) /\ HitOf(c) /\ (~m[c].cache_hit => AccountOf(c))
  BY DEF AccountInv, AnswerInv
<1>2. ASSUME pc[c] = "hitCharge"
      PROVE  /\ m[c].cache_hit /\ issued[c] = 0
             /\ \E d \in Calls \ {c} :
                  KeyOf[d] = KeyOf[c] /\ ObtainedOf(d) = answer[c] /\ answer[c] # NoAnswer
  <2>1. m[c].cache_hit /\ issued[c] = 0
    BY <1>1, <1>2 DEF HitOf, HitOnly
  <2>2. Obtained(answer[c], KeyOf[c])
    BY <1>1, <2>1 DEF HitObtained
  <2>3. answer[c].by \in Calls
    BY <2>2 DEF Obtained, TypeOK, Answers
  <2>4. answer[c].by # c
    BY <2>1, <2>2 DEF Obtained
  <2> QED
    BY <2>1, <2>2, <2>3, <2>4 DEF Obtained, ObtainedOf
<1> QED
  BY <1>1, <1>2 DEF KnownOf, AnswerOf, Unanswered, AccountOf, Accounts

\* A step of c changes the view of c alone.
LEMMA ViewOfOthers ==
    ASSUME TypeOK, TypeOK', NEW c \in Calls,
           Begin(c) \/ RenderFails(c) \/ Advance(c) \/ Cancel(c)
    PROVE  /\ phaseBar' = [phaseBar EXCEPT ![c] = PhaseOf(c)']
           /\ issued' = [issued EXCEPT ![c] = issued'[c]]
           /\ obtainedBar' = [obtainedBar EXCEPT ![c] = ObtainedOf(c)']
           /\ resultBar' = [resultBar EXCEPT ![c] = ResultOf(c)']
<1>1. ASSUME NEW d \in Calls, d # c
      PROVE  pc'[d] = pc[d] /\ m'[d] = m[d] /\ answer'[d] = answer[d] /\ issued'[d] = issued[d]
  BY <1>1, StepIsLocal DEF Local
<1>2. phaseBar' = [phaseBar EXCEPT ![c] = PhaseOf(c)']
  BY <1>1 DEF phaseBar, PhaseOf
<1>3. issued' = [issued EXCEPT ![c] = issued'[c]]
  BY <1>1 DEF TypeOK
<1>4. obtainedBar' = [obtainedBar EXCEPT ![c] = ObtainedOf(c)']
  BY <1>1 DEF obtainedBar, ObtainedOf
<1>5. resultBar' = [resultBar EXCEPT ![c] = ResultOf(c)']
  BY <1>1 DEF resultBar, ResultOf
<1> QED
  BY <1>2, <1>3, <1>4, <1>5

\* The ways a step can look to the caller.
Begins(c)   == PhaseOf(c) = "ready" /\ PhaseOf(c)' = "running" /\ issued'[c] = issued[c]
               /\ ObtainedOf(c)' = ObtainedOf(c) /\ ResultOf(c)' = ResultOf(c)
Raises(c)   == PhaseOf(c) \in {"ready", "running"} /\ PhaseOf(c)' = "raised"
               /\ issued'[c] = issued[c] /\ ObtainedOf(c)' = ObtainedOf(c)
               /\ ResultOf(c)' = ResultOf(c)
Tries(c)    == PhaseOf(c) = "running" /\ PhaseOf(c)' = "running"
               /\ issued[c] <= MaxRetriesOf[c] /\ issued'[c] = issued[c] + 1
               /\ ObtainedOf(c) = NoAnswer /\ ObtainedOf(c)' = NoAnswer
               /\ ResultOf(c)' = ResultOf(c)
Obtains(c)  == PhaseOf(c) = "running" /\ PhaseOf(c)' = "running" /\ issued[c] > 0
               /\ issued'[c] = issued[c] /\ ObtainedOf(c) = NoAnswer
               /\ (\E t \in Tokens : ObtainedOf(c)' = [by |-> c, tokens |-> t])
               /\ ResultOf(c)' = ResultOf(c)
Returns(c)  == PhaseOf(c) = "running" /\ PhaseOf(c)' = "returned" /\ issued'[c] = issued[c]
               /\ ObtainedOf(c)' = ObtainedOf(c) /\ ResultOf(c)' = answer[c]
               /\ \/ ObtainedOf(c) = answer[c] /\ answer[c] # NoAnswer
                  \/ /\ issued[c] = 0
                     /\ \E d \in Calls \ {c} :
                          /\ KeyOf[d] = KeyOf[c] /\ ObtainedOf(d) = answer[c]
                          /\ answer[c] # NoAnswer
Unseen(c)   == PhaseOf(c)' = PhaseOf(c) /\ issued'[c] = issued[c]
               /\ ObtainedOf(c)' = ObtainedOf(c) /\ ResultOf(c)' = ResultOf(c)

\* Every step of a call looks like one of them.
LEMMA StepIsSeen ==
    ASSUME TypeOK, NEW c \in Calls, KnownOf(c),
           Begin(c) \/ RenderFails(c) \/ Advance(c) \/ Cancel(c)
    PROVE  Begins(c) \/ Raises(c) \/ Tries(c) \/ Obtains(c) \/ Returns(c) \/ Unseen(c)
<1> USE DEF PhaseOf, ObtainedOf, ResultOf, Move, Running
<1>m. m[c] \in CallMetricsType /\ attempt[c] \in Nat /\ issued[c] \in Nat
  BY DEF TypeOK
<1>f. \A category \in Categories :
        NoteAttemptFailure(m[c], attempt[c], category).cache_hit = m[c].cache_hit
  BY <1>m, NoteAttemptFailureFacts
<1>1. CASE Begin(c)
  BY <1>1 DEF Begin, Begins, history, TypeOK
<1>2. CASE RenderFails(c)
  BY <1>2 DEF RenderFails, Raises, history, TypeOK
<1>3. CASE LookupMiss(c) \/ LoopEnds(c) \/ Wake(c)
  BY <1>3 DEF LookupMiss, LoopEnds, Wake, Unseen, history, TypeOK
<1>4. CASE LookupHit(c)
  <2>1. cache[KeyOf[c]].tokens \in Nat
    BY <1>4, ExecutorAssumption DEF LookupHit, TypeOK, Answers
  <2>2. HitMetrics(m[c], cache[KeyOf[c]].tokens).cache_hit = TRUE
    BY <1>m, <2>1, HitMetricsFacts
  <2>3. /\ m'[c] = HitMetrics(m[c], cache[KeyOf[c]].tokens) /\ issued'[c] = issued[c]
        /\ pc[c] = "lookup" /\ pc'[c] = "hitRecord"
    BY <1>4 DEF LookupHit, history, TypeOK
  <2> QED
    BY <2>2, <2>3 DEF KnownOf, Unseen
<1>5. CASE LookupFails(c) \/ Cancel(c)
  BY <1>5 DEF LookupFails, Cancel, Raises, history, TypeOK
<1>6. CASE RecordHit(c)
  BY <1>6 DEF RecordHit, Unseen, history, TypeOK
<1>7. CASE ChargeHit(c)
  <2>1. /\ pc[c] = "hitCharge" /\ pc'[c] \in {"overBudget", "returned", "rehydrateError"}
        /\ m'[c] = m[c] /\ answer'[c] = answer[c] /\ issued'[c] = issued[c]
    BY <1>7 DEF ChargeHit, TypeOK
  <2>2. CASE pc'[c] = "returned"
    BY <2>1, <2>2 DEF KnownOf, Returns
  <2>3. CASE pc'[c] # "returned"
    BY <2>1, <2>3 DEF Raises
  <2> QED
    BY <2>2, <2>3
<1>8. CASE StartAttempt(c)
  <2>1. /\ m'[c] = CountAttempt(m[c], attempt[c]) /\ issued'[c] = issued[c] + 1
        /\ answer'[c] = answer[c] /\ pc[c] = "loop" /\ pc'[c] = "backend"
        /\ attempt[c] <= MaxRetriesOf[c]
    BY <1>8 DEF StartAttempt, TypeOK
  <2>2. CountAttempt(m[c], attempt[c]).cache_hit = m[c].cache_hit
    BY <1>m, CountAttemptFacts
  <2> QED
    BY <1>m, <2>1, <2>2 DEF KnownOf, Tries
<1>9. CASE BackendAnswers(c)
  <2>1. PICK t \in Tokens :
          /\ m' = [m EXCEPT ![c] = MarkSuccess(AddResponse(@, attempt[c], t), attempt[c])]
          /\ answer' = [answer EXCEPT ![c] = [by |-> c, tokens |-> t]]
    BY <1>9 DEF BackendAnswers
  <2>2. /\ m'[c] = MarkSuccess(AddResponse(m[c], attempt[c], t), attempt[c])
        /\ answer'[c] = [by |-> c, tokens |-> t] /\ issued'[c] = issued[c]
        /\ pc[c] = "backend" /\ pc'[c] \in {"store", "record"}
    BY <1>9, <2>1 DEF BackendAnswers, TypeOK
  <2>3. t \in Nat
    BY ExecutorAssumption
  <2>4. m'[c].cache_hit = m[c].cache_hit
    BY <1>m, <2>2, <2>3, AnswerHeld
  <2> QED
    BY <2>2, <2>4 DEF KnownOf, Obtains
<1>10. CASE AttemptFails(c) \/ BackendRaisesOther(c) \/ StoreFails(c)
            \/ (Charge(c) /\ OverBudget(c))
  <2>1. PICK category \in Categories :
          m' = [m EXCEPT ![c] = NoteAttemptFailure(@, attempt[c], category)]
    BY <1>10 DEF AttemptFails, BackendRaisesOther, StoreFails, Charge, Abort, Categories
  <2>2. /\ m'[c] = NoteAttemptFailure(m[c], attempt[c], category)
        /\ answer'[c] = answer[c] /\ issued'[c] = issued[c]
        /\ pc[c] \in {"backend", "store", "charge"} /\ pc'[c] \in {"backoff", "giveUp"}
    BY <1>10, <2>1
       DEF AttemptFails, BackendRaisesOther, StoreFails, Charge, Abort, history, TypeOK
  <2> QED
    BY <1>f, <2>2 DEF Unseen
<1>11. CASE Store(c) \/ RecordSuccess(c)
  BY <1>11 DEF Store, RecordSuccess, Unseen, history, TypeOK
<1>12. CASE Charge(c) /\ ~OverBudget(c)
  <2>1. /\ pc[c] = "charge" /\ pc'[c] = "returned" /\ m'[c] = m[c]
        /\ answer'[c] = answer[c] /\ issued'[c] = issued[c]
    BY <1>12 DEF Charge, TypeOK
  <2> QED
    BY <2>1 DEF KnownOf, Returns
<1>13. CASE GiveUp(c)
  <2>1. /\ m'[c] = MarkFailure(m[c]) /\ issued'[c] = issued[c] /\ answer'[c] = answer[c]
        /\ pc[c] = "giveUp" /\ pc'[c] = "failCharge"
    BY <1>13 DEF GiveUp, history, TypeOK
  <2>2. MarkFailure(m[c]).cache_hit = m[c].cache_hit
    BY <1>m, MarkFailureFacts
  <2> QED
    BY <2>1, <2>2 DEF Unseen
<1>14. CASE ChargeFailure(c)
  BY <1>14 DEF ChargeFailure, Raises, TypeOK
<1> QED
  BY <1>1, <1>2, <1>3, <1>4, <1>5, <1>6, <1>7, <1>8, <1>9, <1>10, <1>11, <1>12, <1>13, <1>14
     DEF Advance

\* What the caller sees of a step is a step of the protocol, or nothing.
LEMMA CallStepImplements ==
    ASSUME TypeOK, TypeOK', NEW c \in Calls, KnownOf(c),
           Begin(c) \/ RenderFails(c) \/ Advance(c) \/ Cancel(c)
    PROVE  Protocol!PNext \/ UNCHANGED Protocol!pvars
<1>1. /\ phaseBar' = [phaseBar EXCEPT ![c] = PhaseOf(c)']
      /\ issued' = [issued EXCEPT ![c] = issued'[c]]
      /\ obtainedBar' = [obtainedBar EXCEPT ![c] = ObtainedOf(c)']
      /\ resultBar' = [resultBar EXCEPT ![c] = ResultOf(c)']
  BY ViewOfOthers
<1>2. /\ \A d \in Calls : phaseBar[d] = PhaseOf(d) /\ obtainedBar[d] = ObtainedOf(d)
                          /\ resultBar[d] = ResultOf(d)
      /\ issued \in [Calls -> Nat]
  BY DEF phaseBar, obtainedBar, resultBar, PhaseOf, ObtainedOf, ResultOf, TypeOK
<1>3. /\ phaseBar = [phaseBar EXCEPT ![c] = PhaseOf(c)]
      /\ obtainedBar = [obtainedBar EXCEPT ![c] = ObtainedOf(c)]
      /\ resultBar = [resultBar EXCEPT ![c] = ResultOf(c)]
      /\ issued = [issued EXCEPT ![c] = issued[c]]
  BY <1>2 DEF phaseBar, obtainedBar, resultBar
<1>4. CASE Begins(c)
  BY <1>1, <1>2, <1>3, <1>4 DEF Begins, Protocol!PNext, Protocol!PStart
<1>5. CASE Raises(c)
  BY <1>1, <1>2, <1>3, <1>5 DEF Raises, Protocol!PNext, Protocol!PRaise
<1>6. CASE Tries(c)
  BY <1>1, <1>2, <1>3, <1>6 DEF Tries, Protocol!PNext, Protocol!PTry
<1>7. CASE Obtains(c)
  BY <1>1, <1>2, <1>3, <1>7 DEF Obtains, Protocol!PNext, Protocol!PObtain
<1>8. CASE Returns(c)
  <2>1. Protocol!PReturn(c, answer[c])
    BY <1>1, <1>2, <1>3, <1>8 DEF Returns, Protocol!PReturn
  <2>2. Protocol!PReturnOwn(c) \/ Protocol!PReturnShared(c)
    BY <1>2, <1>8, <2>1 DEF Returns, Protocol!PReturnOwn, Protocol!PReturnShared
  <2> QED
    BY <2>2 DEF Protocol!PNext
<1>9. CASE Unseen(c)
  BY <1>1, <1>3, <1>9 DEF Unseen, Protocol!pvars
<1> QED
  BY <1>4, <1>5, <1>6, <1>7, <1>8, <1>9, StepIsSeen

\* Calling an agentic function keeps what CallProtocol promises: at most
\* max_retries + 1 tries, one end, and an answer that is the last try's own or that of
\* another call of the same key.
THEOREM ExecutorImplementsProtocol == Spec => ImplementsProtocol
<1>1. Init => Protocol!PInit
  BY DEF Init, Protocol!PInit, phaseBar, obtainedBar, resultBar, NewCallMetrics
<1>2. TypeOK /\ TypeOK' /\ AccountInv /\ AnswerInv /\ [Next]_vars =>
        [Protocol!PNext]_(Protocol!pvars)
  <2> SUFFICES ASSUME TypeOK, TypeOK', AccountInv, AnswerInv, [Next]_vars
               PROVE  Protocol!PNext \/ UNCHANGED Protocol!pvars
    OBVIOUS
  <2>1. ASSUME NEW c \in Calls, Begin(c) \/ RenderFails(c) \/ Advance(c) \/ Cancel(c)
        PROVE  Protocol!PNext \/ UNCHANGED Protocol!pvars
    BY <2>1, Known, CallStepImplements
  <2>2. ASSUME Configure \/ (\E k \in Keys : Forget(k)) \/ UNCHANGED vars
        PROVE  UNCHANGED <<pc, m, answer, issued>>
    BY <2>2 DEF Configure, Forget, vars, history
  <2>3. ASSUME UNCHANGED <<pc, m, answer, issued>>
        PROVE  UNCHANGED Protocol!pvars
    BY <2>3 DEF Protocol!pvars, phaseBar, obtainedBar, resultBar
  <2> QED
    BY <2>1, <2>2, <2>3 DEF Next
<1> QED
  BY <1>1, <1>2, TypeCorrect, AccountInvariant, AnswerInvariant, PTL
     DEF Spec, ImplementsProtocol, Protocol!PSpec

-----------------------------------------------------------------------------
(***************************************************************************)
(* The trace.                                                              *)
(***************************************************************************)

\* Every step with a trace is a step of the executor, and the first state is one of
\* its own: whatever is proved of Executor's calls holds of traced calls.
THEOREM TracingIsTransparent == TSpec => Spec
<1>1. TInit => Init
  BY DEF TInit
<1>2. ASSUME [TNext]_tvars PROVE [Next]_vars
  <2>1. CASE UNCHANGED tvars
    BY <2>1 DEF tvars
  <2>2. CASE TEnvironment
    BY <2>2 DEF TEnvironment, Next
  <2>3. ASSUME NEW c \in Calls, TBegin(c) \/ TRenderFails(c) \/ TAdvance(c) \/ TCancel(c)
        PROVE  Next
    <3>1. Begin(c) \/ RenderFails(c) \/ Advance(c) \/ Cancel(c)
      BY <2>3 DEF TBegin, TRenderFails, TAdvance, TCancel, Advance, TSpanless, TLookupHit,
                  TLookupFails, TChargeHit, TStartAttempt, TBackendAnswers, TAttemptFails,
                  TBackendRaisesOther, TStoreFails, TCharge, TGiveUp, TChargeFailure
    <3> QED
      BY <3>1 DEF Next
  <2> QED
    BY <1>2, <2>1, <2>2, <2>3 DEF TNext
<1> QED
  BY <1>1, <1>2, PTL DEF TSpec, Spec

-----------------------------------------------------------------------------
(***************************************************************************)
(* The inductive invariant.  A call's span never leaves the stack, since   *)
(* end_span is only given an attempt's; the stack grows from bottom to     *)
(* top, so that its top, the next parent, lies at or above every call's.   *)
(***************************************************************************)

Ordered(t) ==
    \A k \in 1..Len(t.stack) :
        /\ t.stack[k] \in 1..Len(t.spans)
        /\ \A l \in 1..(k - 1) : t.stack[l] < t.stack[k]

CallsOnStack(t) ==
    \A i \in 1..Len(t.spans) :
        t.spans[i].name = "call" => \E k \in 1..Len(t.stack) : t.stack[k] = i

UnderCalls(t) ==
    \A j \in 1..Len(t.spans) : \A i \in 1..(j - 1) :
        t.spans[i].name = "call" => t.spans[j].parent \in i..(j - 1)

Sound(t) == t \in TraceContexts /\ Ordered(t) /\ CallsOnStack(t) /\ UnderCalls(t)

\* What a call's attempt_span may be.
IsAttempt(t, i) ==
    i \in Nat /\ (i # 0 => i <= Len(t.spans) /\ t.spans[i].name = "attempt")

\* u is sound, and the attempts of t are attempts of u.
Continues(t, u) == Sound(u) /\ \A i : IsAttempt(t, i) => IsAttempt(u, i)

SpanInv == Sound(ctx) /\ \A c \in Calls : IsAttempt(ctx, attemptSpan[c])

\* Finishing a span, whichever it is, changes neither stack nor tree.
LEMMA FinishFacts ==
    ASSUME NEW t \in TraceContexts, NEW i, NEW status \in Statuses
    PROVE  LET u == FinishSpan(t, i, status) IN
           /\ u \in TraceContexts
           /\ u.stack = t.stack
           /\ Len(u.spans) = Len(t.spans)
           /\ \A j \in 1..Len(t.spans) : /\ u.spans[j].name = t.spans[j].name
                                         /\ u.spans[j].parent = t.spans[j].parent
<1> DEFINE u == FinishSpan(t, i, status)
<1>1. t = [spans |-> t.spans, stack |-> t.stack] /\ t.spans \in Seq(Spans) /\ t.stack \in Seq(Nat)
  BY DEF TraceContexts
<1>2. u.stack = t.stack /\ DOMAIN u = {"spans", "stack"}
  BY <1>1 DEF FinishSpan
<1>3. u.spans = [t.spans EXCEPT ![i] = [[@ EXCEPT !.status = status] EXCEPT !.ended = TRUE]]
  BY <1>1 DEF FinishSpan
<1>4. u.spans = t.spans \/ i \in 1..Len(t.spans)
  BY <1>1, <1>3
<1>5. CASE u.spans = t.spans
  BY <1>1, <1>2, <1>5 DEF TraceContexts, FinishSpan
<1>6. CASE i \in 1..Len(t.spans)
  <2> DEFINE f == [[t.spans[i] EXCEPT !.status = status] EXCEPT !.ended = TRUE]
  <2>1. t.spans[i] \in Spans
    BY <1>1, <1>6, ElementOfSeq
  <2>2. f \in Spans /\ f.name = t.spans[i].name /\ f.parent = t.spans[i].parent
    BY <2>1 DEF Spans
  <2>3. u.spans = [t.spans EXCEPT ![i] = f]
    BY <1>3
  <2> HIDE DEF f
  <2>4. /\ [t.spans EXCEPT ![i] = f] \in Seq(Spans)
        /\ Len([t.spans EXCEPT ![i] = f]) = Len(t.spans)
        /\ \A j \in 1..Len(t.spans) :
             [t.spans EXCEPT ![i] = f][j] = IF j = i THEN f ELSE t.spans[j]
    BY <1>1, <1>6, <2>2, ExceptSeq
  <2>5. u \in TraceContexts
    BY <1>1, <1>2, <2>3, <2>4 DEF TraceContexts, FinishSpan
  <2> HIDE DEF u
  <2>6. \A j \in 1..Len(t.spans) : /\ u.spans[j].name = t.spans[j].name
                                   /\ u.spans[j].parent = t.spans[j].parent
    BY <2>2, <2>3, <2>4
  <2> QED
    BY <1>2, <2>3, <2>4, <2>5, <2>6 DEF u
<1> QED
  BY <1>4, <1>5, <1>6

\* TraceSpan.finish keeps the tree sound.
LEMMA FinishContinues ==
    ASSUME NEW t, Sound(t), NEW i, NEW status \in Statuses
    PROVE  Continues(t, FinishSpan(t, i, status))
<1> DEFINE u == FinishSpan(t, i, status)
<1>1. /\ u \in TraceContexts
      /\ u.stack = t.stack
      /\ Len(u.spans) = Len(t.spans)
      /\ \A j \in 1..Len(t.spans) : /\ u.spans[j].name = t.spans[j].name
                                    /\ u.spans[j].parent = t.spans[j].parent
  BY FinishFacts DEF Sound
<1>2. Len(t.spans) \in Nat
  BY DEF Sound, TraceContexts
<1> HIDE DEF u
<1>3. Ordered(u) /\ CallsOnStack(u)
  BY <1>1 DEF Sound, Ordered, CallsOnStack
<1>4. UnderCalls(u)
  <2> SUFFICES ASSUME NEW j \in 1..Len(u.spans), NEW k \in 1..(j - 1),
                      u.spans[k].name = "call"
               PROVE  u.spans[j].parent \in k..(j - 1)
    BY DEF UnderCalls
  <2>1. j \in 1..Len(t.spans) /\ k \in 1..Len(t.spans)
    BY <1>1, <1>2
  <2>2. t.spans[k].name = "call" /\ u.spans[j].parent = t.spans[j].parent
    BY <1>1, <2>1
  <2> QED
    BY <2>1, <2>2 DEF Sound, UnderCalls
<1>5. ASSUME NEW j, IsAttempt(t, j) PROVE IsAttempt(u, j)
  BY <1>1, <1>2, <1>5 DEF IsAttempt
<1>6. Continues(t, u)
  BY <1>1, <1>3, <1>4, <1>5 DEF Continues, Sound
<1> QED
  BY <1>6 DEF u
\* end_span takes a span off the stack only if it is an attempt's.
LEMMA EndContinues ==
    ASSUME NEW t, Sound(t), NEW i, IsAttempt(t, i), NEW status \in Statuses
    PROVE  Continues(t, EndSpan(t, i, status))
<1> DEFINE f == FinishSpan(t, i, status)
           u == EndSpan(t, i, status)
           rest == SubSeq(f.stack, 1, Len(f.stack) - 1)
<1>1. /\ f \in TraceContexts
      /\ f.stack = t.stack
      /\ Len(f.spans) = Len(t.spans)
      /\ \A j \in 1..Len(t.spans) : /\ f.spans[j].name = t.spans[j].name
                                    /\ f.spans[j].parent = t.spans[j].parent
  BY FinishFacts DEF Sound
<1>2. Continues(t, f)
  BY FinishContinues
<1>3. /\ f = [spans |-> f.spans, stack |-> f.stack]
      /\ f.spans \in Seq(Spans) /\ f.stack \in Seq(Nat)
      /\ Len(f.stack) \in Nat /\ Len(t.spans) \in Nat
  BY <1>1 DEF TraceContexts, Sound
<1>4. CASE Top(t) = i /\ t.stack # << >>
  <2>1. u = [f EXCEPT !.stack = rest]
    BY <1>1, <1>4 DEF EndSpan
  <2>2. Len(f.stack) >= 1 /\ i = f.stack[Len(f.stack)]
    BY <1>1, <1>3, <1>4, EmptySeq DEF Top
  <2>3. /\ rest \in Seq(Nat) /\ Len(rest) = Len(f.stack) - 1
        /\ \A k \in 1..Len(rest) : rest[k] = f.stack[k]
    <3>1. \A k \in 1..(Len(f.stack) - 1) : f.stack[k] \in Nat
      BY <1>3, ElementOfSeq
    <3>2. 1 \in Int /\ Len(f.stack) - 1 \in Int
      BY <1>3
    <3> HIDE DEF f
    <3>3. /\ rest \in Seq(Nat)
          /\ Len(rest) = IF 1 <= Len(f.stack) - 1 THEN Len(f.stack) - 1 - 1 + 1 ELSE 0
          /\ \A k \in 1..(Len(f.stack) - 1 - 1 + 1) : rest[k] = f.stack[1 + k - 1]
      BY <3>1, <3>2, SubSeqProperties
    <3>4. Len(f.stack) \in Nat /\ Len(f.stack) >= 1
      BY <1>3, <2>2
    <3>5. Len(rest) = Len(f.stack) - 1
      BY <3>3, <3>4
    <3>6. ASSUME NEW k \in 1..Len(rest) PROVE rest[k] = f.stack[k]
      <4>1. 1 + k - 1 = k /\ k \in 1..(Len(f.stack) - 1 - 1 + 1)
        BY <3>4, <3>5
      <4> QED
        BY <3>3, <4>1
    <3> QED
      BY <3>3, <3>5, <3>6
  <2> HIDE DEF rest, f
  <2>4. u \in TraceContexts /\ u.stack = rest /\ u.spans = f.spans
    BY <1>3, <2>1, <2>3 DEF TraceContexts
  <2> HIDE DEF u
  <2>5. i \in 1..Len(t.spans) /\ t.spans[i].name = "attempt"
    BY <1>1, <1>2, <1>3, <2>2 DEF IsAttempt, Continues, Sound, Ordered
  <2>6. Ordered(u)
    <3> SUFFICES ASSUME NEW k \in 1..Len(rest)
                 PROVE  /\ rest[k] \in 1..Len(f.spans)
                        /\ \A l \in 1..(k - 1) : rest[l] < rest[k]
      BY <2>4 DEF Ordered
    <3>1. k \in 1..Len(f.stack) /\ \A l \in 1..(k - 1) : l \in 1..Len(rest)
      BY <1>3, <2>3
    <3> QED
      BY <1>2, <2>3, <3>1 DEF Continues, Sound, Ordered
  <2>7. ASSUME NEW j \in 1..Len(u.spans), u.spans[j].name = "call"
        PROVE  \E k \in 1..Len(u.stack) : u.stack[k] = j
    <3>1. PICK k \in 1..Len(f.stack) : f.stack[k] = j
      BY <1>2, <2>4, <2>7 DEF Continues, Sound, CallsOnStack
    <3>2. j # i
      BY <1>1, <2>4, <2>5, <2>7
    <3>3. k \in 1..Len(rest)
      BY <1>3, <2>2, <2>3, <3>1, <3>2
    <3> QED
      BY <2>3, <2>4, <3>1, <3>3
  <2>8. Sound(u)
    BY <1>2, <2>4, <2>6, <2>7 DEF Continues, Sound, CallsOnStack, UnderCalls
  <2>9. Continues(t, u)
    BY <1>2, <2>4, <2>8 DEF Continues, IsAttempt
  <2> QED
    BY <2>9 DEF u
<1>5. CASE ~(Top(t) = i /\ t.stack # << >>)
  <2>1. u = f
    BY <1>1, <1>3, <1>5 DEF EndSpan
  <2> QED
    BY <1>2, <2>1
<1> QED
  BY <1>4, <1>5

\* start_span attaches the new span to the top of the stack, which lies at or above
\* every call's.
LEMMA StartContinues ==
    ASSUME NEW t, Sound(t), NEW name \in SpanNames
    PROVE  /\ Continues(t, StartSpan(t, name))
           /\ name = "attempt" => IsAttempt(StartSpan(t, name), NextSpan(t))
<1> DEFINE span == [name |-> name, parent |-> Top(t), status |-> "ok", ended |-> FALSE]
           n == Len(t.spans)
           u == StartSpan(t, name)
<1>1. /\ t.spans \in Seq(Spans) /\ t.stack \in Seq(Nat)
      /\ Len(t.stack) \in Nat /\ n \in Nat /\ NextSpan(t) = n + 1 /\ n + 1 \in Nat
  BY DEF Sound, TraceContexts, NextSpan
<1>2. Top(t) \in Nat /\ Top(t) <= n
  BY <1>1, EmptySeq DEF Top, Sound, Ordered
<1>3. span \in Spans /\ span.name = name /\ span.parent = Top(t)
  BY <1>2 DEF Spans, Statuses
<1> HIDE DEF span
<1>4. u.spans = Append(t.spans, span) /\ u.stack = Append(t.stack, n + 1)
  BY <1>1 DEF StartSpan, span
<1>5. /\ u.spans \in Seq(Spans) /\ Len(u.spans) = n + 1 /\ u.spans[n + 1] = span
      /\ \A j \in 1..n : u.spans[j] = t.spans[j]
  BY <1>1, <1>3, <1>4, AppendProperties
<1>6. /\ u.stack \in Seq(Nat) /\ Len(u.stack) = Len(t.stack) + 1
      /\ u.stack[Len(t.stack) + 1] = n + 1
      /\ \A k \in 1..Len(t.stack) : u.stack[k] = t.stack[k]
  BY <1>1, <1>4, AppendProperties
<1>7. u \in TraceContexts
  BY <1>5, <1>6 DEF TraceContexts, StartSpan
<1> HIDE DEF u
<1>8. Ordered(u)
  <2> SUFFICES ASSUME NEW k \in 1..Len(u.stack)
               PROVE  /\ u.stack[k] \in 1..Len(u.spans)
                      /\ \A l \in 1..(k - 1) : u.stack[l] < u.stack[k]
    BY DEF Ordered
  <2>1. CASE k \in 1..Len(t.stack)
    <3>1. \A l \in 1..(k - 1) : l \in 1..Len(t.stack)
      BY <1>1, <2>1
    <3>2. t.stack[k] \in 1..n /\ \A l \in 1..(k - 1) : t.stack[l] < t.stack[k]
      BY <2>1 DEF Sound, Ordered
    <3>3. u.stack[k] = t.stack[k] /\ \A l \in 1..(k - 1) : u.stack[l] = t.stack[l]
      BY <1>6, <2>1, <3>1
    <3>4. u.stack[k] \in 1..Len(u.spans)
      BY <1>1, <1>5, <3>2, <3>3
    <3> QED
      BY <3>2, <3>3, <3>4
  <2>2. CASE k = Len(t.stack) + 1
    <3>1. \A l \in 1..(k - 1) : l \in 1..Len(t.stack) /\ t.stack[l] \in 1..n
      BY <1>1, <2>2 DEF Sound, Ordered
    <3>2. u.stack[k] = n + 1 /\ n + 1 \in 1..Len(u.spans)
      BY <1>1, <1>5, <1>6, <2>2
    <3>3. ASSUME NEW l \in 1..(k - 1) PROVE u.stack[l] < n + 1
      <4>1. u.stack[l] = t.stack[l] /\ t.stack[l] \in 1..n
        BY <1>6, <3>1
      <4> QED
        BY <1>1, <4>1
    <3> QED
      BY <3>2, <3>3
  <2>3. k \in 1..Len(t.stack) \/ k = Len(t.stack) + 1
    BY <1>1, <1>6
  <2> QED
    BY <2>1, <2>2, <2>3
<1>9. CallsOnStack(u)
  <2> SUFFICES ASSUME NEW i \in 1..Len(u.spans), u.spans[i].name = "call"
               PROVE  \E k \in 1..Len(u.stack) : u.stack[k] = i
    BY DEF CallsOnStack
  <2>1. CASE i = n + 1
    <3>1. Len(t.stack) + 1 \in 1..Len(u.stack)
      BY <1>1, <1>6
    <3> QED
      BY <1>6, <2>1, <3>1
  <2>2. CASE i \in 1..n
    <3>1. PICK k \in 1..Len(t.stack) : t.stack[k] = i
      BY <1>5, <2>2 DEF Sound, CallsOnStack
    <3>2. k \in 1..Len(u.stack)
      BY <1>1, <1>6
    <3> QED
      BY <1>6, <3>1, <3>2
  <2> QED
    BY <1>1, <1>5, <2>1, <2>2
<1>10. UnderCalls(u)
  <2> SUFFICES ASSUME NEW j \in 1..Len(u.spans), NEW i \in 1..(j - 1),
                      u.spans[i].name = "call"
               PROVE  u.spans[j].parent \in i..(j - 1)
    BY DEF UnderCalls
  <2>1. i \in 1..n /\ t.spans[i].name = "call"
    BY <1>1, <1>5
  <2>2. CASE j = n + 1
    <3>1. PICK k \in 1..Len(t.stack) : t.stack[k] = i
      BY <2>1 DEF Sound, CallsOnStack
    <3>2. i <= t.stack[Len(t.stack)]
      <4>1. CASE k = Len(t.stack)
        BY <1>1, <2>1, <3>1, <4>1
      <4>2. CASE k # Len(t.stack)
        <5>1. Len(t.stack) \in 1..Len(t.stack) /\ k \in 1..(Len(t.stack) - 1)
          BY <1>1, <3>1, <4>2
        <5>2. t.stack[k] < t.stack[Len(t.stack)] /\ t.stack[Len(t.stack)] \in 1..n
          BY <5>1 DEF Sound, Ordered
        <5> QED
          BY <1>1, <2>1, <3>1, <5>2
      <4> QED
        BY <4>1, <4>2
    <3>3. Top(t) = t.stack[Len(t.stack)]
      BY <1>1, <3>1, EmptySeq DEF Top
    <3>4. u.spans[j].parent = Top(t)
      BY <1>3, <1>5, <2>2
    <3> QED
      BY <1>1, <1>2, <2>1, <2>2, <3>2, <3>3, <3>4
  <2>3. CASE j \in 1..n
    BY <1>5, <2>1, <2>3 DEF Sound, UnderCalls
  <2> QED
    BY <1>1, <1>5, <2>2, <2>3
<1>11. ASSUME NEW i, IsAttempt(t, i) PROVE IsAttempt(u, i)
  BY <1>1, <1>5, <1>11 DEF IsAttempt
<1>12. name = "attempt" => IsAttempt(u, n + 1)
  BY <1>1, <1>3, <1>5 DEF IsAttempt
<1>13. Continues(t, u)
  BY <1>7, <1>8, <1>9, <1>10, <1>11 DEF Continues, Sound
<1> QED
  BY <1>1, <1>12, <1>13 DEF u

-----------------------------------------------------------------------------
\* Whatever a step of a call does to the trace, the tree goes on from where it was:
\* spans are only started, finished, or ended when they are attempts.
LEMMA ContinuesTransitive ==
    ASSUME NEW t, NEW u, NEW v, Continues(t, u), Continues(u, v)
    PROVE  Continues(t, v)
BY DEF Continues

\* CallRaises finishes a span or does nothing.
LEMMA RaisesContinues ==
    ASSUME NEW t, Sound(t), NEW i
    PROVE  Continues(t, CallRaises(t, i))
<1>1. Continues(t, t)
  BY DEF Continues
<1>2. Continues(t, FinishSpan(t, i, "error"))
  BY FinishContinues DEF Statuses
<1> QED
  BY <1>1, <1>2 DEF CallRaises

\* The steps that set attempt_span set it to a span that they start as an attempt.
LEMMA StepContinues ==
    ASSUME SpanInv, [TNext]_tvars
    PROVE  /\ Continues(ctx, ctx')
           /\ \/ attemptSpan' = attemptSpan
              \/ \E c \in Calls : /\ attemptSpan' = [attemptSpan EXCEPT ![c] = NextSpan(ctx)]
                                  /\ ctx' = StartSpan(ctx, "attempt")
<1>1. Sound(ctx) /\ Continues(ctx, ctx)
  BY DEF SpanInv, Continues
<1>2. \A i : \A status \in Statuses : Continues(ctx, FinishSpan(ctx, i, status))
  BY <1>1, FinishContinues
<1>3. \A c \in Calls : \A status \in Statuses :
        Continues(ctx, EndSpan(ctx, attemptSpan[c], status))
  BY EndContinues DEF SpanInv
<1>4. \A name \in SpanNames : Continues(ctx, StartSpan(ctx, name))
  BY <1>1, StartContinues
<1>5. {"ok", "error", "cached"} = Statuses /\ {"call", "attempt"} = SpanNames
  BY DEF Statuses, SpanNames
<1>6. UNCHANGED tracing => Continues(ctx, ctx') /\ attemptSpan' = attemptSpan
  BY <1>1 DEF tracing
<1>7. ASSUME NEW c \in Calls, NEW u, OnCall(c, u) \/ OpensCall(c, u), Continues(ctx, u)
      PROVE  Continues(ctx, ctx') /\ attemptSpan' = attemptSpan
  BY <1>1, <1>7 DEF OnCall, OpensCall
<1>8. ASSUME NEW c \in Calls, TBegin(c) \/ TRenderFails(c)
      PROVE  Continues(ctx, ctx') /\ attemptSpan' = attemptSpan
  <2>1. Continues(ctx, StartSpan(ctx, "call"))
    BY <1>4, <1>5
  <2>2. Continues(ctx, CallRaises(StartSpan(ctx, "call"), NextSpan(ctx)))
    BY <2>1, RaisesContinues, ContinuesTransitive DEF Continues
  <2> QED
    BY <1>7, <1>8, <2>1, <2>2 DEF TBegin, TRenderFails
<1>9. ASSUME NEW c \in Calls,
             TLookupHit(c) \/ TLookupFails(c) \/ TChargeHit(c) \/ TGiveUp(c) \/ TChargeFailure(c)
      PROVE  Continues(ctx, ctx') /\ attemptSpan' = attemptSpan
  <2>1. \A i : Continues(ctx, CallRaises(ctx, i))
    BY <1>1, RaisesContinues
  <2> QED
    BY <1>1, <1>2, <1>5, <1>7, <1>9, <2>1
       DEF TLookupHit, TLookupFails, TChargeHit, TGiveUp, TChargeFailure, FinishesCall
<1>10. ASSUME NEW c \in Calls,
              TBackendAnswers(c) \/ TAttemptFails(c) \/ TBackendRaisesOther(c) \/ TStoreFails(c)
       PROVE  Continues(ctx, ctx') /\ attemptSpan' = attemptSpan
  <2>1. Continues(ctx, EndSpan(ctx, attemptSpan[c], "error"))
    BY <1>3, <1>5
  <2>2. Continues(ctx, EndSpan(ctx, attemptSpan[c], "ok"))
    BY <1>3, <1>5
  <2>3. Continues(ctx, FinishSpan(EndSpan(ctx, attemptSpan[c], "ok"), callSpan[c], "ok"))
    BY <1>5, <2>2, FinishContinues, ContinuesTransitive DEF Continues
  <2> QED
    BY <1>7, <1>10, <2>1, <2>3
       DEF TBackendAnswers, TAttemptFails, TBackendRaisesOther, TStoreFails, AttemptErrs
<1>11. ASSUME NEW c \in Calls, TCharge(c)
       PROVE  Continues(ctx, ctx') /\ attemptSpan' = attemptSpan
  <2>1. Continues(ctx, EndSpan(ctx, attemptSpan[c], "error"))
    BY <1>3, <1>5
  <2> QED
    BY <1>6, <1>7, <1>11, <2>1 DEF TCharge, AttemptErrs, Untraced
<1>12. ASSUME NEW c \in Calls, TStartAttempt(c)
       PROVE  /\ Continues(ctx, ctx')
              /\ \/ attemptSpan' = attemptSpan
                 \/ /\ attemptSpan' = [attemptSpan EXCEPT ![c] = NextSpan(ctx)]
                    /\ ctx' = StartSpan(ctx, "attempt")
  BY <1>1, <1>4, <1>5, <1>12 DEF TStartAttempt
<1>13. ASSUME NEW c \in Calls, TSpanless(c) \/ TCancel(c)
       PROVE  UNCHANGED tracing
  BY <1>13 DEF TSpanless, TCancel, Untraced
<1>14. TEnvironment \/ UNCHANGED tvars => UNCHANGED tracing
  BY DEF TEnvironment, Untraced, tvars
<1>15. ASSUME NEW c \in Calls, TBegin(c) \/ TRenderFails(c) \/ TAdvance(c) \/ TCancel(c)
       PROVE  /\ Continues(ctx, ctx')
              /\ \/ attemptSpan' = attemptSpan
                 \/ /\ attemptSpan' = [attemptSpan EXCEPT ![c] = NextSpan(ctx)]
                    /\ ctx' = StartSpan(ctx, "attempt")
  <2> DEFINE Goal == /\ Continues(ctx, ctx')
                     /\ \/ attemptSpan' = attemptSpan
                        \/ /\ attemptSpan' = [attemptSpan EXCEPT ![c] = NextSpan(ctx)]
                           /\ ctx' = StartSpan(ctx, "attempt")
  <2>1. CASE TStartAttempt(c)
    BY <1>12, <2>1
  <2>2. CASE TBegin(c) \/ TRenderFails(c)
    BY <1>8, <2>2
  <2>3. CASE TLookupHit(c) \/ TLookupFails(c) \/ TChargeHit(c) \/ TGiveUp(c) \/ TChargeFailure(c)
    BY <1>9, <2>3
  <2>4. CASE TBackendAnswers(c) \/ TAttemptFails(c) \/ TBackendRaisesOther(c) \/ TStoreFails(c)
    BY <1>10, <2>4
  <2>5. CASE TSpanless(c) \/ TCancel(c)
    BY <1>6, <1>13, <2>5
  <2>6. CASE TCharge(c)
    BY <1>11, <2>6
  <2>7. /\ TStartAttempt(c) => Goal
        /\ TBegin(c) \/ TRenderFails(c) => Goal
        /\ TLookupHit(c) \/ TLookupFails(c) \/ TChargeHit(c) \/ TGiveUp(c) \/ TChargeFailure(c)
           => Goal
        /\ TBackendAnswers(c) \/ TAttemptFails(c) \/ TBackendRaisesOther(c) \/ TStoreFails(c)
           => Goal
        /\ TSpanless(c) \/ TCancel(c) => Goal
        /\ TCharge(c) => Goal
    BY <2>1, <2>2, <2>3, <2>4, <2>5, <2>6
  <2> SUFFICES Goal
    OBVIOUS
  <2> HIDE DEF Goal
  <2> QED
    BY <1>15, <2>7 DEF TAdvance
<1>16. CASE \E c \in Calls : TBegin(c) \/ TRenderFails(c) \/ TAdvance(c) \/ TCancel(c)
  BY <1>15, <1>16
<1>17. CASE TEnvironment \/ UNCHANGED tvars
  BY <1>6, <1>14, <1>17
<1> QED
  BY <1>16, <1>17 DEF TNext

LEMMA SpanInvariant == TSpec => []SpanInv
<1>1. TInit => SpanInv
  <2> SUFFICES ASSUME TInit PROVE SpanInv
    OBVIOUS
  <2>1. ctx = [spans |-> << >>, stack |-> << >>] /\ \A c \in Calls : attemptSpan[c] = 0
    BY DEF TInit, NewTrace
  <2>2. << >> \in Seq(Spans) /\ << >> \in Seq(Nat) /\ Len(<< >>) = 0
    BY EmptySeq
  <2>3. ctx \in TraceContexts
    BY <2>1, <2>2 DEF TraceContexts
  <2> QED
    BY <2>1, <2>2, <2>3 DEF SpanInv, Sound, Ordered, CallsOnStack, UnderCalls, IsAttempt
<1>2. SpanInv /\ [TNext]_tvars => SpanInv'
  <2> SUFFICES ASSUME SpanInv, [TNext]_tvars PROVE SpanInv'
    OBVIOUS
  <2>1. Sound(ctx') /\ \A d \in Calls : IsAttempt(ctx', attemptSpan[d])
    BY StepContinues DEF Continues, SpanInv
  <2>2. CASE attemptSpan' = attemptSpan
    BY <2>1, <2>2 DEF SpanInv
  <2>3. ASSUME NEW c \in Calls, attemptSpan' = [attemptSpan EXCEPT ![c] = NextSpan(ctx)],
               ctx' = StartSpan(ctx, "attempt")
        PROVE  SpanInv'
    <3>1. IsAttempt(ctx', NextSpan(ctx))
      BY <2>3, StartContinues DEF SpanInv, SpanNames
    <3>2. \A d \in Calls : attemptSpan'[d] = NextSpan(ctx) \/ attemptSpan'[d] = attemptSpan[d]
      BY <2>3
    <3> QED
      BY <2>1, <3>1, <3>2 DEF SpanInv
  <2> QED
    BY <2>2, <2>3, StepContinues
<1> QED
  BY <1>1, <1>2, PTL DEF TSpec

-----------------------------------------------------------------------------
(***************************************************************************)
(* SpansTellOutcome.  It speaks of settled calls; the inductive invariant  *)
(* says where every call's two spans are, that no two calls share one, and *)
(* what they say at each label.                                            *)
(***************************************************************************)

\* Labels at which a call has not started an attempt, and those of an open call span.
NoAttemptYet == {"idle", "lookup", "hitRecord", "hitCharge", "rehydrateError",
                 "renderError", "cacheError"}

Opened == {"lookup", "loop", "backend", "backoff", "cancelled"}

\* The status of a call's span at a label, for a hit or another call.
Said(label, hit) ==
    IF label \in {"renderError", "cacheError", "failCharge", "exhausted"} THEN "error"
    ELSE IF hit THEN "cached"
    ELSE IF label = "overBudget" THEN "error" ELSE "ok"

\* What the spans i of a call and k of its last attempt say in trace t, when the call is
\* at a label, for a hit or not.
TellsOf(t, i, k, label, hit) ==
    /\ i \in 0..Len(t.spans) /\ (i = 0 <=> label = "idle")
    /\ i # 0 =>
         /\ t.spans[i].name = "call"
         /\ t.spans[i].status = Said(label, hit)
         /\ label \in Opened => t.spans[i].ended = FALSE
         /\ label \notin Opened \union {"giveUp"} => t.spans[i].ended = TRUE
    /\ label \in NoAttemptYet \/ hit => k = 0
    /\ label \in {"backend", "store", "record", "charge"} => k # 0
    /\ k # 0 /\ label \in {"store", "record", "charge", "returned"} =>
         t.spans[k].ended = TRUE /\ t.spans[k].status = "ok"
    /\ k # 0 /\ label \in {"loop", "backoff", "giveUp", "failCharge", "exhausted", "overBudget"} =>
         t.spans[k].ended = TRUE /\ t.spans[k].status = "error"

Tells(c) == TellsOf(ctx, callSpan[c], attemptSpan[c], pc[c], m[c].cache_hit)

SpansApart ==
    \A c, d \in Traced : c # d =>
        /\ callSpan[c] # 0 => callSpan[d] # callSpan[c]
        /\ attemptSpan[c] # 0 => attemptSpan[d] # attemptSpan[c]

TellInv ==
    /\ callSpan \in [Calls -> Nat] /\ attemptSpan \in [Calls -> Nat]
    /\ \A c \in Traced : Tells(c)
    /\ SpansApart

\* u is t with span i ended and said to be `status`; u is t with one more span.
Ends(t, u, i, status) ==
    /\ Len(u.spans) = Len(t.spans)
    /\ \A j \in 1..Len(t.spans) : /\ u.spans[j].name = t.spans[j].name
                                  /\ j # i => u.spans[j] = t.spans[j]
    /\ u.spans[i].status = status /\ u.spans[i].ended = TRUE

Starts(t, u, name) ==
    /\ Len(u.spans) = Len(t.spans) + 1
    /\ \A j \in 1..Len(t.spans) : u.spans[j] = t.spans[j]
    /\ u.spans[Len(t.spans) + 1].name = name
    /\ u.spans[Len(t.spans) + 1].status = "ok"
    /\ u.spans[Len(t.spans) + 1].ended = FALSE

\* TraceSpan.finish ends the one span it is called on, and end_span as well.
LEMMA FinishEnds ==
    ASSUME NEW t \in TraceContexts, NEW i \in 1..Len(t.spans), NEW status \in Statuses
    PROVE  Ends(t, FinishSpan(t, i, status), i, status)
<1> DEFINE u == FinishSpan(t, i, status)
           f == [[t.spans[i] EXCEPT !.status = status] EXCEPT !.ended = TRUE]
<1>1. t = [spans |-> t.spans, stack |-> t.stack] /\ t.spans \in Seq(Spans) /\ t.stack \in Seq(Nat)
  BY DEF TraceContexts
<1>2. u.spans = [t.spans EXCEPT ![i] = f]
  BY <1>1 DEF FinishSpan
<1>3. t.spans[i] \in Spans
  BY <1>1, ElementOfSeq
<1>4. f \in Spans /\ f.name = t.spans[i].name /\ f.status = status /\ f.ended = TRUE
  BY <1>3 DEF Spans
<1> HIDE DEF f, u
<1>5. /\ Len([t.spans EXCEPT ![i] = f]) = Len(t.spans)
      /\ \A j \in 1..Len(t.spans) :
           [t.spans EXCEPT ![i] = f][j] = IF j = i THEN f ELSE t.spans[j]
  BY <1>1, <1>4, ExceptSeq
<1>6. Ends(t, u, i, status)
  BY <1>2, <1>4, <1>5 DEF Ends
<1> QED
  BY <1>6 DEF u

LEMMA EndEnds ==
    ASSUME NEW t \in TraceContexts, NEW i \in 1..Len(t.spans), NEW status \in Statuses
    PROVE  Ends(t, EndSpan(t, i, status), i, status)
<1> DEFINE f == FinishSpan(t, i, status)
           u == EndSpan(t, i, status)
<1>1. f \in TraceContexts
  BY FinishFacts
<1>2. u.spans = f.spans
  BY <1>1 DEF EndSpan, TraceContexts
<1>3. Ends(t, f, i, status)
  BY FinishEnds
<1> HIDE DEF f, u
<1>4. Ends(t, u, i, status)
  BY <1>2, <1>3 DEF Ends
<1> QED
  BY <1>4 DEF u

\* start_span appends one open span.
LEMMA StartStarts ==
    ASSUME NEW t, Sound(t), NEW name \in SpanNames
    PROVE  Starts(t, StartSpan(t, name), name)
<1> DEFINE span == [name |-> name, parent |-> Top(t), status |-> "ok", ended |-> FALSE]
           u == StartSpan(t, name)
<1>1. /\ t.spans \in Seq(Spans) /\ t.stack \in Seq(Nat)
      /\ Len(t.stack) \in Nat /\ Len(t.spans) \in Nat
  BY DEF Sound, TraceContexts
<1>2. Top(t) \in Nat
  BY <1>1, EmptySeq DEF Top, Sound, Ordered
<1>3. span \in Spans /\ span.name = name /\ span.status = "ok" /\ span.ended = FALSE
  BY <1>2 DEF Spans, Statuses
<1>4. u.spans = Append(t.spans, span)
  BY DEF StartSpan
<1> HIDE DEF span, u
<1>5. /\ Len(u.spans) = Len(t.spans) + 1 /\ u.spans[Len(t.spans) + 1] = span
      /\ \A j \in 1..Len(t.spans) : u.spans[j] = t.spans[j]
  BY <1>1, <1>3, <1>4, AppendProperties
<1>6. Starts(t, u, name)
  BY <1>3, <1>5 DEF Starts
<1> QED
  BY <1>6 DEF u

\* Labels at which a call is known to be a hit, or not to be one.
Fits(label, hit) == (hit => label \in HitLabels) /\ (label \in HitOnly => hit)

\* The moves that leave the spans alone.
QuietMove(from, to, hit, hits) ==
    \/ from = "lookup" /\ to = "loop"
    \/ from = "hitRecord" /\ to = "hitCharge"
    \/ from = "hitCharge" /\ to \in {"returned", "overBudget", "rehydrateError"} /\ hits = hit
    \/ from = "loop" /\ to = "giveUp"
    \/ from = "backoff" /\ to = "loop"
    \/ from = "store" /\ to = "record"
    \/ from = "record" /\ to = "charge"
    \/ from = "charge" /\ to = "returned" /\ hits = hit
    \/ from = "failCharge" /\ to \in {"overBudget", "exhausted"} /\ hits = hit
    \/ from \in {"backend", "backoff"} /\ to = "cancelled"

LEMMA QuietTells ==
    ASSUME NEW t, NEW i, NEW k, NEW from, NEW to, NEW hit \in BOOLEAN, NEW hits \in BOOLEAN,
           TellsOf(t, i, k, from, hit), Fits(from, hit), Fits(to, hits),
           QuietMove(from, to, hit, hits)
    PROVE  TellsOf(t, i, k, to, hits)
<1> USE DEF TellsOf, Fits, Said, NoAttemptYet, Opened, HitLabels, HitOnly
<1>1. CASE from = "lookup" /\ to = "loop"
  BY <1>1
<1>2. CASE from = "hitRecord" /\ to = "hitCharge"
  BY <1>2
<1>3. CASE from = "hitCharge" /\ to \in {"returned", "overBudget", "rehydrateError"} /\ hits = hit
  BY <1>3
<1>4. CASE from = "loop" /\ to = "giveUp"
  BY <1>4
<1>5. CASE from = "backoff" /\ to = "loop"
  BY <1>5
<1>6. CASE from = "store" /\ to = "record"
  BY <1>6
<1>7. CASE from = "record" /\ to = "charge"
  BY <1>7
<1>8. CASE from = "charge" /\ to = "returned" /\ hits = hit
  BY <1>8
<1>9. CASE from = "failCharge" /\ to \in {"overBudget", "exhausted"} /\ hits = hit
  BY <1>9
<1>10. CASE from \in {"backend", "backoff"} /\ to = "cancelled"
  BY <1>10
<1> QED
  BY <1>1, <1>2, <1>3, <1>4, <1>5, <1>6, <1>7, <1>8, <1>9, <1>10 DEF QuietMove

\* The moves that end or start a span.
LEMMA EndsCallTells ==
    ASSUME NEW t, NEW u, NEW i, NEW k, NEW from, NEW to, NEW hit \in BOOLEAN,
           NEW hits \in BOOLEAN, NEW status, IsAttempt(t, k),
           TellsOf(t, i, k, from, hit), Fits(from, hit), Fits(to, hits), i # 0,
           Len(t.spans) \in Nat, Ends(t, u, i, status),
           \/ from = "lookup" /\ to = "hitRecord" /\ status = "cached"
           \/ from = "lookup" /\ to = "cacheError" /\ status = "error"
           \/ from = "giveUp" /\ to = "failCharge" /\ status = "error"
    PROVE  TellsOf(u, i, k, to, hits)
<1>1. i \in 1..Len(t.spans) /\ t.spans[i].name = "call" /\ k \in 0..Len(t.spans)
  BY DEF TellsOf, IsAttempt
<1>2. /\ u.spans[i].name = "call" /\ Len(u.spans) = Len(t.spans)
      /\ u.spans[i].status = status /\ u.spans[i].ended = TRUE
      /\ k # 0 => u.spans[k] = t.spans[k]
  <2>1. k # 0 => k # i /\ k \in 1..Len(t.spans)
    BY <1>1 DEF IsAttempt
  <2> QED
    BY <1>1, <2>1 DEF Ends
<1> USE DEF TellsOf, Fits, Said, NoAttemptYet, Opened, HitLabels, HitOnly
<1>3. CASE from = "lookup" /\ to = "hitRecord" /\ status = "cached"
  BY <1>2, <1>3
<1>4. CASE from = "lookup" /\ to = "cacheError" /\ status = "error"
  BY <1>2, <1>4
<1>5. CASE from = "giveUp" /\ to = "failCharge" /\ status = "error"
  BY <1>2, <1>5
<1> QED
  BY <1>3, <1>4, <1>5

LEMMA EndsAttemptTells ==
    ASSUME NEW t, NEW u, NEW i, NEW k, NEW from, NEW to, NEW hit \in BOOLEAN,
           NEW hits \in BOOLEAN, IsAttempt(t, k), k # 0,
           TellsOf(t, i, k, from, hit), Fits(from, hit), Fits(to, hits),
           Len(t.spans) \in Nat, Ends(t, u, k, "error"),
           from \in {"backend", "store", "charge"}, to \in {"backoff", "giveUp"},
           from # "backend" => to = "giveUp"
    PROVE  TellsOf(u, i, k, to, hits)
<1>1. i \in 1..Len(t.spans) /\ t.spans[i].name = "call" /\ i # k
  BY DEF TellsOf, IsAttempt
<1>2. /\ u.spans[i] = t.spans[i] /\ Len(u.spans) = Len(t.spans)
      /\ u.spans[k].status = "error" /\ u.spans[k].ended = TRUE
  BY <1>1 DEF Ends
<1> QED
  BY <1>1, <1>2 DEF TellsOf, Fits, Said, NoAttemptYet, Opened, HitLabels, HitOnly

LEMMA AnswerTells ==
    ASSUME NEW t, NEW u, NEW v, NEW i, NEW k, NEW to, NEW hit \in BOOLEAN,
           NEW hits \in BOOLEAN, IsAttempt(t, k), k # 0,
           TellsOf(t, i, k, "backend", hit), Fits("backend", hit), Fits(to, hits),
           Len(t.spans) \in Nat, Ends(t, u, k, "ok"), Ends(u, v, i, "ok"),
           to \in {"store", "record"}
    PROVE  TellsOf(v, i, k, to, hits)
<1>1. i \in 1..Len(t.spans) /\ t.spans[i].name = "call" /\ i # k /\ k \in 1..Len(t.spans)
  BY DEF TellsOf, IsAttempt
<1>2. /\ u.spans[i] = t.spans[i] /\ Len(u.spans) = Len(t.spans)
      /\ u.spans[k].status = "ok" /\ u.spans[k].ended = TRUE
  BY <1>1 DEF Ends
<1>3. /\ Len(v.spans) = Len(t.spans) /\ v.spans[i].name = "call"
      /\ v.spans[i].status = "ok" /\ v.spans[i].ended = TRUE
      /\ v.spans[k].status = "ok" /\ v.spans[k].ended = TRUE
  BY <1>1, <1>2 DEF Ends
<1> QED
  BY <1>1, <1>3 DEF TellsOf, Fits, Said, NoAttemptYet, Opened, HitLabels, HitOnly

LEMMA StartsCallTells ==
    ASSUME NEW t, NEW u, NEW k, NEW to, NEW hit \in BOOLEAN, NEW hits \in BOOLEAN,
           TellsOf(t, 0, k, "idle", hit), Fits(to, hits),
           Len(t.spans) \in Nat, Starts(t, u, "call"), to \in {"lookup", "loop"}
    PROVE  TellsOf(u, Len(t.spans) + 1, k, to, hits)
<1>1. k = 0 /\ Len(t.spans) + 1 \in 1..Len(u.spans)
  BY DEF TellsOf, NoAttemptYet, Starts
<1> QED
  BY <1>1 DEF Starts, TellsOf, Fits, Said, NoAttemptYet, Opened, HitLabels, HitOnly

LEMMA RenderErrorTells ==
    ASSUME NEW t, NEW u, NEW v, NEW k, NEW hit \in BOOLEAN, NEW hits \in BOOLEAN,
           TellsOf(t, 0, k, "idle", hit), Fits("renderError", hits), Len(t.spans) \in Nat,
           Starts(t, u, "call"), Ends(u, v, Len(t.spans) + 1, "error")
    PROVE  TellsOf(v, Len(t.spans) + 1, k, "renderError", hits)
<1>1. k = 0 /\ Len(t.spans) + 1 \in 1..Len(u.spans)
  BY DEF TellsOf, NoAttemptYet, Starts
<1>2. /\ v.spans[Len(t.spans) + 1].name = "call" /\ Len(v.spans) = Len(u.spans)
      /\ v.spans[Len(t.spans) + 1].status = "error" /\ v.spans[Len(t.spans) + 1].ended = TRUE
  BY <1>1 DEF Starts, Ends
<1> QED
  BY <1>1, <1>2 DEF TellsOf, Fits, Said, NoAttemptYet, Opened, HitLabels, HitOnly

LEMMA StartsAttemptTells ==
    ASSUME NEW t, NEW u, NEW i, NEW k, NEW hit \in BOOLEAN, NEW hits \in BOOLEAN,
           TellsOf(t, i, k, "loop", hit), Fits("loop", hit), Fits("backend", hits),
           Len(t.spans) \in Nat, Starts(t, u, "attempt")
    PROVE  TellsOf(u, i, Len(t.spans) + 1, "backend", hits)
<1>1. /\ i \in 1..Len(t.spans) /\ i \in 0..Len(u.spans) /\ u.spans[i] = t.spans[i]
      /\ Len(t.spans) + 1 # 0
  BY DEF TellsOf, Starts
<1> QED
  BY <1>1 DEF TellsOf, Fits, Said, NoAttemptYet, Opened, HitLabels, HitOnly

\* Everything that a step of call c may do to spans: to start one, which becomes its
\* own, and to change its own.
OwnSpansOnly(c) ==
    /\ Len(ctx'.spans) \in {Len(ctx.spans), Len(ctx.spans) + 1}
    /\ \A j \in 1..Len(ctx.spans) :
         /\ ctx'.spans[j].name = ctx.spans[j].name
         /\ j \notin {callSpan[c], attemptSpan[c]} => ctx'.spans[j] = ctx.spans[j]
    /\ \/ callSpan' = callSpan
       \/ /\ callSpan' = [callSpan EXCEPT ![c] = Len(ctx.spans) + 1]
          /\ Len(ctx'.spans) = Len(ctx.spans) + 1
    /\ \/ attemptSpan' = attemptSpan
       \/ /\ attemptSpan' = [attemptSpan EXCEPT ![c] = Len(ctx.spans) + 1]
          /\ Len(ctx'.spans) = Len(ctx.spans) + 1

\* The move that each step makes.
LEMMA QuietMoves ==
    ASSUME TypeOK, NEW c \in Calls,
           \/ TSpanless(c) \/ TCancel(c) \/ TChargeHit(c) \/ TChargeFailure(c)
           \/ TCharge(c) /\ pc'[c] = "returned"
    PROVE  QuietMove(pc[c], pc'[c], m[c].cache_hit, m'[c].cache_hit)
<1>1. pc \in [Calls -> Labels]
  BY DEF TypeOK
<1>2. CASE TSpanless(c)
  BY <1>1, <1>2 DEF TSpanless, LookupMiss, RecordHit, LoopEnds, Wake, Store, RecordSuccess,
                    Move, QuietMove
<1>3. CASE TCancel(c)
  BY <1>1, <1>3 DEF TCancel, Cancel, Move, QuietMove
<1>4. CASE TChargeHit(c)
  BY <1>1, <1>4 DEF TChargeHit, ChargeHit, Move, QuietMove
<1>5. CASE TChargeFailure(c)
  BY <1>1, <1>5 DEF TChargeFailure, ChargeFailure, Move, QuietMove
<1>6. CASE TCharge(c) /\ pc'[c] = "returned"
  BY <1>1, <1>6 DEF TCharge, Charge, Abort, Move, QuietMove
<1> QED
  BY <1>2, <1>3, <1>4, <1>5, <1>6

LEMMA AttemptErrsMoves ==
    ASSUME TypeOK, NEW c \in Calls,
           \/ TAttemptFails(c) \/ TBackendRaisesOther(c) \/ TStoreFails(c)
           \/ TCharge(c) /\ pc'[c] # "returned"
    PROVE  /\ AttemptErrs(c)
           /\ pc[c] \in {"backend", "store", "charge"} /\ pc'[c] \in {"backoff", "giveUp"}
           /\ pc[c] # "backend" => pc'[c] = "giveUp"
<1>1. pc \in [Calls -> Labels]
  BY DEF TypeOK
<1>2. CASE TAttemptFails(c)
  BY <1>1, <1>2 DEF TAttemptFails, AttemptFails, Move
<1>3. CASE TBackendRaisesOther(c)
  BY <1>1, <1>3 DEF TBackendRaisesOther, BackendRaisesOther, Abort, Move
<1>4. CASE TStoreFails(c)
  BY <1>1, <1>4 DEF TStoreFails, StoreFails, Abort, Move
<1>5. CASE TCharge(c) /\ pc'[c] # "returned"
  BY <1>1, <1>5 DEF TCharge, Charge, Abort, Move
<1> QED
  BY <1>2, <1>3, <1>4, <1>5

\* What a step of a traced call makes of its own spans.
LEMMA OwnTells ==
    ASSUME TypeOK, ReportInv, TypeOK', ReportInv', SpanInv, TellInv, NEW c \in Traced,
           TBegin(c) \/ TRenderFails(c) \/ TAdvance(c) \/ TCancel(c)
    PROVE  Tells(c)' /\ OwnSpansOnly(c)
<1> DEFINE hit == m[c].cache_hit
           hits == m'[c].cache_hit
           i == callSpan[c]
           k == attemptSpan[c]
           n == Len(ctx.spans)
<1>1. /\ c \in Calls /\ pc \in [Calls -> Labels]
      /\ hit \in BOOLEAN /\ hits \in BOOLEAN
      /\ callSpan \in [Calls -> Nat] /\ attemptSpan \in [Calls -> Nat]
  BY TracedAssumption DEF TypeOK, TellInv, CallMetricsType
<1>2. Fits(pc[c], hit) /\ Fits(pc'[c], hits)
  BY <1>1 DEF ReportInv, SuccessOf, Fits
<1>3. /\ Sound(ctx) /\ IsAttempt(ctx, k) /\ ctx \in TraceContexts /\ n \in Nat
      /\ NextSpan(ctx) = n + 1
  BY <1>1 DEF SpanInv, Sound, TraceContexts, NextSpan
<1>4. TellsOf(ctx, i, k, pc[c], hit)
  BY DEF TellInv, Tells
<1>5. i # 0 => i \in 1..n
  BY <1>3, <1>4 DEF TellsOf
<1>6. k # 0 => k \in 1..n
  BY <1>3 DEF IsAttempt
<1>7. {"ok", "error", "cached"} = Statuses /\ {"call", "attempt"} = SpanNames
  BY DEF Statuses, SpanNames
<1> HIDE DEF hit, hits, i, k, n
<1> SUFFICES TellsOf(ctx', callSpan'[c], attemptSpan'[c], pc'[c], hits) /\ OwnSpansOnly(c)
  BY DEF Tells, hits
<1>8. CASE UNCHANGED tracing /\ QuietMove(pc[c], pc'[c], hit, hits)
  <2>1. ctx' = ctx /\ callSpan' = callSpan /\ attemptSpan' = attemptSpan
    BY <1>8 DEF tracing
  <2>2. TellsOf(ctx, i, k, pc'[c], hits)
    BY <1>1, <1>2, <1>4, <1>8, QuietTells
  <2> QED
    BY <2>1, <2>2 DEF OwnSpansOnly, i, k
<1>9. CASE TSpanless(c) \/ TCancel(c) \/ (TCharge(c) /\ pc'[c] = "returned")
  <2>1. QuietMove(pc[c], pc'[c], hit, hits)
    BY <1>1, <1>9, QuietMoves DEF hit, hits
  <2>2. UNCHANGED tracing
    BY <1>9 DEF TSpanless, TCancel, TCharge, Untraced
  <2> QED
    BY <1>8, <2>1, <2>2
<1>10. CASE TChargeHit(c) \/ TChargeFailure(c)
  <2>1. QuietMove(pc[c], pc'[c], hit, hits)
    BY <1>1, <1>10, QuietMoves DEF hit, hits
  <2>2. pc[c] \in {"hitCharge", "failCharge"}
    BY <1>10 DEF TChargeHit, TChargeFailure, ChargeHit, ChargeFailure, Move
  <2>3. ctx.spans[i].status # "ok"
    BY <1>2, <1>4, <2>2 DEF TellsOf, Fits, Said, HitOnly, HitLabels
  <2>4. CallRaises(ctx, i) = ctx
    BY <2>3 DEF CallRaises
  <2>5. UNCHANGED tracing
    BY <1>10, <2>4 DEF TChargeHit, TChargeFailure, OnCall, tracing, i
  <2> QED
    BY <1>8, <2>1, <2>5
<1>11. ASSUME NEW status \in Statuses, ctx' = FinishSpan(ctx, i, status), i # 0,
              UNCHANGED <<callSpan, attemptSpan>>,
              \/ pc[c] = "lookup" /\ pc'[c] = "hitRecord" /\ status = "cached"
              \/ pc[c] = "lookup" /\ pc'[c] = "cacheError" /\ status = "error"
              \/ pc[c] = "giveUp" /\ pc'[c] = "failCharge" /\ status = "error"
       PROVE  TellsOf(ctx', callSpan'[c], attemptSpan'[c], pc'[c], hits) /\ OwnSpansOnly(c)
  <2>1. Ends(ctx, ctx', i, status)
    BY <1>3, <1>5, <1>11, FinishEnds DEF n
  <2>2. TellsOf(ctx', i, k, pc'[c], hits)
    BY <1>1, <1>2, <1>3, <1>4, <1>11, <2>1, EndsCallTells DEF n
  <2>3. OwnSpansOnly(c)
    BY <1>11, <2>1 DEF OwnSpansOnly, Ends, i
  <2> QED
    BY <1>11, <2>2, <2>3 DEF i, k
<1>12. CASE TLookupHit(c)
  <2>1. pc[c] = "lookup" /\ pc'[c] = "hitRecord"
    BY <1>1, <1>12 DEF TLookupHit, LookupHit, Move
  <2>2. ctx' = FinishSpan(ctx, i, "cached") /\ UNCHANGED <<callSpan, attemptSpan>>
    BY <1>12 DEF TLookupHit, FinishesCall, OnCall, i
  <2>3. i # 0 /\ "cached" \in Statuses
    BY <1>4, <1>7, <2>1 DEF TellsOf
  <2> QED
    BY <1>11, <2>1, <2>2, <2>3
<1>13. CASE TLookupFails(c)
  <2>1. pc[c] = "lookup" /\ pc'[c] = "cacheError"
    BY <1>1, <1>13 DEF TLookupFails, LookupFails, Move
  <2>2. i # 0 /\ ctx.spans[i].status = "ok" /\ "error" \in Statuses
    BY <1>2, <1>4, <1>7, <2>1 DEF TellsOf, Fits, Said, HitLabels
  <2>3. ctx' = FinishSpan(ctx, i, "error") /\ UNCHANGED <<callSpan, attemptSpan>>
    BY <1>13, <2>2 DEF TLookupFails, CallRaises, OnCall, i
  <2> QED
    BY <1>11, <2>1, <2>2, <2>3
<1>14. CASE TGiveUp(c)
  <2>1. pc[c] = "giveUp" /\ pc'[c] = "failCharge"
    BY <1>1, <1>14 DEF TGiveUp, GiveUp, Move
  <2>2. ctx' = FinishSpan(ctx, i, "error") /\ UNCHANGED <<callSpan, attemptSpan>>
    BY <1>14 DEF TGiveUp, FinishesCall, OnCall, i
  <2>3. i # 0 /\ "error" \in Statuses
    BY <1>4, <1>7, <2>1 DEF TellsOf
  <2> QED
    BY <1>11, <2>1, <2>2, <2>3
<1>15. CASE TAttemptFails(c) \/ TBackendRaisesOther(c) \/ TStoreFails(c)
            \/ (TCharge(c) /\ pc'[c] # "returned")
  <2>1. /\ AttemptErrs(c)
        /\ pc[c] \in {"backend", "store", "charge"} /\ pc'[c] \in {"backoff", "giveUp"}
        /\ pc[c] # "backend" => pc'[c] = "giveUp"
    BY <1>1, <1>15, AttemptErrsMoves
  <2>2. ctx' = EndSpan(ctx, k, "error") /\ UNCHANGED <<callSpan, attemptSpan>>
    BY <2>1 DEF AttemptErrs, OnCall, k
  <2>3. k # 0 /\ "error" \in Statuses
    BY <1>4, <1>7, <2>1 DEF TellsOf
  <2>4. Ends(ctx, ctx', k, "error")
    BY <1>3, <1>6, <2>2, <2>3, EndEnds DEF n
  <2>5. TellsOf(ctx', i, k, pc'[c], hits)
    BY <1>1, <1>2, <1>3, <1>4, <2>1, <2>3, <2>4, EndsAttemptTells DEF n
  <2>6. OwnSpansOnly(c)
    BY <2>2, <2>4 DEF OwnSpansOnly, Ends, k
  <2> QED
    BY <2>2, <2>5, <2>6 DEF i, k
<1>16. CASE TBackendAnswers(c)
  <2> DEFINE u == EndSpan(ctx, k, "ok")
  <2>1. pc[c] = "backend" /\ pc'[c] \in {"store", "record"}
    BY <1>1, <1>16 DEF TBackendAnswers, BackendAnswers, Move
  <2>2. ctx' = FinishSpan(u, i, "ok") /\ UNCHANGED <<callSpan, attemptSpan>>
    BY <1>16 DEF TBackendAnswers, OnCall, i, k
  <2>3. i # 0 /\ k # 0 /\ "ok" \in Statuses
    BY <1>4, <1>7, <2>1 DEF TellsOf
  <2>4. Ends(ctx, u, k, "ok") /\ u \in TraceContexts
    <3>1. Ends(ctx, u, k, "ok")
      BY <1>3, <1>6, <2>3, EndEnds DEF n
    <3>2. Continues(ctx, u)
      BY <1>3, <2>3, EndContinues
    <3> QED
      BY <3>1, <3>2 DEF Continues, Sound
  <2> HIDE DEF u
  <2>5. i \in 1..Len(u.spans) /\ Len(u.spans) = n
    BY <1>5, <2>3, <2>4 DEF Ends, n
  <2>6. Ends(u, ctx', i, "ok")
    BY <2>2, <2>3, <2>4, <2>5, FinishEnds
  <2>7. TellsOf(ctx', i, k, pc'[c], hits)
    BY <1>1, <1>2, <1>3, <1>4, <2>1, <2>3, <2>4, <2>6, AnswerTells DEF n
  <2>8. OwnSpansOnly(c)
    BY <2>2, <2>4, <2>6 DEF OwnSpansOnly, Ends, i, k
  <2> QED
    BY <2>2, <2>7, <2>8 DEF i, k
<1>17. CASE TBegin(c)
  <2>1. pc[c] = "idle" /\ pc'[c] \in {"lookup", "loop"}
    BY <1>1, <1>17 DEF TBegin, Begin, Move
  <2>2. /\ ctx' = StartSpan(ctx, "call") /\ callSpan' = [callSpan EXCEPT ![c] = n + 1]
        /\ attemptSpan' = attemptSpan
    BY <1>3, <1>17 DEF TBegin, OpensCall
  <2>3. Starts(ctx, ctx', "call")
    BY <1>3, <1>7, <2>2, StartStarts
  <2>4. i = 0
    BY <1>4, <2>1 DEF TellsOf
  <2>5. TellsOf(ctx, 0, k, "idle", hit) /\ n = Len(ctx.spans)
    BY <1>4, <2>1, <2>4 DEF n
  <2>6. TellsOf(ctx', n + 1, k, pc'[c], hits)
    BY <1>1, <1>2, <1>3, <2>1, <2>3, <2>5, StartsCallTells
  <2>7. OwnSpansOnly(c)
    BY <2>2, <2>3 DEF OwnSpansOnly, Starts, n
  <2>8. callSpan'[c] = n + 1 /\ attemptSpan'[c] = k
    BY <1>1, <2>2 DEF k
  <2> QED
    BY <2>6, <2>7, <2>8
<1>18. CASE TRenderFails(c)
  <2> DEFINE u == StartSpan(ctx, "call")
  <2>1. pc[c] = "idle" /\ pc'[c] = "renderError"
    BY <1>1, <1>18 DEF TRenderFails, RenderFails, Move
  <2>2. /\ ctx' = CallRaises(u, n + 1) /\ callSpan' = [callSpan EXCEPT ![c] = n + 1]
        /\ attemptSpan' = attemptSpan
    BY <1>3, <1>18 DEF TRenderFails, OpensCall
  <2>3. Starts(ctx, u, "call") /\ u \in TraceContexts
    <3>1. Starts(ctx, u, "call")
      BY <1>3, <1>7, StartStarts
    <3>2. Continues(ctx, u)
      BY <1>3, <1>7, StartContinues
    <3> QED
      BY <3>1, <3>2 DEF Continues, Sound
  <2> HIDE DEF u
  <2>4. i = 0
    BY <1>4, <2>1 DEF TellsOf
  <2>5. TellsOf(ctx, 0, k, "idle", hit) /\ n = Len(ctx.spans)
    BY <1>4, <2>1, <2>4 DEF n
  <2>6. u.spans[n + 1].status = "ok" /\ Len(u.spans) = n + 1 /\ n + 1 \in 1..Len(u.spans)
    BY <1>3, <2>3, <2>5 DEF Starts
  <2>7. ctx' = FinishSpan(u, n + 1, "error") /\ "error" \in Statuses
    BY <1>7, <2>2, <2>6 DEF CallRaises
  <2>8. Ends(u, ctx', n + 1, "error")
    BY <2>3, <2>6, <2>7, FinishEnds
  <2>9. TellsOf(ctx', n + 1, k, pc'[c], hits)
    BY <1>1, <1>2, <1>3, <2>1, <2>3, <2>5, <2>8, RenderErrorTells
  <2>10. Len(ctx'.spans) = n + 1 /\ \A j \in 1..n : ctx'.spans[j] = ctx.spans[j]
    BY <1>3, <2>3, <2>5, <2>6, <2>8 DEF Starts, Ends
  <2>11. OwnSpansOnly(c)
    BY <2>2, <2>5, <2>10 DEF OwnSpansOnly
  <2>12. callSpan'[c] = n + 1 /\ attemptSpan'[c] = k
    BY <1>1, <2>2 DEF k
  <2> QED
    BY <2>9, <2>11, <2>12
<1>19. CASE TStartAttempt(c)
  <2>1. pc[c] = "loop" /\ pc'[c] = "backend"
    BY <1>1, <1>19 DEF TStartAttempt, StartAttempt, Move
  <2>2. /\ ctx' = StartSpan(ctx, "attempt") /\ callSpan' = callSpan
        /\ attemptSpan' = [attemptSpan EXCEPT ![c] = n + 1]
    BY <1>3, <1>19 DEF TStartAttempt
  <2>3. Starts(ctx, ctx', "attempt") /\ n = Len(ctx.spans)
    BY <1>3, <1>7, <2>2, StartStarts DEF n
  <2>4. TellsOf(ctx', i, n + 1, pc'[c], hits)
    BY <1>1, <1>2, <1>3, <1>4, <2>1, <2>3, StartsAttemptTells
  <2>5. OwnSpansOnly(c)
    BY <2>2, <2>3 DEF OwnSpansOnly, Starts
  <2>6. attemptSpan'[c] = n + 1 /\ callSpan'[c] = i
    BY <1>1, <2>2 DEF i
  <2> QED
    BY <2>4, <2>5, <2>6
<1> HIDE DEF OwnSpansOnly
<1> QED
  BY <1>9, <1>10, <1>12, <1>13, <1>14, <1>15, <1>16, <1>17, <1>18, <1>19 DEF TAdvance

\* It is no concern of the other traced calls, whose spans are others.
LEMMA OthersTell ==
    ASSUME TypeOK, SpanInv, TellInv, NEW c \in Traced, NEW d \in Traced, d # c,
           OwnSpansOnly(c), Local(d)' = Local(d)
    PROVE  Tells(d)'
<1>1. /\ c \in Calls /\ d \in Calls /\ Len(ctx.spans) \in Nat
      /\ callSpan \in [Calls -> Nat] /\ attemptSpan \in [Calls -> Nat]
  BY TracedAssumption DEF TellInv, SpanInv, Sound, TraceContexts
<1>2. pc'[d] = pc[d] /\ m'[d] = m[d]
  BY DEF Local
<1>3. callSpan'[d] = callSpan[d] /\ attemptSpan'[d] = attemptSpan[d]
  BY <1>1 DEF OwnSpansOnly
<1>4. Tells(d) /\ Tells(c) /\ IsAttempt(ctx, attemptSpan[c]) /\ IsAttempt(ctx, attemptSpan[d])
  BY <1>1 DEF TellInv, SpanInv
<1>5. callSpan[d] # 0 =>
        /\ callSpan[d] \in 1..Len(ctx.spans)
        /\ callSpan[d] \notin {callSpan[c], attemptSpan[c]}
  <2> SUFFICES ASSUME callSpan[d] # 0
               PROVE  /\ callSpan[d] \in 1..Len(ctx.spans)
                      /\ callSpan[d] \notin {callSpan[c], attemptSpan[c]}
    OBVIOUS
  <2>1. callSpan[d] \in 1..Len(ctx.spans) /\ ctx.spans[callSpan[d]].name = "call"
    BY <1>1, <1>4 DEF Tells, TellsOf
  <2>2. callSpan[d] # callSpan[c]
    BY DEF TellInv, SpansApart
  <2>3. callSpan[d] # attemptSpan[c]
    BY <1>4, <2>1 DEF IsAttempt
  <2> QED
    BY <2>1, <2>2, <2>3
<1>6. attemptSpan[d] # 0 =>
        /\ attemptSpan[d] \in 1..Len(ctx.spans)
        /\ attemptSpan[d] \notin {callSpan[c], attemptSpan[c]}
  <2> SUFFICES ASSUME attemptSpan[d] # 0
               PROVE  /\ attemptSpan[d] \in 1..Len(ctx.spans)
                      /\ attemptSpan[d] \notin {callSpan[c], attemptSpan[c]}
    OBVIOUS
  <2>1. attemptSpan[d] \in 1..Len(ctx.spans) /\ ctx.spans[attemptSpan[d]].name = "attempt"
    BY <1>1, <1>4 DEF IsAttempt
  <2>2. attemptSpan[d] # attemptSpan[c]
    BY DEF TellInv, SpansApart
  <2>3. attemptSpan[d] # callSpan[c]
    BY <1>4, <2>1 DEF Tells, TellsOf
  <2> QED
    BY <2>1, <2>2, <2>3
<1>7. /\ callSpan[d] # 0 => ctx'.spans[callSpan[d]] = ctx.spans[callSpan[d]]
      /\ attemptSpan[d] # 0 => ctx'.spans[attemptSpan[d]] = ctx.spans[attemptSpan[d]]
      /\ Len(ctx'.spans) >= Len(ctx.spans) /\ Len(ctx'.spans) \in Nat
  BY <1>1, <1>5, <1>6 DEF OwnSpansOnly
<1>8. callSpan[d] \in 0..Len(ctx'.spans)
  BY <1>1, <1>5, <1>7
<1> QED
  BY <1>2, <1>3, <1>4, <1>7, <1>8 DEF Tells, TellsOf

\* A span that is started is nobody's yet.
LEMMA StillApart ==
    ASSUME SpanInv, TellInv, NEW c \in Traced, OwnSpansOnly(c)
    PROVE  /\ SpansApart'
           /\ callSpan' \in [Calls -> Nat] /\ attemptSpan' \in [Calls -> Nat]
<1> DEFINE n == Len(ctx.spans)
<1>1. /\ c \in Calls /\ Traced \subseteq Calls /\ n \in Nat /\ n + 1 \in Nat /\ n + 1 # 0
      /\ callSpan \in [Calls -> Nat] /\ attemptSpan \in [Calls -> Nat]
  BY TracedAssumption DEF TellInv, SpanInv, Sound, TraceContexts
<1>2. \A d \in Traced : callSpan[d] # n + 1 /\ attemptSpan[d] # n + 1
  <2> SUFFICES ASSUME NEW d \in Traced PROVE callSpan[d] # n + 1 /\ attemptSpan[d] # n + 1
    OBVIOUS
  <2>1. callSpan[d] \in 0..n
    BY DEF TellInv, Tells, TellsOf
  <2>2. attemptSpan[d] # 0 => attemptSpan[d] <= n
    BY <1>1 DEF SpanInv, IsAttempt
  <2> QED
    BY <1>1, <2>1, <2>2
<1>3. /\ callSpan' \in [Calls -> Nat]
      /\ \A d \in Calls : callSpan'[d] = callSpan[d] \/ (d = c /\ callSpan'[d] = n + 1)
  BY <1>1 DEF OwnSpansOnly
<1>4. /\ attemptSpan' \in [Calls -> Nat]
      /\ \A d \in Calls : attemptSpan'[d] = attemptSpan[d] \/ (d = c /\ attemptSpan'[d] = n + 1)
  BY <1>1 DEF OwnSpansOnly
<1> HIDE DEF n
<1>5. ASSUME NEW d \in Traced, NEW e \in Traced, d # e
      PROVE  /\ callSpan'[d] # 0 => callSpan'[e] # callSpan'[d]
             /\ attemptSpan'[d] # 0 => attemptSpan'[e] # attemptSpan'[d]
  <2>1. /\ callSpan[d] # 0 => callSpan[e] # callSpan[d]
        /\ attemptSpan[d] # 0 => attemptSpan[e] # attemptSpan[d]
    BY <1>5 DEF TellInv, SpansApart
  <2> QED
    BY <1>1, <1>2, <1>3, <1>4, <1>5, <2>1
<1> QED
  BY <1>3, <1>4, <1>5 DEF SpansApart

\* Calls outside the trace have no part in it, and neither has the environment.
LEMMA UntracedSteps ==
    ASSUME NEW c \in Calls, c \notin Traced,
           TBegin(c) \/ TRenderFails(c) \/ TAdvance(c) \/ TCancel(c)
    PROVE  UNCHANGED tracing
BY DEF TBegin, TRenderFails, TAdvance, TCancel, TSpanless, TLookupHit, TLookupFails, TChargeHit,
       TStartAttempt, TBackendAnswers, TAttemptFails, TBackendRaisesOther, TStoreFails, TCharge,
       TGiveUp, TChargeFailure, AttemptErrs, FinishesCall, OnCall, OpensCall, Untraced, tracing

LEMMA NextTells ==
    TypeOK /\ ReportInv /\ TypeOK' /\ ReportInv' /\ SpanInv /\ TellInv /\ [TNext]_tvars => TellInv'
<1> SUFFICES ASSUME TypeOK, ReportInv, TypeOK', ReportInv', SpanInv, TellInv, [TNext]_tvars
             PROVE  TellInv'
  OBVIOUS
<1>1. ASSUME NEW c \in Calls, TBegin(c) \/ TRenderFails(c) \/ TAdvance(c) \/ TCancel(c)
      PROVE  TellInv'
  <2>1. ASSUME NEW d \in Calls, d # c PROVE Local(d)' = Local(d)
    <3>1. Begin(c) \/ RenderFails(c) \/ Advance(c) \/ Cancel(c)
      BY <1>1 DEF TBegin, TRenderFails, TAdvance, TCancel, Advance, TSpanless, TLookupHit,
                  TLookupFails, TChargeHit, TStartAttempt, TBackendAnswers, TAttemptFails,
                  TBackendRaisesOther, TStoreFails, TCharge, TGiveUp, TChargeFailure
    <3> QED
      BY <2>1, <3>1, StepIsLocal
  <2>2. CASE c \in Traced
    <3>1. Tells(c)' /\ OwnSpansOnly(c)
      BY <1>1, <2>2, OwnTells
    <3>2. ASSUME NEW d \in Traced, d # c PROVE Tells(d)'
      BY <2>1, <2>2, <3>1, <3>2, OthersTell, TracedAssumption
    <3>3. /\ SpansApart'
          /\ callSpan' \in [Calls -> Nat] /\ attemptSpan' \in [Calls -> Nat]
      BY <2>2, <3>1, StillApart
    <3> QED
      BY <3>1, <3>2, <3>3 DEF TellInv
  <2>3. CASE c \notin Traced
    <3>1. UNCHANGED tracing
      BY <1>1, <2>3, UntracedSteps
    <3>2. ASSUME NEW d \in Traced PROVE pc'[d] = pc[d] /\ m'[d] = m[d]
      BY <2>1, <2>3, TracedAssumption DEF Local
    <3> QED
      BY <3>1, <3>2 DEF TellInv, Tells, SpansApart, tracing
  <2> QED
    BY <2>2, <2>3
<1>2. CASE TEnvironment \/ UNCHANGED tvars
  <2>1. UNCHANGED <<tracing, pc, m>>
    BY <1>2 DEF TEnvironment, Forget, Untraced, tvars, vars
  <2> QED
    BY <2>1 DEF TellInv, Tells, SpansApart, tracing
<1> QED
  BY <1>1, <1>2 DEF TNext

LEMMA InitTells == TInit => TellInv
<1> SUFFICES ASSUME TInit PROVE TellInv
  OBVIOUS
<1>1. /\ callSpan \in [Calls -> Nat] /\ attemptSpan \in [Calls -> Nat]
      /\ \A c \in Calls : callSpan[c] = 0 /\ attemptSpan[c] = 0 /\ pc[c] = "idle"
      /\ ctx.spans = << >>
  BY DEF TInit, Init, NewTrace
<1>2. Len(<< >>) = 0 /\ 0 \in 0..0
  OBVIOUS
<1>3. ASSUME NEW c \in Traced PROVE Tells(c)
  BY <1>1, <1>2, TracedAssumption DEF Tells, TellsOf, NoAttemptYet
<1> QED
  BY <1>1, <1>3, TracedAssumption DEF TellInv, SpansApart

LEMMA TellInvariant == TSpec => []TellInv
<1>1. Spec => [](TypeOK /\ ReportInv)
  BY TypeCorrect, ReportInvariant, PTL
<1>2. TSpec => [](TypeOK /\ ReportInv)
  BY TracingIsTransparent, <1>1, PTL
<1>3. TypeOK /\ ReportInv /\ TypeOK' /\ ReportInv' /\ SpanInv /\ TellInv /\ [TNext]_tvars
      => TellInv'
  BY NextTells
<1> QED
  BY InitTells, SpanInvariant, <1>2, <1>3, PTL DEF TSpec

\* Whatever order the steps of the calls come in, once a traced call has settled its spans
\* tell how it ended, and those of a cancelled call are left open.
THEOREM SpansTell == TSpec => []SpansTellOutcome
<1>1. Spec => [](TypeOK /\ ReportInv)
  BY TypeCorrect, ReportInvariant, PTL
<1>2. TSpec => [](TypeOK /\ ReportInv)
  BY TracingIsTransparent, <1>1, PTL
<1>3. TSpec => []TellInv
  BY TellInvariant
<1>4. TypeOK /\ ReportInv /\ SpanInv /\ TellInv => SpansTellOutcome
  <2> SUFFICES ASSUME TypeOK, ReportInv, SpanInv, TellInv, NEW c \in Traced,
                      pc[c] \in Settled
               PROVE  LET span == ctx.spans[callSpan[c]]
                          last == ctx.spans[attemptSpan[c]] IN
                      /\ pc[c] \in Settled \ {"cancelled"} =>
                           /\ span.ended
                           /\ span.status = IF m[c].cache_hit THEN "cached"
                                            ELSE IF pc[c] = "returned" THEN "ok" ELSE "error"
                           /\ attemptSpan[c] # 0 =>
                                last.ended
                                /\ last.status = IF pc[c] = "returned" THEN "ok" ELSE "error"
                      /\ pc[c] = "cancelled" => ~span.ended /\ span.status = "ok"
    BY DEF SpansTellOutcome, Settled
  <2>1. /\ TellsOf(ctx, callSpan[c], attemptSpan[c], pc[c], m[c].cache_hit)
        /\ m[c].cache_hit \in BOOLEAN
        /\ m[c].cache_hit => pc[c] \in HitLabels
        /\ pc[c] \in HitOnly => m[c].cache_hit
    BY TracedAssumption DEF TellInv, Tells, TypeOK, CallMetricsType, ReportInv, SuccessOf
  <2>2. callSpan[c] # 0
    BY <2>1 DEF TellsOf, Settled
  <2> QED
    BY <2>1, <2>2
       DEF TellsOf, Said, Settled, NoAttemptYet, Opened, HitLabels, HitOnly
<1> QED
  BY <1>2, <1>3, <1>4, SpanInvariant, PTL

-----------------------------------------------------------------------------
(***************************************************************************)
(* AttemptsUnderTheirCall.  A call's span is older than its attempt's, and *)
(* every span that is younger than a call's descends from it.              *)
(***************************************************************************)

CallFirst == \A c \in Traced : attemptSpan[c] # 0 => callSpan[c] < attemptSpan[c]

\* A call sets its span before it has begun, its attempt's when it has.
LEMMA SpanSteps ==
    ASSUME TellInv, [TNext]_tvars
    PROVE  \/ UNCHANGED <<callSpan, attemptSpan>>
           \/ \E c \in Calls : /\ pc[c] = "idle" /\ UNCHANGED attemptSpan
                               /\ \A d \in Calls \ {c} : callSpan'[d] = callSpan[d]
           \/ \E c \in Calls : /\ pc[c] # "idle" /\ UNCHANGED callSpan
                               /\ attemptSpan' = [attemptSpan EXCEPT ![c] = NextSpan(ctx)]
<1>1. CASE TEnvironment \/ UNCHANGED tvars
  BY <1>1 DEF TEnvironment, Untraced, tvars, tracing
<1>2. ASSUME NEW c \in Calls, TBegin(c) \/ TRenderFails(c)
      PROVE  /\ pc[c] = "idle" /\ UNCHANGED attemptSpan
             /\ \A d \in Calls \ {c} : callSpan'[d] = callSpan[d]
  BY <1>2 DEF TBegin, TRenderFails, Begin, RenderFails, OpensCall, TellInv, Move
<1>3. ASSUME NEW c \in Calls, TStartAttempt(c)
      PROVE  \/ UNCHANGED <<callSpan, attemptSpan>>
             \/ /\ pc[c] # "idle" /\ UNCHANGED callSpan
                /\ attemptSpan' = [attemptSpan EXCEPT ![c] = NextSpan(ctx)]
  BY <1>3 DEF TStartAttempt, StartAttempt, Move
<1>4. ASSUME NEW c \in Calls, (TAdvance(c) /\ ~TStartAttempt(c)) \/ TCancel(c)
      PROVE  UNCHANGED <<callSpan, attemptSpan>>
  BY <1>4 DEF TAdvance, TCancel, TSpanless, TLookupHit, TLookupFails, TChargeHit,
              TBackendAnswers, TAttemptFails, TBackendRaisesOther, TStoreFails, TCharge,
              TGiveUp, TChargeFailure, FinishesCall, AttemptErrs, OnCall, Untraced, tracing
<1> QED
  BY <1>1, <1>2, <1>3, <1>4 DEF TNext

LEMMA CallFirstStep == SpanInv /\ TellInv /\ CallFirst /\ [TNext]_tvars => CallFirst'
<1> SUFFICES ASSUME SpanInv, TellInv, CallFirst, [TNext]_tvars,
                    NEW c \in Traced, attemptSpan'[c] # 0
             PROVE  callSpan'[c] < attemptSpan'[c]
  BY DEF CallFirst
<1>1. c \in Calls /\ Tells(c) /\ Len(ctx.spans) \in Nat
  BY TracedAssumption DEF TellInv, SpanInv, Sound, TraceContexts
<1>2. /\ callSpan[c] \in 0..Len(ctx.spans)
      /\ pc[c] = "idle" => attemptSpan[c] = 0
  BY <1>1 DEF Tells, TellsOf, NoAttemptYet
<1>3. CASE UNCHANGED <<callSpan, attemptSpan>>
  BY <1>3 DEF CallFirst
<1>4. ASSUME NEW d \in Calls, pc[d] = "idle", UNCHANGED attemptSpan,
             \A e \in Calls \ {d} : callSpan'[e] = callSpan[e]
      PROVE  callSpan'[c] < attemptSpan'[c]
  <2>1. c # d
    BY <1>2, <1>4
  <2> QED
    BY <1>1, <1>4, <2>1 DEF CallFirst
<1>5. ASSUME NEW d \in Calls, UNCHANGED callSpan,
             attemptSpan' = [attemptSpan EXCEPT ![d] = NextSpan(ctx)]
      PROVE  callSpan'[c] < attemptSpan'[c]
  <2>1. CASE c = d
    BY <1>1, <1>2, <1>5, <2>1 DEF NextSpan, TellInv
  <2>2. CASE c # d
    BY <1>1, <1>5, <2>2 DEF CallFirst, TellInv
  <2> QED
    BY <2>1, <2>2
<1> QED
  BY <1>3, <1>4, <1>5, SpanSteps

LEMMA LaterSpansDescend ==
    ASSUME SpanInv, NEW i \in 1..Len(ctx.spans), ctx.spans[i].name = "call",
           NEW j \in i..Len(ctx.spans)
    PROVE  Descends(i, j)
<1>1. DOMAIN ctx.spans = 1..Len(ctx.spans) /\ Len(ctx.spans) \in Nat
  BY DEF SpanInv, Sound, TraceContexts
<1> SUFFICES ASSUME NEW S \in SUBSET DOMAIN ctx.spans, i \in S,
                    \A k \in DOMAIN ctx.spans : ctx.spans[k].parent \in S => k \in S
             PROVE  j \in S
  BY DEF Descends
<1> DEFINE T == {n \in Nat : \A k \in i..(i + n) : k <= Len(ctx.spans) => k \in S}
<1>2. 0 \in T
  OBVIOUS
<1>3. ASSUME NEW n \in Nat, n \in T PROVE n + 1 \in T
  <2> SUFFICES ASSUME NEW k \in i..(i + (n + 1)), k <= Len(ctx.spans) PROVE k \in S
    OBVIOUS
  <2>1. CASE k <= i + n
    BY <1>3, <2>1
  <2>2. CASE k = i + (n + 1)
    <3>1. k \in 1..Len(ctx.spans) /\ i \in 1..(k - 1) /\ k - 1 = i + n
      <4>1. i \in Nat /\ i >= 1 /\ n \in Nat /\ k = i + (n + 1) /\ k <= Len(ctx.spans)
        BY <2>2
      <4> QED
        BY <1>1, <4>1
    <3>2. UnderCalls(ctx)
      BY DEF SpanInv, Sound
    <3>3. ctx.spans[k].parent \in i..(k - 1)
      BY <3>1, <3>2 DEF UnderCalls
    <3>4. \A l \in i..(i + n) : l <= Len(ctx.spans) => l \in S
      BY <1>3
    <3>5. ctx.spans[k].parent \in S
      BY <1>1, <3>1, <3>3, <3>4
    <3> QED
      BY <1>1, <3>1, <3>5
  <2>3. k \in Int /\ i \in Int /\ n \in Int /\ i <= k /\ k <= i + (n + 1)
    OBVIOUS
  <2>4. k <= i + n \/ k = i + (n + 1)
    BY <2>3
  <2> QED
    BY <2>1, <2>2, <2>4
<1>4. T \in SUBSET Nat
  OBVIOUS
<1> HIDE DEF T
<1>5. T = Nat
  BY <1>2, <1>3, <1>4, NatSetInduction
<1>6. PICK n \in Nat : j = i + n
  <2>1. j - i \in Nat /\ j = i + (j - i)
    BY <1>1
  <2> QED
    BY <2>1
<1> QED
  BY <1>1, <1>5, <1>6 DEF T

\* However many calls share the trace and however they interleave, an attempt descends
\* from the call that made it.
THEOREM AttemptsUnder == TSpec => []AttemptsUnderTheirCall
<1>1. TInit => CallFirst
  BY TracedAssumption DEF TInit, CallFirst
<1>2. TSpec => []CallFirst
  BY <1>1, CallFirstStep, SpanInvariant, TellInvariant, PTL DEF TSpec
<1>3. SpanInv /\ TellInv /\ CallFirst => AttemptsUnderTheirCall
  <2> SUFFICES ASSUME SpanInv, TellInv, CallFirst, NEW c \in Traced, attemptSpan[c] # 0
               PROVE  Descends(callSpan[c], attemptSpan[c])
    BY DEF AttemptsUnderTheirCall
  <2>1. /\ c \in Calls /\ Tells(c) /\ IsAttempt(ctx, attemptSpan[c]) /\ Len(ctx.spans) \in Nat
        /\ callSpan[c] \in Nat /\ attemptSpan[c] \in Nat
    BY TracedAssumption DEF TellInv, SpanInv, Sound, TraceContexts
  <2>2. /\ callSpan[c] \in 1..Len(ctx.spans) /\ ctx.spans[callSpan[c]].name = "call"
    BY <2>1 DEF Tells, TellsOf, NoAttemptYet
  <2>3. attemptSpan[c] \in callSpan[c]..Len(ctx.spans)
    BY <2>1, <2>2 DEF IsAttempt, CallFirst
  <2> QED
    BY <2>2, <2>3, LaterSpansDescend
<1> QED
  BY <1>2, <1>3, SpanInvariant, TellInvariant, PTL
=============================================================================
