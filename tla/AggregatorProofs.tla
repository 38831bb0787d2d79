-------------------------- MODULE AggregatorProofs ---------------------------
(***************************************************************************)
(* Proofs about Aggregator for any number of calls that report any         *)
(* accounted CallMetrics, any functions and any history limit, while the   *)
(* aggregator is reset and read.                                           *)
(***************************************************************************)
EXTENDS Aggregator, SumTheorems, SequenceTheorems, FunctionTheorems, TLAPS

\* The CallMetrics that calls report.
Reports == {mc \in CallMetricsType : Accounted(mc) /\ mc.retries <= MaxRetries}

Records == [call : Calls, m : Reports]

-----------------------------------------------------------------------------
(***************************************************************************)
(* What the operators of record return.                                    *)
(***************************************************************************)

LEMMA OneFacts == One(TRUE) = 1 /\ One(FALSE) = 0 /\ \A b : One(b) \in {0, 1}
BY DEF One

\* A call is counted with the attempts it made.
LEMMA AttemptsOfReport ==
    ASSUME NEW mc \in Reports
    PROVE  AttemptsOf(mc) = mc.attempts /\ AttemptsOf(mc) \in Nat
<1>1. mc \in CallMetricsType /\ Accounted(mc)
  BY DEF Reports
<1>2. /\ mc.attempts \in Nat /\ mc.retries \in Nat /\ mc.attempt_errors \in Seq(AttemptErrors)
      /\ mc.successful \in BOOLEAN /\ mc.cache_hit \in BOOLEAN
  BY <1>1 DEF CallMetricsType
<1>3. Len(mc.attempt_errors) \in Nat
  BY <1>2
<1>4. mc.attempts = 0 => ~mc.successful /\ ~mc.cache_hit /\ mc.retries = 0
  <2> DEFINE len == Len(mc.attempt_errors)
  <2>1. /\ mc.cache_hit => mc.successful
        /\ mc.attempts = len + IF mc.successful THEN 1 ELSE 0
        /\ mc.retries = IF mc.attempts = 0 THEN 0 ELSE mc.attempts - 1
    BY <1>1 DEF Accounted
  <2>2. len \in Nat
    BY <1>3
  <2> HIDE DEF len
  <2> QED
    BY <1>2, <2>1, <2>2
<1> QED
  BY <1>2, <1>4 DEF AttemptsOf

\* The failed attempts are finitely many.
LEMMA FailuresInNat ==
    ASSUME NEW mc \in CallMetricsType, NEW e
    PROVE  FailuresIn(mc, e) \in Nat
<1> DEFINE errors == mc.attempt_errors
           S == {i \in DOMAIN errors : errors[i].category = e}
<1>1. errors \in Seq(AttemptErrors) /\ DOMAIN errors = 1..Len(errors) /\ Len(errors) \in Nat
  BY DEF CallMetricsType
<1>2. IsFiniteSet(DOMAIN errors)
  BY <1>1, FS_Interval
<1>3. IsFiniteSet(S)
  BY <1>2, FS_Subset
<1> QED
  BY <1>3, FS_CardinalityType DEF FailuresIn

\* Of a report, record counts exactly the failed attempts.
LEMMA ErrorsOfReport ==
    ASSUME NEW mc \in Reports, NEW e \in Categories
    PROVE  ErrorsOf(mc)[e] = FailuresIn(mc, e)
<1>1. CASE mc.attempt_errors # << >>
  BY <1>1 DEF ErrorsOf, FailuresIn
<1>2. CASE mc.attempt_errors = << >>
  <2>1. mc.error_category = NoCategory
    BY <1>2 DEF Reports, Accounted
  <2>2. ErrorsOf(mc)[e] = 0
    BY <1>2, <2>1 DEF ErrorsOf, One, NoCategory, Categories
  <2>3. {i \in DOMAIN mc.attempt_errors : mc.attempt_errors[i].category = e} = {}
    BY <1>2
  <2> QED
    BY <2>2, <2>3, FS_EmptySet DEF FailuresIn
<1> QED
  BY <1>1, <1>2

LEMMA ErrorsOfNat ==
    ASSUME NEW mc \in Reports
    PROVE  \A e \in Categories : ErrorsOf(mc)[e] \in Nat
<1> TAKE e \in Categories
<1>1. mc \in CallMetricsType
  BY DEF Reports
<1> QED
  BY <1>1, ErrorsOfReport, FailuresInNat

\* The second half of record, on the FunctionStats s.
LEMMA StatsAfterFacts ==
    ASSUME NEW s \in StatsType, NEW mc \in Reports
    PROVE  LET n == StatsAfter(s, mc) IN
           /\ n \in StatsType
           /\ n.call_count = s.call_count
           /\ n.success_count = s.success_count + One(mc.successful)
           /\ n.cache_hit_count = s.cache_hit_count + One(mc.cache_hit)
           /\ n.failure_count = s.failure_count + One(~mc.successful)
           /\ n.total_retries = s.total_retries + mc.retries
           /\ n.total_attempts = s.total_attempts + mc.attempts
           /\ n.calls_with_retries = s.calls_with_retries + One(mc.retries > 0)
           /\ n.recovered_count = s.recovered_count + One(mc.successful /\ mc.retries > 0)
           /\ n.tokens = s.tokens + ChargedTokens(mc)
           /\ \A e \in Categories :
                n.errors_by_category[e] = s.errors_by_category[e] + FailuresIn(mc, e)
           /\ n.retries_histogram = [s.retries_histogram EXCEPT ![mc.retries] = @ + 1]
<1> DEFINE errors == [e \in Categories |-> s.errors_by_category[e] + ErrorsOf(mc)[e]]
           histogram == [s.retries_histogram EXCEPT ![mc.retries] = @ + 1]
           last == IF mc.successful \/ mc.error_category = NoCategory
                   THEN s.last_error_category ELSE mc.error_category
           succeeded == s.success_count + One(mc.successful)
           hits == s.cache_hit_count + One(mc.cache_hit)
           failed == s.failure_count + One(~mc.successful)
           retries == s.total_retries + mc.retries
           attempts == s.total_attempts + AttemptsOf(mc)
           retried == s.calls_with_retries + One(mc.retries > 0)
           recovered == s.recovered_count + One(mc.successful /\ mc.retries > 0)
           tokens == s.tokens + ChargedTokens(mc)
<1>m. mc \in CallMetricsType /\ mc.retries \in Nat /\ mc.retries <= MaxRetries
  BY DEF Reports, CallMetricsType
<1>1. errors \in Counts
  <2>1. \A e \in Categories : s.errors_by_category[e] \in Nat
    BY DEF StatsType, Counts
  <2>2. ASSUME NEW e \in Categories PROVE s.errors_by_category[e] + ErrorsOf(mc)[e] \in Nat
    <3>1. ErrorsOf(mc)[e] \in Nat
      BY ErrorsOfNat
    <3>2. s.errors_by_category[e] \in Nat
      BY <2>1
    <3> QED
      BY <3>1, <3>2
  <2> QED
    BY <2>2 DEF Counts
<1>2. histogram \in [0..MaxRetries -> Nat]
  <2>1. s.retries_histogram \in [0..MaxRetries -> Nat]
    BY DEF StatsType
  <2>2. mc.retries \in 0..MaxRetries
    BY <1>m, AggregatorAssumption
  <2> DEFINE h == s.retries_histogram
             r == mc.retries
  <2>3. h[r] + 1 \in Nat
    <3>1. h \in [0..MaxRetries -> Nat] /\ r \in 0..MaxRetries
      BY <2>1, <2>2
    <3> HIDE DEF h, r
    <3>2. h[r] \in Nat
      BY <3>1
    <3> QED
      BY <3>2
  <2> QED
    BY <2>1, <2>3
<1>3. last \in Categories \union {NoCategory}
  BY <1>m DEF StatsType, CallMetricsType
<1>4. /\ succeeded \in Nat /\ hits \in Nat /\ failed \in Nat
      /\ retried \in Nat /\ recovered \in Nat
  <2>1. /\ s.success_count \in Nat /\ s.cache_hit_count \in Nat /\ s.failure_count \in Nat
        /\ s.calls_with_retries \in Nat /\ s.recovered_count \in Nat
    BY DEF StatsType
  <2> QED
    BY <2>1, OneFacts
<1>5. retries \in Nat /\ attempts \in Nat /\ tokens \in Nat
  <2>1. s.total_retries \in Nat /\ s.total_attempts \in Nat /\ s.tokens \in Nat
    BY DEF StatsType
  <2>2. ChargedTokens(mc) \in Nat
    BY <1>m DEF ChargedTokens, CallMetricsType
  <2> QED
    BY <1>m, <2>1, <2>2, AttemptsOfReport
<1>6. StatsAfter(s, mc) =
        [s EXCEPT !.success_count = succeeded, !.cache_hit_count = hits,
                  !.failure_count = failed, !.total_retries = retries,
                  !.total_attempts = attempts, !.calls_with_retries = retried,
                  !.recovered_count = recovered, !.tokens = tokens,
                  !.errors_by_category = errors, !.retries_histogram = histogram,
                  !.last_error_category = last]
  BY DEF StatsAfter, StatsType
<1> HIDE DEF errors, histogram, last, succeeded, hits, failed, retries, attempts, retried,
             recovered, tokens
<1> DEFINE n == [s EXCEPT !.success_count = succeeded, !.cache_hit_count = hits,
                  !.failure_count = failed, !.total_retries = retries,
                  !.total_attempts = attempts, !.calls_with_retries = retried,
                  !.recovered_count = recovered, !.tokens = tokens,
                  !.errors_by_category = errors, !.retries_histogram = histogram,
                  !.last_error_category = last]
<1>7. n \in StatsType
  BY <1>1, <1>2, <1>3, <1>4, <1>5 DEF StatsType
<1>8. /\ n.call_count = s.call_count /\ n.success_count = succeeded
      /\ n.cache_hit_count = hits /\ n.failure_count = failed
      /\ n.total_retries = retries /\ n.total_attempts = attempts
      /\ n.calls_with_retries = retried /\ n.recovered_count = recovered
      /\ n.tokens = tokens /\ n.errors_by_category = errors
      /\ n.retries_histogram = histogram
  BY DEF StatsType
<1>9. \A e \in Categories : errors[e] = s.errors_by_category[e] + FailuresIn(mc, e)
  BY ErrorsOfReport DEF errors
<1> HIDE DEF n
<1>10. StatsAfter(s, mc) = n
  BY <1>6 DEF n
<1> QED
  BY <1>7, <1>8, <1>9, <1>10, AttemptsOfReport
     DEF histogram, succeeded, hits, failed, retries, attempts, retried, recovered, tokens

\* The first half.
LEMMA StatsBegunFacts ==
    ASSUME NEW s \in StatsType
    PROVE  LET n == StatsBegun(s) IN
           /\ n \in StatsType
           /\ n.call_count = s.call_count + 1
           /\ n.success_count = s.success_count
           /\ n.cache_hit_count = s.cache_hit_count
           /\ n.failure_count = s.failure_count
           /\ n.total_retries = s.total_retries
           /\ n.total_attempts = s.total_attempts
           /\ n.calls_with_retries = s.calls_with_retries
           /\ n.recovered_count = s.recovered_count
           /\ n.tokens = s.tokens
           /\ n.errors_by_category = s.errors_by_category
           /\ n.retries_histogram = s.retries_histogram
<1> DEFINE k == s.call_count + 1
<1>1. k \in Nat
  BY DEF StatsType
<1>2. StatsBegun(s) = [s EXCEPT !.call_count = k]
  BY DEF StatsBegun
<1> HIDE DEF k
<1>3. /\ [s EXCEPT !.call_count = k] \in StatsType
      /\ [s EXCEPT !.call_count = k].call_count = k
  BY <1>1 DEF StatsType
<1> QED
  BY <1>2, <1>3 DEF k, StatsType

\* The same of _totals.
LEMMA TotalsAfterFacts ==
    ASSUME NEW t \in TotalsType, NEW mc \in Reports
    PROVE  LET n == TotalsAfter(t, mc) IN
           /\ n \in TotalsType
           /\ n.call_count = t.call_count + 1
           /\ n.success_count = t.success_count + One(mc.successful)
           /\ n.cache_hit_count = t.cache_hit_count + One(mc.cache_hit)
           /\ n.failure_count = t.failure_count + One(~mc.successful)
           /\ n.total_retries = t.total_retries + mc.retries
           /\ n.total_attempts = t.total_attempts + mc.attempts
           /\ n.calls_with_retries = t.calls_with_retries + One(mc.retries > 0)
           /\ n.recovered_count = t.recovered_count + One(mc.successful /\ mc.retries > 0)
           /\ n.tokens = t.tokens + ChargedTokens(mc)
<1> DEFINE calls == t.call_count + 1
           succeeded == t.success_count + One(mc.successful)
           hits == t.cache_hit_count + One(mc.cache_hit)
           failed == t.failure_count + One(~mc.successful)
           retries == t.total_retries + mc.retries
           attempts == t.total_attempts + AttemptsOf(mc)
           retried == t.calls_with_retries + One(mc.retries > 0)
           recovered == t.recovered_count + One(mc.successful /\ mc.retries > 0)
           tokens == t.tokens + ChargedTokens(mc)
<1>m. mc \in CallMetricsType /\ mc.retries \in Nat
  BY DEF Reports, CallMetricsType
<1>1. /\ calls \in Nat /\ succeeded \in Nat /\ hits \in Nat /\ failed \in Nat
      /\ retried \in Nat /\ recovered \in Nat
  <2>1. /\ t.success_count \in Nat /\ t.cache_hit_count \in Nat /\ t.failure_count \in Nat
        /\ t.calls_with_retries \in Nat /\ t.recovered_count \in Nat /\ t.call_count \in Nat
    BY DEF TotalsType
  <2> QED
    BY <2>1, OneFacts
<1>2. retries \in Nat /\ attempts \in Nat /\ tokens \in Nat
  <2>1. t.total_retries \in Nat /\ t.total_attempts \in Nat /\ t.tokens \in Nat
    BY DEF TotalsType
  <2>2. ChargedTokens(mc) \in Nat
    BY <1>m DEF ChargedTokens, CallMetricsType
  <2> QED
    BY <1>m, <2>1, <2>2, AttemptsOfReport
<1> DEFINE n == [t EXCEPT !.call_count = calls, !.success_count = succeeded,
                  !.cache_hit_count = hits, !.failure_count = failed,
                  !.total_retries = retries, !.total_attempts = attempts,
                  !.calls_with_retries = retried, !.recovered_count = recovered,
                  !.tokens = tokens]
<1>3. TotalsAfter(t, mc) = n
  BY DEF TotalsAfter, TotalsType
<1> HIDE DEF calls, succeeded, hits, failed, retries, attempts, retried, recovered, tokens
<1>4. n \in TotalsType
  BY <1>1, <1>2 DEF TotalsType
<1>5. /\ n.call_count = calls /\ n.success_count = succeeded
      /\ n.cache_hit_count = hits /\ n.failure_count = failed
      /\ n.total_retries = retries /\ n.total_attempts = attempts
      /\ n.calls_with_retries = retried /\ n.recovered_count = recovered
      /\ n.tokens = tokens
  BY DEF TotalsType
<1> HIDE DEF n
<1> QED
  BY <1>3, <1>4, <1>5, AttemptsOfReport
     DEF calls, succeeded, hits, failed, retries, attempts, retried, recovered, tokens

\* A successful report that the budget tracker turns into a failed one is again one.
LEMMA BreachedIsReport ==
    ASSUME NEW mc \in Reports, mc.successful, ~mc.cache_hit
    PROVE  MarkFailure(NoteAttemptFailure(mc, mc.retries, "backend")) \in Reports
<1> DEFINE errors == mc.attempt_errors
           entry  == [attempt |-> mc.retries, category |-> "backend"]
           more   == Append(errors, entry)
           n      == NoteAttemptFailure(mc, mc.retries, "backend")
           r      == MarkFailure(n)
<1>1. mc \in CallMetricsType /\ Accounted(mc) /\ mc.retries <= MaxRetries
  BY DEF Reports
<1>2. /\ mc.attempts \in Nat /\ mc.retries \in Nat /\ errors \in Seq(AttemptErrors)
      /\ entry \in AttemptErrors
  BY <1>1 DEF CallMetricsType, AttemptErrors, Categories
<1>3. more \in Seq(AttemptErrors) /\ Len(more) = Len(errors) + 1
  BY <1>2, AppendProperties
<1>4. Len(errors) \in Nat
  BY <1>2
<1>5. mc.attempts = Len(errors) + 1 /\ mc.retries = mc.attempts - 1
  <2>1. mc.attempts = Len(errors) + 1
    BY <1>1 DEF Accounted
  <2>2. mc.attempts # 0
    BY <1>4, <2>1
  <2> QED
    BY <1>1, <2>1, <2>2 DEF Accounted
<1>6. n = [mc EXCEPT !.attempt_errors = more, !.retries = mc.retries,
                     !.error_category = "backend"]
  BY DEF NoteAttemptFailure
<1> HIDE DEF more, entry
<1>7. /\ n \in CallMetricsType /\ n.attempts = mc.attempts /\ n.retries = mc.retries
      /\ n.attempt_errors = more /\ n.error_category = "backend" /\ n.cache_hit = mc.cache_hit
  BY <1>1, <1>2, <1>3, <1>6 DEF CallMetricsType, Categories
<1> HIDE DEF n
<1>8. r = [n EXCEPT !.successful = FALSE, !.retries = mc.retries]
  BY <1>2, <1>5, <1>7 DEF MarkFailure
<1>9. /\ r \in CallMetricsType /\ r.attempts = mc.attempts /\ r.retries = mc.retries
      /\ r.attempt_errors = more /\ r.successful = FALSE /\ r.cache_hit = mc.cache_hit
  BY <1>2, <1>7, <1>8 DEF CallMetricsType
<1> HIDE DEF r
<1>10. /\ r.attempts = Len(more) /\ Len(more) # 0
       /\ r.retries = r.attempts - 1
  BY <1>3, <1>4, <1>5, <1>9
<1>11. Accounted(r)
  <2>1. ~r.cache_hit
    BY <1>9
  <2>2. r.attempt_errors # << >>
    BY <1>9, <1>10
  <2>3. r.attempts = Len(r.attempt_errors) + IF r.successful THEN 1 ELSE 0
    BY <1>3, <1>4, <1>9, <1>10
  <2>4. r.retries = IF r.attempts = 0 THEN 0 ELSE r.attempts - 1
    BY <1>10
  <2> QED
    BY <2>1, <2>2, <2>3, <2>4 DEF Accounted
<1>12. r.retries <= MaxRetries
  BY <1>1, <1>9
<1>13. r \in Reports
  BY <1>9, <1>11, <1>12 DEF Reports
<1> QED
  BY <1>13 DEF r, n

\* What _history is cut to fits the limit.
LEMMA RetainedFacts ==
    ASSUME NEW h \in Seq(Calls)
    PROVE  Retained(h) \in Seq(Calls) /\ Len(Retained(h)) <= HistoryLimit
<1>1. Len(h) \in Nat /\ HistoryLimit \in Nat
  BY AggregatorAssumption
<1>2. CASE Len(h) <= HistoryLimit
  BY <1>2 DEF Retained
<1>3. CASE Len(h) > HistoryLimit
  <2> DEFINE k == Len(h) - HistoryLimit + 1
             n == Len(h)
  <2>1. k \in Int /\ n \in Int /\ k >= 1 /\ \A i \in k..n : h[i] \in Calls
    BY <1>1, <1>3
  <2>2. Retained(h) = SubSeq(h, k, n)
    BY <1>1, <1>3 DEF Retained
  <2>3. n - k + 1 = HistoryLimit /\ (k > n => HistoryLimit = 0)
    BY <1>1, <1>3
  <2> HIDE DEF k, n
  <2>4. /\ SubSeq(h, k, n) \in Seq(Calls)
        /\ Len(SubSeq(h, k, n)) = IF k <= n THEN n - k + 1 ELSE 0
    BY <2>1, SubSeqProperties
  <2> QED
    BY <1>1, <2>1, <2>2, <2>3, <2>4
<1> QED
  BY <1>1, <1>2, <1>3

-----------------------------------------------------------------------------
(***************************************************************************)
(* Type correctness, and that one call at a time holds the lock.           *)
(***************************************************************************)

OneAtATime ==
    \A c, d \in Calls : pc[c] = "recording" /\ pc[d] = "recording" => c = d

TypeInv ==
    /\ TypeOK
    /\ m \in [Calls -> Reports]
    /\ log \in Seq(Records)
    /\ OneAtATime
    /\ report.next = "none" <=> report.fn = NoFunction

LEMMA NewTypes == NewStats \in StatsType /\ NewTotals \in TotalsType /\ NoErrors \in Counts
                  /\ NoReport \in ReportType
<1>1. NoErrors \in Counts
  BY DEF NoErrors, Counts
<1>2. [r \in 0..MaxRetries |-> 0] \in [0..MaxRetries -> Nat]
  OBVIOUS
<1>3. NewStats \in StatsType
  BY <1>1, <1>2 DEF NewStats, StatsType
<1>4. NewTotals \in TotalsType
  BY DEF NewTotals, TotalsType
<1>5. NoReport \in ReportType
  BY <1>3 DEF NoReport, ReportType
<1> QED
  BY <1>1, <1>3, <1>4, <1>5

LEMMA InitType == Init => TypeInv
<1> SUFFICES ASSUME Init PROVE TypeInv
  OBVIOUS
<1>1. m \in [Calls -> Reports]
  <2>1. DOMAIN m = Calls /\ m = [c \in Calls |-> m[c]]
    BY DEF Init
  <2>2. ASSUME NEW c \in Calls PROVE m[c] \in Reports
    <3>1. m[c] \in OutcomesOf[c]
      BY DEF Init
    <3>2. m[c] \in CallMetricsType /\ m[c].retries <= MaxRetries
      BY <3>1, AggregatorAssumption
    <3> QED
      BY <3>1, <3>2, OutcomesAssumption DEF Reports
  <2> QED
    BY <2>1, <2>2
<1>2. m \in [Calls -> CallMetricsType]
  BY <1>1 DEF Reports
<1>3. << >> \in Seq(Records) /\ << >> \in Seq(Calls) /\ Len(<< >>) = 0
      /\ << >> \in Seq([call : Calls, m : CallMetricsType])
  OBVIOUS
<1>4. TypeOK
  BY <1>2, <1>3, NewTypes, AggregatorAssumption DEF Init, TypeOK
<1> QED
  BY <1>1, <1>3, <1>4 DEF Init, TypeInv, OneAtATime, NoReport

\* The log is typed as TypeOK has it.
LEMMA RecordTypes ==
    ASSUME NEW s \in Seq(Records)
    PROVE  s \in Seq([call : Calls, m : CallMetricsType])
<1>1. Records \subseteq [call : Calls, m : CallMetricsType]
  BY DEF Records, Reports
<1> QED
  BY <1>1, SeqMonotonic

LEMMA ObjectType == ASSUME TypeOK, report.fn # NoFunction PROVE Object \in StatsType
BY DEF TypeOK, ReportType, Object

LEMMA NextType == TypeInv /\ [Next]_vars => TypeInv'
<1> SUFFICES ASSUME TypeInv, [Next]_vars PROVE TypeInv'
  OBVIOUS
<1>t. /\ TypeOK /\ m \in [Calls -> Reports] /\ log \in Seq(Records) /\ OneAtATime
      /\ (report.next = "none" <=> report.fn = NoFunction)
  BY DEF TypeInv
<1>1. ASSUME NEW c \in Calls, RecordBegins(c) PROVE TypeInv'
  <2>1. StatsBegun(stats[FnOf[c]]) \in StatsType /\ FnOf[c] \in Functions
    <3>1. stats[FnOf[c]] \in StatsType /\ FnOf[c] \in Functions
      BY <1>t, AggregatorAssumption DEF TypeOK
    <3> QED
      BY <3>1, StatsBegunFacts
  <2>2. stats' \in [Functions -> StatsType]
    BY <1>1, <1>t, <2>1 DEF RecordBegins, TypeOK
  <2>3. pc' = [pc EXCEPT ![c] = "recording"] /\ \A d \in Calls : pc[d] # "recording"
    BY <1>1 DEF RecordBegins, Unlocked, Move
  <2>4. TypeOK'
    BY <1>1, <1>t, <2>2, <2>3 DEF RecordBegins, TypeOK
  <2>5. OneAtATime'
    BY <1>t, <2>3 DEF OneAtATime, TypeOK
  <2> QED
    BY <1>1, <1>t, <2>4, <2>5 DEF RecordBegins, TypeInv
<1>2. ASSUME NEW c \in Calls, RecordEnds(c) PROVE TypeInv'
  <2>1. stats[FnOf[c]] \in StatsType /\ FnOf[c] \in Functions /\ m[c] \in Reports
    BY <1>t, AggregatorAssumption DEF TypeOK
  <2>2. StatsAfter(stats[FnOf[c]], m[c]) \in StatsType
    BY <2>1, StatsAfterFacts
  <2>3. stats' \in [Functions -> StatsType]
    BY <1>2, <1>t, <2>1, <2>2 DEF RecordEnds, TypeOK
  <2>4. totals' \in TotalsType
    <3>1. TotalsAfter(totals, m[c]) \in TotalsType
      BY <1>t, <2>1, TotalsAfterFacts DEF TypeOK
    <3> QED
      BY <1>2, <3>1 DEF RecordEnds
  <2>5. categories' \in Counts
    <3>1. ASSUME NEW e \in Categories PROVE categories[e] + ErrorsOf(m[c])[e] \in Nat
      <4>1. categories[e] \in Nat
        BY <1>t DEF TypeOK, Counts
      <4>2. ErrorsOf(m[c])[e] \in Nat
        BY <2>1, ErrorsOfNat
      <4> QED
        BY <4>1, <4>2
    <3> QED
      BY <1>2, <3>1 DEF RecordEnds, Counts
  <2>6. history' \in Seq(Calls) /\ Len(history') <= HistoryLimit
    <3>1. Append(history, c) \in Seq(Calls)
      BY <1>t, AppendProperties DEF TypeOK
    <3> QED
      BY <1>2, <3>1, RetainedFacts DEF RecordEnds
  <2>7. log' \in Seq(Records)
    <3>1. [call |-> c, m |-> m[c]] \in Records
      BY <2>1 DEF Records
    <3>2. Append(log, [call |-> c, m |-> m[c]]) \in Seq(Records)
      BY <1>t, <3>1, AppendProperties
    <3> QED
      BY <1>2, <3>2 DEF RecordEnds
  <2>8. log' \in Seq([call : Calls, m : CallMetricsType])
    BY <2>7, RecordTypes
  <2>9. pc' = [pc EXCEPT ![c] = "callback"] /\ m' = m /\ collected' = collected
        /\ report' = report
    BY <1>2 DEF RecordEnds, Move
  <2>10. TypeOK'
    BY <1>t, <2>3, <2>4, <2>5, <2>6, <2>8, <2>9 DEF TypeOK
  <2>11. OneAtATime'
    BY <1>t, <2>9 DEF OneAtATime, TypeOK
  <2> QED
    BY <1>t, <2>7, <2>9, <2>10, <2>11 DEF TypeInv
<1>3. ASSUME NEW c \in Calls, Callback(c) PROVE TypeInv'
  <2>1. Append(collected, c) \in Seq(Calls)
    BY <1>t, AppendProperties DEF TypeOK
  <2> QED
    BY <1>3, <1>t, <2>1 DEF Callback, Move, TypeOK, TypeInv, OneAtATime
<1>4. ASSUME NEW c \in Calls, Breach(c) PROVE TypeInv'
  <2>1. MarkFailure(NoteAttemptFailure(m[c], m[c].retries, "backend")) \in Reports
    BY <1>4, <1>t, BreachedIsReport DEF Breach
  <2>2. m' = [m EXCEPT ![c] = MarkFailure(NoteAttemptFailure(m[c], m[c].retries, "backend"))]
    BY <1>4 DEF Breach
  <2>3. m' \in [Calls -> Reports]
    BY <1>t, <2>1, <2>2
  <2>4. m' \in [Calls -> CallMetricsType]
    BY <2>3 DEF Reports
  <2> QED
    BY <1>4, <1>t, <2>3, <2>4 DEF Breach, Move, TypeOK, TypeInv, OneAtATime
<1>5. ASSUME Reset PROVE TypeInv'
  <2>1. << >> \in Seq(Records) /\ << >> \in Seq(Calls) /\ Len(<< >>) = 0
        /\ << >> \in Seq([call : Calls, m : CallMetricsType])
    OBVIOUS
  <2>2. report' \in ReportType /\ report'.fn = report.fn /\ report'.next = report.next
    <3>1. CASE report.fn = NoFunction \/ report.detached
      BY <1>5, <1>t, <3>1 DEF Reset, TypeOK
    <3>2. CASE ~(report.fn = NoFunction \/ report.detached)
      <4>1. report.fn \in Functions /\ report \in ReportType
        BY <1>t, <3>2 DEF TypeOK, ReportType
      <4>2. stats[report.fn] \in StatsType
        BY <1>t, <4>1 DEF TypeOK
      <4>3. report' = [report EXCEPT !.detached = TRUE, !.object = stats[report.fn]]
        BY <1>5, <3>2 DEF Reset
      <4> QED
        BY <4>1, <4>2, <4>3 DEF ReportType
    <3> QED
      BY <3>1, <3>2
  <2>3. TypeOK'
    BY <1>5, <1>t, <2>1, <2>2, NewTypes, AggregatorAssumption DEF Reset, Cleared, TypeOK
  <2> QED
    BY <1>5, <1>t, <2>1, <2>2, <2>3 DEF Reset, Cleared, TypeInv, OneAtATime
<1>6. ASSUME report' \in ReportType, report'.next = "none" <=> report'.fn = NoFunction,
             UNCHANGED <<stats, totals, categories, history, m, pc, collected, log>>
      PROVE  TypeInv'
  BY <1>6, <1>t DEF TypeOK, TypeInv, OneAtATime
<1>7. ASSUME NEW f \in Functions, TopFunctions(f) PROVE TypeInv'
  <2>1. report' \in ReportType /\ report'.next = "call_count" /\ report'.fn = f
    BY <1>7, NewTypes DEF TopFunctions, ReportType
  <2> QED
    BY <1>6, <1>7, <2>1, AggregatorAssumption DEF TopFunctions
<1>8. ASSUME ReadField("call_count", "success_count") \/ ReadField("success_count", "failure_count")
             \/ ReadField("failure_count", "done")
      PROVE  TypeInv'
  <2>1. report \in ReportType /\ report.fn # NoFunction
    BY <1>t, <1>8 DEF TypeOK, ReadField
  <2>2. Object.call_count \in Nat /\ Object.success_count \in Nat /\ Object.failure_count \in Nat
    BY <1>t, <2>1, ObjectType DEF StatsType
  <2>3. /\ report' \in ReportType /\ report'.fn = report.fn
        /\ report'.next \in {"success_count", "failure_count", "done"}
    <3>1. CASE ReadField("call_count", "success_count")
      BY <3>1, <2>1, <2>2 DEF ReadField, ReportType
    <3>2. CASE ReadField("success_count", "failure_count")
      BY <3>2, <2>1, <2>2 DEF ReadField, ReportType
    <3>3. CASE ReadField("failure_count", "done")
      BY <3>3, <2>1, <2>2 DEF ReadField, ReportType
    <3> QED
      BY <1>8, <3>1, <3>2, <3>3
  <2> QED
    BY <1>6, <1>8, <2>1, <2>3 DEF ReadField
<1>9. ASSUME Deliver PROVE TypeInv'
  BY <1>6, <1>9, NewTypes DEF Deliver, NoReport
<1>10. ASSUME UNCHANGED vars PROVE TypeInv'
  BY <1>t, <1>10 DEF vars, TypeOK, TypeInv, OneAtATime
<1> QED
  BY <1>1, <1>2, <1>3, <1>4, <1>5, <1>7, <1>8, <1>9, <1>10 DEF Next

-----------------------------------------------------------------------------
(***************************************************************************)
(* EvalSignalsConsistent.  Between the two halves of record, which no      *)
(* reader of it sees, a function's call is counted and its outcome is not. *)
(***************************************************************************)

\* What EvalSignalsConsistent says of FunctionStats s, of which h calls are half recorded.
Consistent(s, h) ==
    /\ s.call_count = s.success_count + s.failure_count + h
    /\ SumFunction(s.errors_by_category) = s.total_attempts - s.success_count
    /\ s.recovered_count <= s.calls_with_retries
    /\ SumFunction(s.retries_histogram) = s.call_count - h
    /\ SumFunction([r \in 0..MaxRetries |-> r * s.retries_histogram[r]]) = s.total_retries
    /\ s.retries_histogram[0] = s.call_count - s.calls_with_retries - h

Held(f) == One(\E c \in Calls : pc[c] = "recording" /\ FnOf[c] = f)

SignalInv == \A f \in Functions : Consistent(stats[f], Held(f))

\* The sum over the three categories.
LEMMA CategorySum ==
    ASSUME NEW g \in [Categories -> Int]
    PROVE  SumFunction(g) = g["backend"] + g["parse"] + g["validation"]
<1>1. g["backend"] \in Int /\ g["parse"] \in Int /\ g["validation"] \in Int
  BY DEF Categories
<1>2. SumFunctionOnSet(g, {}) = 0 /\ IsFiniteSet({})
  BY SumOfNothing, FS_EmptySet
<1>3. SumFunctionOnSet(g, {"backend"}) = g["backend"]
  <2>1. SumFunctionOnSet(g, {} \union {"backend"}) = SumFunctionOnSet(g, {}) + g["backend"]
    BY <1>1, <1>2, SumWithOneMore
  <2>2. {} \union {"backend"} = {"backend"}
    OBVIOUS
  <2> QED
    BY <1>1, <1>2, <2>1, <2>2
<1>4. SumFunctionOnSet(g, {"backend", "parse"}) = g["backend"] + g["parse"]
  <2>1. IsFiniteSet({"backend"}) /\ "parse" \notin {"backend"}
        /\ \A y \in {"backend"} : g[y] \in Int
    BY <1>1, FS_Singleton
  <2>2. SumFunctionOnSet(g, {"backend"} \union {"parse"})
          = SumFunctionOnSet(g, {"backend"}) + g["parse"]
    BY <1>1, <2>1, SumWithOneMore
  <2>3. {"backend"} \union {"parse"} = {"backend", "parse"}
    OBVIOUS
  <2> QED
    BY <1>3, <2>2, <2>3
<1>5. SumFunctionOnSet(g, {"backend", "parse", "validation"})
        = g["backend"] + g["parse"] + g["validation"]
  <2> DEFINE S == {"backend", "parse"}
  <2>1. IsFiniteSet(S)
    <3>1. IsFiniteSet({"backend"})
      BY FS_Singleton
    <3>2. IsFiniteSet({"backend"} \union {"parse"})
      BY <3>1, FS_AddElement
    <3>3. {"backend"} \union {"parse"} = S
      OBVIOUS
    <3> QED
      BY <3>2, <3>3
  <2>2. "validation" \notin S /\ \A y \in S : g[y] \in Int
    BY <1>1
  <2>3. S \union {"validation"} = {"backend", "parse", "validation"}
    OBVIOUS
  <2> HIDE DEF S
  <2>4. SumFunctionOnSet(g, S \union {"validation"}) = SumFunctionOnSet(g, S) + g["validation"]
    BY <1>1, <2>1, <2>2, SumWithOneMore
  <2> QED
    BY <1>4, <2>3, <2>4 DEF S
<1> QED
  BY <1>5 DEF SumFunction, Categories

\* Each failed attempt is of one category.
LEMMA FailuresAddUp ==
    ASSUME NEW mc \in CallMetricsType
    PROVE  FailuresIn(mc, "backend") + FailuresIn(mc, "parse") + FailuresIn(mc, "validation")
             = Len(mc.attempt_errors)
<1> DEFINE errors == mc.attempt_errors
           D == DOMAIN errors
           A == {i \in D : errors[i].category = "backend"}
           B == {i \in D : errors[i].category = "parse"}
           C == {i \in D : errors[i].category = "validation"}
<1>1. errors \in Seq(AttemptErrors) /\ D = 1..Len(errors) /\ Len(errors) \in Nat
  BY DEF CallMetricsType
<1>2. IsFiniteSet(D) /\ Cardinality(D) = Len(errors)
  BY <1>1, FS_Interval
<1>3. \A i \in D : errors[i].category \in {"backend", "parse", "validation"}
  <2>1. \A i \in D : errors[i] \in AttemptErrors
    BY <1>1
  <2> QED
    BY <2>1 DEF AttemptErrors, Categories
<1>4. D = (A \union B) \union C /\ A \intersect B = {} /\ (A \union B) \intersect C = {}
  BY <1>3
<1>5. IsFiniteSet(A) /\ IsFiniteSet(B) /\ IsFiniteSet(C) /\ IsFiniteSet(A \union B)
  <2>1. A \in SUBSET D /\ B \in SUBSET D /\ C \in SUBSET D /\ A \union B \in SUBSET D
    OBVIOUS
  <2> HIDE DEF A, B, C, D
  <2> QED
    BY <1>2, <2>1, FS_Subset
<1>6. /\ Cardinality(A) \in Nat /\ Cardinality(B) \in Nat /\ Cardinality(C) \in Nat
      /\ Cardinality(A \union B) \in Nat
  BY <1>5, FS_CardinalityType
<1>7. /\ FailuresIn(mc, "backend") = Cardinality(A) /\ FailuresIn(mc, "parse") = Cardinality(B)
      /\ FailuresIn(mc, "validation") = Cardinality(C)
  BY DEF FailuresIn
<1> HIDE DEF A, B, C, D
<1>8. Cardinality(A \union B) = Cardinality(A) + Cardinality(B)
  <2>1. Cardinality(A \union B) = Cardinality(A) + Cardinality(B) - Cardinality(A \intersect B)
    BY <1>5, FS_Union
  <2>2. Cardinality(A \intersect B) = 0
    BY <1>4, FS_EmptySet
  <2> QED
    BY <1>6, <2>1, <2>2
<1>9. Cardinality(D) = Cardinality(A \union B) + Cardinality(C)
  <2>1. Cardinality((A \union B) \union C)
          = Cardinality(A \union B) + Cardinality(C) - Cardinality((A \union B) \intersect C)
    BY <1>5, FS_Union
  <2>2. Cardinality((A \union B) \intersect C) = 0
    BY <1>4, FS_EmptySet
  <2>3. Cardinality((A \union B) \union C) = Cardinality(A \union B) + Cardinality(C)
    BY <1>6, <2>1, <2>2
  <2> QED
    BY <1>4, <2>3
<1> QED
  BY <1>2, <1>6, <1>7, <1>8, <1>9

LEMMA NewConsistent == Consistent(NewStats, 0)
<1> DEFINE none == [r \in 0..MaxRetries |-> 0]
           weighted == [r \in 0..MaxRetries |-> r * none[r]]
<1>1. SumFunction(NoErrors) = 0
  <2>1. NoErrors \in [Categories -> Int] /\ NoErrors["backend"] = 0 /\ NoErrors["parse"] = 0
        /\ NoErrors["validation"] = 0
    BY DEF NoErrors, Categories
  <2> QED
    BY <2>1, CategorySum
<1>2. IsFiniteSet(0..MaxRetries) /\ 0 \in 0..MaxRetries
  BY AggregatorAssumption, FS_Interval
<1>3. SumFunctionOnSet(none, 0..MaxRetries) = 0
  BY <1>2, SumOfZeros
<1>4. \A r \in 0..MaxRetries : weighted[r] = 0
  BY AggregatorAssumption
<1>5. DOMAIN none = 0..MaxRetries /\ DOMAIN weighted = 0..MaxRetries /\ none[0] = 0
  BY <1>2
<1> HIDE DEF weighted
<1>6. SumFunctionOnSet(weighted, 0..MaxRetries) = 0
  BY <1>2, <1>4, SumOfZeros
<1>7. SumFunction(none) = 0 /\ SumFunction(weighted) = 0
  BY <1>3, <1>5, <1>6 DEF SumFunction
<1>8. /\ NewStats.retries_histogram = none /\ NewStats.errors_by_category = NoErrors
      /\ NewStats.call_count = 0 /\ NewStats.success_count = 0 /\ NewStats.failure_count = 0
      /\ NewStats.total_attempts = 0 /\ NewStats.recovered_count = 0
      /\ NewStats.calls_with_retries = 0 /\ NewStats.total_retries = 0
  BY DEF NewStats
<1>9. [r \in 0..MaxRetries |-> r * NewStats.retries_histogram[r]] = weighted
  BY <1>8 DEF weighted
<1> HIDE DEF none
<1> DEFINE s == NewStats
<1>10. s.call_count = s.success_count + s.failure_count + 0
  BY <1>8
<1>11. SumFunction(s.errors_by_category) = s.total_attempts - s.success_count
  BY <1>1, <1>8
<1>12. s.recovered_count <= s.calls_with_retries
  BY <1>8
<1>13. SumFunction(s.retries_histogram) = s.call_count - 0
  BY <1>7, <1>8
<1>14. SumFunction([r \in 0..MaxRetries |-> r * s.retries_histogram[r]]) = s.total_retries
  BY <1>7, <1>8, <1>9
<1>15. s.retries_histogram[0] = s.call_count - s.calls_with_retries - 0
  BY <1>5, <1>8
<1> HIDE DEF s
<1>16. Consistent(s, 0)
  BY <1>10, <1>11, <1>12, <1>13, <1>14, <1>15 DEF Consistent
<1> QED
  BY <1>16 DEF s

LEMMA BegunConsistent ==
    ASSUME NEW s \in StatsType, Consistent(s, 0)
    PROVE  Consistent(StatsBegun(s), 1)
<1> DEFINE n == StatsBegun(s)
<1>1. /\ n.call_count = s.call_count + 1 /\ n.success_count = s.success_count
      /\ n.failure_count = s.failure_count /\ n.total_retries = s.total_retries
      /\ n.total_attempts = s.total_attempts /\ n.recovered_count = s.recovered_count
      /\ n.calls_with_retries = s.calls_with_retries
      /\ n.errors_by_category = s.errors_by_category
      /\ n.retries_histogram = s.retries_histogram
  BY StatsBegunFacts
<1> HIDE DEF n
<1>2. s.call_count \in Nat /\ s.success_count \in Nat /\ s.failure_count \in Nat
      /\ s.calls_with_retries \in Nat
  BY DEF StatsType
<1>3. n.call_count = n.success_count + n.failure_count + 1
  BY <1>1, <1>2 DEF Consistent
<1>4. SumFunction(n.errors_by_category) = n.total_attempts - n.success_count
  BY <1>1 DEF Consistent
<1>5. n.recovered_count <= n.calls_with_retries
  BY <1>1 DEF Consistent
<1>6. SumFunction(n.retries_histogram) = n.call_count - 1
  <2>1. SumFunction(s.retries_histogram) = s.call_count - 0
    BY DEF Consistent
  <2> QED
    BY <1>1, <1>2, <2>1
<1>7. SumFunction([r \in 0..MaxRetries |-> r * n.retries_histogram[r]]) = n.total_retries
  BY <1>1 DEF Consistent
<1>8. n.retries_histogram[0] = n.call_count - n.calls_with_retries - 1
  <2>1. s.retries_histogram[0] = s.call_count - s.calls_with_retries - 0
    BY DEF Consistent
  <2> QED
    BY <1>1, <1>2, <2>1
<1>9. Consistent(n, 1)
  BY <1>3, <1>4, <1>5, <1>6, <1>7, <1>8 DEF Consistent
<1> QED
  BY <1>9 DEF n

\* One more of r in a retries histogram h.
LEMMA HistogramCounts ==
    ASSUME NEW h \in [0..MaxRetries -> Nat], NEW x \in 0..MaxRetries
    PROVE  LET n == [h EXCEPT ![x] = @ + 1] IN
           /\ SumFunction(n) = SumFunction(h) + 1
           /\ SumFunction([r \in 0..MaxRetries |-> r * n[r]])
                = SumFunction([r \in 0..MaxRetries |-> r * h[r]]) + x
           /\ n[0] = h[0] + One(x = 0)
<1> DEFINE n == [h EXCEPT ![x] = @ + 1]
           R == 0..MaxRetries
           v == [r \in R |-> r * h[r]]
           w == [r \in R |-> r * n[r]]
<1>1. IsFiniteSet(R) /\ 0 \in R
  BY AggregatorAssumption, FS_Interval
<1>2. DOMAIN h = R /\ DOMAIN n = R /\ n[x] = h[x] + 1 /\ \A r \in R \ {x} : n[r] = h[r]
  OBVIOUS
<1>3. \A r \in R : r \in Int /\ h[r] \in Int
  BY AggregatorAssumption
<1>4. x \in R
  OBVIOUS
<1>5. \A r \in R : n[r] \in Int
  BY <1>2, <1>3
<1> HIDE DEF n, R
<1>6. \A r \in R : v[r] = r * h[r] /\ w[r] = r * n[r]
  OBVIOUS
<1>7. \A r \in R : v[r] \in Int /\ w[r] \in Int
  <2>1. \A i, j \in Int : i * j \in Int
    OBVIOUS
  <2> QED
    BY <1>3, <1>5, <1>6, <2>1
<1>8. w[x] - v[x] = x
  <2>1. \A i, j \in Int : i * (j + 1) - i * j = i
    OBVIOUS
  <2> QED
    BY <1>2, <1>3, <1>4, <1>6, <2>1
<1>9. \A r \in R \ {x} : w[r] = v[r]
  BY <1>2, <1>6
<1>10. DOMAIN v = R /\ DOMAIN w = R
  OBVIOUS
<1> HIDE DEF v, w
<1>11. SumFunction(n) = SumFunction(h) + 1
  <2>1. SumFunctionOnSet(n, R) = SumFunctionOnSet(h, R) + (n[x] - h[x])
    <3>1. \A y \in R : h[y] \in Int /\ n[y] \in Int
      BY <1>3, <1>5
    <3>2. \A y \in R \ {x} : n[y] = h[y]
      BY <1>2
    <3> QED
      BY <1>1, <1>4, <3>1, <3>2, SumChangedAtOne
  <2>2. n[x] - h[x] = 1
    BY <1>2, <1>3, <1>4
  <2> QED
    BY <1>2, <2>1, <2>2 DEF SumFunction
<1>12. SumFunction(w) = SumFunction(v) + x
  <2>1. SumFunctionOnSet(w, R) = SumFunctionOnSet(v, R) + (w[x] - v[x])
    BY <1>1, <1>4, <1>7, <1>9, SumChangedAtOne
  <2> QED
    BY <1>8, <1>10, <2>1 DEF SumFunction
<1>13. n[0] = h[0] + One(x = 0)
  <2>1. CASE x = 0
    BY <1>2, <2>1 DEF One
  <2>2. CASE x # 0
    BY <1>1, <1>2, <1>3, <2>2 DEF One
  <2> QED
    BY <2>1, <2>2
<1> QED
  BY <1>11, <1>12, <1>13 DEF n, v, w, R

LEMMA AfterConsistent ==
    ASSUME NEW s \in StatsType, NEW mc \in Reports, Consistent(s, 1)
    PROVE  Consistent(StatsAfter(s, mc), 0)
<1> DEFINE n == StatsAfter(s, mc)
<1>1. /\ n \in StatsType
      /\ n.call_count = s.call_count
      /\ n.success_count = s.success_count + One(mc.successful)
      /\ n.failure_count = s.failure_count + One(~mc.successful)
      /\ n.total_retries = s.total_retries + mc.retries
      /\ n.total_attempts = s.total_attempts + mc.attempts
      /\ n.calls_with_retries = s.calls_with_retries + One(mc.retries > 0)
      /\ n.recovered_count = s.recovered_count + One(mc.successful /\ mc.retries > 0)
      /\ \A e \in Categories :
           n.errors_by_category[e] = s.errors_by_category[e] + FailuresIn(mc, e)
      /\ n.retries_histogram = [s.retries_histogram EXCEPT ![mc.retries] = @ + 1]
  BY StatsAfterFacts
<1> HIDE DEF n
<1>2. /\ s.call_count \in Nat /\ s.success_count \in Nat /\ s.failure_count \in Nat
      /\ s.calls_with_retries \in Nat /\ s.recovered_count \in Nat
      /\ s.total_attempts \in Nat /\ s.total_retries \in Nat
      /\ s.retries_histogram \in [0..MaxRetries -> Nat]
      /\ s.errors_by_category \in [Categories -> Nat]
  BY DEF StatsType, Counts
<1>3. /\ mc \in CallMetricsType /\ mc.retries \in 0..MaxRetries /\ mc.attempts \in Nat
      /\ mc.successful \in BOOLEAN /\ Len(mc.attempt_errors) \in Nat
  <2>1. mc \in CallMetricsType /\ mc.retries <= MaxRetries
    BY DEF Reports
  <2>2. mc.attempt_errors \in Seq(AttemptErrors)
    BY <2>1 DEF CallMetricsType
  <2> QED
    BY <2>1, <2>2, AggregatorAssumption DEF CallMetricsType
<1>4. mc.attempts = Len(mc.attempt_errors) + One(mc.successful)
  BY DEF Reports, Accounted, One
<1>5. n.call_count = n.success_count + n.failure_count + 0
  <2>1. One(mc.successful) + One(~mc.successful) = 1
    BY DEF One
  <2>2. s.call_count = s.success_count + s.failure_count + 1
    BY DEF Consistent
  <2> QED
    BY <1>1, <1>2, <2>1, <2>2, OneFacts
<1>6. SumFunction(n.errors_by_category) = n.total_attempts - n.success_count
  <2> DEFINE E == s.errors_by_category
             G == n.errors_by_category
  <2>1. E \in [Categories -> Int]
    BY <1>2
  <2>2. G \in [Categories -> Int]
    BY <1>1 DEF StatsType, Counts
  <2>3. /\ G["backend"] = E["backend"] + FailuresIn(mc, "backend")
        /\ G["parse"] = E["parse"] + FailuresIn(mc, "parse")
        /\ G["validation"] = E["validation"] + FailuresIn(mc, "validation")
    BY <1>1 DEF Categories
  <2>4. SumFunction(E) = E["backend"] + E["parse"] + E["validation"]
    BY <2>1, CategorySum
  <2>5. SumFunction(G) = G["backend"] + G["parse"] + G["validation"]
    BY <2>2, CategorySum
  <2>6. FailuresIn(mc, "backend") + FailuresIn(mc, "parse") + FailuresIn(mc, "validation")
          = Len(mc.attempt_errors)
    BY <1>3, FailuresAddUp
  <2>7. /\ FailuresIn(mc, "backend") \in Nat /\ FailuresIn(mc, "parse") \in Nat
        /\ FailuresIn(mc, "validation") \in Nat
    BY <1>3, FailuresInNat
  <2>8. E["backend"] \in Int /\ E["parse"] \in Int /\ E["validation"] \in Int
    BY <2>1 DEF Categories
  <2>9. SumFunction(E) = s.total_attempts - s.success_count
    BY DEF Consistent
  <2> HIDE DEF E, G
  <2>10. SumFunction(G) = SumFunction(E) + Len(mc.attempt_errors)
    BY <2>3, <2>4, <2>5, <2>6, <2>7, <2>8
  <2> DEFINE o == One(mc.successful)
             len == Len(mc.attempt_errors)
  <2>11. o \in Int /\ len \in Int /\ mc.attempts = len + o
    BY <1>3, <1>4, OneFacts
  <2>12. /\ n.success_count = s.success_count + o
         /\ n.total_attempts = s.total_attempts + mc.attempts
    BY <1>1
  <2> HIDE DEF o
  <2>13. SumFunction(G) = SumFunction(E) + len
    BY <2>10
  <2> HIDE DEF len
  <2>14. SumFunction(G) = n.total_attempts - n.success_count
    BY <1>2, <2>9, <2>11, <2>12, <2>13
  <2> QED
    BY <2>14 DEF G
<1>7. n.recovered_count <= n.calls_with_retries
  <2>1. One(mc.successful /\ mc.retries > 0) <= One(mc.retries > 0)
    BY DEF One
  <2>2. s.recovered_count <= s.calls_with_retries
    BY DEF Consistent
  <2> QED
    BY <1>1, <1>2, <2>1, <2>2, OneFacts
<1>8. /\ SumFunction(n.retries_histogram) = SumFunction(s.retries_histogram) + 1
      /\ SumFunction([r \in 0..MaxRetries |-> r * n.retries_histogram[r]])
           = SumFunction([r \in 0..MaxRetries |-> r * s.retries_histogram[r]]) + mc.retries
      /\ n.retries_histogram[0] = s.retries_histogram[0] + One(mc.retries = 0)
  <2> DEFINE h == s.retries_histogram
             x == mc.retries
             k == [h EXCEPT ![x] = @ + 1]
  <2>1. h \in [0..MaxRetries -> Nat] /\ x \in 0..MaxRetries
    BY <1>2, <1>3
  <2> HIDE DEF h, x
  <2>2. /\ SumFunction(k) = SumFunction(h) + 1
        /\ SumFunction([r \in 0..MaxRetries |-> r * k[r]])
             = SumFunction([r \in 0..MaxRetries |-> r * h[r]]) + x
        /\ k[0] = h[0] + One(x = 0)
    BY <2>1, HistogramCounts
  <2>3. n.retries_histogram = k
    BY <1>1 DEF h, x
  <2> HIDE DEF k
  <2> QED
    BY <2>2, <2>3 DEF h, x
<1>9. SumFunction(n.retries_histogram) = n.call_count - 0
  <2>1. SumFunction(s.retries_histogram) = s.call_count - 1
    BY DEF Consistent
  <2> QED
    BY <1>1, <1>2, <1>8, <2>1
<1>10. SumFunction([r \in 0..MaxRetries |-> r * n.retries_histogram[r]]) = n.total_retries
  BY <1>1, <1>8 DEF Consistent
<1>11. n.retries_histogram[0] = n.call_count - n.calls_with_retries - 0
  <2>1. s.retries_histogram[0] = s.call_count - s.calls_with_retries - 1
    BY DEF Consistent
  <2>2. One(mc.retries = 0) + One(mc.retries > 0) = 1
    BY <1>3 DEF One
  <2> QED
    BY <1>1, <1>2, <1>8, <2>1, <2>2, OneFacts
<1>12. Consistent(n, 0)
  BY <1>5, <1>6, <1>7, <1>9, <1>10, <1>11 DEF Consistent
<1> QED
  BY <1>12 DEF n

\* Who holds the lock before and after a step.
LEMMA HeldFacts ==
    ASSUME TypeInv
    PROVE  /\ Unlocked => \A f \in Functions : Held(f) = 0
           /\ \A c \in Calls : RecordBegins(c) =>
                /\ \A f \in Functions : Held(f) = 0
                /\ \A f \in Functions : Held(f)' = One(f = FnOf[c])
           /\ \A c \in Calls : RecordEnds(c) =>
                /\ \A f \in Functions : Held(f) = One(f = FnOf[c])
                /\ \A f \in Functions : Held(f)' = 0
           /\ \A c \in Calls : Callback(c) \/ Breach(c) =>
                \A f \in Functions : Held(f)' = Held(f)
<1>t. pc \in [Calls -> {"running", "recording", "callback", "reported"}] /\ OneAtATime
  BY DEF TypeInv, TypeOK
<1>1. Unlocked => \A f \in Functions : Held(f) = 0
  BY DEF Unlocked, Held, One
<1>2. ASSUME NEW c \in Calls, RecordBegins(c), NEW f \in Functions
      PROVE  Held(f) = 0 /\ Held(f)' = One(f = FnOf[c])
  <2>1. Held(f) = 0
    BY <1>1, <1>2 DEF RecordBegins
  <2>2. \A d \in Calls : pc'[d] = "recording" <=> d = c
    BY <1>t, <1>2 DEF RecordBegins, Unlocked, Move
  <2>3. (\E d \in Calls : pc'[d] = "recording" /\ FnOf[d] = f) <=> f = FnOf[c]
    BY <2>2
  <2> QED
    BY <2>1, <2>3 DEF Held, One
<1>3. ASSUME NEW c \in Calls, RecordEnds(c), NEW f \in Functions
      PROVE  Held(f) = One(f = FnOf[c]) /\ Held(f)' = 0
  <2>1. \A d \in Calls : pc[d] = "recording" <=> d = c
    BY <1>t, <1>3 DEF RecordEnds, Move, OneAtATime
  <2>2. \A d \in Calls : pc'[d] # "recording"
    BY <1>t, <1>3, <2>1 DEF RecordEnds, Move
  <2>3. (\E d \in Calls : pc[d] = "recording" /\ FnOf[d] = f) <=> f = FnOf[c]
    BY <2>1
  <2> QED
    BY <2>2, <2>3 DEF Held, One
<1>4. ASSUME NEW c \in Calls, Callback(c) \/ Breach(c), NEW f \in Functions
      PROVE  Held(f)' = Held(f)
  <2>1. \A d \in Calls : pc'[d] = "recording" <=> pc[d] = "recording"
    BY <1>t, <1>4 DEF Callback, Breach, Move
  <2> QED
    BY <2>1 DEF Held
<1> QED
  BY <1>1, <1>2, <1>3, <1>4

LEMMA InitSignal == Init => SignalInv
<1> SUFFICES ASSUME Init, NEW f \in Functions PROVE Consistent(stats[f], Held(f))
  BY DEF SignalInv
<1>1. stats[f] = NewStats
  BY DEF Init
<1>2. Held(f) = 0
  BY DEF Init, Held, One
<1> QED
  BY <1>1, <1>2, NewConsistent

LEMMA NextSignal == TypeInv /\ SignalInv /\ [Next]_vars => SignalInv'
<1> SUFFICES ASSUME TypeInv, SignalInv, [Next]_vars, NEW f \in Functions
             PROVE  Consistent(stats[f], Held(f))'
  BY DEF SignalInv
<1>t. /\ stats \in [Functions -> StatsType] /\ m \in [Calls -> Reports]
      /\ \A c \in Calls : FnOf[c] \in Functions
  BY AggregatorAssumption DEF TypeInv, TypeOK
<1>s. stats[f] \in StatsType /\ Consistent(stats[f], Held(f))
  BY <1>t DEF SignalInv
<1>1. ASSUME NEW c \in Calls, RecordBegins(c) PROVE Consistent(stats[f], Held(f))'
  <2>1. Held(f) = 0 /\ Held(f)' = One(f = FnOf[c])
    BY <1>1, HeldFacts
  <2>2. stats' = [stats EXCEPT ![FnOf[c]] = StatsBegun(@)]
    BY <1>1 DEF RecordBegins
  <2>3. CASE f = FnOf[c]
    <3>1. stats'[f] = StatsBegun(stats[f]) /\ Held(f)' = 1
      BY <1>t, <2>1, <2>2, <2>3, OneFacts
    <3>2. Consistent(StatsBegun(stats[f]), 1)
      BY <1>s, <2>1, BegunConsistent
    <3> QED
      BY <3>1, <3>2
  <2>4. CASE f # FnOf[c]
    <3>1. stats'[f] = stats[f] /\ Held(f)' = 0
      BY <1>t, <2>1, <2>2, <2>4, OneFacts
    <3> QED
      BY <1>s, <2>1, <3>1
  <2> QED
    BY <2>3, <2>4
<1>2. ASSUME NEW c \in Calls, RecordEnds(c) PROVE Consistent(stats[f], Held(f))'
  <2>1. Held(f) = One(f = FnOf[c]) /\ Held(f)' = 0
    BY <1>2, HeldFacts
  <2>2. stats' = [stats EXCEPT ![FnOf[c]] = StatsAfter(@, m[c])]
    BY <1>2 DEF RecordEnds
  <2>3. CASE f = FnOf[c]
    <3>1. stats'[f] = StatsAfter(stats[f], m[c]) /\ Held(f) = 1
      BY <1>t, <2>1, <2>2, <2>3, OneFacts
    <3>2. Consistent(StatsAfter(stats[f], m[c]), 0)
      BY <1>s, <1>t, <3>1, AfterConsistent
    <3> QED
      BY <2>1, <3>1, <3>2
  <2>4. CASE f # FnOf[c]
    <3>1. stats'[f] = stats[f] /\ Held(f) = 0
      BY <1>t, <2>1, <2>2, <2>4, OneFacts
    <3> QED
      BY <1>s, <2>1, <3>1
  <2> QED
    BY <2>3, <2>4
<1>3. ASSUME NEW c \in Calls, Callback(c) \/ Breach(c) PROVE Consistent(stats[f], Held(f))'
  <2>1. Held(f)' = Held(f) /\ stats' = stats
    BY <1>3, HeldFacts DEF Callback, Breach
  <2> QED
    BY <1>s, <2>1
<1>4. ASSUME Reset PROVE Consistent(stats[f], Held(f))'
  <2>1. stats'[f] = NewStats /\ Unlocked /\ pc' = pc
    BY <1>4 DEF Reset, Cleared
  <2>2. Held(f)' = 0
    BY <2>1, HeldFacts DEF Held
  <2> QED
    BY <2>1, <2>2, NewConsistent
<1>5. ASSUME UNCHANGED <<stats, pc>> PROVE Consistent(stats[f], Held(f))'
  BY <1>5, <1>s DEF Held
<1>6. ASSUME \/ \E g \in Functions : TopFunctions(g)
             \/ ReadField("call_count", "success_count")
             \/ ReadField("success_count", "failure_count")
             \/ ReadField("failure_count", "done")
             \/ Deliver \/ UNCHANGED vars
      PROVE  UNCHANGED <<stats, pc>>
  BY <1>6 DEF TopFunctions, ReadField, Deliver, vars
<1> QED
  BY <1>1, <1>2, <1>3, <1>4, <1>5, <1>6 DEF Next

LEMMA TypeInvariant == Spec => []TypeInv
BY InitType, NextType, PTL DEF Spec

LEMMA SignalInvariant == Spec => []SignalInv
BY InitSignal, NextSignal, TypeInvariant, PTL DEF Spec

\* Every variable keeps its type, for any reports that the executor may make.
THEOREM TypeCorrect == Spec => []TypeOK
<1>1. TypeInv => TypeOK
  BY DEF TypeInv
<1> QED
  BY <1>1, TypeInvariant, PTL

\* The statistics that an evaluation is read from agree with each other whenever the
\* lock is free: calls with outcomes, attempts with failure categories, recoveries and
\* the histogram with the retries.
THEOREM EvalSignalsAgree == Spec => []EvalSignalsConsistent
<1>1. TypeInv /\ SignalInv => EvalSignalsConsistent
  <2> SUFFICES ASSUME TypeInv, SignalInv, Unlocked, NEW f \in Functions
               PROVE  LET s == stats[f] IN
                      /\ s.call_count = s.success_count + s.failure_count
                      /\ SumFunction(s.errors_by_category) = s.total_attempts - s.success_count
                      /\ s.recovered_count <= s.calls_with_retries
                      /\ SumFunction(s.retries_histogram) = s.call_count
                      /\ SumFunction([r \in 0..MaxRetries |-> r * s.retries_histogram[r]])
                           = s.total_retries
                      /\ s.retries_histogram[0] = s.call_count - s.calls_with_retries
    BY DEF EvalSignalsConsistent
  <2> DEFINE s == stats[f]
  <2>1. Consistent(s, 0)
    BY HeldFacts DEF SignalInv
  <2>2. s \in StatsType
    BY DEF TypeInv, TypeOK
  <2> HIDE DEF s
  <2>3. /\ s.call_count \in Nat /\ s.success_count \in Nat /\ s.failure_count \in Nat
        /\ s.calls_with_retries \in Nat
    BY <2>2 DEF StatsType
  <2>4. s.call_count = s.success_count + s.failure_count
    BY <2>1, <2>3 DEF Consistent
  <2>5. SumFunction(s.retries_histogram) = s.call_count
    <3>1. SumFunction(s.retries_histogram) = s.call_count - 0
      BY <2>1 DEF Consistent
    <3> QED
      BY <2>3, <3>1
  <2>6. s.retries_histogram[0] = s.call_count - s.calls_with_retries
    <3>1. s.retries_histogram[0] = s.call_count - s.calls_with_retries - 0
      BY <2>1 DEF Consistent
    <3> QED
      BY <2>3, <3>1
  <2>7. /\ SumFunction(s.errors_by_category) = s.total_attempts - s.success_count
        /\ s.recovered_count <= s.calls_with_retries
        /\ SumFunction([r \in 0..MaxRetries |-> r * s.retries_histogram[r]]) = s.total_retries
    BY <2>1 DEF Consistent
  <2> QED
    BY <2>4, <2>5, <2>6, <2>7 DEF s
<1> QED
  BY <1>1, TypeInvariant, SignalInvariant, PTL

-----------------------------------------------------------------------------
(***************************************************************************)
(* ReportNeverOvercounts.  The counters of a FunctionStats only grow, and  *)
(* one that a reset has dropped stays as it was: what a row has read of it *)
(* is never more than what it holds.                                       *)
(***************************************************************************)

\* Row r shows no more than FunctionStats s.
Covers(s, r) ==
    /\ r.call_count <= s.call_count
    /\ r.success_count <= s.success_count
    /\ r.failure_count <= s.failure_count

RowInv ==
    /\ report.detached =>
         report.object.success_count + report.object.failure_count <= report.object.call_count
    /\ report.fn # NoFunction => Covers(Object, report)

\* A step other than a reset lets the counters grow.
LEMMA CountersGrow ==
    ASSUME TypeInv, Next, ~Reset, NEW f \in Functions
    PROVE  Covers(stats'[f], stats[f])
<1>t. /\ stats \in [Functions -> StatsType] /\ m \in [Calls -> Reports]
      /\ \A c \in Calls : FnOf[c] \in Functions
  BY AggregatorAssumption DEF TypeInv, TypeOK
<1>n. /\ stats[f] \in StatsType /\ stats[f].call_count \in Nat
      /\ stats[f].success_count \in Nat /\ stats[f].failure_count \in Nat
  BY <1>t DEF StatsType
<1>0. ASSUME stats'[f] = stats[f] PROVE Covers(stats'[f], stats[f])
  BY <1>0, <1>n DEF Covers
<1>1. ASSUME NEW c \in Calls, RecordBegins(c) PROVE Covers(stats'[f], stats[f])
  <2>1. CASE f = FnOf[c]
    <3>1. stats'[f] = StatsBegun(stats[f])
      BY <1>1, <1>t, <2>1 DEF RecordBegins
    <3>2. /\ StatsBegun(stats[f]).call_count = stats[f].call_count + 1
          /\ StatsBegun(stats[f]).success_count = stats[f].success_count
          /\ StatsBegun(stats[f]).failure_count = stats[f].failure_count
      BY <1>n, StatsBegunFacts
    <3> QED
      BY <1>n, <3>1, <3>2 DEF Covers
  <2>2. CASE f # FnOf[c]
    BY <1>0, <1>1, <1>t, <2>2 DEF RecordBegins
  <2> QED
    BY <2>1, <2>2
<1>2. ASSUME NEW c \in Calls, RecordEnds(c) PROVE Covers(stats'[f], stats[f])
  <2>1. CASE f = FnOf[c]
    <3>1. stats'[f] = StatsAfter(stats[f], m[c]) /\ m[c] \in Reports
      BY <1>2, <1>t, <2>1 DEF RecordEnds
    <3>2. /\ StatsAfter(stats[f], m[c]).call_count = stats[f].call_count
          /\ StatsAfter(stats[f], m[c]).success_count
               = stats[f].success_count + One(m[c].successful)
          /\ StatsAfter(stats[f], m[c]).failure_count
               = stats[f].failure_count + One(~m[c].successful)
      BY <1>n, <3>1, StatsAfterFacts
    <3> QED
      BY <1>n, <3>1, <3>2, OneFacts DEF Covers
  <2>2. CASE f # FnOf[c]
    BY <1>0, <1>2, <1>t, <2>2 DEF RecordEnds
  <2> QED
    BY <2>1, <2>2
<1>3. ASSUME \/ \E c \in Calls : Callback(c) \/ Breach(c)
             \/ \E g \in Functions : TopFunctions(g)
             \/ ReadField("call_count", "success_count")
             \/ ReadField("success_count", "failure_count")
             \/ ReadField("failure_count", "done")
             \/ Deliver
      PROVE  Covers(stats'[f], stats[f])
  BY <1>0, <1>3 DEF Callback, Breach, TopFunctions, ReadField, Deliver
<1> QED
  BY <1>1, <1>2, <1>3 DEF Next

LEMMA InitRow == Init => RowInv
BY DEF Init, RowInv, NoReport

LEMMA NextRow == TypeInv /\ SignalInv /\ RowInv /\ [Next]_vars => RowInv'
<1> SUFFICES ASSUME TypeInv, SignalInv, RowInv, [Next]_vars PROVE RowInv'
  OBVIOUS
<1>t. /\ report \in ReportType /\ stats \in [Functions -> StatsType]
      /\ report.next = "none" <=> report.fn = NoFunction
      /\ NoFunction \notin Functions
  BY AggregatorAssumption DEF TypeInv, TypeOK
<1>o. ASSUME report.fn # NoFunction
      PROVE  /\ Object.call_count \in Nat /\ Object.success_count \in Nat
             /\ Object.failure_count \in Nat
  BY <1>o, ObjectType DEF TypeInv, StatsType
<1>r. /\ report.call_count \in Nat /\ report.success_count \in Nat
      /\ report.failure_count \in Nat
  BY <1>t DEF ReportType
<1>1. CASE Reset
  <2>1. CASE report.fn = NoFunction \/ report.detached
    <3>1. report' = report /\ (report.fn # NoFunction => Object' = Object)
      BY <1>1, <2>1 DEF Reset, Object
    <3> QED
      BY <3>1 DEF RowInv, Covers
  <2>2. CASE ~(report.fn = NoFunction \/ report.detached)
    <3>1. report' = [report EXCEPT !.detached = TRUE, !.object = stats[report.fn]]
      BY <1>1, <2>2 DEF Reset
    <3>2. /\ report'.fn = report.fn /\ report'.detached /\ report'.object = stats[report.fn]
          /\ report'.call_count = report.call_count
          /\ report'.success_count = report.success_count
          /\ report'.failure_count = report.failure_count
      BY <1>t, <3>1 DEF ReportType
    <3>3. Object = stats[report.fn] /\ Object' = stats[report.fn]
      BY <2>2, <3>2 DEF Object
    <3>4. Covers(Object', report')
      BY <2>2, <3>2, <3>3 DEF RowInv, Covers
    <3> DEFINE s == stats[report.fn]
    <3>5. s.success_count + s.failure_count <= s.call_count
      <4>1. report.fn \in Functions
        BY <1>t, <2>2 DEF ReportType
      <4>2. s.call_count = s.success_count + s.failure_count + Held(report.fn)
        BY <4>1 DEF SignalInv, Consistent
      <4>3. Held(report.fn) \in {0, 1}
        BY DEF Held, One
      <4>4. s.success_count \in Nat /\ s.failure_count \in Nat
        BY <1>t, <4>1 DEF StatsType
      <4> QED
        BY <4>2, <4>3, <4>4
    <3> QED
      BY <3>2, <3>4, <3>5 DEF RowInv
  <2> QED
    BY <2>1, <2>2
<1>2. ASSUME Next, ~Reset, report' = report PROVE RowInv'
  <2>1. ASSUME report.fn # NoFunction PROVE Covers(Object', report)
    <3>1. CASE report.detached
      <4>1. Object' = Object
        BY <1>2, <3>1 DEF Object
      <4> QED
        BY <2>1, <4>1 DEF RowInv
    <3>2. CASE ~report.detached
      <4>1. Object = stats[report.fn] /\ Object' = stats'[report.fn] /\ report.fn \in Functions
        BY <1>2, <1>t, <2>1, <3>2 DEF Object, ReportType
      <4>2. Covers(stats'[report.fn], stats[report.fn])
        BY <1>2, <4>1, CountersGrow
      <4>3. Object' \in StatsType
        BY <4>1, NextType DEF TypeInv, TypeOK
      <4>4. /\ Object'.call_count \in Nat /\ Object'.success_count \in Nat
            /\ Object'.failure_count \in Nat
        BY <4>3 DEF StatsType
      <4>5. Covers(Object, report)
        BY <2>1 DEF RowInv
      <4> DEFINE a == Object
                 b == Object'
      <4>6. Covers(b, a) /\ Covers(a, report)
        BY <4>1, <4>2, <4>5
      <4>7. /\ a.call_count \in Nat /\ a.success_count \in Nat /\ a.failure_count \in Nat
            /\ b.call_count \in Nat /\ b.success_count \in Nat /\ b.failure_count \in Nat
        BY <1>o, <2>1, <4>4
      <4> HIDE DEF a, b
      <4>8. Covers(b, report)
        BY <1>r, <4>6, <4>7 DEF Covers
      <4> QED
        BY <4>8 DEF b
    <3> QED
      BY <3>1, <3>2
  <2> QED
    BY <1>2, <2>1 DEF RowInv
<1>3. ASSUME NEW f \in Functions, TopFunctions(f) PROVE RowInv'
  <2>1. /\ report'.fn = f /\ report'.detached = FALSE /\ report'.call_count = 0
        /\ report'.success_count = 0 /\ report'.failure_count = 0 /\ stats' = stats
    BY <1>3 DEF TopFunctions, NoReport
  <2>2. Object' = stats[f]
    BY <2>1 DEF Object
  <2>3. /\ stats[f].call_count \in Nat /\ stats[f].success_count \in Nat
        /\ stats[f].failure_count \in Nat
    BY <1>t DEF StatsType
  <2> QED
    BY <2>1, <2>2, <2>3 DEF RowInv, Covers
<1>4. ASSUME \/ ReadField("call_count", "success_count")
             \/ ReadField("success_count", "failure_count")
             \/ ReadField("failure_count", "done")
      PROVE  RowInv'
  <2>1. report.fn # NoFunction /\ stats' = stats
    BY <1>4, <1>t DEF ReadField
  <2>2. /\ report'.fn = report.fn /\ report'.detached = report.detached
        /\ report'.object = report.object
        /\ report'.call_count \in {report.call_count, Object.call_count}
        /\ report'.success_count \in {report.success_count, Object.success_count}
        /\ report'.failure_count \in {report.failure_count, Object.failure_count}
    <3>1. CASE ReadField("call_count", "success_count")
      BY <3>1, <1>t DEF ReadField, ReportType
    <3>2. CASE ReadField("success_count", "failure_count")
      BY <3>2, <1>t DEF ReadField, ReportType
    <3>3. CASE ReadField("failure_count", "done")
      BY <3>3, <1>t DEF ReadField, ReportType
    <3> QED
      BY <1>4, <3>1, <3>2, <3>3
  <2>3. Object' = Object
    BY <2>1, <2>2 DEF Object
  <2>4. Covers(Object, report)
    BY <2>1 DEF RowInv
  <2>5. Covers(Object, report')
    BY <1>o, <2>1, <2>2, <2>4 DEF Covers
  <2> QED
    BY <2>2, <2>3, <2>5 DEF RowInv
<1>5. ASSUME Deliver PROVE RowInv'
  BY <1>5 DEF Deliver, RowInv, NoReport
<1>6. ASSUME UNCHANGED vars PROVE RowInv'
  BY <1>6 DEF vars, RowInv, Covers, Object
<1>7. ASSUME \E c \in Calls : RecordBegins(c) \/ RecordEnds(c) \/ Callback(c) \/ Breach(c)
      PROVE  Next /\ report' = report
  BY <1>7 DEF Next, RecordBegins, RecordEnds, Callback, Breach
<1> QED
  BY <1>1, <1>2, <1>3, <1>4, <1>5, <1>6, <1>7 DEF Next

LEMMA RowInvariant == Spec => []RowInv
BY InitRow, NextRow, TypeInvariant, SignalInvariant, PTL DEF Spec

\* However records and resets come between the reads of its fields, a row of
\* top_functions never shows more calls, or more outcomes, than were counted.
THEOREM RowsNeverOvercount == Spec => []ReportNeverOvercounts
<1>1. TypeInv /\ SignalInv /\ RowInv => ReportNeverOvercounts
  <2> SUFFICES ASSUME TypeInv, SignalInv, RowInv, report.fn # NoFunction
               PROVE  /\ report.call_count <= Object.call_count
                      /\ report.success_count + report.failure_count <= Object.call_count
    BY DEF ReportNeverOvercounts
  <2>1. Object \in StatsType /\ report \in ReportType
    BY ObjectType DEF TypeInv, TypeOK
  <2>2. Object.success_count + Object.failure_count <= Object.call_count
    <3>1. CASE report.detached
      BY <3>1 DEF RowInv, Object
    <3>2. CASE ~report.detached
      <4>1. report.fn \in Functions /\ Object = stats[report.fn]
        BY <2>1, <3>2 DEF ReportType, Object
      <4>2. Object.call_count
              = Object.success_count + Object.failure_count + Held(report.fn)
        BY <4>1 DEF SignalInv, Consistent
      <4>3. Held(report.fn) \in {0, 1}
        BY DEF Held, One
      <4>4. Object.success_count \in Nat /\ Object.failure_count \in Nat
        BY <2>1 DEF StatsType
      <4> QED
        BY <4>2, <4>3, <4>4
    <3> QED
      BY <3>1, <3>2
  <2>3. Covers(Object, report)
    BY DEF RowInv
  <2>4. /\ Object.call_count \in Nat /\ Object.success_count \in Nat
        /\ Object.failure_count \in Nat /\ report.success_count \in Nat
        /\ report.failure_count \in Nat
    BY <2>1 DEF StatsType, ReportType
  <2> QED
    BY <2>2, <2>3, <2>4 DEF Covers
<1> QED
  BY <1>1, TypeInvariant, SignalInvariant, RowInvariant, PTL

-----------------------------------------------------------------------------
(***************************************************************************)
(* CollectedCoversHistory.                                                 *)
(***************************************************************************)

LEMMA OccurrencesNat ==
    ASSUME NEW seq \in Seq(Calls), NEW d
    PROVE  IsFiniteSet({i \in DOMAIN seq : seq[i] = d}) /\ Occurrences(d, seq) \in Nat
<1> DEFINE S == {i \in DOMAIN seq : seq[i] = d}
<1>1. DOMAIN seq = 1..Len(seq) /\ Len(seq) \in Nat
  OBVIOUS
<1>2. IsFiniteSet(DOMAIN seq)
  BY <1>1, FS_Interval
<1>3. IsFiniteSet(S)
  BY <1>2, FS_Subset
<1> QED
  BY <1>3, FS_CardinalityType DEF Occurrences

\* An appended call occurs once more.
LEMMA OccurrencesOfAppend ==
    ASSUME NEW seq \in Seq(Calls), NEW c \in Calls, NEW d
    PROVE  Occurrences(d, Append(seq, c)) = Occurrences(d, seq) + One(d = c)
<1> DEFINE S == {i \in DOMAIN seq : seq[i] = d}
           more == Append(seq, c)
           T == {i \in DOMAIN more : more[i] = d}
           n == Len(seq) + 1
<1>1. /\ DOMAIN seq = 1..Len(seq) /\ Len(seq) \in Nat /\ DOMAIN more = 1..n
      /\ more[n] = c /\ \A i \in 1..Len(seq) : more[i] = seq[i]
  BY AppendProperties
<1>2. IsFiniteSet(S) /\ Cardinality(S) \in Nat
  BY OccurrencesNat DEF Occurrences
<1>n. n \notin S
  BY <1>1
<1>o. Occurrences(d, seq) = Cardinality(S) /\ Occurrences(d, Append(seq, c)) = Cardinality(T)
  BY DEF Occurrences
<1>3. CASE d = c
  <2>1. T = S \union {n}
    BY <1>1, <1>3
  <2> HIDE DEF S, T, n
  <2>2. Cardinality(T) = Cardinality(S) + 1
    BY <1>2, <1>n, <2>1, FS_AddElement
  <2> QED
    BY <1>3, <1>o, <2>2 DEF One
<1>4. CASE d # c
  <2>1. T = S
    BY <1>1, <1>4
  <2> HIDE DEF S, T
  <2>2. Cardinality(T) = Cardinality(S) + 0
    BY <1>2, <2>1
  <2> QED
    BY <1>4, <1>o, <2>2 DEF One
<1> QED
  BY <1>3, <1>4

\* Deleting the overflow adds no occurrence.
LEMMA OccurrencesRetained ==
    ASSUME NEW h \in Seq(Calls), NEW d
    PROVE  Occurrences(d, Retained(h)) <= Occurrences(d, h)
<1>1. Len(h) \in Nat /\ HistoryLimit \in Nat /\ DOMAIN h = 1..Len(h)
  BY AggregatorAssumption
<1>2. CASE Len(h) <= HistoryLimit
  <2>1. Occurrences(d, h) \in Nat /\ Retained(h) = h
    BY <1>2, OccurrencesNat DEF Retained
  <2> QED
    BY <2>1
<1>3. CASE Len(h) > HistoryLimit
  <2> DEFINE k == Len(h) - HistoryLimit
             kept == SubSeq(h, k + 1, Len(h))
             S == {i \in DOMAIN kept : kept[i] = d}
             T == {i \in DOMAIN h : h[i] = d}
             shift == [i \in S |-> i + k]
  <2>1. k \in Nat /\ k + 1 \in Int /\ Len(h) \in Int /\ \A i \in (k + 1)..Len(h) : h[i] \in Calls
    BY <1>1, <1>3
  <2>2. /\ kept \in Seq(Calls)
        /\ Len(kept) = IF k + 1 <= Len(h) THEN Len(h) - (k + 1) + 1 ELSE 0
        /\ \A i \in 1..(Len(h) - (k + 1) + 1) : kept[i] = h[k + 1 + i - 1]
    <3> DEFINE a == k + 1
               b == Len(h)
    <3>1. a \in Int /\ b \in Int /\ \A i \in a..b : h[i] \in Calls
      BY <2>1
    <3> HIDE DEF a, b
    <3>2. /\ SubSeq(h, a, b) \in Seq(Calls)
          /\ Len(SubSeq(h, a, b)) = IF a <= b THEN b - a + 1 ELSE 0
          /\ \A i \in 1..(b - a + 1) : SubSeq(h, a, b)[i] = h[a + i - 1]
      BY <3>1, SubSeqProperties
    <3> QED
      BY <3>2 DEF a, b
  <2>3. Len(kept) = HistoryLimit /\ Len(h) - (k + 1) + 1 = HistoryLimit
    BY <1>1, <1>3, <2>2
  <2>4. \A i \in 1..HistoryLimit : kept[i] = h[i + k] /\ i + k \in 1..Len(h)
    <3>1. \A i \in 1..HistoryLimit : k + 1 + i - 1 = i + k /\ i + k \in 1..Len(h)
      BY <1>1, <1>3
    <3>2. \A i \in 1..HistoryLimit : kept[i] = h[k + 1 + i - 1]
      BY <2>2, <2>3
    <3> QED
      BY <3>1, <3>2
  <2>5. DOMAIN kept = 1..HistoryLimit
    BY <2>2, <2>3
  <2>6. Retained(h) = kept
    BY <1>1, <1>3 DEF Retained
  <2> HIDE DEF kept
  <2>7. shift \in [S -> T] /\ \A i, j \in S : shift[i] = shift[j] => i = j
    <3>1. ASSUME NEW i \in S PROVE i \in Int /\ i + k \in T
      <4>1. i \in 1..HistoryLimit /\ kept[i] = d
        BY <2>5
      <4>2. h[i + k] = d /\ i + k \in DOMAIN h
        BY <1>1, <2>4, <4>1
      <4> QED
        BY <4>1, <4>2
    <3> HIDE DEF S, T, k
    <3>2. \A i \in S : shift[i] = i + k
      OBVIOUS
    <3>3. \A i, j \in S : i + k = j + k => i = j
      BY <2>1, <3>1
    <3> QED
      BY <3>1, <3>2, <3>3
  <2>f. IsFiniteSet(T)
    BY OccurrencesNat
  <2> HIDE DEF S, T, shift
  <2>8. shift \in Injection(S, T)
    BY <2>7, Fun_IsInj
  <2>9. Cardinality(S) <= Cardinality(T)
    BY <2>8, <2>f, FS_Injection
  <2> QED
    BY <2>6, <2>9 DEF S, T, Occurrences
<1> QED
  BY <1>1, <1>2, <1>3

LEMMA InitCollected == Init => CollectedCoversHistory
<1> SUFFICES ASSUME Init, NEW c \in Calls
             PROVE  Occurrences(c, history) <= Occurrences(c, collected) + One(pc[c] = "callback")
  BY DEF CollectedCoversHistory
<1>1. history = << >> /\ collected = << >> /\ << >> \in Seq(Calls)
  BY DEF Init
<1>2. Occurrences(c, << >>) \in Nat
  BY <1>1, OccurrencesNat
<1> QED
  BY <1>1, <1>2, OneFacts

LEMMA NextCollected == TypeInv /\ CollectedCoversHistory /\ [Next]_vars => CollectedCoversHistory'
<1> SUFFICES ASSUME TypeInv, CollectedCoversHistory, [Next]_vars, NEW d \in Calls
             PROVE  Occurrences(d, history')
                      <= Occurrences(d, collected') + One(pc'[d] = "callback")
  BY DEF CollectedCoversHistory
<1>t. /\ history \in Seq(Calls) /\ collected \in Seq(Calls)
      /\ pc \in [Calls -> {"running", "recording", "callback", "reported"}]
  BY DEF TypeInv, TypeOK
<1>n. Occurrences(d, history) \in Nat /\ Occurrences(d, collected) \in Nat
  BY <1>t, OccurrencesNat
<1>i. Occurrences(d, history) <= Occurrences(d, collected) + One(pc[d] = "callback")
  BY DEF CollectedCoversHistory
<1>1. ASSUME NEW c \in Calls, RecordBegins(c) \/ Breach(c)
      PROVE  Occurrences(d, history')
               <= Occurrences(d, collected') + One(pc'[d] = "callback")
  <2>1. history' = history /\ collected' = collected
        /\ (pc'[d] = "callback") = (pc[d] = "callback")
    BY <1>1, <1>t DEF RecordBegins, Breach, Move
  <2> QED
    BY <1>i, <2>1
<1>2. ASSUME NEW c \in Calls, RecordEnds(c)
      PROVE  Occurrences(d, history')
               <= Occurrences(d, collected') + One(pc'[d] = "callback")
  <2>1. Occurrences(d, Append(history, c)) = Occurrences(d, history) + One(d = c)
    BY <1>t, OccurrencesOfAppend
  <2>2. Append(history, c) \in Seq(Calls)
    BY <1>t, AppendProperties
  <2>3. Occurrences(d, history') <= Occurrences(d, Append(history, c))
    BY <1>2, <2>2, OccurrencesRetained DEF RecordEnds
  <2>4. history' \in Seq(Calls) /\ collected' = collected
    BY <1>2, <2>2, RetainedFacts DEF RecordEnds
  <2>5. Occurrences(d, history') \in Nat
    BY <2>4, OccurrencesNat
  <2>6. One(pc'[d] = "callback") = One(pc[d] = "callback") + One(d = c)
    BY <1>2, <1>t DEF RecordEnds, Move, One
  <2> DEFINE a == One(pc[d] = "callback")
             b == One(d = c)
  <2>7. a \in {0, 1} /\ b \in {0, 1}
    BY OneFacts
  <2> HIDE DEF a, b
  <2>8. Occurrences(d, history') <= Occurrences(d, collected) + (a + b)
    <3>1. Occurrences(d, history) <= Occurrences(d, collected) + a
      BY <1>i DEF a
    <3>2. Occurrences(d, history') <= Occurrences(d, history) + b
      BY <2>1, <2>3 DEF b
    <3> QED
      BY <1>n, <2>5, <2>7, <3>1, <3>2
  <2> QED
    BY <2>4, <2>6, <2>8 DEF a, b
<1>3. ASSUME NEW c \in Calls, Callback(c)
      PROVE  Occurrences(d, history')
               <= Occurrences(d, collected') + One(pc'[d] = "callback")
  <2>1. Occurrences(d, collected') = Occurrences(d, collected) + One(d = c)
    BY <1>3, <1>t, OccurrencesOfAppend DEF Callback
  <2>2. One(pc[d] = "callback") = One(pc'[d] = "callback") + One(d = c)
    BY <1>3, <1>t DEF Callback, Move, One
  <2>3. history' = history
    BY <1>3 DEF Callback
  <2> DEFINE a == One(pc'[d] = "callback")
             b == One(d = c)
  <2>4. a \in {0, 1} /\ b \in {0, 1}
    BY OneFacts
  <2>5. Occurrences(d, history) <= Occurrences(d, collected) + (a + b)
    BY <1>i, <2>2
  <2> HIDE DEF a, b
  <2>6. Occurrences(d, history) <= (Occurrences(d, collected) + b) + a
    BY <1>n, <2>4, <2>5
  <2> QED
    BY <2>1, <2>3, <2>6 DEF a, b
<1>4. ASSUME Reset
      PROVE  Occurrences(d, history')
               <= Occurrences(d, collected') + One(pc'[d] = "callback")
  <2>1. history' = << >> /\ collected' = collected
    BY <1>4 DEF Reset, Cleared
  <2>2. Occurrences(d, << >>) = 0
    <3>1. {i \in DOMAIN << >> : << >>[i] = d} = {}
      OBVIOUS
    <3> QED
      BY <3>1, FS_EmptySet DEF Occurrences
  <2> QED
    BY <1>n, <2>1, <2>2, OneFacts
<1>5. ASSUME UNCHANGED <<history, collected, pc>>
      PROVE  Occurrences(d, history')
               <= Occurrences(d, collected') + One(pc'[d] = "callback")
  BY <1>5, <1>i
<1>6. ASSUME \/ \E f \in Functions : TopFunctions(f)
             \/ ReadField("call_count", "success_count")
             \/ ReadField("success_count", "failure_count")
             \/ ReadField("failure_count", "done")
             \/ Deliver \/ UNCHANGED vars
      PROVE  UNCHANGED <<history, collected, pc>>
  BY <1>6 DEF TopFunctions, ReadField, Deliver, vars
<1> QED
  BY <1>1, <1>2, <1>3, <1>4, <1>5, <1>6 DEF Next

\* What history() retains has been handed to on_record, or is about to be, call for
\* call, though the callback comes after the lock is released.
THEOREM CallbackMissesNothing == Spec => []CollectedCoversHistory
BY InitCollected, NextCollected, TypeInvariant, PTL DEF Spec

-----------------------------------------------------------------------------
(***************************************************************************)
(* TotalsMatchFunctions.  record adds the same to a FunctionStats and to   *)
(* _totals, but it counts the call of the first before that of the second. *)
(***************************************************************************)

\* What record adds after it has counted the call.
Gain(mc) ==
    [success_count |-> One(mc.successful), cache_hit_count |-> One(mc.cache_hit),
     failure_count |-> One(~mc.successful), total_retries |-> mc.retries,
     total_attempts |-> mc.attempts, calls_with_retries |-> One(mc.retries > 0),
     recovered_count |-> One(mc.successful /\ mc.retries > 0),
     tokens |-> ChargedTokens(mc)]

OutcomeFields ==
    {"success_count", "cache_hit_count", "failure_count", "total_retries", "total_attempts",
     "calls_with_retries", "recovered_count", "tokens"}

SumOf(field) == SumFunction([f \in Functions |-> stats[f][field]])

SumOfErrors(e) == SumFunction([f \in Functions |-> stats[f].errors_by_category[e]])

TotalsInv ==
    /\ \A field \in OutcomeFields : totals[field] = SumOf(field)
    /\ SumOf("call_count") = totals.call_count + One(~Unlocked)
    /\ \A e \in Categories : categories[e] = SumOfErrors(e)

\* Every field of a FunctionStats that is totalled is a number.
LEMMA FieldsAreNumbers ==
    ASSUME NEW field \in OutcomeFields \union {"call_count"}
    PROVE  /\ \A s \in StatsType : s[field] \in Int
           /\ \A t \in TotalsType : t[field] \in Int
<1>1. CASE field = "call_count"
  BY <1>1 DEF StatsType, TotalsType
<1>2. CASE field = "success_count"
  BY <1>2 DEF StatsType, TotalsType
<1>3. CASE field = "cache_hit_count"
  BY <1>3 DEF StatsType, TotalsType
<1>4. CASE field = "failure_count"
  BY <1>4 DEF StatsType, TotalsType
<1>5. CASE field = "total_retries"
  BY <1>5 DEF StatsType, TotalsType
<1>6. CASE field = "total_attempts"
  BY <1>6 DEF StatsType, TotalsType
<1>7. CASE field = "calls_with_retries"
  BY <1>7 DEF StatsType, TotalsType
<1>8. CASE field = "recovered_count"
  BY <1>8 DEF StatsType, TotalsType
<1>9. CASE field = "tokens"
  BY <1>9 DEF StatsType, TotalsType
<1> QED
  BY <1>1, <1>2, <1>3, <1>4, <1>5, <1>6, <1>7, <1>8, <1>9 DEF OutcomeFields

LEMMA GainFacts ==
    ASSUME NEW s \in StatsType, NEW t \in TotalsType, NEW mc \in Reports,
           NEW field \in OutcomeFields
    PROVE  /\ Gain(mc)[field] \in Int
           /\ StatsAfter(s, mc)[field] = s[field] + Gain(mc)[field]
           /\ TotalsAfter(t, mc)[field] = t[field] + Gain(mc)[field]
           /\ StatsBegun(s)[field] = s[field]
<1> DEFINE n == StatsAfter(s, mc)
           u == TotalsAfter(t, mc)
           b == StatsBegun(s)
<1>n. /\ n.success_count = s.success_count + One(mc.successful)
      /\ n.cache_hit_count = s.cache_hit_count + One(mc.cache_hit)
      /\ n.failure_count = s.failure_count + One(~mc.successful)
      /\ n.total_retries = s.total_retries + mc.retries
      /\ n.total_attempts = s.total_attempts + mc.attempts
      /\ n.calls_with_retries = s.calls_with_retries + One(mc.retries > 0)
      /\ n.recovered_count = s.recovered_count + One(mc.successful /\ mc.retries > 0)
      /\ n.tokens = s.tokens + ChargedTokens(mc)
  BY StatsAfterFacts
<1>u. /\ u.success_count = t.success_count + One(mc.successful)
      /\ u.cache_hit_count = t.cache_hit_count + One(mc.cache_hit)
      /\ u.failure_count = t.failure_count + One(~mc.successful)
      /\ u.total_retries = t.total_retries + mc.retries
      /\ u.total_attempts = t.total_attempts + mc.attempts
      /\ u.calls_with_retries = t.calls_with_retries + One(mc.retries > 0)
      /\ u.recovered_count = t.recovered_count + One(mc.successful /\ mc.retries > 0)
      /\ u.tokens = t.tokens + ChargedTokens(mc)
  BY TotalsAfterFacts
<1>b. /\ b.success_count = s.success_count /\ b.cache_hit_count = s.cache_hit_count
      /\ b.failure_count = s.failure_count /\ b.total_retries = s.total_retries
      /\ b.total_attempts = s.total_attempts /\ b.calls_with_retries = s.calls_with_retries
      /\ b.recovered_count = s.recovered_count /\ b.tokens = s.tokens
  BY StatsBegunFacts
<1> DEFINE G == Gain(mc)
<1>g. /\ G.success_count = One(mc.successful) /\ G.cache_hit_count = One(mc.cache_hit)
      /\ G.failure_count = One(~mc.successful) /\ G.total_retries = mc.retries
      /\ G.total_attempts = mc.attempts /\ G.calls_with_retries = One(mc.retries > 0)
      /\ G.recovered_count = One(mc.successful /\ mc.retries > 0)
      /\ G.tokens = ChargedTokens(mc)
  BY DEF Gain
<1>i. /\ G.success_count \in Int /\ G.cache_hit_count \in Int /\ G.failure_count \in Int
      /\ G.total_retries \in Int /\ G.total_attempts \in Int /\ G.calls_with_retries \in Int
      /\ G.recovered_count \in Int /\ G.tokens \in Int
  <2>1. mc.retries \in Int /\ mc.attempts \in Int /\ ChargedTokens(mc) \in Int
    BY DEF Reports, CallMetricsType, ChargedTokens
  <2> QED
    BY <1>g, <2>1 DEF One
<1> HIDE DEF n, u, b, G
<1>j. /\ n.success_count = s.success_count + G.success_count
      /\ n.cache_hit_count = s.cache_hit_count + G.cache_hit_count
      /\ n.failure_count = s.failure_count + G.failure_count
      /\ n.total_retries = s.total_retries + G.total_retries
      /\ n.total_attempts = s.total_attempts + G.total_attempts
      /\ n.calls_with_retries = s.calls_with_retries + G.calls_with_retries
      /\ n.recovered_count = s.recovered_count + G.recovered_count
      /\ n.tokens = s.tokens + G.tokens
  BY <1>n, <1>g
<1>k. /\ u.success_count = t.success_count + G.success_count
      /\ u.cache_hit_count = t.cache_hit_count + G.cache_hit_count
      /\ u.failure_count = t.failure_count + G.failure_count
      /\ u.total_retries = t.total_retries + G.total_retries
      /\ u.total_attempts = t.total_attempts + G.total_attempts
      /\ u.calls_with_retries = t.calls_with_retries + G.calls_with_retries
      /\ u.recovered_count = t.recovered_count + G.recovered_count
      /\ u.tokens = t.tokens + G.tokens
  BY <1>u, <1>g
<1> DEFINE Gains == /\ G[field] \in Int /\ n[field] = s[field] + G[field]
                    /\ u[field] = t[field] + G[field] /\ b[field] = s[field]
<1>1. ASSUME field = "success_count" PROVE Gains
  BY <1>1, <1>b, <1>i, <1>j, <1>k
<1>2. ASSUME field = "cache_hit_count" PROVE Gains
  BY <1>2, <1>b, <1>i, <1>j, <1>k
<1>3. ASSUME field = "failure_count" PROVE Gains
  BY <1>3, <1>b, <1>i, <1>j, <1>k
<1>4. ASSUME field = "total_retries" PROVE Gains
  BY <1>4, <1>b, <1>i, <1>j, <1>k
<1>5. ASSUME field = "total_attempts" PROVE Gains
  BY <1>5, <1>b, <1>i, <1>j, <1>k
<1>6. ASSUME field = "calls_with_retries" PROVE Gains
  BY <1>6, <1>b, <1>i, <1>j, <1>k
<1>7. ASSUME field = "recovered_count" PROVE Gains
  BY <1>7, <1>b, <1>i, <1>j, <1>k
<1>8. ASSUME field = "tokens" PROVE Gains
  BY <1>8, <1>b, <1>i, <1>j, <1>k
<1>9. Gains
  BY <1>1, <1>2, <1>3, <1>4, <1>5, <1>6, <1>7, <1>8 DEF OutcomeFields
<1> QED
  BY <1>9 DEF n, u, b, G

\* A number that changes for one function changes the sum by as much.
LEMMA OneFunctionChanges ==
    ASSUME NEW g \in [Functions -> Int], NEW h \in [Functions -> Int],
           NEW f \in Functions, NEW k \in Int, h[f] = g[f] + k,
           \A x \in Functions \ {f} : h[x] = g[x]
    PROVE  SumFunction(h) = SumFunction(g) + k
<1>1. \A x \in Functions : g[x] \in Int /\ h[x] \in Int
  OBVIOUS
<1>2. IsFiniteSet(Functions)
  BY FunctionsAssumption
<1>3. SumFunctionOnSet(h, Functions) = SumFunctionOnSet(g, Functions) + (h[f] - g[f])
  BY <1>1, <1>2, SumChangedAtOne
<1>4. h[f] - g[f] = k
  BY <1>1
<1>5. DOMAIN g = Functions /\ DOMAIN h = Functions
  OBVIOUS
<1> QED
  BY <1>3, <1>4, <1>5 DEF SumFunction

LEMMA NothingCounted ==
    ASSUME NEW g, DOMAIN g = Functions, \A f \in Functions : g[f] = 0
    PROVE  SumFunction(g) = 0
BY FunctionsAssumption, SumOfZeros DEF SumFunction

\* The sums are 0 when every FunctionStats is new.
LEMMA NewSums ==
    ASSUME NEW new, new = [f \in Functions |-> NewStats]
    PROVE  /\ \A field \in OutcomeFields \union {"call_count"} :
                SumFunction([f \in Functions |-> new[f][field]]) = 0
           /\ \A e \in Categories :
                SumFunction([f \in Functions |-> new[f].errors_by_category[e]]) = 0
<1>1. ASSUME NEW field \in OutcomeFields \union {"call_count"}
      PROVE  SumFunction([f \in Functions |-> new[f][field]]) = 0
  <2>1. NewStats[field] = 0
    BY <1>1 DEF NewStats, OutcomeFields
  <2> DEFINE g == [f \in Functions |-> new[f][field]]
  <2>2. \A f \in Functions : g[f] = 0
    BY <2>1
  <2>3. DOMAIN g = Functions
    OBVIOUS
  <2> HIDE DEF g
  <2>4. SumFunction(g) = 0
    BY <2>2, <2>3, NothingCounted
  <2> QED
    BY <2>4 DEF g
<1>2. ASSUME NEW e \in Categories
      PROVE  SumFunction([f \in Functions |-> new[f].errors_by_category[e]]) = 0
  <2> DEFINE g == [f \in Functions |-> new[f].errors_by_category[e]]
  <2>1. \A f \in Functions : g[f] = 0
    BY DEF NewStats, NoErrors
  <2>2. DOMAIN g = Functions
    OBVIOUS
  <2> HIDE DEF g
  <2>3. SumFunction(g) = 0
    BY <2>1, <2>2, NothingCounted
  <2> QED
    BY <2>3 DEF g
<1> QED
  BY <1>1, <1>2

LEMMA NewTotalsAreZero ==
    /\ \A field \in OutcomeFields \union {"call_count"} : NewTotals[field] = 0
    /\ \A e \in Categories : NoErrors[e] = 0
BY DEF NewTotals, NoErrors, OutcomeFields

LEMMA InitTotals == Init => TotalsInv
<1> SUFFICES ASSUME Init PROVE TotalsInv
  OBVIOUS
<1>1. stats = [f \in Functions |-> NewStats] /\ totals = NewTotals /\ categories = NoErrors
  BY DEF Init
<1>2. Unlocked
  BY DEF Init, Unlocked
<1>3. totals.call_count = 0
  BY <1>1 DEF NewTotals
<1>s. /\ \A field \in OutcomeFields \union {"call_count"} : SumOf(field) = 0
      /\ \A e \in Categories : SumOfErrors(e) = 0
  BY <1>1, NewSums DEF SumOf, SumOfErrors
<1>4. \A field \in OutcomeFields : totals[field] = SumOf(field)
  BY <1>1, <1>s, NewTotalsAreZero
<1>5. SumOf("call_count") = totals.call_count + One(~Unlocked)
  BY <1>2, <1>3, <1>s DEF One
<1>6. \A e \in Categories : categories[e] = SumOfErrors(e)
  BY <1>1, <1>s, NewTotalsAreZero
<1> QED
  BY <1>4, <1>5, <1>6 DEF TotalsInv

\* What a change of one FunctionStats from s to n does to the sums.
LEMMA SumsChange ==
    ASSUME TypeInv, NEW f \in Functions, NEW n \in StatsType,
           stats' = [stats EXCEPT ![f] = n]
    PROVE  /\ \A field \in OutcomeFields \union {"call_count"} : \A k \in Int :
                n[field] = stats[f][field] + k => SumOf(field)' = SumOf(field) + k
           /\ \A e \in Categories : \A k \in Int :
                n.errors_by_category[e] = stats[f].errors_by_category[e] + k =>
                  SumOfErrors(e)' = SumOfErrors(e) + k
<1>t. stats \in [Functions -> StatsType]
  BY DEF TypeInv, TypeOK
<1>p. stats'[f] = n /\ \A x \in Functions \ {f} : stats'[x] = stats[x]
      /\ stats' \in [Functions -> StatsType]
  BY <1>t
<1>1. ASSUME NEW field \in OutcomeFields \union {"call_count"}, NEW k \in Int,
             n[field] = stats[f][field] + k
      PROVE  SumOf(field)' = SumOf(field) + k
  <2> DEFINE g == [x \in Functions |-> stats[x][field]]
             h == [x \in Functions |-> stats'[x][field]]
  <2>1. g \in [Functions -> Int] /\ h \in [Functions -> Int]
    BY <1>t, <1>p, FieldsAreNumbers
  <2>2. h[f] = g[f] + k /\ \A x \in Functions \ {f} : h[x] = g[x]
    BY <1>1, <1>p
  <2> HIDE DEF g, h
  <2>3. SumFunction(h) = SumFunction(g) + k
    BY <2>1, <2>2, OneFunctionChanges
  <2> QED
    BY <2>3 DEF g, h, SumOf
<1>2. ASSUME NEW e \in Categories, NEW k \in Int,
             n.errors_by_category[e] = stats[f].errors_by_category[e] + k
      PROVE  SumOfErrors(e)' = SumOfErrors(e) + k
  <2> DEFINE g == [x \in Functions |-> stats[x].errors_by_category[e]]
             h == [x \in Functions |-> stats'[x].errors_by_category[e]]
  <2>1. g \in [Functions -> Int] /\ h \in [Functions -> Int]
    <3>1. \A s \in StatsType : s.errors_by_category[e] \in Int
      BY DEF StatsType, Counts
    <3> QED
      BY <1>t, <1>p, <3>1
  <2>2. h[f] = g[f] + k /\ \A x \in Functions \ {f} : h[x] = g[x]
    BY <1>2, <1>p
  <2> HIDE DEF g, h
  <2>3. SumFunction(h) = SumFunction(g) + k
    BY <2>1, <2>2, OneFunctionChanges
  <2> QED
    BY <2>3 DEF g, h, SumOfErrors
<1> QED
  BY <1>1, <1>2

\* The sums are numbers.
LEMMA SumsAreNumbers ==
    ASSUME TypeInv
    PROVE  /\ \A field \in OutcomeFields \union {"call_count"} : SumOf(field) \in Int
           /\ \A e \in Categories : SumOfErrors(e) \in Int
<1>t. stats \in [Functions -> StatsType] /\ IsFiniteSet(Functions)
  BY FunctionsAssumption DEF TypeInv, TypeOK
<1>1. ASSUME NEW field \in OutcomeFields \union {"call_count"} PROVE SumOf(field) \in Int
  <2> DEFINE g == [x \in Functions |-> stats[x][field]]
  <2>1. \A x \in Functions : g[x] \in Int
    BY <1>t, FieldsAreNumbers
  <2>2. DOMAIN g = Functions
    OBVIOUS
  <2> HIDE DEF g
  <2>3. SumFunctionOnSet(g, Functions) \in Int
    BY <1>t, <2>1, SumIsInt
  <2> QED
    BY <2>2, <2>3 DEF g, SumOf, SumFunction
<1>2. ASSUME NEW e \in Categories PROVE SumOfErrors(e) \in Int
  <2> DEFINE g == [x \in Functions |-> stats[x].errors_by_category[e]]
  <2>1. \A x \in Functions : g[x] \in Int
    BY <1>t DEF StatsType, Counts
  <2>2. DOMAIN g = Functions
    OBVIOUS
  <2> HIDE DEF g
  <2>3. SumFunctionOnSet(g, Functions) \in Int
    BY <1>t, <2>1, SumIsInt
  <2> QED
    BY <2>2, <2>3 DEF g, SumOfErrors, SumFunction
<1> QED
  BY <1>1, <1>2

LEMMA NextTotals == TypeInv /\ TotalsInv /\ [Next]_vars => TotalsInv'
<1> SUFFICES ASSUME TypeInv, TotalsInv, [Next]_vars PROVE TotalsInv'
  OBVIOUS
<1>t. /\ stats \in [Functions -> StatsType] /\ totals \in TotalsType
      /\ m \in [Calls -> Reports] /\ categories \in Counts
      /\ pc \in [Calls -> {"running", "recording", "callback", "reported"}]
      /\ \A c \in Calls : FnOf[c] \in Functions
  BY AggregatorAssumption DEF TypeInv, TypeOK
<1>i. /\ \A field \in OutcomeFields : totals[field] = SumOf(field)
      /\ SumOf("call_count") = totals.call_count + One(~Unlocked)
      /\ \A e \in Categories : categories[e] = SumOfErrors(e)
  BY DEF TotalsInv
<1>1. ASSUME NEW c \in Calls, RecordBegins(c) PROVE TotalsInv'
  <2> DEFINE f == FnOf[c]
             s == stats[f]
             n == StatsBegun(s)
  <2>1. f \in Functions /\ s \in StatsType
    BY <1>t
  <2>2. /\ n \in StatsType /\ n.call_count = s.call_count + 1
        /\ n.errors_by_category = s.errors_by_category
    BY <2>1, StatsBegunFacts
  <2>3. stats' = [stats EXCEPT ![f] = n]
    BY <1>1 DEF RecordBegins
  <2>4. /\ \A field \in OutcomeFields \union {"call_count"} : \A k \in Int :
             n[field] = s[field] + k => SumOf(field)' = SumOf(field) + k
        /\ \A e \in Categories : \A k \in Int :
             n.errors_by_category[e] = s.errors_by_category[e] + k =>
               SumOfErrors(e)' = SumOfErrors(e) + k
    <3> HIDE DEF n, f
    <3> QED
      BY <2>1, <2>2, <2>3, SumsChange
  <2>5. \A field \in OutcomeFields : n[field] = s[field]
    BY <1>t, <2>1, GainFacts
  <2>6. UNCHANGED <<totals, categories>> /\ Unlocked /\ ~Unlocked'
    BY <1>1, <1>t DEF RecordBegins, Unlocked, Move
  <2> HIDE DEF n, s, f
  <2>7. ASSUME NEW field \in OutcomeFields PROVE totals'[field] = SumOf(field)'
    <3>1. s[field] \in Int /\ SumOf(field) \in Int
      BY <2>1, FieldsAreNumbers, SumsAreNumbers
    <3>2. n[field] = s[field] + 0
      BY <2>5, <3>1
    <3>3. SumOf(field)' = SumOf(field) + 0
      BY <2>4, <3>2
    <3> QED
      BY <1>i, <2>6, <3>1, <3>3
  <2>8. SumOf("call_count")' = totals'.call_count + One(~Unlocked)'
    <3>1. SumOf("call_count")' = SumOf("call_count") + 1
      BY <2>2, <2>4
    <3>2. totals.call_count \in Int
      BY <1>t DEF TotalsType
    <3>3. One(~Unlocked) = 0 /\ One(~Unlocked)' = 1
      BY <2>6 DEF One
    <3> QED
      BY <1>i, <2>6, <3>1, <3>2, <3>3
  <2>9. ASSUME NEW e \in Categories PROVE categories'[e] = SumOfErrors(e)'
    <3>1. s.errors_by_category[e] \in Int /\ SumOfErrors(e) \in Int
      BY <2>1, SumsAreNumbers DEF StatsType, Counts
    <3>2. n.errors_by_category[e] = s.errors_by_category[e] + 0
      BY <2>2, <3>1
    <3>3. SumOfErrors(e)' = SumOfErrors(e) + 0
      BY <2>4, <3>2
    <3> QED
      BY <1>i, <2>6, <3>1, <3>3
  <2> QED
    BY <2>7, <2>8, <2>9 DEF TotalsInv
<1>2. ASSUME NEW c \in Calls, RecordEnds(c) PROVE TotalsInv'
  <2> DEFINE f == FnOf[c]
             s == stats[f]
             mc == m[c]
             n == StatsAfter(s, mc)
  <2>1. f \in Functions /\ s \in StatsType /\ mc \in Reports
    BY <1>t
  <2>2. /\ n \in StatsType /\ n.call_count = s.call_count
        /\ \A e \in Categories :
             n.errors_by_category[e] = s.errors_by_category[e] + FailuresIn(mc, e)
    <3> HIDE DEF s, mc
    <3> QED
      BY <2>1, StatsAfterFacts
  <2>3. /\ stats' = [stats EXCEPT ![f] = n] /\ totals' = TotalsAfter(totals, mc)
        /\ categories' = [e \in Categories |-> categories[e] + ErrorsOf(mc)[e]]
    BY <1>2 DEF RecordEnds
  <2>4. /\ \A field \in OutcomeFields \union {"call_count"} : \A k \in Int :
             n[field] = s[field] + k => SumOf(field)' = SumOf(field) + k
        /\ \A e \in Categories : \A k \in Int :
             n.errors_by_category[e] = s.errors_by_category[e] + k =>
               SumOfErrors(e)' = SumOfErrors(e) + k
    <3> HIDE DEF n, f, mc
    <3> QED
      BY <2>1, <2>2, <2>3, SumsChange
  <2>5. \A field \in OutcomeFields :
          /\ Gain(mc)[field] \in Int /\ n[field] = s[field] + Gain(mc)[field]
          /\ TotalsAfter(totals, mc)[field] = totals[field] + Gain(mc)[field]
    <3> HIDE DEF s, mc
    <3> QED
      BY <1>t, <2>1, GainFacts
  <2>6. ~Unlocked /\ Unlocked'
    BY <1>2, <1>t DEF RecordEnds, Unlocked, Move, TypeInv, OneAtATime
  <2>7. TotalsAfter(totals, mc).call_count = totals.call_count + 1
    <3> HIDE DEF mc
    <3> QED
      BY <1>t, <2>1, TotalsAfterFacts
  <2>8. \A e \in Categories : ErrorsOf(mc)[e] = FailuresIn(mc, e) /\ FailuresIn(mc, e) \in Int
    <3>1. \A x \in Reports : x \in CallMetricsType
      BY DEF Reports
    <3> HIDE DEF mc
    <3> QED
      BY <2>1, <3>1, ErrorsOfReport, FailuresInNat
  <2> HIDE DEF n, s, f, mc
  <2>9. ASSUME NEW field \in OutcomeFields PROVE totals'[field] = SumOf(field)'
    <3>1. SumOf(field)' = SumOf(field) + Gain(mc)[field]
      BY <2>4, <2>5
    <3> QED
      BY <1>i, <2>3, <2>5, <3>1
  <2>10. SumOf("call_count")' = totals'.call_count + One(~Unlocked)'
    <3>1. SumOf("call_count")' = SumOf("call_count") + 0
      <4>1. n["call_count"] = s["call_count"] + 0
        BY <2>1, <2>2 DEF StatsType
      <4> QED
        BY <2>4, <4>1
    <3>2. totals.call_count \in Int
      BY <1>t DEF TotalsType
    <3>3. One(~Unlocked) = 1 /\ One(~Unlocked)' = 0
      BY <2>6 DEF One
    <3> QED
      BY <1>i, <2>3, <2>7, <3>1, <3>2, <3>3
  <2>11. ASSUME NEW e \in Categories PROVE categories'[e] = SumOfErrors(e)'
    <3>1. SumOfErrors(e)' = SumOfErrors(e) + FailuresIn(mc, e)
      BY <2>2, <2>4, <2>8
    <3> QED
      BY <1>i, <2>3, <2>8, <3>1
  <2> QED
    BY <2>9, <2>10, <2>11 DEF TotalsInv
<1>3. ASSUME Reset PROVE TotalsInv'
  <2>1. /\ stats' = [f \in Functions |-> NewStats] /\ totals' = NewTotals
        /\ categories' = NoErrors
    BY <1>3 DEF Reset, Cleared
  <2>2. Unlocked'
    BY <1>3 DEF Reset, Unlocked
  <2>3. /\ \A field \in OutcomeFields \union {"call_count"} : SumOf(field)' = 0
        /\ \A e \in Categories : SumOfErrors(e)' = 0
    BY <2>1, NewSums DEF SumOf, SumOfErrors
  <2>4. totals'.call_count = 0 /\ One(~Unlocked)' = 0
    BY <2>1, <2>2 DEF NewTotals, One
  <2> QED
    BY <2>1, <2>3, <2>4, NewTotalsAreZero DEF TotalsInv
<1>4. ASSUME UNCHANGED <<stats, totals, categories>>, Unlocked' = Unlocked PROVE TotalsInv'
  BY <1>4, <1>i DEF TotalsInv, SumOf, SumOfErrors
<1>5. ASSUME NEW c \in Calls, Callback(c) \/ Breach(c) PROVE TotalsInv'
  <2>1. Unlocked' = Unlocked
    BY <1>5, <1>t DEF Callback, Breach, Move, Unlocked
  <2> QED
    BY <1>4, <1>5, <2>1 DEF Callback, Breach
<1>6. ASSUME \/ \E f \in Functions : TopFunctions(f)
             \/ ReadField("call_count", "success_count")
             \/ ReadField("success_count", "failure_count")
             \/ ReadField("failure_count", "done")
             \/ Deliver \/ UNCHANGED vars
      PROVE  TotalsInv'
  <2>1. UNCHANGED <<stats, totals, categories, pc>>
    BY <1>6 DEF TopFunctions, ReadField, Deliver, vars
  <2> QED
    BY <1>4, <2>1 DEF Unlocked
<1> QED
  BY <1>1, <1>2, <1>3, <1>5, <1>6 DEF Next

LEMMA TotalsInvariant == Spec => []TotalsInv
BY InitTotals, NextTotals, TypeInvariant, PTL DEF Spec

\* Whenever the lock is free the process totals, which record and reset keep apart, are
\* the sums of the per-function statistics, in every field and category.
THEOREM TotalsAreSums == Spec => []TotalsMatchFunctions
<1>1. TypeInv /\ TotalsInv => TotalsMatchFunctions
  <2> SUFFICES ASSUME TypeInv, TotalsInv, Unlocked
               PROVE  /\ \A field \in DOMAIN totals : totals[field] = SumOf(field)
                      /\ \A e \in Categories : categories[e] = SumOfErrors(e)
    BY DEF TotalsMatchFunctions, SumOf, SumOfErrors
  <2>1. totals \in TotalsType
    BY DEF TypeInv, TypeOK
  <2>2. DOMAIN totals = OutcomeFields \union {"call_count"}
    BY <2>1 DEF TotalsType, OutcomeFields
  <2>3. SumOf("call_count") = totals["call_count"]
    <3>1. SumOf("call_count") = totals.call_count + One(~Unlocked)
      BY DEF TotalsInv
    <3>2. totals.call_count \in Int /\ One(~Unlocked) = 0
      BY <2>1 DEF TotalsType, One
    <3> QED
      BY <3>1, <3>2
  <2> QED
    BY <2>2, <2>3 DEF TotalsInv
<1> QED
  BY <1>1, TypeInvariant, TotalsInvariant, PTL

-----------------------------------------------------------------------------
(***************************************************************************)
(* StatsMatchLog.  The operators below are over sets of reports and over   *)
(* functions of them, so that one lemma says what one more record does to  *)
(* every count and to every sum.                                           *)
(***************************************************************************)

\* How many of the recorded calls of f ended as A has it, and what v adds up to over them.
CountIn(f, A) == Cardinality({i \in LoggedOf(f) : log[i].m \in A})
SumIn(f, v) == SumFunction([i \in LoggedOf(f) |-> v[log[i].m]])

Successes == {mc \in Reports : mc.successful}
Hits == {mc \in Reports : mc.cache_hit}
Recoveries == {mc \in Reports : Recovered(mc)}
WithRetries(r) == {mc \in Reports : mc.retries = r}
Tokens == [mc \in Reports |-> ChargedTokens(mc)]
Failures(e) == [mc \in Reports |-> FailuresIn(mc, e)]

\* What the FunctionStats of f are, half a record apart, of the log.
LogOf(f) ==
    /\ stats[f].call_count = CountIn(f, Reports) + Held(f)
    /\ stats[f].success_count = CountIn(f, Successes)
    /\ stats[f].cache_hit_count = CountIn(f, Hits)
    /\ stats[f].recovered_count = CountIn(f, Recoveries)
    /\ stats[f].tokens = SumIn(f, Tokens)
    /\ \A r \in 0..MaxRetries : stats[f].retries_histogram[r] = CountIn(f, WithRetries(r))
    /\ \A e \in Categories : stats[f].errors_by_category[e] = SumIn(f, Failures(e))

LogInv == \A f \in Functions : LogOf(f)

\* The records of f are finitely many.
LEMMA LoggedIsFinite ==
    ASSUME TypeInv, NEW f
    PROVE  /\ IsFiniteSet(LoggedOf(f))
           /\ \A i \in LoggedOf(f) : i \in 1..Len(log) /\ log[i].m \in Reports
           /\ \A A : IsFiniteSet({i \in LoggedOf(f) : log[i].m \in A}) /\ CountIn(f, A) \in Nat
<1>1. log \in Seq(Records) /\ DOMAIN log = 1..Len(log) /\ Len(log) \in Nat
  BY DEF TypeInv
<1>2. IsFiniteSet(DOMAIN log)
  BY <1>1, FS_Interval
<1>3. IsFiniteSet(LoggedOf(f))
  <2>1. LoggedOf(f) \in SUBSET DOMAIN log
    BY DEF LoggedOf
  <2> QED
    BY <1>2, <2>1, FS_Subset
<1>4. \A i \in LoggedOf(f) : i \in 1..Len(log) /\ log[i].m \in Reports
  <2>1. \A i \in 1..Len(log) : log[i] \in Records
    BY <1>1
  <2> QED
    BY <1>1, <2>1 DEF LoggedOf, Records
<1>5. ASSUME NEW A
      PROVE  IsFiniteSet({i \in LoggedOf(f) : log[i].m \in A}) /\ CountIn(f, A) \in Nat
  <2> DEFINE T == {i \in LoggedOf(f) : log[i].m \in A}
  <2>1. T \in SUBSET LoggedOf(f)
    OBVIOUS
  <2> HIDE DEF T
  <2>2. IsFiniteSet(T)
    BY <1>3, <2>1, FS_Subset
  <2>3. Cardinality(T) \in Nat
    BY <2>2, FS_CardinalityType
  <2> QED
    BY <2>2, <2>3 DEF T, CountIn
<1> QED
  BY <1>3, <1>4, <1>5

\* The log after a record: one entry more, the others as they were.
LEMMA LogGrows ==
    ASSUME TypeInv, NEW c \in Calls, RecordEnds(c), NEW f
    PROVE  /\ Len(log) + 1 \notin LoggedOf(f)
           /\ LoggedOf(f)' = IF FnOf[c] = f THEN LoggedOf(f) \union {Len(log) + 1}
                                            ELSE LoggedOf(f)
           /\ \A i \in LoggedOf(f) : log'[i] = log[i]
           /\ log'[Len(log) + 1].m = m[c]
<1> DEFINE new == [call |-> c, m |-> m[c]]
           n == Len(log) + 1
<1>1. log \in Seq(Records) /\ new \in Records /\ Len(log) \in Nat /\ DOMAIN log = 1..Len(log)
  BY DEF TypeInv, Records
<1>2. log' = Append(log, new)
  BY DEF RecordEnds
<1>3. new.call = c /\ new.m = m[c]
  OBVIOUS
<1> HIDE DEF new
<1>4. /\ log' \in Seq(Records) /\ Len(log') = n
      /\ \A i \in 1..Len(log) : log'[i] = log[i]
      /\ log'[n] = new
  BY <1>1, <1>2, AppendProperties
<1>5. DOMAIN log' = 1..n /\ n \notin 1..Len(log) /\ 1..n = 1..Len(log) \union {n}
  BY <1>1, <1>4
<1>6. /\ LoggedOf(f) = {i \in 1..Len(log) : FnOf[log[i].call] = f}
      /\ LoggedOf(f)' = {i \in 1..n : FnOf[log'[i].call] = f}
  BY <1>1, <1>5 DEF LoggedOf
<1> HIDE DEF n
<1> QED
  BY <1>3, <1>4, <1>5, <1>6 DEF n

LEMMA CountGrows ==
    ASSUME TypeInv, NEW c \in Calls, RecordEnds(c), NEW f, NEW CONSTANT A
    PROVE  CountIn(f, A)' = CountIn(f, A) + One(FnOf[c] = f /\ m[c] \in A)
<1> DEFINE n == Len(log) + 1
           S == LoggedOf(f)
           T == {i \in LoggedOf(f) : log[i].m \in A}
           U == {i \in LoggedOf(f)' : log'[i].m \in A}
<1>1. /\ n \notin S /\ LoggedOf(f)' = IF FnOf[c] = f THEN S \union {n} ELSE S
      /\ \A i \in S : log'[i] = log[i]
      /\ log'[n].m = m[c]
  BY LogGrows
<1>2. IsFiniteSet(T) /\ Cardinality(T) \in Nat
  BY LoggedIsFinite DEF CountIn
<1>3. CountIn(f, A) = Cardinality(T) /\ CountIn(f, A)' = Cardinality(U)
  BY DEF CountIn
<1> HIDE DEF n
<1>4. CASE FnOf[c] = f /\ m[c] \in A
  <2>1. U = T \union {n} /\ n \notin T
    BY <1>1, <1>4
  <2> HIDE DEF T, U
  <2>2. Cardinality(U) = Cardinality(T) + 1
    BY <1>2, <2>1, FS_AddElement
  <2> QED
    BY <1>3, <1>4, <2>2 DEF One
<1>5. CASE ~(FnOf[c] = f /\ m[c] \in A)
  <2>1. U = T
    BY <1>1, <1>5
  <2> HIDE DEF T, U
  <2>2. Cardinality(U) = Cardinality(T) + 0
    BY <1>2, <2>1
  <2> QED
    BY <1>3, <1>5, <2>2 DEF One
<1> QED
  BY <1>4, <1>5

LEMMA SumGrows ==
    ASSUME TypeInv, NEW c \in Calls, RecordEnds(c), NEW f, NEW CONSTANT v \in [Reports -> Int]
    PROVE  SumIn(f, v)' = SumIn(f, v) + IF FnOf[c] = f THEN v[m[c]] ELSE 0
<1> DEFINE n == Len(log) + 1
           S == LoggedOf(f)
           g == [i \in S |-> v[log[i].m]]
           h == [i \in LoggedOf(f)' |-> v[log'[i].m]]
<1>1. /\ n \notin S /\ LoggedOf(f)' = IF FnOf[c] = f THEN S \union {n} ELSE S
      /\ \A i \in S : log'[i] = log[i]
      /\ log'[n].m = m[c]
  BY LogGrows
<1>2. IsFiniteSet(S) /\ \A i \in S : log[i].m \in Reports
  BY LoggedIsFinite
<1>3. m[c] \in Reports
  BY DEF TypeInv
<1>4. SumIn(f, v) = SumFunctionOnSet(g, S) /\ SumIn(f, v)' = SumFunctionOnSet(h, LoggedOf(f)')
  BY DEF SumIn, SumFunction
<1>5. \A i \in S : g[i] = h[i] /\ g[i] \in Int
  BY <1>1, <1>2
<1>6. FnOf[c] = f => h[n] = v[m[c]]
  BY <1>1
<1>7. v[m[c]] \in Int
  BY <1>3
<1> HIDE DEF n, S, g, h
<1>8. SumFunctionOnSet(h, S) = SumFunctionOnSet(g, S) /\ SumFunctionOnSet(g, S) \in Int
  <2>1. \A i \in S : g[i] = h[i]
    BY <1>5
  <2>2. \A i \in S : g[i] \in Int
    BY <1>5
  <2>3. SumFunctionOnSet(g, S) = SumFunctionOnSet(h, S)
    BY <1>2, <2>1, SumAgrees
  <2>4. SumFunctionOnSet(g, S) \in Int
    BY <1>2, <2>2, SumIsInt
  <2> QED
    BY <2>3, <2>4
<1>9. CASE FnOf[c] = f
  <2>1. h[n] \in Int
    BY <1>6, <1>7, <1>9
  <2>2. \A i \in S : h[i] \in Int
    BY <1>5
  <2>3. SumFunctionOnSet(h, S \union {n}) = SumFunctionOnSet(h, S) + h[n]
    BY <1>1, <1>2, <2>1, <2>2, SumWithOneMore
  <2> QED
    BY <1>1, <1>4, <1>6, <1>8, <1>9, <2>3
<1>10. CASE FnOf[c] # f
  BY <1>1, <1>4, <1>8, <1>10
<1> QED
  BY <1>9, <1>10

\* With no records, nothing is logged and every sum is 0.
LEMMA EmptyLog ==
    ASSUME NEW s, s = << >>, NEW S, S \subseteq DOMAIN s
    PROVE  /\ S = {}
           /\ \A v : SumFunction([i \in S |-> v[s[i].m]]) = 0
<1>1. S = {}
  OBVIOUS
<1>2. ASSUME NEW v PROVE SumFunction([i \in S |-> v[s[i].m]]) = 0
  <2> DEFINE g == [i \in S |-> v[s[i].m]]
  <2>1. DOMAIN g = {}
    BY <1>1
  <2> HIDE DEF g
  <2>2. SumFunction(g) = 0
    BY <2>1, SumOfNothing DEF SumFunction
  <2> QED
    BY <2>2 DEF g
<1> QED
  BY <1>1, <1>2

\* New statistics are those of an empty log.
LEMMA NewFields ==
    /\ NewStats.call_count = 0 /\ NewStats.success_count = 0 /\ NewStats.cache_hit_count = 0
    /\ NewStats.recovered_count = 0 /\ NewStats.tokens = 0
    /\ \A r \in 0..MaxRetries : NewStats.retries_histogram[r] = 0
    /\ \A e \in Categories : NewStats.errors_by_category[e] = 0
BY DEF NewStats, NoErrors

LEMMA InitLog == Init => LogInv
<1> SUFFICES ASSUME Init, NEW f \in Functions PROVE LogOf(f)
  BY DEF LogInv
<1>1. stats[f] = NewStats /\ log = << >>
  BY DEF Init
<1>2. Held(f) = 0
  BY DEF Init, Held, One
<1>3. (\A A : CountIn(f, A) = 0) /\ (\A v : SumIn(f, v) = 0)
  <2>1. LoggedOf(f) \subseteq DOMAIN log
    BY DEF LoggedOf
  <2>2. \A A : Cardinality({i \in LoggedOf(f) : log[i].m \in A}) = 0
    <3>1. LoggedOf(f) = {}
      BY <1>1, <2>1, EmptyLog
    <3>2. \A A : {i \in LoggedOf(f) : log[i].m \in A} = {}
      BY <3>1
    <3> QED
      BY <3>2, FS_EmptySet
  <2>3. \A v : SumFunction([i \in LoggedOf(f) |-> v[log[i].m]]) = 0
    BY <1>1, <2>1, EmptyLog
  <2> QED
    BY <2>2, <2>3 DEF CountIn, SumIn
<1> QED
  BY <1>1, <1>2, <1>3, NewFields DEF LogOf

LEMMA TokensType ==
    /\ Tokens \in [Reports -> Int]
    /\ \A e \in Categories : Failures(e) \in [Reports -> Int]
    /\ \A mc \in Reports : Tokens[mc] = ChargedTokens(mc)
    /\ \A mc \in Reports, e \in Categories : Failures(e)[mc] = FailuresIn(mc, e)
<1>1. \A mc \in Reports : mc \in CallMetricsType
  BY DEF Reports
<1>2. \A mc \in Reports : ChargedTokens(mc) \in Int
  BY <1>1 DEF ChargedTokens, CallMetricsType
<1>3. \A mc \in Reports, e \in Categories : FailuresIn(mc, e) \in Int
  BY <1>1, FailuresInNat
<1> QED
  BY <1>2, <1>3 DEF Tokens, Failures

\* Nothing of another function's log and statistics changes in a record.
LEMMA NextLog == TypeInv /\ LogInv /\ [Next]_vars => LogInv'
<1> SUFFICES ASSUME TypeInv, LogInv, [Next]_vars, NEW f \in Functions PROVE LogOf(f)'
  BY DEF LogInv
<1>t. /\ stats \in [Functions -> StatsType] /\ m \in [Calls -> Reports]
      /\ \A c \in Calls : FnOf[c] \in Functions
  BY AggregatorAssumption DEF TypeInv, TypeOK
<1>i. LogOf(f)
  BY DEF LogInv
<1>1. ASSUME NEW c \in Calls, RecordBegins(c) PROVE LogOf(f)'
  <2>1. Held(f) = 0 /\ Held(f)' = One(f = FnOf[c])
    BY <1>1, HeldFacts
  <2>2. log' = log /\ stats' = [stats EXCEPT ![FnOf[c]] = StatsBegun(@)]
    BY <1>1 DEF RecordBegins
  <2>3. /\ \A A : CountIn(f, A)' = CountIn(f, A)
        /\ \A v : SumIn(f, v)' = SumIn(f, v)
    BY <2>2 DEF CountIn, SumIn, LoggedOf
  <2>4. CountIn(f, Reports) \in Nat
    BY LoggedIsFinite
  <2>5. CASE f = FnOf[c]
    <3>1. /\ stats'[f].call_count = stats[f].call_count + 1
          /\ stats'[f].success_count = stats[f].success_count
          /\ stats'[f].cache_hit_count = stats[f].cache_hit_count
          /\ stats'[f].recovered_count = stats[f].recovered_count
          /\ stats'[f].tokens = stats[f].tokens
          /\ stats'[f].errors_by_category = stats[f].errors_by_category
          /\ stats'[f].retries_histogram = stats[f].retries_histogram
      <4>1. stats'[f] = StatsBegun(stats[f])
        BY <1>t, <2>2, <2>5
      <4> QED
        BY <1>t, <4>1, StatsBegunFacts
    <3>2. Held(f)' = 1
      BY <2>1, <2>5 DEF One
    <3>3. stats'[f].call_count = CountIn(f, Reports)' + Held(f)'
      <4>1. stats[f].call_count = CountIn(f, Reports) + Held(f)
        BY <1>i DEF LogOf
      <4> QED
        BY <2>1, <2>3, <2>4, <3>1, <3>2, <4>1
    <3> QED
      BY <1>i, <2>3, <3>1, <3>3 DEF LogOf
  <2>6. CASE f # FnOf[c]
    <3>1. stats'[f] = stats[f] /\ Held(f)' = Held(f)
      BY <1>t, <2>1, <2>2, <2>6 DEF One
    <3> QED
      BY <1>i, <2>3, <3>1 DEF LogOf
  <2> QED
    BY <2>5, <2>6
<1>2. ASSUME NEW c \in Calls, RecordEnds(c) PROVE LogOf(f)'
  <2>1. Held(f) = One(f = FnOf[c]) /\ Held(f)' = 0
    BY <1>2, HeldFacts
  <2>2. stats' = [stats EXCEPT ![FnOf[c]] = StatsAfter(@, m[c])] /\ m[c] \in Reports
    BY <1>2, <1>t DEF RecordEnds
  <2>c. ASSUME NEW CONSTANT A
        PROVE  CountIn(f, A)' = CountIn(f, A) + One(FnOf[c] = f /\ m[c] \in A)
    BY <1>2, CountGrows
  <2>v. ASSUME NEW CONSTANT v \in [Reports -> Int]
        PROVE  SumIn(f, v)' = SumIn(f, v) + IF FnOf[c] = f THEN v[m[c]] ELSE 0
    BY <1>2, SumGrows
  <2>3. /\ CountIn(f, Reports)' = CountIn(f, Reports) + One(FnOf[c] = f /\ m[c] \in Reports)
        /\ CountIn(f, Successes)' = CountIn(f, Successes) + One(FnOf[c] = f /\ m[c] \in Successes)
        /\ CountIn(f, Hits)' = CountIn(f, Hits) + One(FnOf[c] = f /\ m[c] \in Hits)
        /\ CountIn(f, Recoveries)'
             = CountIn(f, Recoveries) + One(FnOf[c] = f /\ m[c] \in Recoveries)
        /\ \A r \in 0..MaxRetries :
             CountIn(f, WithRetries(r))'
               = CountIn(f, WithRetries(r)) + One(FnOf[c] = f /\ m[c] \in WithRetries(r))
    BY <2>c
  <2>4. /\ SumIn(f, Tokens)' = SumIn(f, Tokens) + IF FnOf[c] = f THEN Tokens[m[c]] ELSE 0
        /\ \A e \in Categories :
             SumIn(f, Failures(e))'
               = SumIn(f, Failures(e)) + IF FnOf[c] = f THEN Failures(e)[m[c]] ELSE 0
    BY <2>v, TokensType
  <2>5. CASE f = FnOf[c]
    <3>1. /\ stats'[f].call_count = stats[f].call_count
          /\ stats'[f].success_count = stats[f].success_count + One(m[c].successful)
          /\ stats'[f].cache_hit_count = stats[f].cache_hit_count + One(m[c].cache_hit)
          /\ stats'[f].recovered_count
               = stats[f].recovered_count + One(m[c].successful /\ m[c].retries > 0)
          /\ stats'[f].tokens = stats[f].tokens + ChargedTokens(m[c])
          /\ \A e \in Categories :
               stats'[f].errors_by_category[e]
                 = stats[f].errors_by_category[e] + FailuresIn(m[c], e)
          /\ stats'[f].retries_histogram
               = [stats[f].retries_histogram EXCEPT ![m[c].retries] = @ + 1]
      <4>1. stats'[f] = StatsAfter(stats[f], m[c])
        BY <1>t, <2>2, <2>5
      <4> DEFINE s == stats[f]
                 mc == m[c]
      <4>2. s \in StatsType /\ mc \in Reports
        BY <1>t
      <4>3. stats'[f] = StatsAfter(s, mc)
        BY <4>1
      <4> HIDE DEF s, mc
      <4>4. /\ stats'[f].call_count = s.call_count
            /\ stats'[f].success_count = s.success_count + One(mc.successful)
            /\ stats'[f].cache_hit_count = s.cache_hit_count + One(mc.cache_hit)
            /\ stats'[f].recovered_count
                 = s.recovered_count + One(mc.successful /\ mc.retries > 0)
            /\ stats'[f].tokens = s.tokens + ChargedTokens(mc)
            /\ \A e \in Categories :
                 stats'[f].errors_by_category[e]
                   = s.errors_by_category[e] + FailuresIn(mc, e)
            /\ stats'[f].retries_histogram = [s.retries_histogram EXCEPT ![mc.retries] = @ + 1]
        BY <4>2, <4>3, StatsAfterFacts
      <4> QED
        BY <4>4 DEF s, mc
    <3>2. /\ One(FnOf[c] = f /\ m[c] \in Reports) = 1
          /\ One(FnOf[c] = f /\ m[c] \in Successes) = One(m[c].successful)
          /\ One(FnOf[c] = f /\ m[c] \in Hits) = One(m[c].cache_hit)
          /\ One(FnOf[c] = f /\ m[c] \in Recoveries) = One(m[c].successful /\ m[c].retries > 0)
          /\ \A r \in 0..MaxRetries :
               One(FnOf[c] = f /\ m[c] \in WithRetries(r)) = One(m[c].retries = r)
      BY <2>2, <2>5 DEF Successes, Hits, Recoveries, WithRetries, Recovered, One
    <3>3. stats'[f].call_count = CountIn(f, Reports)' + Held(f)'
      <4>1. stats[f].call_count = CountIn(f, Reports) + 1
        BY <1>i, <2>1, <2>5 DEF LogOf, One
      <4>2. CountIn(f, Reports)' = CountIn(f, Reports) + 1
        BY <2>3, <3>2
      <4>3. CountIn(f, Reports) \in Nat
        BY LoggedIsFinite
      <4> QED
        BY <2>1, <3>1, <4>1, <4>2, <4>3
    <3>4. /\ stats'[f].success_count = CountIn(f, Successes)'
          /\ stats'[f].cache_hit_count = CountIn(f, Hits)'
          /\ stats'[f].recovered_count = CountIn(f, Recoveries)'
      BY <1>i, <2>3, <3>1, <3>2 DEF LogOf
    <3>5. stats'[f].tokens = SumIn(f, Tokens)'
      <4>1. SumIn(f, Tokens)' = SumIn(f, Tokens) + ChargedTokens(m[c])
        BY <2>2, <2>4, <2>5, TokensType
      <4> QED
        BY <1>i, <3>1, <4>1 DEF LogOf
    <3>6. ASSUME NEW r \in 0..MaxRetries
          PROVE  stats'[f].retries_histogram[r] = CountIn(f, WithRetries(r))'
      <4> DEFINE h == stats[f].retries_histogram
                 x == m[c].retries
      <4>1. h \in [0..MaxRetries -> Nat] /\ h[r] = CountIn(f, WithRetries(r))
        BY <1>i, <1>t DEF LogOf, StatsType
      <4>2. stats'[f].retries_histogram = [h EXCEPT ![x] = @ + 1]
        BY <3>1
      <4>3. CountIn(f, WithRetries(r))' = CountIn(f, WithRetries(r)) + One(x = r)
        BY <2>3, <3>2
      <4> HIDE DEF h, x
      <4>4. [h EXCEPT ![x] = @ + 1][r] = h[r] + One(x = r)
        BY <4>1 DEF One
      <4> QED
        BY <4>1, <4>2, <4>3, <4>4
    <3>7. ASSUME NEW e \in Categories
          PROVE  stats'[f].errors_by_category[e] = SumIn(f, Failures(e))'
      <4>1. SumIn(f, Failures(e))' = SumIn(f, Failures(e)) + FailuresIn(m[c], e)
        BY <2>2, <2>4, <2>5, TokensType
      <4> QED
        BY <1>i, <3>1, <4>1 DEF LogOf
    <3> QED
      BY <3>3, <3>4, <3>5, <3>6, <3>7 DEF LogOf
  <2>6. CASE f # FnOf[c]
    <3>1. stats'[f] = stats[f] /\ Held(f)' = Held(f)
      BY <1>t, <2>1, <2>2, <2>6 DEF One
    <3>2. /\ CountIn(f, Reports)' = CountIn(f, Reports)
          /\ CountIn(f, Successes)' = CountIn(f, Successes)
          /\ CountIn(f, Hits)' = CountIn(f, Hits)
          /\ CountIn(f, Recoveries)' = CountIn(f, Recoveries)
          /\ \A r \in 0..MaxRetries : CountIn(f, WithRetries(r))' = CountIn(f, WithRetries(r))
          /\ SumIn(f, Tokens)' = SumIn(f, Tokens)
          /\ \A e \in Categories : SumIn(f, Failures(e))' = SumIn(f, Failures(e))
      <4>1. LoggedOf(f)' = LoggedOf(f) /\ \A i \in LoggedOf(f) : log'[i] = log[i]
        BY <1>2, <2>6, LogGrows
      <4>2. \A A : {i \in LoggedOf(f)' : log'[i].m \in A} = {i \in LoggedOf(f) : log[i].m \in A}
        BY <4>1
      <4>3. \A v : [i \in LoggedOf(f)' |-> v[log'[i].m]] = [i \in LoggedOf(f) |-> v[log[i].m]]
        BY <4>1
      <4> QED
        BY <4>2, <4>3 DEF CountIn, SumIn
    <3> QED
      BY <1>i, <3>1, <3>2 DEF LogOf
  <2> QED
    BY <2>5, <2>6
<1>3. ASSUME Reset PROVE LogOf(f)'
  <2>1. stats'[f] = NewStats /\ log' = << >>
    BY <1>3 DEF Reset, Cleared
  <2>2. Held(f)' = 0
    BY <1>3 DEF Reset, Unlocked, Held, One
  <2>3. (\A A : CountIn(f, A)' = 0) /\ (\A v : SumIn(f, v)' = 0)
    <3>1. LoggedOf(f)' \subseteq DOMAIN log'
      BY DEF LoggedOf
    <3>2. \A A : Cardinality({i \in LoggedOf(f)' : log'[i].m \in A}) = 0
      <4>1. LoggedOf(f)' = {}
        BY <2>1, <3>1, EmptyLog
      <4>2. \A A : {i \in LoggedOf(f)' : log'[i].m \in A} = {}
        BY <4>1
      <4> QED
        BY <4>2, FS_EmptySet
    <3>3. \A v : SumFunction([i \in LoggedOf(f)' |-> v[log'[i].m]]) = 0
      BY <2>1, <3>1, EmptyLog
    <3> QED
      BY <3>2, <3>3 DEF CountIn, SumIn
  <2> QED
    BY <2>1, <2>2, <2>3, NewFields DEF LogOf
<1>4. ASSUME UNCHANGED <<stats, log>>, Held(f)' = Held(f) PROVE LogOf(f)'
  <2>1. LoggedOf(f)' = LoggedOf(f)
    BY <1>4 DEF LoggedOf
  <2> QED
    BY <1>4, <1>i, <2>1 DEF LogOf, CountIn, SumIn
<1>5. ASSUME NEW c \in Calls, Callback(c) \/ Breach(c) PROVE LogOf(f)'
  <2>1. Held(f)' = Held(f)
    BY <1>5, HeldFacts
  <2> QED
    BY <1>4, <1>5, <2>1 DEF Callback, Breach
<1>6. ASSUME \/ \E g \in Functions : TopFunctions(g)
             \/ ReadField("call_count", "success_count")
             \/ ReadField("success_count", "failure_count")
             \/ ReadField("failure_count", "done")
             \/ Deliver \/ UNCHANGED vars
      PROVE  LogOf(f)'
  <2>1. UNCHANGED <<stats, log, pc>>
    BY <1>6 DEF TopFunctions, ReadField, Deliver, vars
  <2> QED
    BY <1>4, <2>1 DEF Held
<1> QED
  BY <1>1, <1>2, <1>3, <1>5, <1>6 DEF Next

LEMMA LogInvariant == Spec => []LogInv
BY InitLog, NextLog, TypeInvariant, PTL DEF Spec

\* Whenever the lock is free, what summary() returns of a function is what the CallMetrics
\* recorded since the last reset add up to, as they were when recorded.
THEOREM SummaryAddsUp == Spec => []StatsMatchLog
<1>1. TypeInv /\ LogInv => StatsMatchLog
  <2> SUFFICES ASSUME TypeInv, LogInv, Unlocked, NEW f \in Functions
               PROVE  /\ stats[f].call_count = Cardinality(LoggedOf(f))
                      /\ stats[f].success_count
                           = Cardinality({i \in LoggedOf(f) : log[i].m.successful})
                      /\ stats[f].cache_hit_count
                           = Cardinality({i \in LoggedOf(f) : log[i].m.cache_hit})
                      /\ stats[f].recovered_count
                           = Cardinality({i \in LoggedOf(f) : Recovered(log[i].m)})
                      /\ stats[f].tokens
                           = SumFunction([i \in LoggedOf(f) |-> ChargedTokens(log[i].m)])
                      /\ \A r \in 0..MaxRetries :
                           stats[f].retries_histogram[r]
                             = Cardinality({i \in LoggedOf(f) : log[i].m.retries = r})
                      /\ \A e \in Categories :
                           stats[f].errors_by_category[e]
                             = SumFunction([i \in LoggedOf(f) |-> FailuresIn(log[i].m, e)])
    BY DEF StatsMatchLog
  <2>1. LogOf(f) /\ Held(f) = 0
    BY HeldFacts DEF LogInv
  <2>2. \A i \in LoggedOf(f) : log[i].m \in Reports
    BY LoggedIsFinite
  <2>3. stats[f].call_count = Cardinality(LoggedOf(f))
    <3>1. {i \in LoggedOf(f) : log[i].m \in Reports} = LoggedOf(f)
      BY <2>2
    <3>2. CountIn(f, Reports) = Cardinality(LoggedOf(f)) /\ CountIn(f, Reports) \in Nat
      BY <3>1, LoggedIsFinite DEF CountIn
    <3> QED
      BY <2>1, <3>2 DEF LogOf
  <2>4. /\ {i \in LoggedOf(f) : log[i].m \in Successes} = {i \in LoggedOf(f) : log[i].m.successful}
        /\ {i \in LoggedOf(f) : log[i].m \in Hits} = {i \in LoggedOf(f) : log[i].m.cache_hit}
        /\ {i \in LoggedOf(f) : log[i].m \in Recoveries}
             = {i \in LoggedOf(f) : Recovered(log[i].m)}
        /\ \A r : {i \in LoggedOf(f) : log[i].m \in WithRetries(r)}
                    = {i \in LoggedOf(f) : log[i].m.retries = r}
    BY <2>2 DEF Successes, Hits, Recoveries, WithRetries
  <2>5. [i \in LoggedOf(f) |-> Tokens[log[i].m]]
          = [i \in LoggedOf(f) |-> ChargedTokens(log[i].m)]
    BY <2>2, TokensType
  <2>6. \A e \in Categories :
          [i \in LoggedOf(f) |-> Failures(e)[log[i].m]]
            = [i \in LoggedOf(f) |-> FailuresIn(log[i].m, e)]
    BY <2>2, TokensType
  <2> QED
    BY <2>1, <2>3, <2>4, <2>5, <2>6 DEF LogOf, CountIn, SumIn
<1> QED
  BY <1>1, TypeInvariant, LogInvariant, PTL
=============================================================================
