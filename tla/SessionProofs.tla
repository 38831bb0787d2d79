---------------------------- MODULE SessionProofs ----------------------------
(***************************************************************************)
(* Proofs about Session for any number of calls and blocks, nested as they *)
(* may be, any retry policy and any list of budgets.                       *)
(***************************************************************************)
EXTENDS Session, SumTheorems, SequenceTheorems, TLAPS

-----------------------------------------------------------------------------
(***************************************************************************)
(* The last place of a sequence that is in some set of places.             *)
(***************************************************************************)

LEMMA MaxFacts ==
    ASSUME NEW n \in Nat, NEW S \in SUBSET (1..n), S # {}
    PROVE  Max(S) \in S /\ \A i \in S : i <= Max(S)
<1> DEFINE T == {k \in Nat : \A R \in SUBSET (1..k) : R # {} => \E x \in R : \A y \in R : x >= y}
<1>1. 0 \in T
  BY 1..0 = {}
<1>2. ASSUME NEW k \in T PROVE k + 1 \in T
  <2> SUFFICES ASSUME NEW R \in SUBSET (1..(k + 1)), R # {}
               PROVE  \E x \in R : \A y \in R : x >= y
    OBVIOUS
  <2>1. CASE k + 1 \in R
    BY <2>1
  <2>2. CASE k + 1 \notin R
    <3>1. R \in SUBSET (1..k)
      BY <2>2
    <3> QED
      BY <3>1
  <2> QED
    BY <2>1, <2>2
<1> HIDE DEF T
<1>3. T \in SUBSET Nat
  BY DEF T
<1>4. T = Nat
  BY <1>1, <1>2, <1>3, NatSetInduction
<1>5. \E x \in S : \A y \in S : x >= y
  BY <1>4 DEF T
<1>6. Max(S) \in S /\ \A y \in S : Max(S) >= y
  BY <1>5 DEF Max
<1> QED
  BY <1>6

\* The last of the first n places of s that is in `set`, or Process: Innermost is this of
\* the whole of nest.
InnermostAt(s, n, set) ==
    LET at == {i \in 1..n : s[i] \in set} IN
    IF at = {} THEN Process ELSE s[Max(at)]

LEMMA InnermostIs ==
    ASSUME nest \in Seq(Blocks), NEW set
    PROVE  Innermost(set) = InnermostAt(nest, Len(nest), set)
<1>1. DOMAIN nest = 1..Len(nest)
  BY LenProperties
<1> QED
  BY <1>1 DEF Innermost, InnermostAt

LEMMA InnermostType ==
    ASSUME NEW s, NEW n \in Nat, NEW set, \A i \in 1..n : s[i] \in Owners
    PROVE  InnermostAt(s, n, set) \in Owners
<1> DEFINE at == {i \in 1..n : s[i] \in set}
<1>1. CASE at = {}
  BY <1>1 DEF InnermostAt, Owners
<1>2. CASE at # {}
  <2>1. at \in SUBSET (1..n)
    OBVIOUS
  <2> HIDE DEF at
  <2>2. Max(at) \in at
    BY <1>2, <2>1, MaxFacts
  <2> QED
    BY <1>2, <2>1, <2>2 DEF InnermostAt, at
<1> QED
  BY <1>1, <1>2

-----------------------------------------------------------------------------
(***************************************************************************)
(* Type correctness.                                                       *)
(***************************************************************************)

SeenType ==
    [innermost : Owners \union {None}, shielded : BOOLEAN, owner : Owners \union {None},
     switched : BOOLEAN]

HomeType == [nest : Seq(Blocks), kept : BOOLEAN]

\* Where a call's locals are needed next.
LocalsOK(c) ==
    /\ pc[c] \notin {"idle", "settled"} => fn.executor # None
    /\ pc[c] = "lookup" => call[c].executor = fn.executor
    /\ pc[c] \in {"idle", "lookup"} => call[c].attempt = 0
    /\ pc[c] = "attempt" => call[c].attempt <= MaxRetries
    /\ pc[c] \in {"attempt", "answer"} => call[c].cache # None

TypeInv ==
    /\ TypeOK
    /\ overlapped \in BOOLEAN
    /\ seen \in [Calls -> SeenType] /\ home \in HomeType
    /\ charged \in Spendings /\ accepted \in Spendings
    /\ tracker.budgets = BudgetList
    /\ \A c \in Calls : LocalsOK(c)

\* A budget list has finitely many budgets of each kind.
LEMMA OnMetricFacts ==
    ASSUME NEW t \in Trackers, NEW scope, NEW metric
    PROVE  /\ IsFiniteSet(OnMetric(t, scope, metric))
           /\ Cardinality(OnMetric(t, scope, metric)) \in Nat
<1>1. t.budgets \in Seq(Budgets)
  BY DEF Trackers
<1>2. DOMAIN t.budgets = 1..Len(t.budgets) /\ Len(t.budgets) \in Nat
  BY <1>1, LenProperties
<1>3. IsFiniteSet(1..Len(t.budgets))
  BY <1>2, FS_Interval
<1>4. OnMetric(t, scope, metric) \subseteq 1..Len(t.budgets)
  BY <1>2 DEF OnMetric, InScope
<1>5. IsFiniteSet(OnMetric(t, scope, metric))
  BY <1>3, <1>4, FS_Subset
<1> QED
  BY <1>5, FS_CardinalityType

\* record keeps the budgets and adds each total its share.
LEMMA RecordFacts ==
    ASSUME NEW t \in Trackers, NEW spent \in Spendings, NEW scope
    PROVE  LET u == Record(t, spent, scope) IN
           /\ u \in Trackers
           /\ u.budgets = t.budgets
           /\ u.record_count = t.record_count + 1
           /\ \A metric \in Metrics : u.totals[metric] =
                t.totals[metric] + Cardinality(OnMetric(t, scope, metric)) * spent[metric]
<1> DEFINE totals == [metric \in Metrics |->
             t.totals[metric] + Cardinality(OnMetric(t, scope, metric)) * spent[metric]]
           u == Record(t, spent, scope)
<1>1. ASSUME NEW metric \in Metrics
      PROVE  t.totals[metric] + Cardinality(OnMetric(t, scope, metric)) * spent[metric] \in Nat
  <2> DEFINE n == Cardinality(OnMetric(t, scope, metric))
  <2>1. n \in Nat
    BY OnMetricFacts
  <2>2. t.totals[metric] \in Nat /\ spent[metric] \in Nat
    BY DEF Trackers, Spendings
  <2> HIDE DEF n
  <2>3. n * spent[metric] \in Nat
    BY <2>1, <2>2
  <2>4. t.totals[metric] + n * spent[metric] \in Nat
    BY <2>2, <2>3
  <2> QED
    BY <2>4 DEF n
<1>2. totals \in Spendings
  BY <1>1 DEF Spendings
<1>3. u = [[t EXCEPT !.totals = totals] EXCEPT !.record_count = t.record_count + 1]
  BY DEF Record, Trackers
<1>4. t.record_count \in Nat /\ t.record_count + 1 \in Nat
  BY DEF Trackers
<1> HIDE DEF totals
<1>5. /\ u \in Trackers /\ u.budgets = t.budgets /\ u.record_count = t.record_count + 1
      /\ u.totals = totals
  BY <1>2, <1>3, <1>4 DEF Trackers
<1> QED
  BY <1>5 DEF totals

\* What a call tells the tracker.
LEMMA SpentType == \A ok \in BOOLEAN : Spent(ok) \in Spendings
BY DEF Spent, Spendings

LEMMA PlusFacts ==
    ASSUME NEW s \in Spendings, NEW t \in Spendings
    PROVE  Plus(s, t) \in Spendings /\ \A metric \in Metrics : Plus(s, t)[metric] = s[metric] + t[metric]
<1>1. \A metric \in Metrics : s[metric] + t[metric] \in Nat
  BY DEF Spendings
<1> QED
  BY <1>1 DEF Plus, Spendings

LEMMA InitType == Init => TypeInv
<1> SUFFICES ASSUME Init PROVE TypeInv
  OBVIOUS
<1>1. Nothing \in Spendings
  BY DEF Nothing, Spendings
<1>2. NewTracker \in Trackers
  BY <1>1 DEF NewTracker, Trackers
<1>3. tracker \in Trackers /\ tracker.budgets = BudgetList
  BY <1>2, SessionAssumption DEF Init, Trackers
<1>4. Original \in Slots
  BY DEF Original, Slots, Owners
<1>5. NewCall \in CallType
  BY SessionAssumption DEF NewCall, CallType
<1>6. NewSeen \in SeenType
  BY DEF NewSeen, SeenType
<1>13. home \in HomeType
  BY DEF Init, HomeType
<1>7. nest \in Seq(Blocks)
  BY DEF Init, SlotsInit
<1>8. slots \in Slots /\ pinned \in [Owners -> Owners \union {None}] /\ saved \in [Blocks -> Slots]
  BY <1>4 DEF Init, SlotsInit
<1>9. phase \in [Blocks -> {"new", "open", "closed"}] /\ overlapped \in BOOLEAN
  BY DEF Init, SlotsInit
<1>10. fn \in [backend : FnBackends, executor : Owners \union {None}]
  BY DEF Init
<1>11. TypeOK
  BY <1>3, <1>5, <1>7, <1>8, <1>9, <1>10 DEF Init, TypeOK, Labels
<1>12. \A c \in Calls : LocalsOK(c)
  BY DEF Init, LocalsOK, NewCall
<1> QED
  BY <1>1, <1>3, <1>6, <1>9, <1>11, <1>12, <1>13 DEF TypeInv, Init

\* The part of the type invariant that is about ProcessState.
SlotsOK ==
    /\ slots \in Slots
    /\ pinned \in [Owners -> Owners \union {None}]
    /\ saved \in [Blocks -> Slots]
    /\ phase \in [Blocks -> {"new", "open", "closed"}]
    /\ nest \in Seq(Blocks)
    /\ overlapped \in BOOLEAN

LEMMA EnterType ==
    ASSUME SlotsOK, NEW b \in Blocks, EnterBlock(b)
    PROVE  SlotsOK'
<1>1. b \in Owners /\ Process \in Owners /\ Isolates \subseteq Owners
  BY DEF Owners, Blocks
<1>2. Enter(b)
  BY DEF EnterBlock, EnterIsolate, EnterCapture
<1>3. saved' \in [Blocks -> Slots] /\ phase' \in [Blocks -> {"new", "open", "closed"}]
  BY <1>2 DEF Enter, SlotsOK
<1>4. nest' \in Seq(Blocks) /\ overlapped' \in BOOLEAN
  <2>1. Append(nest, b) \in Seq(Blocks)
    BY AppendProperties DEF SlotsOK
  <2> QED
    BY <1>2, <2>1 DEF Enter, SlotsOK
<1>5. slots' \in Slots /\ pinned' \in [Owners -> Owners \union {None}]
  <2>1. CASE EnterIsolate(b)
    <3>1. /\ slots.executor \in Owners /\ slots.cache \in Owners
          /\ b \in Owners \union {None} /\ None \in {Process, None}
      BY <1>1 DEF SlotsOK, Slots
    <3>2. slots' \in Slots
      BY <1>1, <2>1, <3>1 DEF EnterIsolate, Slots
    <3> QED
      BY <1>1, <2>1, <3>2 DEF EnterIsolate, SlotsOK
  <2>2. CASE EnterCapture(b)
    BY <1>1, <2>2 DEF EnterCapture, SlotsOK, Slots
  <2> QED
    BY <2>1, <2>2 DEF EnterBlock
<1> QED
  BY <1>3, <1>4, <1>5 DEF SlotsOK

LEMMA LeaveType ==
    ASSUME SlotsOK, NEW b \in Blocks, LeaveBlock(b)
    PROVE  SlotsOK'
<1>1. Original \in Slots
  BY DEF Original, Slots, Owners
<1>2. Leave(b)
  BY DEF LeaveBlock, LeaveIsolate, LeaveCapture
<1>3. saved' \in [Blocks -> Slots] /\ phase' \in [Blocks -> {"new", "open", "closed"}]
  BY <1>1, <1>2 DEF Leave, SlotsOK
<1>4. overlapped' \in BOOLEAN
  BY <1>2 DEF Leave, SlotsOK
<1>5. nest' \in Seq(Blocks)
  <2>1. nest \in Seq(Blocks) /\ Len(nest) \in Nat
    BY DEF SlotsOK
  <2>2. \A i \in 1..(Len(nest) - 1) : nest[i] \in Blocks
    BY <2>1, ElementOfSeq
  <2>3. SubSeq(nest, 1, Len(nest) - 1) \in Seq(Blocks)
    BY <2>1, <2>2, SubSeqProperties
  <2>4. << >> \in Seq(Blocks)
    OBVIOUS
  <2> QED
    BY <1>2, <2>3, <2>4 DEF Leave
<1>6. slots' \in Slots /\ pinned' = pinned
  BY <1>2 DEF LeaveBlock, LeaveIsolate, LeaveCapture, Leave, SlotsOK, Slots
<1> QED
  BY <1>3, <1>4, <1>5, <1>6 DEF SlotsOK

\* The cache of an executor, used or not yet used.
LEMMA CacheOfType ==
    ASSUME SlotsOK, NEW e \in Owners
    PROVE  CacheOf(e) \in Owners
BY DEF SlotsOK, Slots, CacheOf

\* What is recorded with the tracker, and which of it is accepted.
LEMMA ChargeToType ==
    ASSUME TypeInv, NEW c \in Calls, ChargeTo(c)
    PROVE  /\ tracker' \in Trackers /\ tracker'.budgets = BudgetList
           /\ charged' \in Spendings /\ accepted' \in Spendings
<1> DEFINE spent == Spent(call[c].ok)
           once == Record(tracker, spent, "process")
<1>1. /\ call[c].ok \in BOOLEAN /\ tracker \in Trackers /\ tracker.budgets = BudgetList
      /\ charged \in Spendings /\ accepted \in Spendings
  BY DEF TypeInv, TypeOK, CallType
<1>2. spent \in Spendings
  BY <1>1, SpentType
<1> HIDE DEF spent
<1>3. once \in Trackers /\ once.budgets = BudgetList
  BY <1>1, <1>2, RecordFacts
<1> HIDE DEF once
<1>4. Record(once, spent, "process") \in Trackers /\ Record(once, spent, "process").budgets = BudgetList
  BY <1>2, <1>3, RecordFacts
<1>5. Plus(charged, spent) \in Spendings /\ Plus(accepted, spent) \in Spendings
  BY <1>1, <1>2, PlusFacts
<1>6. Plus(Plus(charged, spent), spent) \in Spendings
  BY <1>2, <1>5, PlusFacts
<1>7. /\ tracker' \in {tracker, once, Record(once, spent, "process")}
      /\ charged' \in {charged, Plus(charged, spent), Plus(Plus(charged, spent), spent)}
      /\ accepted' \in {accepted, Plus(accepted, spent)}
  BY DEF ChargeTo, once, spent
<1> QED
  BY <1>1, <1>3, <1>4, <1>5, <1>6, <1>7

\* Calls type: the locals that a step assigns.
LEMMA CallStepType ==
    ASSUME TypeInv, NEW c \in Calls, Begin(c) \/ Lookup(c) \/ Attempt(c) \/ Answer(c) \/ Report(c)
    PROVE  TypeInv'
<1>1. /\ pc \in [Calls -> Labels] /\ call \in [Calls -> CallType] /\ call[c] \in CallType
      /\ seen \in [Calls -> SeenType] /\ seen[c] \in SeenType /\ home \in HomeType
      /\ SlotsOK
      /\ fn \in [backend : FnBackends, executor : Owners \union {None}]
      /\ entries \subseteq Owners /\ tracker \in Trackers /\ recorded \in [Owners -> Nat]
      /\ charged \in Spendings /\ accepted \in Spendings /\ tracker.budgets = BudgetList
      /\ \A d \in Calls : LocalsOK(d)
  BY DEF TypeInv, TypeOK, SlotsOK
<1>2. None \notin Owners /\ Process \in Owners /\ MaxRetries \in Nat
  BY ProcessAssumption, SessionAssumption DEF Owners
<1>3. LocalsOK(c)
  BY <1>1
<1>6. Innermost(Blocks) \in Owners /\ Innermost(Isolates) \in Owners
  <2>1. nest \in Seq(Blocks) /\ Len(nest) \in Nat /\ \A i \in 1..Len(nest) : nest[i] \in Owners
    BY <1>1, ElementOfSeq DEF SlotsOK, Owners
  <2> QED
    BY <2>1, InnermostIs, InnermostType
<1>7. home' \in HomeType
  <2>1. CASE Lookup(c)
    <3>1. home' = [home EXCEPT !.kept = @ /\ (pinned[call[c].executor] = None => AtHome)]
      BY <2>1 DEF Lookup
    <3>2. (home.kept /\ (pinned[call[c].executor] = None => AtHome)) \in BOOLEAN
      OBVIOUS
    <3> QED
      BY <1>1, <3>1, <3>2 DEF HomeType
  <2>2. CASE Begin(c) \/ Attempt(c) \/ Answer(c) \/ Report(c)
    BY <1>1, <2>2 DEF Begin, Attempt, Answer, Report, history
  <2> QED
    BY <2>1, <2>2
<1>4. /\ SlotsOK' /\ UNCHANGED fn
      /\ entries' \subseteq Owners /\ tracker' \in Trackers /\ recorded' \in [Owners -> Nat]
      /\ charged' \in Spendings /\ accepted' \in Spendings /\ tracker'.budgets = BudgetList
      /\ pc' \in [Calls -> Labels] /\ call' \in [Calls -> CallType]
      /\ seen' \in [Calls -> SeenType]
      /\ \A d \in Calls : d # c => pc'[d] = pc[d] /\ call'[d] = call[d]
      /\ LocalsOK(c)'
  <2> DEFINE Rest ==
        /\ pc' \in [Calls -> Labels] /\ call' \in [Calls -> CallType]
        /\ seen' \in [Calls -> SeenType]
        /\ \A d \in Calls : d # c => pc'[d] = pc[d] /\ call'[d] = call[d]
        /\ LocalsOK(c)'
      Others ==
        /\ SlotsOK' /\ UNCHANGED fn
        /\ entries' \subseteq Owners /\ tracker' \in Trackers /\ recorded' \in [Owners -> Nat]
        /\ charged' \in Spendings /\ accepted' \in Spendings /\ tracker'.budgets = BudgetList
  <2>1. CASE Begin(c)
    <3>1. /\ fn.executor # None /\ UNCHANGED <<slotVars, fn, entries, tracker, recorded, charged, accepted>>
          /\ pc' = [pc EXCEPT ![c] = "lookup"]
      BY <2>1 DEF Begin, Goto
    <3>2. Others
      BY <1>1, <3>1 DEF SlotsOK, slotVars
    <3>3. FnExecutor = fn.executor /\ fn.executor \in Owners
      BY <1>1, <3>1 DEF FnExecutor
    <3>5. /\ slots.aggregator \in Owners \union {None} /\ slots.tracker \in {Process, None}
      BY <1>1 DEF SlotsOK, Slots
    <3>6. call' = [call EXCEPT ![c] = [call[c] EXCEPT !.executor = fn.executor,
                                                      !.agg = slots.aggregator,
                                                      !.trk = slots.tracker]]
      BY <1>1, <2>1, <3>3 DEF Begin
    <3>7. /\ call' \in [Calls -> CallType]
          /\ call'[c].executor = fn.executor /\ call'[c].attempt = call[c].attempt
      BY <1>1, <3>3, <3>5, <3>6 DEF CallType
    <3>8. seen' \in [Calls -> SeenType]
      BY <1>1, <1>6, <2>1 DEF Begin, SeenType
    <3>9. LocalsOK(c)'
      <4>1. pc[c] = "idle" /\ pc'[c] = "lookup" /\ fn' = fn
        BY <1>1, <2>1, <3>1 DEF Begin, Goto
      <4>2. call'[c].attempt = 0
        BY <1>3, <3>7, <4>1 DEF LocalsOK
      <4> QED
        BY <3>1, <3>7, <4>1, <4>2 DEF LocalsOK
    <3>10. Rest
      BY <1>1, <3>1, <3>6, <3>7, <3>8, <3>9 DEF Labels
    <3> QED
      BY <3>2, <3>10
  <2>2. CASE Lookup(c)
    <3>1. /\ pc[c] = "lookup" /\ call[c].executor = fn.executor /\ fn.executor \in Owners
          /\ pc' \in [Calls -> Labels] /\ pc'[c] \in {"report", "attempt"}
          /\ \A d \in Calls : d # c => pc'[d] = pc[d]
      BY <1>1, <1>3, <2>2 DEF Lookup, Goto, LocalsOK, Labels
    <3>2. CacheOf(call[c].executor) \in Owners
      BY <1>1, <3>1, CacheOfType
    <3>3. Others
      BY <1>1, <2>2, <3>1, <3>2 DEF Lookup, Pin, SlotsOK
    <3> DEFINE cache == CacheOf(call[c].executor)
               hit == cache \in entries
               mine == [call[c] EXCEPT !.executor = None, !.cache = cache,
                                       !.hit = hit, !.ok = hit]
    <3>4. call' = [call EXCEPT ![c] = mine]
      BY <1>1, <2>2 DEF Lookup
    <3>11. hit \in BOOLEAN /\ cache \in Owners
      BY <3>2
    <3> HIDE DEF cache, hit
    <3>12. mine \in CallType /\ mine.attempt = call[c].attempt /\ mine.cache = cache
      BY <1>1, <3>11 DEF CallType
    <3> HIDE DEF mine
    <3>5. call' \in [Calls -> CallType]
      BY <1>1, <3>4, <3>12
    <3>6. seen' \in [Calls -> SeenType]
      <4>1. PICK o \in Owners \union {None} : seen' = [seen EXCEPT ![c].owner = o]
        BY <1>6, <2>2 DEF Lookup
      <4> QED
        BY <1>1, <4>1 DEF SeenType
    <3>7. LocalsOK(c)'
      <4>1. call'[c].attempt = 0
        BY <1>1, <1>3, <3>1, <3>4, <3>12 DEF LocalsOK
      <4>2. call'[c].cache # None
        BY <1>1, <1>2, <3>4, <3>11, <3>12
      <4> QED
        BY <1>2, <1>3, <3>1, <3>3, <4>1, <4>2 DEF LocalsOK
    <3>8. Rest
      BY <1>1, <3>1, <3>4, <3>5, <3>6, <3>7
    <3> QED
      BY <3>3, <3>8
  <2>3. CASE Attempt(c)
    <3>1. /\ pc[c] = "attempt" /\ fn' = fn
          /\ pc' = [pc EXCEPT ![c] = IF ResolvedBackend = None THEN AfterFailure(c) ELSE "answer"]
      BY <2>3 DEF Attempt, Goto
    <3>2. Others
      BY <1>1, <2>3 DEF Attempt, SlotsOK, slotVars
    <3>3. ResolvedBackend \in Backends \union {None}
      BY <1>1 DEF ResolvedBackend, Backends, SlotsOK, Slots
    <3> DEFINE a == IF ResolvedBackend = None THEN call[c].attempt + 1 ELSE call[c].attempt
               mine == [call[c] EXCEPT !.backend = ResolvedBackend, !.attempt = a]
    <3>4. call' = [call EXCEPT ![c] = mine]
      BY <1>1, <2>3 DEF Attempt
    <3>5. call[c].attempt \in Nat /\ call[c].attempt <= MaxRetries
      BY <1>1, <1>3, <3>1 DEF LocalsOK, CallType
    <3>6. a \in 0..(MaxRetries + 1)
      BY <1>2, <3>5
    <3> HIDE DEF a
    <3>7. mine \in CallType /\ mine.attempt = a /\ mine.cache = call[c].cache
      BY <1>1, <3>3, <3>6 DEF CallType
    <3> HIDE DEF mine
    <3>8. call' \in [Calls -> CallType] /\ \A d \in Calls : d # c => call'[d] = call[d]
      BY <1>1, <3>4, <3>7
    <3>9. seen' \in [Calls -> SeenType]
      BY <1>1, <2>3 DEF Attempt, SeenType
    <3>10. pc' \in [Calls -> Labels] /\ \A d \in Calls : d # c => pc'[d] = pc[d]
      BY <1>1, <3>1 DEF AfterFailure, Labels
    <3>11. LocalsOK(c)'
      <4>1. call'[c].attempt = a /\ fn.executor # None /\ call'[c].cache # None
        BY <1>1, <1>3, <3>1, <3>4, <3>7 DEF LocalsOK
      <4>2. pc'[c] \in {"attempt", "report", "answer"}
        BY <1>1, <3>1 DEF AfterFailure
      <4>3. pc'[c] = "attempt" => call[c].attempt < MaxRetries
        BY <1>1, <3>1 DEF AfterFailure
      <4>4. pc'[c] = "attempt" => a <= MaxRetries
        BY <1>2, <3>5, <4>3 DEF a
      <4> QED
        BY <3>1, <4>1, <4>2, <4>4 DEF LocalsOK
    <3> QED
      BY <3>2, <3>8, <3>9, <3>10, <3>11
  <2>4. CASE Answer(c)
    <3>1. /\ pc[c] = "answer" /\ fn' = fn /\ seen' = seen
          /\ pc' = [pc EXCEPT ![c] = "report"]
      BY <2>4 DEF Answer, Goto, history
    <3>2. call[c].cache \in Owners
      BY <1>1, <1>3, <3>1 DEF LocalsOK, CallType
    <3>3. Others
      BY <1>1, <2>4, <3>2 DEF Answer, SlotsOK, slotVars, history
    <3>4. ResolvedBackend \in Backends \union {None}
      BY <1>1 DEF ResolvedBackend, Backends, SlotsOK, Slots
    <3> DEFINE mine == [call[c] EXCEPT !.reported = ResolvedBackend, !.ok = TRUE]
    <3>5. call' = [call EXCEPT ![c] = mine]
      BY <1>1, <2>4 DEF Answer, BackendForMetrics
    <3>6. mine \in CallType
      BY <1>1, <3>4 DEF CallType
    <3> HIDE DEF mine
    <3>7. LocalsOK(c)'
      BY <1>1, <1>3, <3>1 DEF LocalsOK
    <3> QED
      BY <1>1, <3>1, <3>3, <3>5, <3>6, <3>7 DEF Labels
  <2>5. CASE Report(c)
    <3>1. /\ pc[c] = "report" /\ fn' = fn /\ UNCHANGED <<slotVars, fn, entries>>
          /\ pc' = [pc EXCEPT ![c] = "settled"]
      BY <2>5 DEF Report, Goto
    <3>2. /\ tracker' \in Trackers /\ tracker'.budgets = BudgetList
          /\ charged' \in Spendings /\ accepted' \in Spendings
      BY <2>5, ChargeToType DEF Report
    <3>3. recorded' \in [Owners -> Nat]
      <4>1. CASE call[c].agg = None
        BY <1>1, <2>5, <4>1 DEF Report, AggregatorOf
      <4>2. CASE call[c].agg # None
        <5>1. call[c].agg \in Owners
          BY <1>1, <4>2 DEF CallType
        <5>2. recorded[call[c].agg] \in Nat
          BY <1>1, <5>1
        <5>3. recorded' = [recorded EXCEPT ![call[c].agg] = @ + IF Breaches(c) THEN 2 ELSE 1]
          BY <2>5, <4>2 DEF Report, AggregatorOf
        <5> QED
          BY <1>1, <5>1, <5>2, <5>3
      <4> QED
        BY <4>1, <4>2
    <3>4. Others
      BY <1>1, <3>1, <3>2, <3>3 DEF SlotsOK, slotVars
    <3>5. NewCall \in CallType /\ NewSeen \in SeenType
      BY <1>2 DEF NewCall, CallType, NewSeen, SeenType
    <3>7. call' = [call EXCEPT ![c] = NewCall] /\ seen' = [seen EXCEPT ![c] = NewSeen]
      BY <2>5 DEF Report
    <3>8. LocalsOK(c)'
      BY <1>1, <3>1 DEF LocalsOK
    <3> QED
      BY <1>1, <3>1, <3>4, <3>5, <3>7, <3>8 DEF Labels
  <2> QED
    BY <2>1, <2>2, <2>3, <2>4, <2>5
<1>5. ASSUME NEW d \in Calls PROVE LocalsOK(d)'
  <2>1. CASE d = c
    BY <1>4, <2>1 DEF LocalsOK
  <2>2. CASE d # c
    BY <1>1, <1>4, <2>2 DEF LocalsOK
  <2> QED
    BY <2>1, <2>2
<1> QED
  BY <1>4, <1>5, <1>7, <1>1 DEF TypeInv, TypeOK, SlotsOK

LEMMA NextType == TypeInv /\ [Next]_vars => TypeInv'
<1> SUFFICES ASSUME TypeInv, [Next]_vars PROVE TypeInv'
  OBVIOUS
<1>1. /\ TypeOK /\ SlotsOK /\ \A c \in Calls : LocalsOK(c)
      /\ slots.executor \in Owners /\ home \in HomeType
  BY DEF TypeInv, TypeOK, SlotsOK, Slots
<1>2. CASE Decorate
  <2>1. fn' \in [backend : FnBackends, executor : Owners \union {None}] /\ fn'.executor # None
    <3>1. slots.executor # None
      BY <1>1, ProcessAssumption
    <3> QED
      BY <1>1, <1>2, <3>1 DEF Decorate, TypeOK
  <2>2. \A c \in Calls : LocalsOK(c)'
    <3>1. \A c \in Calls : pc[c] \notin {"lookup"}
      BY <1>1, <1>2 DEF Decorate, LocalsOK
    <3> QED
      BY <1>1, <1>2, <2>1, <3>1 DEF Decorate, LocalsOK
  <2> QED
    <3>1. home' \in HomeType
      BY <1>1, <1>2 DEF Decorate, HomeType, SlotsOK
    <3> QED
      BY <1>1, <1>2, <2>1, <2>2, <3>1 DEF Decorate, TypeInv, TypeOK, SlotsOK, slotVars
<1>3. ASSUME NEW c \in Calls, Begin(c) \/ Lookup(c) \/ Attempt(c) \/ Answer(c) \/ Report(c)
      PROVE  TypeInv'
  BY <1>3, CallStepType
<1>4. CASE ResetBudget
  <2>1. Nothing \in Spendings
    BY DEF Nothing, Spendings
  <2>2. tracker' \in Trackers /\ tracker'.budgets = BudgetList
    BY <1>1, <1>4, <2>1 DEF ResetBudget, Reset, TypeInv, TypeOK, Trackers
  <2> QED
    BY <1>1, <1>4, <2>1, <2>2 DEF ResetBudget, TypeInv, TypeOK, LocalsOK, slotVars
<1>5. CASE ChangeSlots
  <2>1. SlotsOK'
    <3>1. ASSUME NEW b \in Blocks, EnterBlock(b) \/ LeaveBlock(b) PROVE SlotsOK'
      BY <1>1, <3>1, EnterType, LeaveType
    <3>2. ASSUME NEW backend \in {Process, None}, SetDefaultBackend(backend) PROVE SlotsOK'
      BY <1>1, <3>2 DEF SetDefaultBackend, SlotsOK, Slots, Owners
    <3> QED
      BY <1>5, <3>1, <3>2 DEF ChangeSlots
  <2>2. seen' \in [Calls -> SeenType]
    <3>1. seen \in [Calls -> SeenType] /\ NoteSwitch
      BY <1>5 DEF ChangeSlots, TypeInv
    <3>2. ASSUME NEW c \in Calls PROVE [seen[c] EXCEPT !.switched = TRUE] \in SeenType
      BY <3>1 DEF SeenType
    <3> QED
      BY <3>1, <3>2 DEF NoteSwitch
  <2>3. UNCHANGED <<fn, entries, tracker, recorded, pc, call, home, charged, accepted>>
    BY <1>5 DEF ChangeSlots, callVars
  <2> QED
    BY <1>1, <2>1, <2>2, <2>3 DEF TypeInv, TypeOK, SlotsOK, LocalsOK
<1>6. CASE UNCHANGED vars
  BY <1>1, <1>6 DEF vars, slotVars, callVars, history, TypeInv, TypeOK, SlotsOK, LocalsOK
<1> QED
  BY <1>2, <1>3, <1>4, <1>5, <1>6 DEF Next

LEMMA TypeInvariant == Spec => []TypeInv
BY InitType, NextType, PTL DEF Spec

\* Every variable keeps its type, and a call makes at most max_retries + 1 attempts,
\* whatever blocks open and close around it (executor.py:172-323, testing.py:188-267).
THEOREM SessionTypeHolds == Spec => []TypeOK
<1>1. TypeInv => TypeOK
  BY DEF TypeInv
<1> QED
  BY <1>1, TypeInvariant, PTL

-----------------------------------------------------------------------------
(***************************************************************************)
(* The backend that is reported.  Between the answer and the report it is  *)
(* resolved again: what is resolved then is what answered, as long as the  *)
(* default has not been replaced since.                                    *)
(***************************************************************************)

ResolvedStays(c) ==
    /\ pc[c] \in {"idle", "lookup", "attempt", "answer"} => call[c].ok = FALSE /\ call[c].hit = FALSE
    /\ pc[c] = "answer" /\ seen[c].switched = FALSE => call[c].backend = ResolvedBackend
    /\ pc[c] = "report" /\ call[c].ok = TRUE /\ call[c].hit = FALSE /\ seen[c].switched = FALSE =>
         call[c].reported = call[c].backend

\* A step of a call other than Report and Begin, on its own locals.
LEMMA CallStepResolved ==
    ASSUME TypeInv, NEW c \in Calls, ResolvedStays(c),
           Begin(c) \/ Lookup(c) \/ Attempt(c) \/ Answer(c) \/ Report(c)
    PROVE  ResolvedStays(c)'
<1>1. /\ pc \in [Calls -> Labels] /\ call \in [Calls -> CallType] /\ call[c] \in CallType
      /\ seen \in [Calls -> SeenType] /\ seen[c] \in SeenType
  BY DEF TypeInv, TypeOK
<1>2. CASE Begin(c)
  <2>1. pc[c] = "idle" /\ pc'[c] = "lookup"
    BY <1>1, <1>2 DEF Begin, Goto
  <2>2. call'[c].ok = call[c].ok /\ call'[c].hit = call[c].hit
    BY <1>1, <1>2 DEF Begin, CallType
  <2> QED
    BY <2>1, <2>2 DEF ResolvedStays
<1>3. CASE Lookup(c)
  <2> DEFINE cache == CacheOf(call[c].executor)
             hit == cache \in entries
  <2>1. pc[c] = "lookup" /\ pc'[c] = IF hit THEN "report" ELSE "attempt"
    BY <1>1, <1>3 DEF Lookup, Goto
  <2>2. call'[c].ok = hit /\ call'[c].hit = hit
    BY <1>1, <1>3 DEF Lookup, CallType
  <2>3. hit \in BOOLEAN
    OBVIOUS
  <2> HIDE DEF hit
  <2> QED
    BY <2>1, <2>2, <2>3 DEF ResolvedStays
<1>4. CASE Attempt(c)
  <2>1. pc[c] = "attempt" /\ pc'[c] \in {"attempt", "report", "answer"}
    BY <1>1, <1>4 DEF Attempt, Goto, AfterFailure
  <2>2. /\ call'[c].ok = call[c].ok /\ call'[c].hit = call[c].hit
        /\ call'[c].backend = ResolvedBackend
    BY <1>1, <1>4 DEF Attempt, CallType
  <2>3. ResolvedBackend' = ResolvedBackend
    BY <1>4 DEF Attempt, ResolvedBackend, slotVars
  <2> QED
    BY <2>1, <2>2, <2>3 DEF ResolvedStays
<1>5. CASE Answer(c)
  <2>1. pc[c] = "answer" /\ pc'[c] = "report" /\ seen' = seen
    BY <1>1, <1>5 DEF Answer, Goto, history
  <2>2. call'[c].backend = call[c].backend /\ call'[c].reported = ResolvedBackend
    BY <1>1, <1>5 DEF Answer, BackendForMetrics, CallType
  <2> QED
    BY <2>1, <2>2 DEF ResolvedStays
<1>6. CASE Report(c)
  <2>1. pc'[c] = "settled"
    BY <1>1, <1>6 DEF Report, Goto
  <2> QED
    BY <2>1 DEF ResolvedStays
<1> QED
  BY <1>2, <1>3, <1>4, <1>5, <1>6

\* The other calls' locals, and what the backend resolves to, are left alone by it.
LEMMA CallStepLocal ==
    ASSUME TypeInv, NEW c \in Calls, NEW d \in Calls, d # c,
           Begin(c) \/ Lookup(c) \/ Attempt(c) \/ Answer(c) \/ Report(c)
    PROVE  /\ pc'[d] = pc[d] /\ call'[d] = call[d] /\ seen'[d] = seen[d]
           /\ fn' = fn /\ slots' = slots
<1>1. pc \in [Calls -> Labels] /\ call \in [Calls -> CallType] /\ seen \in [Calls -> SeenType]
  BY DEF TypeInv, TypeOK
<1> QED
  BY <1>1 DEF Begin, Lookup, Attempt, Answer, Report, Goto, Pin, slotVars, history

LEMMA NextResolved ==
    TypeInv /\ (\A c \in Calls : ResolvedStays(c)) /\ [Next]_vars
    => \A c \in Calls : ResolvedStays(c)'
<1> SUFFICES ASSUME TypeInv, \A c \in Calls : ResolvedStays(c), [Next]_vars, NEW d \in Calls
             PROVE  ResolvedStays(d)'
  OBVIOUS
<1>1. ResolvedStays(d) /\ seen \in [Calls -> SeenType] /\ seen[d].switched \in BOOLEAN
  BY DEF TypeInv, SeenType
<1>2. ASSUME NEW c \in Calls, Begin(c) \/ Lookup(c) \/ Attempt(c) \/ Answer(c) \/ Report(c)
      PROVE  ResolvedStays(d)'
  <2>1. CASE d = c
    BY <1>1, <1>2, <2>1, CallStepResolved
  <2>2. CASE d # c
    <3>1. /\ pc'[d] = pc[d] /\ call'[d] = call[d] /\ seen'[d] = seen[d]
          /\ fn' = fn /\ slots' = slots
      BY <1>2, <2>2, CallStepLocal
    <3> QED
      BY <1>1, <3>1 DEF ResolvedStays, ResolvedBackend
  <2> QED
    BY <2>1, <2>2
<1>3. CASE Decorate
  <2>1. fn'.backend = fn.backend /\ UNCHANGED <<slotVars, pc, call, seen>>
    BY <1>3 DEF Decorate, TypeInv, TypeOK
  <2> QED
    BY <1>1, <2>1 DEF ResolvedStays, ResolvedBackend, slotVars
<1>4. CASE ResetBudget
  BY <1>1, <1>4 DEF ResetBudget, ResolvedStays, ResolvedBackend, slotVars
<1>5. CASE ChangeSlots
  <2>1. UNCHANGED <<fn, pc, call>> /\ NoteSwitch
    BY <1>5 DEF ChangeSlots, callVars
  <2>2. CASE pc[d] = "answer" /\ slots'.backend # slots.backend
    <3>1. seen'[d] = [seen[d] EXCEPT !.switched = TRUE]
      BY <2>1, <2>2 DEF NoteSwitch
    <3>2. seen'[d].switched = TRUE
      BY <1>1, <3>1 DEF SeenType
    <3> QED
      BY <1>1, <2>1, <2>2, <3>2 DEF ResolvedStays
  <2>3. CASE ~(pc[d] = "answer" /\ slots'.backend # slots.backend)
    <3>1. seen'[d] = seen[d]
      BY <2>1, <2>3 DEF NoteSwitch
    <3> QED
      BY <1>1, <2>1, <2>3, <3>1 DEF ResolvedStays, ResolvedBackend
  <2> QED
    BY <2>2, <2>3
<1>6. CASE UNCHANGED vars
  BY <1>1, <1>6 DEF vars, slotVars, callVars, history, ResolvedStays, ResolvedBackend
<1> QED
  BY <1>2, <1>3, <1>4, <1>5, <1>6 DEF Next

\* metrics.backend names the backend that answered, however the default backend changes
\* before and after the call waits for it (executor.py:290-291, 605-613).
THEOREM ReportedBackendIsTheOne == Spec => []ReportedBackendAnswered
<1> DEFINE Inv == \A c \in Calls : ResolvedStays(c)
<1>1. Init => Inv
  BY DEF Init, ResolvedStays, NewCall
<1>2. TypeInv /\ Inv /\ [Next]_vars => Inv'
  BY NextResolved
<1>3. TypeInv /\ Inv => ReportedBackendAnswered
  <2> SUFFICES ASSUME TypeInv, Inv, NEW c \in Calls, pc[c] = "report", call[c].ok, ~call[c].hit,
                      ~seen[c].switched
               PROVE  call[c].reported = call[c].backend
    BY DEF ReportedBackendAnswered
  <2>1. call[c].ok = TRUE /\ call[c].hit = FALSE /\ seen[c].switched = FALSE
    BY DEF TypeInv, TypeOK, CallType, SeenType
  <2> QED
    BY <2>1 DEF ResolvedStays
<1> HIDE DEF Inv
<1> QED
  BY <1>1, <1>2, <1>3, TypeInvariant, PTL DEF Spec

-----------------------------------------------------------------------------
(***************************************************************************)
(* The budgets.  A metric with n budgets is charged n times, so that its   *)
(* total is n times what calls have spent, and each of its budgets allows  *)
(* accepted calls an n-th of its limit.                                    *)
(***************************************************************************)

\* How many process budgets a metric has.
Count(metric) ==
    Cardinality({i \in DOMAIN BudgetList : BudgetList[i].scope = "process"
                                           /\ BudgetList[i].metric = metric})

BudgetInv ==
    /\ \A metric \in Metrics : tracker.totals[metric] = Count(metric) * charged[metric]
    /\ \A metric \in Metrics : accepted[metric] <= charged[metric]
    /\ \A i \in DOMAIN BudgetList : BudgetList[i].scope = "process" =>
         Count(BudgetList[i].metric) * accepted[BudgetList[i].metric] <= BudgetList[i].limit

LEMMA CountFacts ==
    ASSUME NEW t \in Trackers, t.budgets = BudgetList, NEW metric
    PROVE  Cardinality(OnMetric(t, "process", metric)) = Count(metric) /\ Count(metric) \in Nat
<1>1. OnMetric(t, "process", metric) =
        {i \in DOMAIN BudgetList : BudgetList[i].scope = "process"
                                   /\ BudgetList[i].metric = metric}
  BY DEF OnMetric, InScope
<1> QED
  BY <1>1, OnMetricFacts DEF Count

LEMMA BudgetFacts ==
    ASSUME NEW i \in DOMAIN BudgetList
    PROVE  BudgetList[i].metric \in Metrics /\ BudgetList[i].limit \in Nat
<1>1. DOMAIN BudgetList = 1..Len(BudgetList)
  BY SessionAssumption, LenProperties
<1>2. BudgetList[i] \in Budgets
  BY <1>1, SessionAssumption, ElementOfSeq
<1> QED
  BY <1>2 DEF Budgets

LEMMA Distribute == \A k, a, b \in Nat : k * a + k * b = k * (a + b)
OBVIOUS

LEMMA Monotone ==
    ASSUME NEW k \in Nat, NEW a \in Nat, NEW b \in Nat, a <= b
    PROVE  k * a <= k * b
<1>1. b - a \in Nat /\ b = a + (b - a)
  OBVIOUS
<1>2. k * a + k * (b - a) = k * (a + (b - a))
  BY <1>1, Distribute
<1>3. k * (b - a) \in Nat /\ k * a \in Nat
  BY <1>1
<1> QED
  BY <1>1, <1>2, <1>3

\* One more record keeps the share of every metric.
LEMMA RecordShares ==
    ASSUME NEW t \in Trackers, t.budgets = BudgetList, NEW spent \in Spendings,
           NEW paid \in Spendings,
           \A metric \in Metrics : t.totals[metric] = Count(metric) * paid[metric]
    PROVE  \A metric \in Metrics :
             Record(t, spent, "process").totals[metric] = Count(metric) * Plus(paid, spent)[metric]
<1> DEFINE u == Record(t, spent, "process")
<1>1. \A metric \in Metrics : u.totals[metric] =
        t.totals[metric] + Cardinality(OnMetric(t, "process", metric)) * spent[metric]
  BY RecordFacts
<1> HIDE DEF u
<1> SUFFICES ASSUME NEW metric \in Metrics
             PROVE  u.totals[metric] = Count(metric) * Plus(paid, spent)[metric]
  BY DEF u
<1>2. Cardinality(OnMetric(t, "process", metric)) = Count(metric) /\ Count(metric) \in Nat
  BY CountFacts
<1>3. u.totals[metric] = Count(metric) * paid[metric] + Count(metric) * spent[metric]
  BY <1>1, <1>2
<1>4. paid[metric] \in Nat /\ spent[metric] \in Nat
  BY DEF Spendings
<1>5. Plus(paid, spent)[metric] = paid[metric] + spent[metric]
  BY PlusFacts
<1>6. Count(metric) * paid[metric] + Count(metric) * spent[metric]
        = Count(metric) * (paid[metric] + spent[metric])
  BY <1>2, <1>4, Distribute
<1> QED
  BY <1>3, <1>5, <1>6

\* A report charges all that it spends; what it accepts is within every limit.
LEMMA ChargeShares ==
    ASSUME TypeInv, BudgetInv, NEW c \in Calls, ChargeTo(c)
    PROVE  BudgetInv'
<1> DEFINE spent == Spent(call[c].ok)
           once == Record(tracker, spent, "process")
           paid == Plus(charged, spent)
<1>1. /\ call[c].ok \in BOOLEAN /\ tracker \in Trackers /\ tracker.budgets = BudgetList
      /\ charged \in Spendings /\ accepted \in Spendings
  BY DEF TypeInv, TypeOK, CallType
<1>2. spent \in Spendings
  BY <1>1, SpentType
<1>3. CASE call[c].trk = None
  <2>1. UNCHANGED <<tracker, charged, accepted>>
    BY <1>3 DEF ChargeTo
  <2> QED
    BY <2>1 DEF BudgetInv
<1>4. CASE call[c].trk # None
  <2>1. \/ tracker' = once /\ charged' = paid
        \/ tracker' = Record(once, spent, "process") /\ charged' = Plus(paid, spent)
    BY <1>4 DEF ChargeTo
  <2>2. \/ accepted' = accepted
        \/ accepted' = Plus(accepted, spent) /\ ~RecordRaises(tracker, spent, "process")
    BY <1>4 DEF ChargeTo
  <2> HIDE DEF spent
  <2>3. /\ once \in Trackers /\ once.budgets = BudgetList
        /\ \A metric \in Metrics : once.totals[metric] = Count(metric) * paid[metric]
    <3>1. once \in Trackers /\ once.budgets = BudgetList
      BY <1>1, <1>2, RecordFacts
    <3> QED
      BY <1>1, <1>2, <3>1, RecordShares DEF BudgetInv
  <2>4. paid \in Spendings /\ \A metric \in Metrics : paid[metric] = charged[metric] + spent[metric]
    BY <1>1, <1>2, PlusFacts
  <2>5. ~RecordRaises(tracker, spent, "process") =>
          \A i \in DOMAIN BudgetList : BudgetList[i].scope = "process" =>
            ~(once.totals[BudgetList[i].metric] > BudgetList[i].limit)
    BY <2>3 DEF RecordRaises, Exceeded, InScope
  <2> HIDE DEF once, paid
  <2>6. \A metric \in Metrics :
          Record(once, spent, "process").totals[metric] = Count(metric) * Plus(paid, spent)[metric]
    BY <1>2, <2>3, <2>4, RecordShares
  <2>7. Plus(paid, spent) \in Spendings
        /\ \A metric \in Metrics : Plus(paid, spent)[metric] = paid[metric] + spent[metric]
    BY <1>2, <2>4, PlusFacts
  <2>8. Plus(accepted, spent) \in Spendings
        /\ \A metric \in Metrics : Plus(accepted, spent)[metric] = accepted[metric] + spent[metric]
    BY <1>1, <1>2, PlusFacts
  <2>9. \A metric \in Metrics : tracker'.totals[metric] = Count(metric) * charged'[metric]
    BY <2>1, <2>3, <2>6
  <2>10. ASSUME NEW metric \in Metrics PROVE accepted'[metric] <= charged'[metric]
    <3>1. /\ accepted[metric] \in Nat /\ charged[metric] \in Nat /\ spent[metric] \in Nat
          /\ accepted[metric] <= charged[metric]
      BY <1>1, <1>2 DEF Spendings, BudgetInv
    <3>2. charged'[metric] \in {charged[metric] + spent[metric],
                                charged[metric] + spent[metric] + spent[metric]}
      BY <2>1, <2>4, <2>7
    <3>3. accepted'[metric] \in {accepted[metric], accepted[metric] + spent[metric]}
      BY <2>2, <2>8
    <3> QED
      BY <3>1, <3>2, <3>3
  <2>11. ASSUME NEW i \in DOMAIN BudgetList, BudgetList[i].scope = "process"
         PROVE  Count(BudgetList[i].metric) * accepted'[BudgetList[i].metric]
                  <= BudgetList[i].limit
    <3> DEFINE metric == BudgetList[i].metric
               n == Count(metric)
    <3>1. metric \in Metrics /\ BudgetList[i].limit \in Nat /\ n \in Nat
      BY <1>1, BudgetFacts, CountFacts
    <3>2. n * accepted[metric] <= BudgetList[i].limit
      BY <2>11 DEF BudgetInv
    <3>3. CASE accepted' = accepted
      BY <3>2, <3>3
    <3>4. CASE accepted' = Plus(accepted, spent) /\ ~RecordRaises(tracker, spent, "process")
      <4>1. ~(once.totals[metric] > BudgetList[i].limit) /\ once.totals[metric] = n * paid[metric]
        BY <2>3, <2>5, <2>11, <3>1, <3>4
      <4>2. /\ accepted[metric] \in Nat /\ charged[metric] \in Nat /\ spent[metric] \in Nat
            /\ accepted[metric] <= charged[metric]
        BY <1>1, <1>2, <3>1 DEF Spendings, BudgetInv
      <4>3. /\ accepted'[metric] = accepted[metric] + spent[metric]
            /\ paid[metric] = charged[metric] + spent[metric]
        BY <2>4, <2>8, <3>1, <3>4
      <4> HIDE DEF n, metric
      <4>4. /\ accepted'[metric] \in Nat /\ paid[metric] \in Nat
            /\ accepted'[metric] <= paid[metric]
        BY <4>2, <4>3
      <4>5. n * accepted'[metric] <= n * paid[metric]
        BY <3>1, <4>4, Monotone
      <4>6. n * paid[metric] \in Nat /\ n * accepted'[metric] \in Nat
        BY <3>1, <4>4
      <4>7. n * paid[metric] <= BudgetList[i].limit
        BY <3>1, <4>1, <4>6
      <4>8. n * accepted'[metric] <= BudgetList[i].limit
        BY <3>1, <4>5, <4>6, <4>7
      <4> QED
        BY <4>8 DEF n, metric
    <3> QED
      BY <2>2, <3>3, <3>4
  <2> QED
    BY <2>9, <2>10, <2>11 DEF BudgetInv
<1> QED
  BY <1>3, <1>4

LEMMA NothingShares ==
    ASSUME NEW t \in Trackers, t.totals = Nothing
    PROVE  /\ \A metric \in Metrics : t.totals[metric] = Count(metric) * Nothing[metric]
           /\ \A i \in DOMAIN BudgetList :
                Count(BudgetList[i].metric) * Nothing[BudgetList[i].metric] <= BudgetList[i].limit
<1>1. [t EXCEPT !.budgets = BudgetList] \in Trackers
      /\ [t EXCEPT !.budgets = BudgetList].budgets = BudgetList
  BY SessionAssumption DEF Trackers
<1>2. \A metric \in Metrics : Count(metric) \in Nat
  BY <1>1, CountFacts
<1>3. \A n \in Nat : n * 0 = 0
  OBVIOUS
<1>4. \A metric \in Metrics : Nothing[metric] = 0
  BY DEF Nothing
<1>5. \A metric \in Metrics : Count(metric) * Nothing[metric] = 0
  BY <1>2, <1>3, <1>4
<1>6. \A i \in DOMAIN BudgetList : 0 <= BudgetList[i].limit
  BY BudgetFacts
<1> QED
  BY <1>4, <1>5, <1>6, BudgetFacts

LEMMA NextBudgets == TypeInv /\ BudgetInv /\ [Next]_vars => BudgetInv'
<1> SUFFICES ASSUME TypeInv, BudgetInv, [Next]_vars PROVE BudgetInv'
  OBVIOUS
<1>1. ASSUME NEW c \in Calls, Report(c) PROVE BudgetInv'
  BY <1>1, ChargeShares DEF Report
<1>2. CASE ResetBudget
  <2>1. /\ tracker' \in Trackers /\ tracker'.totals = Nothing
        /\ charged' = Nothing /\ accepted' = Nothing
    <3>1. Nothing \in Spendings
      BY DEF Nothing, Spendings
    <3> QED
      BY <1>2, <3>1 DEF ResetBudget, Reset, TypeInv, TypeOK, Trackers
  <2>2. \A metric \in Metrics : Nothing[metric] <= Nothing[metric]
    BY DEF Nothing
  <2>3. /\ \A metric \in Metrics : tracker'.totals[metric] = Count(metric) * Nothing[metric]
        /\ \A i \in DOMAIN BudgetList :
             Count(BudgetList[i].metric) * Nothing[BudgetList[i].metric] <= BudgetList[i].limit
    BY <2>1, NothingShares
  <2> QED
    BY <2>1, <2>2, <2>3 DEF BudgetInv
<1>3. ASSUME UNCHANGED <<tracker, charged, accepted>> PROVE BudgetInv'
  BY <1>3 DEF BudgetInv
<1>4. ASSUME NEW c \in Calls, Begin(c) \/ Lookup(c) \/ Attempt(c) \/ Answer(c)
      PROVE  UNCHANGED <<tracker, charged, accepted>>
  BY <1>4 DEF Begin, Lookup, Attempt, Answer, history
<1>5. Decorate \/ ChangeSlots \/ UNCHANGED vars => UNCHANGED <<tracker, charged, accepted>>
  BY DEF Decorate, ChangeSlots, vars, callVars, history
<1> QED
  BY <1>1, <1>2, <1>3, <1>4, <1>5 DEF Next

\* BudgetsHold: whatever budgets the tracker is made with, the calls that it has accepted
\* since the last reset exceed no process budget, and a metric with one such budget has
\* been charged exactly what its calls have spent (budget.py:115-138, executor.py:184).
THEOREM BudgetsHoldAlways == Spec => []BudgetsHold
<1>1. Init => BudgetInv
  <2> SUFFICES ASSUME Init PROVE BudgetInv
    OBVIOUS
  <2>1. tracker \in Trackers /\ tracker.totals = Nothing /\ charged = Nothing /\ accepted = Nothing
    <3>1. tracker \in Trackers
      BY InitType DEF TypeInv, TypeOK
    <3> QED
      BY <3>1 DEF Init, NewTracker
  <2>2. \A metric \in Metrics : Nothing[metric] <= Nothing[metric]
    BY DEF Nothing
  <2> QED
    BY <2>1, <2>2, NothingShares DEF BudgetInv
<1>2. TypeInv /\ BudgetInv => BudgetsHold
  <2> SUFFICES ASSUME TypeInv, BudgetInv PROVE BudgetsHold
    OBVIOUS
  <2>1. tracker \in Trackers /\ tracker.budgets = BudgetList /\ accepted \in Spendings
    BY DEF TypeInv, TypeOK
  <2>2. \A metric : Cardinality(OnMetric(tracker, "process", metric)) = Count(metric)
    BY <2>1, CountFacts
  <2>3. ASSUME NEW i \in InScope(tracker, "process")
        PROVE  accepted[tracker.budgets[i].metric] <= tracker.budgets[i].limit
    <3> DEFINE metric == BudgetList[i].metric
               n == Count(metric)
               a == accepted[metric]
    <3>1. i \in DOMAIN BudgetList /\ BudgetList[i].scope = "process"
      BY <2>1, <2>3 DEF InScope
    <3>2. metric \in Metrics /\ BudgetList[i].limit \in Nat
      BY <3>1, BudgetFacts
    <3>3. n \in Nat /\ n # 0
      <4>1. /\ IsFiniteSet(OnMetric(tracker, "process", metric))
            /\ i \in OnMetric(tracker, "process", metric)
        BY <2>1, <2>3, OnMetricFacts DEF OnMetric
      <4>2. n \in Nat /\ Cardinality(OnMetric(tracker, "process", metric)) = n
        BY <2>1, CountFacts
      <4> QED
        BY <4>1, <4>2, FS_EmptySet
    <3>4. n * a <= BudgetList[i].limit
      BY <3>1 DEF BudgetInv
    <3>5. a \in Nat
      BY <2>1, <3>2 DEF Spendings
    <3> HIDE DEF n, a, metric
    <3>6. a * 1 <= a * n
      BY <3>3, <3>5, Monotone
    <3>7. a * 1 = a /\ a * n = n * a /\ n * a \in Nat
      BY <3>3, <3>5
    <3>8. a <= BudgetList[i].limit
      BY <3>2, <3>4, <3>5, <3>6, <3>7
    <3> QED
      BY <2>1, <3>8 DEF a, metric
  <2>4. ASSUME NEW metric \in Metrics, Cardinality(OnMetric(tracker, "process", metric)) = 1
        PROVE  tracker.totals[metric] = charged[metric]
    <3>1. tracker.totals[metric] = 1 * charged[metric] /\ charged[metric] \in Nat
      BY <2>2, <2>4 DEF BudgetInv, TypeInv, Spendings
    <3> QED
      BY <3>1
  <2> QED
    BY <2>3, <2>4 DEF BudgetsHold
<1>3. TypeInv /\ BudgetInv /\ [Next]_vars => BudgetInv'
  BY NextBudgets
<1> QED
  BY <1>1, <1>2, <1>3, TypeInvariant, PTL DEF Spec

-----------------------------------------------------------------------------
(***************************************************************************)
(* Blocks.  As long as they nest, the slots are those of the innermost     *)
(* blocks, and what a block has saved is what they were without it and the *)
(* blocks inside it.                                                       *)
(***************************************************************************)

\* What the slots s are when the first n blocks of q are open.
Follows(q, s, n) ==
    /\ s.aggregator = InnermostAt(q, n, Blocks)
    /\ s.executor = InnermostAt(q, n, Captures \union WithCache)
    /\ s.cache = InnermostAt(q, n, WithCache)
    /\ s.tracker = IF InnermostAt(q, n, Isolates) = Process THEN Process ELSE None

NestInv ==
    ~overlapped =>
        /\ \A i, j \in 1..Len(nest) : nest[i] = nest[j] => i = j
        /\ \A b \in Blocks : phase[b] = "open" <=> \E i \in 1..Len(nest) : nest[i] = b
        /\ Follows(nest, slots, Len(nest))
        /\ \A i \in 1..Len(nest) : Follows(nest, saved[nest[i]], i - 1)

\* The innermost block depends on the first n blocks only; it is the n-th, or the innermost
\* of those before it.
LEMMA InnermostSame ==
    ASSUME NEW s, NEW t, NEW n \in Nat, NEW set, \A i \in 1..n : s[i] = t[i]
    PROVE  InnermostAt(s, n, set) = InnermostAt(t, n, set)
<1> DEFINE at == {i \in 1..n : s[i] \in set}
<1>1. at = {i \in 1..n : t[i] \in set}
  OBVIOUS
<1>2. CASE at = {}
  BY <1>1, <1>2 DEF InnermostAt
<1>3. CASE at # {}
  <2>1. at \in SUBSET (1..n)
    OBVIOUS
  <2> HIDE DEF at
  <2>2. Max(at) \in 1..n
    BY <1>3, <2>1, MaxFacts
  <2>3. s[Max(at)] = t[Max(at)]
    BY <2>2
  <2>4. InnermostAt(s, n, set) = s[Max(at)]
    BY <1>3 DEF InnermostAt, at
  <2>5. InnermostAt(t, n, set) = t[Max(at)]
    BY <1>1, <1>3 DEF InnermostAt
  <2> QED
    BY <2>3, <2>4, <2>5
<1> QED
  BY <1>2, <1>3

LEMMA InnermostStep ==
    ASSUME NEW s, NEW n \in Nat, n > 0, NEW set
    PROVE  InnermostAt(s, n, set) = IF s[n] \in set THEN s[n] ELSE InnermostAt(s, n - 1, set)
<1> DEFINE at == {i \in 1..n : s[i] \in set}
<1>1. CASE s[n] \in set
  <2>1. at \in SUBSET (1..n) /\ n \in at
    BY <1>1
  <2> HIDE DEF at
  <2>2. Max(at) \in 1..n /\ n <= Max(at)
    BY <2>1, MaxFacts
  <2>3. Max(at) = n /\ at # {}
    BY <2>1, <2>2
  <2> QED
    BY <1>1, <2>3 DEF InnermostAt, at
<1>2. CASE s[n] \notin set
  <2>1. at = {i \in 1..(n - 1) : s[i] \in set}
    BY <1>2
  <2> QED
    BY <1>2, <2>1 DEF InnermostAt
<1> QED
  BY <1>1, <1>2

LEMMA FollowsSame ==
    ASSUME NEW q, NEW r, NEW n \in Nat, \A i \in 1..n : q[i] = r[i],
           NEW s, Follows(q, s, n)
    PROVE  Follows(r, s, n)
BY InnermostSame DEF Follows

\* An isolate_execution, entered after the first n blocks.
LEMMA IsolateFollows ==
    ASSUME NEW q, NEW n \in Nat, NEW s, Follows(q, s, n),
           NEW b \in Isolates, q[n + 1] = b, NEW t,
           t.executor = (IF b \in WithCache THEN b ELSE s.executor),
           t.cache = (IF b \in WithCache THEN b ELSE s.cache),
           t.aggregator = b, t.tracker = None
    PROVE  Follows(q, t, n + 1)
<1>1. n + 1 \in Nat /\ n + 1 > 0 /\ (n + 1) - 1 = n
  OBVIOUS
<1>2. \A set : InnermostAt(q, n + 1, set) = IF b \in set THEN b ELSE InnermostAt(q, n, set)
  BY <1>1, InnermostStep
<1>3. b \in Blocks /\ b \notin Captures /\ b # Process
  BY ProcessAssumption DEF Blocks
<1> QED
  BY <1>2, <1>3 DEF Follows

\* A capture_metrics, entered after the first n blocks.
LEMMA CaptureFollows ==
    ASSUME NEW q, NEW n \in Nat, NEW s, Follows(q, s, n),
           NEW b \in Captures, q[n + 1] = b, NEW t,
           t.executor = b, t.cache = s.cache, t.aggregator = b, t.tracker = s.tracker
    PROVE  Follows(q, t, n + 1)
<1>1. n + 1 \in Nat /\ n + 1 > 0 /\ (n + 1) - 1 = n
  OBVIOUS
<1>2. \A set : InnermostAt(q, n + 1, set) = IF b \in set THEN b ELSE InnermostAt(q, n, set)
  BY <1>1, InnermostStep
<1>3. b \in Blocks /\ b \notin Isolates /\ b \notin WithCache
  BY ProcessAssumption DEF Blocks
<1> QED
  BY <1>2, <1>3 DEF Follows

\* A capture_metrics has left the cache and the tracker as they were.
LEMMA CaptureKeeps ==
    ASSUME NEW q, NEW n \in Nat, n > 0, NEW s, Follows(q, s, n), q[n] \in Captures,
           NEW u, Follows(q, u, n - 1), NEW t,
           t.executor = u.executor, t.cache = s.cache,
           t.aggregator = u.aggregator, t.tracker = s.tracker
    PROVE  Follows(q, t, n - 1)
<1>1. q[n] \notin Isolates /\ q[n] \notin WithCache
  BY ProcessAssumption
<1>2. /\ InnermostAt(q, n, WithCache) = InnermostAt(q, n - 1, WithCache)
      /\ InnermostAt(q, n, Isolates) = InnermostAt(q, n - 1, Isolates)
  BY <1>1, InnermostStep
<1> QED
  BY <1>2 DEF Follows

LEMMA EnterNests ==
    ASSUME TypeInv, NestInv, NEW b \in Blocks, EnterBlock(b)
    PROVE  NestInv'
<1> SUFFICES ASSUME ~overlapped'
             PROVE  NestInv'
  BY DEF NestInv
<1> DEFINE n == Len(nest)
<1>1. /\ nest \in Seq(Blocks) /\ n \in Nat /\ saved \in [Blocks -> Slots] /\ slots \in Slots
      /\ phase \in [Blocks -> {"new", "open", "closed"}]
      /\ \A i \in 1..n : nest[i] \in Blocks
  BY ElementOfSeq DEF TypeInv, TypeOK
<1>2. /\ Enter(b) /\ ~overlapped /\ phase[b] = "new" /\ phase' = [phase EXCEPT ![b] = "open"]
      /\ saved' = [saved EXCEPT ![b] = slots] /\ nest' = Append(nest, b)
  BY DEF EnterBlock, EnterIsolate, EnterCapture, Enter
<1>3. /\ \A i, j \in 1..n : nest[i] = nest[j] => i = j
      /\ \A d \in Blocks : phase[d] = "open" <=> \E i \in 1..n : nest[i] = d
      /\ Follows(nest, slots, n)
      /\ \A i \in 1..n : Follows(nest, saved[nest[i]], i - 1)
  BY <1>2 DEF NestInv
<1>4. /\ Len(nest') = n + 1 /\ nest'[n + 1] = b
      /\ \A i \in 1..n : nest'[i] = nest[i]
  BY <1>1, <1>2, AppendProperties
<1>5. \A i \in 1..n : nest[i] # b
  BY <1>2, <1>3
<1> HIDE DEF n
<1>6. \A i \in 1..(n + 1) : i \in 1..n \/ i = n + 1
  BY <1>1
<1>7. n + 1 \in 1..(n + 1) /\ \A i \in 1..n : i \in 1..(n + 1) /\ i # n + 1
  BY <1>1
<1>8. \A i, j \in 1..(n + 1) : nest'[i] = nest'[j] => i = j
  BY <1>3, <1>4, <1>5, <1>6, <1>7
<1>9. ASSUME NEW d \in Blocks
      PROVE  phase'[d] = "open" <=> \E i \in 1..(n + 1) : nest'[i] = d
  <2>1. (\E i \in 1..(n + 1) : nest'[i] = d) <=> (d = b \/ \E i \in 1..n : nest[i] = d)
    BY <1>4, <1>6, <1>7
  <2>2. phase'[d] = "open" <=> (d = b \/ phase[d] = "open")
    BY <1>1, <1>2
  <2> QED
    BY <1>3, <2>1, <2>2
<1>10. ASSUME NEW k \in 0..n, NEW s, Follows(nest, s, k)
       PROVE  Follows(nest', s, k)
  <2>1. k \in Nat /\ \A i \in 1..k : i \in 1..n
    BY <1>1
  <2>2. \A i \in 1..k : nest[i] = nest'[i]
    BY <1>4, <2>1
  <2> QED
    BY <1>10, <2>1, <2>2, FollowsSame
<1>11. ASSUME NEW i \in 1..n
       PROVE  Follows(nest', saved'[nest'[i]], i - 1)
  <2>1. i - 1 \in 0..n
    BY <1>1
  <2>2. saved'[nest'[i]] = saved[nest[i]]
    BY <1>1, <1>2, <1>4, <1>5
  <2>3. Follows(nest, saved[nest[i]], i - 1)
    BY <1>3
  <2> QED
    BY <1>10, <2>1, <2>2, <2>3
<1>12. n \in 0..n /\ Follows(nest', slots, n)
  BY <1>1, <1>3, <1>10
<1>13. Follows(nest', saved'[nest'[n + 1]], (n + 1) - 1)
  <2>1. (n + 1) - 1 = n /\ saved'[nest'[n + 1]] = slots
    BY <1>1, <1>2, <1>4
  <2> QED
    BY <1>12, <2>1
<1>14. Follows(nest', slots', n + 1)
  <2>1. CASE EnterIsolate(b)
    <3>1. b \in Isolates /\ slots' =
            [executor   |-> IF b \in WithCache THEN b ELSE slots.executor,
             cache      |-> IF b \in WithCache THEN b ELSE slots.cache,
             backend    |-> b,
             aggregator |-> b,
             tracker    |-> None]
      BY <2>1 DEF EnterIsolate
    <3>2. /\ slots'.executor = (IF b \in WithCache THEN b ELSE slots.executor)
          /\ slots'.cache = (IF b \in WithCache THEN b ELSE slots.cache)
          /\ slots'.aggregator = b /\ slots'.tracker = None
      BY <3>1
    <3> QED
      BY <1>1, <1>4, <1>12, <3>1, <3>2, IsolateFollows
  <2>2. CASE EnterCapture(b)
    <3>1. b \in Captures /\ slots' = [slots EXCEPT !.executor = b, !.aggregator = b]
      BY <2>2 DEF EnterCapture
    <3>2. /\ slots'.executor = b /\ slots'.cache = slots.cache
          /\ slots'.aggregator = b /\ slots'.tracker = slots.tracker
      BY <1>1, <3>1 DEF Slots
    <3> QED
      BY <1>1, <1>4, <1>12, <3>1, <3>2, CaptureFollows
  <2> QED
    BY <2>1, <2>2 DEF EnterBlock
<1>15. \A i \in 1..(n + 1) : Follows(nest', saved'[nest'[i]], i - 1)
  BY <1>6, <1>11, <1>13
<1> QED
  BY <1>4, <1>8, <1>9, <1>14, <1>15 DEF NestInv

\* What an open block has saved is what the slots were with the blocks around it.
LEMMA LeaveNests ==
    ASSUME TypeInv, NestInv, NEW b \in Blocks, LeaveBlock(b)
    PROVE  NestInv'
<1> SUFFICES ASSUME ~overlapped'
             PROVE  NestInv'
  BY DEF NestInv
<1> DEFINE n == Len(nest)
<1>1. /\ nest \in Seq(Blocks) /\ n \in Nat /\ saved \in [Blocks -> Slots] /\ slots \in Slots
      /\ phase \in [Blocks -> {"new", "open", "closed"}]
      /\ \A i \in 1..n : nest[i] \in Blocks
  BY ElementOfSeq DEF TypeInv, TypeOK
<1>2. /\ ~overlapped /\ nest[n] = b
      /\ phase[b] = "open" /\ phase' = [phase EXCEPT ![b] = "closed"]
      /\ saved' = [saved EXCEPT ![b] = Original] /\ nest' = SubSeq(nest, 1, n - 1)
  BY DEF LeaveBlock, LeaveIsolate, LeaveCapture, Leave
<1>3. /\ \A i, j \in 1..n : nest[i] = nest[j] => i = j
      /\ \A d \in Blocks : phase[d] = "open" <=> \E i \in 1..n : nest[i] = d
      /\ Follows(nest, slots, n)
      /\ \A i \in 1..n : Follows(nest, saved[nest[i]], i - 1)
  BY <1>2 DEF NestInv
<1> HIDE DEF n
<1>4. n > 0
  <2>1. \E i \in 1..n : nest[i] = b
    BY <1>2, <1>3
  <2> QED
    BY <1>1, <2>1
<1>5. n \in 1..n /\ n - 1 \in Nat /\ \A i \in 1..(n - 1) : i \in 1..n /\ i # n
  BY <1>1, <1>4
<1>6. Len(nest') = n - 1 /\ \A i \in 1..(n - 1) : nest'[i] = nest[i]
  <2>1. n - 1 \in Int /\ \A i \in 1..(n - 1) : nest[i] \in Blocks
    BY <1>1, <1>5
  <2>2. /\ Len(SubSeq(nest, 1, n - 1)) = IF 1 <= n - 1 THEN (n - 1) - 1 + 1 ELSE 0
        /\ \A i \in 1..((n - 1) - 1 + 1) : SubSeq(nest, 1, n - 1)[i] = nest[1 + i - 1]
    BY <2>1, SubSeqProperties
  <2>3. (n - 1) - 1 + 1 = n - 1 /\ \A i \in 1..(n - 1) : 1 + i - 1 = i
    BY <1>5
  <2>4. Len(SubSeq(nest, 1, n - 1)) = n - 1
    BY <1>5, <2>2, <2>3
  <2> QED
    BY <1>2, <2>2, <2>3, <2>4
<1>7. \A i \in 1..(n - 1) : nest[i] # b
  BY <1>2, <1>3, <1>5
<1>8. \A i, j \in 1..(n - 1) : nest'[i] = nest'[j] => i = j
  BY <1>3, <1>5, <1>6
<1>9. ASSUME NEW d \in Blocks
      PROVE  phase'[d] = "open" <=> \E i \in 1..(n - 1) : nest'[i] = d
  <2>1. \A i \in 1..n : i \in 1..(n - 1) \/ i = n
    BY <1>1
  <2>2. (\E i \in 1..(n - 1) : nest'[i] = d) <=> (d # b /\ \E i \in 1..n : nest[i] = d)
    BY <1>2, <1>5, <1>6, <1>7, <2>1
  <2>3. phase'[d] = "open" <=> (d # b /\ phase[d] = "open")
    BY <1>1, <1>2
  <2> QED
    BY <1>3, <2>2, <2>3
<1>10. ASSUME NEW k \in 0..(n - 1), NEW s, Follows(nest, s, k)
       PROVE  Follows(nest', s, k)
  <2>1. k \in Nat /\ \A i \in 1..k : i \in 1..(n - 1)
    BY <1>5
  <2>2. \A i \in 1..k : nest[i] = nest'[i]
    BY <1>6, <2>1
  <2> QED
    BY <1>10, <2>1, <2>2, FollowsSame
<1>11. ASSUME NEW i \in 1..(n - 1)
       PROVE  Follows(nest', saved'[nest'[i]], i - 1)
  <2>1. i - 1 \in 0..(n - 1)
    BY <1>5
  <2>2. saved'[nest'[i]] = saved[nest[i]]
    BY <1>1, <1>2, <1>5, <1>6, <1>7
  <2>3. Follows(nest, saved[nest[i]], i - 1)
    BY <1>3, <1>5
  <2> QED
    BY <1>10, <2>1, <2>2, <2>3
<1>12. Follows(nest, saved[b], n - 1)
  BY <1>2, <1>3, <1>5
<1>13. Follows(nest, slots', n - 1)
  <2>1. CASE LeaveIsolate(b)
    <3>1. slots' = [slots EXCEPT !.executor = saved[b].executor, !.cache = saved[b].cache,
                                 !.aggregator = saved[b].aggregator, !.tracker = saved[b].tracker]
      BY <2>1 DEF LeaveIsolate
    <3>2. /\ slots'.executor = saved[b].executor /\ slots'.cache = saved[b].cache
          /\ slots'.aggregator = saved[b].aggregator /\ slots'.tracker = saved[b].tracker
      BY <1>1, <3>1 DEF Slots
    <3> QED
      BY <1>12, <3>2 DEF Follows
  <2>2. CASE LeaveCapture(b)
    <3>1. b \in Captures /\ slots' = [slots EXCEPT !.aggregator = saved[b].aggregator,
                                                   !.executor = saved[b].executor]
      BY <2>2 DEF LeaveCapture
    <3>2. /\ slots'.executor = saved[b].executor /\ slots'.cache = slots.cache
          /\ slots'.aggregator = saved[b].aggregator /\ slots'.tracker = slots.tracker
      BY <1>1, <3>1 DEF Slots
    <3>3. n \in Nat /\ n > 0 /\ Follows(nest, slots, n) /\ nest[n] \in Captures
      BY <1>1, <1>2, <1>3, <1>4, <3>1
    <3> QED
      BY <1>12, <3>2, <3>3, CaptureKeeps
  <2> QED
    BY <2>1, <2>2 DEF LeaveBlock
<1>14. n - 1 \in 0..(n - 1) /\ Follows(nest', slots', n - 1)
  BY <1>5, <1>10, <1>13
<1> QED
  BY <1>6, <1>8, <1>9, <1>11, <1>14 DEF NestInv

\* The default backend is no matter of NestInv, and calls leave the blocks alone.
LEMMA NextNests == TypeInv /\ NestInv /\ [Next]_vars => NestInv'
<1> SUFFICES ASSUME TypeInv, NestInv, [Next]_vars
             PROVE  NestInv'
  OBVIOUS
<1>1. ASSUME nest' = nest, overlapped' = overlapped, phase' = phase, saved' = saved,
             slots'.aggregator = slots.aggregator, slots'.executor = slots.executor,
             slots'.cache = slots.cache, slots'.tracker = slots.tracker
      PROVE  NestInv'
  <2>1. \A n : Follows(nest, slots, n) => Follows(nest, slots', n)
    BY <1>1 DEF Follows
  <2> QED
    BY <1>1, <2>1 DEF NestInv
<1>2. CASE UNCHANGED slotVars
  BY <1>1, <1>2 DEF slotVars
<1>3. CASE \E c \in Calls : Lookup(c)
  BY <1>1, <1>3 DEF Lookup, Pin
<1>4. CASE \E b \in Blocks : EnterBlock(b) \/ LeaveBlock(b)
  BY <1>4, EnterNests, LeaveNests
<1>5. CASE \E backend \in {Process, None} \ {slots.backend} : SetDefaultBackend(backend)
  <2>1. PICK backend \in {Process, None} : SetDefaultBackend(backend)
    BY <1>5
  <2>2. slots \in Slots /\ slots' = [slots EXCEPT !.backend = backend]
    BY <2>1 DEF SetDefaultBackend, TypeInv, TypeOK
  <2>3. /\ slots'.aggregator = slots.aggregator /\ slots'.executor = slots.executor
        /\ slots'.cache = slots.cache /\ slots'.tracker = slots.tracker
    BY <2>2 DEF Slots
  <2> QED
    BY <1>1, <2>1, <2>3 DEF SetDefaultBackend
<1>6. CASE ChangeSlots
  BY <1>4, <1>5, <1>6 DEF ChangeSlots
<1>7. UNCHANGED slotVars \/ (\E c \in Calls : Lookup(c)) \/ ChangeSlots
  <2>1. CASE Decorate \/ ResetBudget
    BY <2>1 DEF Decorate, ResetBudget
  <2>2. ASSUME NEW c \in Calls, Begin(c) \/ Attempt(c) \/ Answer(c) \/ Report(c)
        PROVE  UNCHANGED slotVars
    BY <2>2 DEF Begin, Attempt, Answer, Report
  <2>3. CASE UNCHANGED vars
    BY <2>3 DEF vars
  <2> QED
    BY <2>1, <2>2, <2>3 DEF Next
<1> QED
  BY <1>2, <1>3, <1>6, <1>7

LEMMA InitNests == Init => NestInv
<1> SUFFICES ASSUME Init PROVE NestInv
  OBVIOUS
<1>1. /\ nest = << >> /\ slots = Original /\ phase = [b \in Blocks |-> "new"]
  BY DEF Init, SlotsInit
<1>2. Len(nest) = 0 /\ 1..0 = {}
  BY <1>1, EmptySeq
<1>3. \A set : InnermostAt(nest, 0, set) = Process
  BY <1>2 DEF InnermostAt
<1>4. Follows(nest, slots, 0)
  BY <1>1, <1>3 DEF Follows, Original
<1> QED
  BY <1>1, <1>2, <1>4 DEF NestInv

LEMMA Nests == Spec => [](TypeInv /\ NestInv)
<1>1. Init => TypeInv /\ NestInv
  BY InitType, InitNests
<1>2. TypeInv /\ NestInv /\ [Next]_vars => (TypeInv /\ NestInv)'
  BY NextType, NextNests
<1> QED
  BY <1>1, <1>2, PTL DEF Spec

\* The innermost of a set is that of any part which has it.
LEMMA InnermostOfPart ==
    ASSUME NEW s, NEW n \in Nat, NEW set, NEW part \in SUBSET set, Process \notin set,
           InnermostAt(s, n, set) \in part \union {Process}
    PROVE  InnermostAt(s, n, part) = InnermostAt(s, n, set)
<1> DEFINE at == {i \in 1..n : s[i] \in set}
           of == {i \in 1..n : s[i] \in part}
<1>1. of \subseteq at /\ at \in SUBSET (1..n) /\ of \in SUBSET (1..n)
  OBVIOUS
<1>2. CASE at = {}
  BY <1>1, <1>2 DEF InnermostAt
<1>3. CASE at # {}
  <2>1. InnermostAt(s, n, set) = s[Max(at)]
    BY <1>3 DEF InnermostAt
  <2>2. of # {} => InnermostAt(s, n, part) = s[Max(of)]
    BY DEF InnermostAt
  <2>3. \A i \in at : s[i] \in part => i \in of
    OBVIOUS
  <2>4. \A i \in at : s[i] # Process /\ i \in Nat
    OBVIOUS
  <2> HIDE DEF at, of
  <2>5. Max(at) \in at /\ \A i \in at : i <= Max(at)
    BY <1>1, <1>3, MaxFacts
  <2>6. Max(at) \in of
    BY <2>1, <2>3, <2>4, <2>5
  <2>7. Max(of) \in of /\ \A i \in of : i <= Max(of)
    BY <1>1, <2>6, MaxFacts
  <2>8. Max(of) = Max(at)
    <3>1. Max(of) <= Max(at) /\ Max(at) <= Max(of)
      BY <1>1, <2>5, <2>6, <2>7
    <3>2. Max(of) \in Nat /\ Max(at) \in Nat
      BY <1>1, <2>4, <2>5, <2>7
    <3> QED
      BY <3>1, <3>2
  <2> QED
    BY <2>1, <2>2, <2>6, <2>8
<1> QED
  BY <1>2, <1>3

\* SlotsRestored: while blocks nest, however deep and whatever calls run beside them, the
\* objects of a block are in their slots as long as it is the innermost that brings one, and
\* the first executor, cache, aggregator and tracker are back once all blocks are left -- of
\* the default backend nothing is said (testing.py:188-227, 246-267).
THEOREM SlotsAreRestored == Spec => []SlotsRestored
<1>1. TypeInv /\ NestInv => SlotsRestored
  <2> SUFFICES ASSUME TypeInv, NestInv, ~overlapped
               PROVE  SlotsRestored
    BY DEF SlotsRestored
  <2> DEFINE n == Len(nest)
  <2>1. \A set : Innermost(set) = InnermostAt(nest, n, set)
    BY InnermostIs DEF TypeInv, TypeOK
  <2>2. /\ slots.aggregator = InnermostAt(nest, n, Blocks)
        /\ slots.executor = InnermostAt(nest, n, Captures \union WithCache)
        /\ slots.cache = InnermostAt(nest, n, WithCache)
        /\ slots.tracker = IF InnermostAt(nest, n, Isolates) = Process THEN Process ELSE None
    BY DEF NestInv, Follows
  <2>3. /\ Process \notin Blocks /\ Process \notin Isolates /\ None # Process
        /\ Captures \union WithCache \in SUBSET Blocks /\ WithCache \in SUBSET Isolates
    BY ProcessAssumption DEF Blocks, Owners
  <2>4. n \in Nat
    BY DEF TypeInv, TypeOK
  <2> HIDE DEF n
  <2>5. InnermostAt(nest, n, Blocks) \in Captures \union WithCache
          => slots.executor = InnermostAt(nest, n, Blocks)
    BY <2>2, <2>3, <2>4, InnermostOfPart
  <2>6. InnermostAt(nest, n, Isolates) \in WithCache
          => slots.cache = InnermostAt(nest, n, Isolates)
    BY <2>2, <2>3, <2>4, InnermostOfPart
  <2>7. nest = << >> => \A set : InnermostAt(nest, n, set) = Process
    BY DEF InnermostAt, n
  <2> QED
    BY <2>1, <2>2, <2>3, <2>5, <2>6, <2>7 DEF SlotsRestored
<1> QED
  BY <1>1, Nests, PTL

-----------------------------------------------------------------------------
(***************************************************************************)
(* The cache of a function.  Its executor is the one it was decorated      *)
(* with, and an executor keeps the cache of its first use.  If the same    *)
(* blocks were open both times, that cache is theirs; and a block that     *)
(* brings an executor of its own is new, so that nobody can have had that  *)
(* executor before.                                                        *)
(***************************************************************************)

\* A block that has not been entered has put its executor nowhere.
Unheard ==
    \A b \in Blocks : phase[b] = "new" =>
        /\ slots.executor # b
        /\ fn.executor # b
        /\ \A d \in Blocks : saved[d].executor # b

\* Before the function is decorated only an isolate has given its executor a cache.
Unused ==
    fn.executor = None =>
        \A e \in Owners : pinned[e] = None \/ (e \in WithCache /\ pinned[e] = e)

\* The innermost isolate among the blocks under which the function was decorated.
HomeOwner == InnermostAt(home.nest, Len(home.nest), Isolates)

CacheAtHome ==
    home.kept = TRUE /\ fn.executor # None /\ HomeOwner \in WithCache \union {Process} =>
        pinned[fn.executor] \in {None, HomeOwner}

LooksRight(c) == seen[c].owner # None => call[c].cache = seen[c].owner

CacheInv == Unheard /\ Unused /\ CacheAtHome /\ \A c \in Calls : LooksRight(c)

\* Under blocks that nest the cache installed is that of the innermost isolate, if it has
\* brought one or there is none, and so is the executor if an isolate has brought it.
LEMMA CacheOfInnermost ==
    ASSUME TypeInv, NestInv, ~overlapped,
           InnermostAt(nest, Len(nest), Isolates) \in WithCache \union {Process}
    PROVE  /\ slots.cache = InnermostAt(nest, Len(nest), Isolates)
           /\ slots.executor \in WithCache =>
                slots.executor = InnermostAt(nest, Len(nest), Isolates)
<1> DEFINE n == Len(nest)
<1>1. /\ slots.executor = InnermostAt(nest, n, Captures \union WithCache)
      /\ slots.cache = InnermostAt(nest, n, WithCache)
  BY DEF NestInv, Follows
<1>2. /\ Process \notin Isolates /\ Process \notin Captures \union WithCache
      /\ WithCache \in SUBSET Isolates /\ WithCache \in SUBSET (Captures \union WithCache)
  BY ProcessAssumption DEF Blocks
<1>3. n \in Nat
  BY DEF TypeInv, TypeOK
<1> HIDE DEF n
<1>4. InnermostAt(nest, n, WithCache) = InnermostAt(nest, n, Isolates)
  BY <1>2, <1>3, InnermostOfPart DEF n
<1>5. slots.executor \in WithCache =>
        InnermostAt(nest, n, WithCache) = InnermostAt(nest, n, Captures \union WithCache)
  BY <1>1, <1>2, <1>3, InnermostOfPart
<1> QED
  BY <1>1, <1>4, <1>5 DEF n

\* The cache in which a call looks.
LEMMA LookupCache ==
    ASSUME TypeInv, NestInv, CacheInv, NEW c \in Calls, Lookup(c)
    PROVE  CacheAtHome' /\ LooksRight(c)'
<1>1. /\ pinned \in [Owners -> Owners \union {None}] /\ home \in HomeType
      /\ call \in [Calls -> CallType] /\ call[c] \in CallType
      /\ seen \in [Calls -> SeenType] /\ seen[c] \in SeenType
      /\ fn' = fn /\ SlotsOK /\ LocalsOK(c)
  BY DEF TypeInv, TypeOK, SlotsOK, Lookup
<1> DEFINE e == fn.executor
<1>2. call[c].executor = e /\ e \in Owners
  BY <1>1 DEF Lookup, Goto, LocalsOK, TypeInv, TypeOK
<1>3. pinned' = [pinned EXCEPT ![e] = CacheOf(e)] /\ call'[c].cache = CacheOf(e)
  BY <1>1, <1>2 DEF Lookup, Pin, CallType
<1>4. home' = [home EXCEPT !.kept = @ /\ (pinned[e] = None => AtHome)]
  BY <1>2 DEF Lookup
<1>5. /\ home'.nest = home.nest
      /\ home'.kept = TRUE => home.kept = TRUE /\ (pinned[e] = None => AtHome)
  BY <1>1, <1>4 DEF HomeType
<1>6. seen'[c].owner = IF home'.kept /\ AtHome /\ Innermost(Isolates) \in WithCache \union {Process}
                       THEN Innermost(Isolates) ELSE None
  BY <1>1 DEF Lookup, SeenType
<1>7. home'.kept = TRUE /\ HomeOwner \in WithCache \union {Process} => CacheOf(e) = HomeOwner
  <2> SUFFICES ASSUME home'.kept = TRUE, HomeOwner \in WithCache \union {Process}
               PROVE  CacheOf(e) = HomeOwner
    OBVIOUS
  <2>1. CASE pinned[e] # None
    <3>1. e # None
      BY <1>2, ProcessAssumption
    <3>2. pinned[e] \in {None, HomeOwner}
      BY <1>5, <3>1 DEF CacheInv, CacheAtHome
    <3> QED
      BY <2>1, <3>2 DEF CacheOf
  <2>2. CASE pinned[e] = None
    <3>1. ~overlapped /\ nest = home.nest
      BY <1>5, <2>2 DEF AtHome
    <3>2. slots.cache = HomeOwner
      BY <3>1, CacheOfInnermost DEF HomeOwner
    <3> QED
      BY <2>2, <3>2 DEF CacheOf
  <2> QED
    BY <2>1, <2>2
<1>8. HomeOwner' = HomeOwner
  BY <1>5 DEF HomeOwner
<1>9. CacheAtHome'
  <2>1. pinned'[e] = CacheOf(e)
    BY <1>1, <1>2, <1>3
  <2> QED
    BY <1>1, <1>7, <1>8, <2>1 DEF CacheAtHome
<1>10. LooksRight(c)'
  <2> SUFFICES ASSUME seen'[c].owner # None PROVE call'[c].cache = seen'[c].owner
    BY DEF LooksRight
  <2>1. /\ home'.kept /\ AtHome /\ Innermost(Isolates) \in WithCache \union {Process}
        /\ seen'[c].owner = Innermost(Isolates)
    BY <1>6
  <2>2. home'.kept = TRUE
    <3>1. home' \in HomeType
      BY CallStepType DEF TypeInv
    <3> QED
      BY <2>1, <3>1 DEF HomeType
  <2>3. Innermost(Isolates) = HomeOwner
    BY <1>1, <2>1, InnermostIs DEF AtHome, HomeOwner, SlotsOK
  <2> QED
    BY <1>3, <1>7, <2>1, <2>2, <2>3
<1> QED
  BY <1>9, <1>10

LEMMA NextCache == TypeInv /\ NestInv /\ CacheInv /\ [Next]_vars => CacheInv'
<1> SUFFICES ASSUME TypeInv, NestInv, CacheInv, [Next]_vars PROVE CacheInv'
  OBVIOUS
<1>1. /\ pinned \in [Owners -> Owners \union {None}] /\ saved \in [Blocks -> Slots]
      /\ phase \in [Blocks -> {"new", "open", "closed"}]
      /\ call \in [Calls -> CallType] /\ seen \in [Calls -> SeenType]
      /\ fn.executor \in Owners \union {None} /\ home \in HomeType
      /\ slots \in Slots /\ slots.executor \in Owners /\ SlotsOK
  BY DEF TypeInv, TypeOK, SlotsOK, Slots
<1>2. None \notin Owners /\ Process \notin Blocks /\ Blocks \subseteq Owners /\ Process \in Owners
  BY ProcessAssumption DEF Owners
<1>3. ASSUME NEW c \in Calls, Begin(c) \/ Lookup(c) \/ Attempt(c) \/ Answer(c) \/ Report(c)
      PROVE  CacheInv'
  <2>1. UNCHANGED <<slots, saved, phase, fn>>
    BY <1>3 DEF Begin, Lookup, Attempt, Answer, Report, Pin, slotVars
  <2>2. Unheard'
    BY <2>1 DEF CacheInv, Unheard
  <2>3. \A d \in Calls : d # c => call'[d] = call[d] /\ seen'[d] = seen[d]
    BY <1>3, CallStepLocal
  <2>4. CASE Lookup(c)
    <3>1. CacheAtHome' /\ LooksRight(c)'
      BY <2>4, LookupCache
    <3>2. Unused'
      <4>1. fn.executor # None
        BY <2>4 DEF TypeInv, LocalsOK, Lookup, Goto
      <4> QED
        BY <2>1, <4>1 DEF Unused
    <3>3. ASSUME NEW d \in Calls PROVE LooksRight(d)'
      BY <2>3, <3>1 DEF CacheInv, LooksRight
    <3> QED
      BY <2>2, <3>1, <3>2, <3>3 DEF CacheInv
  <2>5. CASE Begin(c) \/ Attempt(c) \/ Answer(c) \/ Report(c)
    <3>1. pinned' = pinned /\ home' = home
      BY <2>5 DEF Begin, Attempt, Answer, Report, slotVars, history
    <3>2. CacheAtHome' /\ Unused'
      BY <2>1, <3>1 DEF CacheInv, CacheAtHome, HomeOwner, Unused
    <3>3. LooksRight(c)'
      <4>1. CASE Report(c)
        <5>1. seen'[c].owner = None
          BY <1>1, <4>1 DEF Report, NewSeen
        <5> QED
          BY <5>1 DEF LooksRight
      <4>2. CASE Begin(c) \/ Attempt(c) \/ Answer(c)
        <5>1. call'[c].cache = call[c].cache /\ seen'[c].owner = seen[c].owner
          BY <1>1, <4>2 DEF Begin, Attempt, Answer, history, CallType, SeenType
        <5> QED
          BY <5>1 DEF LooksRight, CacheInv
      <4> QED
        BY <2>5, <4>1, <4>2
    <3>4. ASSUME NEW d \in Calls PROVE LooksRight(d)'
      BY <2>3, <3>3 DEF CacheInv, LooksRight
    <3> QED
      BY <2>2, <3>2, <3>4 DEF CacheInv
  <2> QED
    BY <1>3, <2>4, <2>5
<1>4. CASE Decorate
  <2>1. /\ fn'.executor = slots.executor /\ fn.executor = None
        /\ UNCHANGED <<slots, pinned, saved, phase, call, seen>>
        /\ home' = [nest |-> nest, kept |-> ~overlapped]
    BY <1>4 DEF Decorate, slotVars, TypeInv, TypeOK
  <2>2. Unheard' /\ Unused' /\ \A c \in Calls : LooksRight(c)'
    BY <1>1, <1>2, <2>1 DEF CacheInv, Unheard, Unused, LooksRight
  <2>3. CacheAtHome'
    <3> SUFFICES ASSUME home'.kept = TRUE, HomeOwner' \in WithCache \union {Process}
                 PROVE  pinned'[fn'.executor] \in {None, HomeOwner'}
      BY DEF CacheAtHome
    <3>1. ~overlapped /\ HomeOwner' = InnermostAt(nest, Len(nest), Isolates)
      BY <2>1 DEF HomeOwner
    <3>2. slots.executor \in WithCache => slots.executor = HomeOwner'
      BY <3>1, CacheOfInnermost
    <3>3. \/ pinned[slots.executor] = None
          \/ slots.executor \in WithCache /\ pinned[slots.executor] = slots.executor
      BY <1>1, <2>1 DEF CacheInv, Unused
    <3> QED
      BY <2>1, <3>2, <3>3
  <2> QED
    BY <2>2, <2>3 DEF CacheInv
<1>5. CASE ChangeSlots
  <2>1. UNCHANGED <<fn, call, home>> /\ NoteSwitch
    BY <1>5 DEF ChangeSlots, callVars
  <2>2. ASSUME NEW c \in Calls PROVE LooksRight(c)'
    <3>1. seen[c] \in SeenType /\ seen'[c] \in {seen[c], [seen[c] EXCEPT !.switched = TRUE]}
      BY <1>1, <2>1 DEF NoteSwitch
    <3>2. seen'[c].owner = seen[c].owner
      BY <3>1 DEF SeenType
    <3> QED
      BY <2>1, <3>2 DEF CacheInv, LooksRight
  <2>3. HomeOwner' = HomeOwner
    BY <2>1 DEF HomeOwner
  <2>4. ASSUME NEW backend \in {Process, None}, SetDefaultBackend(backend) PROVE CacheInv'
    <3>1. slots'.executor = slots.executor /\ UNCHANGED <<pinned, saved, phase>>
      BY <1>1, <2>4 DEF SetDefaultBackend, Slots
    <3> QED
      BY <2>1, <2>2, <2>3, <3>1 DEF CacheInv, Unheard, Unused, CacheAtHome
  <2>5. ASSUME NEW b \in Blocks, EnterBlock(b) PROVE CacheInv'
    <3>1. /\ phase[b] = "new" /\ phase'[b] = "open"
          /\ saved' = [saved EXCEPT ![b] = slots]
          /\ \A d \in Blocks : phase'[d] = "new" => phase[d] = "new" /\ d # b
      BY <1>1, <2>5 DEF EnterBlock, EnterIsolate, EnterCapture, Enter
    <3>2. slots'.executor \in {slots.executor, b}
      <4>1. CASE EnterIsolate(b)
        <5>1. slots'.executor = IF b \in WithCache THEN b ELSE slots.executor
          BY <4>1 DEF EnterIsolate
        <5> QED
          BY <5>1
      <4>2. CASE EnterCapture(b)
        BY <1>1, <4>2 DEF EnterCapture, Slots
      <4> QED
        BY <2>5, <4>1, <4>2 DEF EnterBlock
    <3>3. Unheard'
      BY <1>1, <2>1, <3>1, <3>2 DEF CacheInv, Unheard
    <3>4. fn.executor # b
      BY <3>1 DEF CacheInv, Unheard
    <3>5. pinned' = pinned \/ (b \in WithCache /\ pinned' = [pinned EXCEPT ![b] = b])
      BY <2>5 DEF EnterBlock, EnterIsolate, EnterCapture
    <3>6. \A o \in Owners : pinned'[o] = pinned[o] \/ (o = b /\ b \in WithCache /\ pinned'[o] = o)
      BY <1>1, <3>5
    <3>7. Unused'
      BY <2>1, <3>6 DEF CacheInv, Unused
    <3>8. CacheAtHome'
      <4>1. fn.executor # None => pinned'[fn.executor] = pinned[fn.executor]
        BY <1>1, <3>4, <3>6
      <4> QED
        BY <2>1, <2>3, <4>1 DEF CacheInv, CacheAtHome
    <3> QED
      BY <2>2, <3>3, <3>7, <3>8 DEF CacheInv
  <2>6. ASSUME NEW b \in Blocks, LeaveBlock(b) PROVE CacheInv'
    <3>1. /\ pinned' = pinned /\ saved' = [saved EXCEPT ![b] = Original]
          /\ phase[b] = "open"
          /\ \A d \in Blocks : phase'[d] = "new" => phase[d] = "new"
      BY <1>1, <2>6 DEF LeaveBlock, LeaveIsolate, LeaveCapture, Leave
    <3>2. slots'.executor = saved[b].executor
      BY <1>1, <2>6 DEF LeaveBlock, LeaveIsolate, LeaveCapture, Slots
    <3>3. Original.executor = Process
      BY DEF Original
    <3>4. ASSUME NEW d \in Blocks, phase'[d] = "new"
          PROVE  /\ slots'.executor # d /\ fn'.executor # d
                 /\ \A e \in Blocks : saved'[e].executor # d
      <4>1. /\ fn.executor # d /\ saved[b].executor # d
            /\ \A e \in Blocks : saved[e].executor # d
        BY <3>1, <3>4 DEF CacheInv, Unheard
      <4>2. Original.executor # d
        BY <1>2, <3>3
      <4> QED
        BY <1>1, <2>1, <3>1, <3>2, <4>1, <4>2
    <3>5. Unheard'
      BY <3>4 DEF Unheard
    <3> QED
      BY <2>1, <2>2, <2>3, <3>1, <3>5 DEF CacheInv, Unused, CacheAtHome
  <2> QED
    BY <1>5, <2>4, <2>5, <2>6 DEF ChangeSlots
<1>6. CASE ResetBudget \/ UNCHANGED vars
  <2>1. UNCHANGED <<slotVars, fn, call, seen, home>>
    BY <1>6 DEF ResetBudget, vars, callVars, history
  <2> QED
    BY <2>1 DEF CacheInv, Unheard, Unused, CacheAtHome, HomeOwner, LooksRight, slotVars
<1> QED
  BY <1>3, <1>4, <1>5, <1>6 DEF Next

\* CallsUseTheirBlocksCache: a call looks in the cache of the innermost isolate that is
\* open, and in the process's outside of all -- if the same blocks were open when the
\* function was decorated and when its executor was first used, whatever other blocks and
\* calls have come and gone in between (executor.py:141-145, testing.py:188-227).
THEOREM BlocksCacheUsed == Spec => []CallsUseTheirBlocksCache
<1>1. Init => CacheInv
  <2> SUFFICES ASSUME Init PROVE CacheInv
    OBVIOUS
  <2>1. /\ slots.executor = Process /\ \A d \in Blocks : saved[d].executor = Process
        /\ \A e \in Owners : pinned[e] = None
        /\ fn.executor = None /\ \A c \in Calls : seen[c].owner = None
    BY DEF Init, SlotsInit, Original, NewSeen
  <2>2. \A b \in Blocks : b # Process /\ b # None
    BY ProcessAssumption DEF Owners
  <2> QED
    BY <2>1, <2>2 DEF CacheInv, Unheard, Unused, CacheAtHome, LooksRight
<1>2. CacheInv => CallsUseTheirBlocksCache
  BY DEF CacheInv, LooksRight, CallsUseTheirBlocksCache
<1>3. TypeInv /\ NestInv /\ CacheInv /\ [Next]_vars => CacheInv'
  BY NextCache
<1> QED
  BY <1>1, <1>2, <1>3, Nests, PTL DEF Spec

-----------------------------------------------------------------------------
(***************************************************************************)
(* Records.  What a call has taken at its beginning is what the innermost  *)
(* blocks had installed then, until it is reported there.                  *)
(***************************************************************************)

TookFrom(c) ==
    pc[c] \notin {"idle", "settled"} /\ seen[c].innermost # None =>
        /\ call[c].agg = seen[c].innermost
        /\ call[c].trk = None <=> seen[c].shielded

\* What Begin takes.
LEMMA BeginTakes ==
    ASSUME TypeInv, NestInv, NEW c \in Calls, Begin(c)
    PROVE  TookFrom(c)'
<1>1. /\ call \in [Calls -> CallType] /\ call[c] \in CallType
      /\ seen \in [Calls -> SeenType] /\ seen[c] \in SeenType
  BY DEF TypeInv, TypeOK
<1>2. /\ call'[c].agg = slots.aggregator /\ call'[c].trk = slots.tracker
  BY <1>1 DEF Begin, CallType
<1>3. /\ seen'[c].innermost = (IF overlapped THEN None ELSE Innermost(Blocks))
      /\ seen'[c].shielded = (Innermost(Isolates) # Process)
  BY <1>1 DEF Begin, SeenType
<1>4. CASE overlapped
  BY <1>3, <1>4 DEF TookFrom
<1>5. CASE ~overlapped
  <2>1. \A set : Innermost(set) = InnermostAt(nest, Len(nest), set)
    BY InnermostIs DEF TypeInv, TypeOK
  <2>2. Follows(nest, slots, Len(nest))
    BY <1>5 DEF NestInv
  <2>3. /\ slots.aggregator = Innermost(Blocks)
        /\ slots.tracker = IF Innermost(Isolates) = Process THEN Process ELSE None
    BY <2>1, <2>2 DEF Follows
  <2>4. Process # None
    BY ProcessAssumption DEF Owners
  <2> QED
    BY <1>2, <1>3, <1>5, <2>3, <2>4 DEF TookFrom
<1> QED
  BY <1>4, <1>5

\* The other steps of a call keep it.
LEMMA CallStepKeeps ==
    ASSUME TypeInv, NEW c \in Calls, TookFrom(c),
           Lookup(c) \/ Attempt(c) \/ Answer(c) \/ Report(c)
    PROVE  TookFrom(c)'
<1>1. /\ pc \in [Calls -> Labels]
      /\ call \in [Calls -> CallType] /\ call[c] \in CallType
      /\ seen \in [Calls -> SeenType] /\ seen[c] \in SeenType
  BY DEF TypeInv, TypeOK
<1>2. CASE Report(c)
  <2>1. pc'[c] = "settled"
    BY <1>1, <1>2 DEF Report, Goto
  <2> QED
    BY <2>1 DEF TookFrom
<1>3. CASE Lookup(c)
  <2>1. pc[c] = "lookup"
    BY <1>3 DEF Lookup, Goto
  <2>2. call'[c].agg = call[c].agg /\ call'[c].trk = call[c].trk
    BY <1>1, <1>3 DEF Lookup, CallType
  <2>3. seen'[c].innermost = seen[c].innermost /\ seen'[c].shielded = seen[c].shielded
    BY <1>1, <1>3 DEF Lookup, SeenType
  <2> QED
    BY <2>1, <2>2, <2>3 DEF TookFrom
<1>4. CASE Attempt(c)
  <2>1. pc[c] = "attempt"
    BY <1>4 DEF Attempt, Goto
  <2>2. call'[c].agg = call[c].agg /\ call'[c].trk = call[c].trk
    BY <1>1, <1>4 DEF Attempt, CallType
  <2>3. seen'[c].innermost = seen[c].innermost /\ seen'[c].shielded = seen[c].shielded
    BY <1>1, <1>4 DEF Attempt, SeenType
  <2> QED
    BY <2>1, <2>2, <2>3 DEF TookFrom
<1>5. CASE Answer(c)
  <2>1. pc[c] = "answer" /\ seen' = seen
    BY <1>5 DEF Answer, Goto, history
  <2>2. call'[c].agg = call[c].agg /\ call'[c].trk = call[c].trk
    BY <1>1, <1>5 DEF Answer, CallType
  <2> QED
    BY <2>1, <2>2 DEF TookFrom
<1> QED
  BY <1>2, <1>3, <1>4, <1>5

LEMMA NextTookFrom ==
    TypeInv /\ NestInv /\ (\A c \in Calls : TookFrom(c)) /\ [Next]_vars
    => \A c \in Calls : TookFrom(c)'
<1> SUFFICES ASSUME TypeInv, NestInv, \A c \in Calls : TookFrom(c), [Next]_vars, NEW d \in Calls
             PROVE  TookFrom(d)'
  OBVIOUS
<1>1. TookFrom(d) /\ seen \in [Calls -> SeenType] /\ seen[d] \in SeenType
  BY DEF TypeInv
<1>2. ASSUME NEW c \in Calls, Begin(c) \/ Lookup(c) \/ Attempt(c) \/ Answer(c) \/ Report(c)
      PROVE  TookFrom(d)'
  <2>1. CASE d = c
    BY <1>1, <1>2, <2>1, BeginTakes, CallStepKeeps
  <2>2. CASE d # c
    <3>1. pc'[d] = pc[d] /\ call'[d] = call[d] /\ seen'[d] = seen[d]
      BY <1>2, <2>2, CallStepLocal
    <3> QED
      BY <1>1, <3>1 DEF TookFrom
  <2> QED
    BY <2>1, <2>2
<1>3. CASE Decorate \/ ResetBudget \/ UNCHANGED vars
  <2>1. UNCHANGED <<pc, call, seen>>
    BY <1>3 DEF Decorate, ResetBudget, vars, callVars, history
  <2> QED
    BY <1>1, <2>1 DEF TookFrom
<1>4. CASE ChangeSlots
  <2>1. UNCHANGED <<pc, call>> /\ NoteSwitch
    BY <1>4 DEF ChangeSlots, callVars
  <2>2. seen'[d] = [seen[d] EXCEPT !.switched = TRUE] \/ seen'[d] = seen[d]
    BY <2>1 DEF NoteSwitch
  <2>3. seen'[d].innermost = seen[d].innermost /\ seen'[d].shielded = seen[d].shielded
    BY <1>1, <2>2 DEF SeenType
  <2> QED
    BY <1>1, <2>1, <2>3 DEF TookFrom
<1> QED
  BY <1>2, <1>3, <1>4 DEF Next

\* Only a call's report ends it.
LEMMA OnlyReportSettles ==
    ASSUME TypeInv, Next, NEW c \in Calls, pc[c] = "report", pc'[c] = "settled"
    PROVE  Report(c)
<1>1. pc \in [Calls -> Labels]
  BY DEF TypeInv, TypeOK
<1>2. CASE Decorate \/ ResetBudget \/ ChangeSlots
  BY <1>2 DEF Decorate, ResetBudget, ChangeSlots, callVars
<1>3. ASSUME NEW d \in Calls, Begin(d) \/ Lookup(d) \/ Attempt(d) \/ Answer(d) \/ Report(d)
      PROVE  Report(c)
  <2>1. CASE d # c
    BY <1>3, <2>1, CallStepLocal
  <2>2. CASE d = c
    BY <1>3, <2>2 DEF Begin, Lookup, Attempt, Answer, Goto
  <2> QED
    BY <2>1, <2>2
<1> QED
  BY <1>2, <1>3 DEF Next

\* A report changes the tracker exactly if the call is charged to it.
LEMMA ReportCharges ==
    ASSUME TypeInv, NEW c \in Calls, Report(c)
    PROVE  tracker' # tracker <=> call[c].trk # None
<1> DEFINE spent == Spent(call[c].ok)
           once == Record(tracker, spent, "process")
           again == Record(once, spent, "process")
<1>1. tracker \in Trackers /\ tracker.record_count \in Nat /\ spent \in Spendings
  BY SpentType DEF TypeInv, TypeOK, CallType, Trackers
<1>2. CASE call[c].trk = None
  BY <1>2 DEF Report, ChargeTo
<1>3. CASE call[c].trk # None
  <2>1. tracker' = again \/ tracker' = once
    BY <1>3 DEF Report, ChargeTo
  <2> HIDE DEF spent
  <2>2. once \in Trackers /\ once.record_count = tracker.record_count + 1
    BY <1>1, RecordFacts
  <2> HIDE DEF once
  <2>3. again.record_count = once.record_count + 1
    BY <1>1, <2>2, RecordFacts
  <2> HIDE DEF again
  <2>4. tracker'.record_count # tracker.record_count
    BY <1>1, <2>1, <2>2, <2>3
  <2> QED
    BY <1>3, <2>4
<1> QED
  BY <1>2, <1>3

\* RecordsFollowBlocks: a call is reported to the aggregator of the innermost block that
\* was open when it began, and to no other, also if blocks have come and gone while it ran;
\* and it is charged exactly if no isolate_execution was open then (executor.py:172-184).
THEOREM RecordsFollow == Spec => RecordsFollowBlocks
<1> DEFINE Inv == TypeInv /\ NestInv /\ \A c \in Calls : TookFrom(c)
           Reports(c) ==
              pc[c] = "report" /\ pc'[c] = "settled" /\ seen[c].innermost # None =>
                  /\ \A o \in Owners : recorded'[o] > recorded[o] <=> o = seen[c].innermost
                  /\ tracker' # tracker <=> ~seen[c].shielded
<1>1. Init => Inv
  <2>1. Init => \A c \in Calls : TookFrom(c)
    BY DEF Init, TookFrom
  <2> QED
    BY <2>1, InitType, InitNests
<1>2. Inv /\ [Next]_vars => Inv'
  BY NextType, NextNests, NextTookFrom
<1>3. Inv /\ [Next]_vars => [\A c \in Calls : Reports(c)]_vars
  <2> SUFFICES ASSUME Inv, Next, NEW c \in Calls,
                      pc[c] = "report", pc'[c] = "settled", seen[c].innermost # None
               PROVE  /\ \A o \in Owners : recorded'[o] > recorded[o] <=> o = seen[c].innermost
                      /\ tracker' # tracker <=> ~seen[c].shielded
    OBVIOUS
  <2>1. Report(c)
    BY OnlyReportSettles
  <2>2. call[c].agg = seen[c].innermost /\ (call[c].trk = None <=> seen[c].shielded)
    BY DEF TookFrom
  <2>3. seen[c].innermost \in Owners /\ seen[c].shielded \in BOOLEAN /\ recorded \in [Owners -> Nat]
    BY DEF TypeInv, TypeOK, SeenType
  <2>4. recorded' = [recorded EXCEPT ![seen[c].innermost] = @ + IF Breaches(c) THEN 2 ELSE 1]
    BY <2>1, <2>2 DEF Report, AggregatorOf
  <2>5. ASSUME NEW o \in Owners
        PROVE  recorded'[o] > recorded[o] <=> o = seen[c].innermost
    <3>1. recorded[o] \in Nat
      BY <2>3
    <3>2. CASE o = seen[c].innermost
      <4>1. recorded'[o] = recorded[o] + 1 \/ recorded'[o] = recorded[o] + 2
        BY <2>3, <2>4, <3>2
      <4> QED
        BY <3>1, <3>2, <4>1
    <3>3. CASE o # seen[c].innermost
      <4>1. recorded'[o] = recorded[o]
        BY <2>3, <2>4, <3>3
      <4> QED
        BY <3>1, <3>3, <4>1
    <3> QED
      BY <3>2, <3>3
  <2>6. tracker' # tracker <=> call[c].trk # None
    BY <2>1, ReportCharges
  <2> QED
    BY <2>2, <2>3, <2>5, <2>6
<1> QED
  BY <1>1, <1>2, <1>3, PTL DEF Spec, RecordsFollowBlocks
=============================================================================
