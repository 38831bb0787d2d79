---------------------------- MODULE PipelineProofs ----------------------------
(***************************************************************************)
(* Proofs about Pipeline for any calls, any number of them, any tables and *)
(* replies, and any prompts: types, whose answer a hit gives, in which     *)
(* order the rows of mock tables are served, what the explanations say,    *)
(* that a request is the whole prompt, and that answers are understood     *)
(* alike.  What is so of the texts is in TextTheorems.                     *)
(***************************************************************************)
EXTENDS Pipeline, TextTheorems

-----------------------------------------------------------------------------
(***************************************************************************)
(* The invariants.                                                         *)
(***************************************************************************)

HandlerType == [table : Nat, idx : Nat, loaded : Nat, place : Nat]

\* What TypeOK says, but of the texts, and where each function is defined.
TypeInv ==
    /\ \E family \in Scenarios : scenario \in family
    /\ pc \in [Calls -> Labels]
    /\ m \in [Calls -> CallMetricsType]
    /\ local \in [Calls -> HandlerType]
    /\ counter \in [Tables -> Nat]
    /\ reads \in [Tables -> Nat]
    /\ overlapped \in BOOLEAN
    /\ servedBy \in [Calls -> Calls]
    /\ DOMAIN messages = Calls
    /\ DOMAIN request = Calls
    /\ DOMAIN content = Calls
    /\ DOMAIN contents = Calls
    /\ DOMAIN result = Calls

\* What the cache has, a settled call has obtained from its backend, and a call that
\* was given another's answer is given it for the same request.
CacheInv ==
    /\ \A key \in DOMAIN cached :
         /\ cached[key].by \in Calls
         /\ pc[cached[key].by] = "settled"
         /\ key = MakeKey(cached[key].by)
         /\ result[cached[key].by] = cached[key].value
    /\ \A c \in Calls : servedBy[c] # c =>
         /\ pc[c] = "settled"
         /\ pc[servedBy[c]] = "settled"
         /\ messages[c] = messages[servedBy[c]]
         /\ Job(c).args = Job(servedBy[c]).args
         /\ result[c] = result[servedBy[c]]

\* The calls whose handler of the table has read its counter and not stored it yet.
Handling(at, handlers, t) == {c \in Calls : at[c] \in {"load", "store"} /\ handlers[c].table = t}

\* A counter that is read and not stored yet may fall behind, and never gets ahead.
CountersInv ==
    \A t \in Tables :
        /\ counter[t] + Cardinality(Handling(pc, local, t)) <= reads[t]
        /\ ~overlapped =>
             /\ counter[t] + Cardinality(Handling(pc, local, t)) = reads[t]
             /\ \A c, d \in Handling(pc, local, t) : c = d
        /\ \A i \in Tables : i < t /\ scenario.tables[i].signature = AnySignature =>
                                 counter[t] = 0

\* A call's handler, from its first attempt on.
HandlerInv(c) ==
    /\ pc[c] = "render" => local[c].table = 0
    /\ pc[c] \in {"load", "store"} => local[c].table # 0
    /\ local[c].table # 0 =>
         /\ local[c].table = FirstMatch(c)
         /\ Job(c).backend = "mock"
         /\ local[c].idx <= local[c].place
         /\ ~overlapped => local[c].idx = local[c].place
         /\ pc[c] = "store" =>
              /\ local[c].loaded + Cardinality(Handling(pc, local, local[c].table))
                   <= reads[local[c].table]
              /\ ~overlapped => local[c].loaded = counter[local[c].table]
         /\ pc[c] = "parse" =>
              content[c] = Materialise(Row(scenario.tables[local[c].table].rows, local[c].idx),
                                       scenario.force)

\* What is wrong with what an attempt has obtained.
DefectOf(answer) == IF answer = Other THEN "backend" ELSE Defect(ExtractJson(answer))

\* The first n of the answers have failed, and `errors` says so.
Fails(answers, n, errors) ==
    /\ errors = [i \in 1..n |-> [attempt |-> i - 1, category |-> DefectOf(answers[i])]]
    /\ \A i \in 1..n : DefectOf(answers[i]) # NoCategory

\* What a call's metrics say of what its attempts have obtained.
AttemptsInv(c) ==
    LET n == Len(contents[c]) IN
    /\ contents[c] \in Seq(Range(contents[c]))
    /\ pc[c] \in {"idle", "render", "raised", "lookup"} =>
         contents[c] = << >> /\ m[c] = NewCallMetrics
    /\ pc[c] \in {"call", "load", "store", "parse"} => ~m[c].successful /\ ~m[c].cache_hit
    /\ pc[c] = "call" => m[c].attempts = n /\ Fails(contents[c], n, m[c].attempt_errors)
    /\ pc[c] \in {"load", "store"} =>
         m[c].attempts = n + 1 /\ Fails(contents[c], n, m[c].attempt_errors)
    /\ pc[c] = "parse" =>
         /\ n > 0
         /\ m[c].attempts = n
         /\ Fails(contents[c], n - 1, m[c].attempt_errors)
         /\ contents[c][n] = content[c]
         /\ content[c] # Other
    /\ pc[c] = "settled" /\ m[c].cache_hit => n = 0
    /\ pc[c] = "settled" /\ ~m[c].cache_hit =>
         /\ n > 0
         /\ m[c].successful <=> DefectOf(contents[c][n]) = NoCategory
         /\ m[c].successful => m[c].retries = n - 1
         /\ ~m[c].successful => /\ m[c].attempts = n
                                /\ m[c].error_category = DefectOf(contents[c][n])
                                /\ Fails(contents[c], n, m[c].attempt_errors)

\* What a call's prompt, its last request and its last content are.
TextsAt(at, job, says, asked, answer) ==
    /\ at # "idle" => job # NoJob
    /\ at \in {"idle", "render"} => says = << >>
    /\ at \notin {"idle", "render"} => says = RenderPrompt(job.fn, job.args, job.extra)
    /\ at \in {"load", "store", "parse"} => asked = RequestTo(job.backend, says)
    /\ at = "parse" /\ job.backend = "openai" => answer.type = "str"
    /\ IsContent(answer)

TextsInv(c) == TextsAt(pc[c], Job(c), messages[c], request[c], content[c])

PipelineInv ==
    /\ TypeInv
    /\ ResultsValid
    /\ CacheInv
    /\ CountersInv
    /\ \A c \in Calls : HandlerInv(c)
    /\ \A c \in Calls : AttemptsInv(c)
    /\ \A c \in Calls : TextsInv(c)

-----------------------------------------------------------------------------
(***************************************************************************)
(* Lemmas about the operators.                                             *)
(***************************************************************************)

LEMMA StartedFacts ==
    ASSUME NEW n \in CallMetricsType, NEW k \in Nat
    PROVE  /\ CountAttempt(n, k) \in CallMetricsType
           /\ CountAttempt(n, k).attempts = k + 1
           /\ CountAttempt(n, k).successful = n.successful
           /\ CountAttempt(n, k).cache_hit = n.cache_hit
           /\ CountAttempt(n, k).attempt_errors = n.attempt_errors
BY DEF CountAttempt, CallMetricsType

LEMMA FailedFacts ==
    ASSUME NEW n \in CallMetricsType, n.attempts > 0, NEW category \in Categories
    PROVE  /\ Failed(n, category) \in CallMetricsType
           /\ Failed(n, category).attempts = n.attempts
           /\ Failed(n, category).successful = n.successful
           /\ Failed(n, category).cache_hit = n.cache_hit
           /\ Failed(n, category).error_category = category
           /\ Failed(n, category).attempt_errors =
                Append(n.attempt_errors, [attempt |-> n.attempts - 1, category |-> category])
<1> DEFINE error == [attempt |-> n.attempts - 1, category |-> category]
<1>1. n.attempts - 1 \in Nat
  BY DEF CallMetricsType
<1>2. error \in AttemptErrors
  BY <1>1 DEF AttemptErrors
<1> HIDE DEF error
<1>3. n.attempt_errors \in Seq(AttemptErrors)
  BY DEF CallMetricsType
<1>4. Append(n.attempt_errors, error) \in Seq(AttemptErrors)
  BY <1>2, <1>3, AppendProperties
<1>5. Failed(n, category) = [n EXCEPT !.attempt_errors = Append(@, error),
                                      !.retries = n.attempts - 1,
                                      !.error_category = category]
  BY DEF Failed, NoteAttemptFailure, error
<1> QED
  BY <1>1, <1>4, <1>5 DEF CallMetricsType, error

LEMMA MarkFailureFacts ==
    ASSUME NEW n \in CallMetricsType
    PROVE  /\ MarkFailure(n) \in CallMetricsType
           /\ MarkFailure(n).attempts = n.attempts
           /\ ~MarkFailure(n).successful
           /\ MarkFailure(n).cache_hit = n.cache_hit
           /\ MarkFailure(n).error_category = n.error_category
           /\ MarkFailure(n).attempt_errors = n.attempt_errors
<1> DEFINE k == IF n.attempts > 0 /\ n.attempts - 1 > n.retries THEN n.attempts - 1
                ELSE n.retries
<1>1. k \in Nat
  BY DEF CallMetricsType
<1>2. MarkFailure(n) = [n EXCEPT !.successful = FALSE, !.retries = k]
  BY DEF MarkFailure
<1> HIDE DEF k
<1> QED
  BY <1>1, <1>2 DEF CallMetricsType

LEMMA SucceededFacts ==
    ASSUME NEW n \in CallMetricsType, n.attempts > 0
    PROVE  LET r == MarkSuccess(AddResponse(n, n.attempts - 1, 1), n.attempts - 1) IN
           /\ r \in CallMetricsType
           /\ r.successful
           /\ r.retries = n.attempts - 1
           /\ r.cache_hit = n.cache_hit
<1> DEFINE total == IF n.attempts - 1 = 0 THEN 1 ELSE n.total_usage + 1
           a == [n EXCEPT !.total_usage = total, !.usage = 1]
<1>1. total \in Nat /\ n.attempts - 1 \in Nat /\ n.attempts - 1 + 1 = n.attempts
  BY DEF CallMetricsType
<1>2. AddResponse(n, n.attempts - 1, 1) = a
  BY DEF AddResponse
<1> HIDE DEF total
<1>3. a \in CallMetricsType /\ a.cache_hit = n.cache_hit
  BY <1>1 DEF CallMetricsType
<1> HIDE DEF a
<1>4. MarkSuccess(a, n.attempts - 1) =
        [a EXCEPT !.successful = TRUE, !.retries = n.attempts - 1,
                  !.attempts = n.attempts - 1 + 1, !.error_category = NoCategory]
  BY DEF MarkSuccess
<1>5. n.attempts - 1 + 1 \in Nat
  BY <1>1 DEF CallMetricsType
<1> QED
  BY <1>1, <1>2, <1>3, <1>4, <1>5 DEF CallMetricsType

LEMMA HitFacts ==
    ASSUME NEW n \in CallMetricsType
    PROVE  HitMetrics(n, 1) \in CallMetricsType /\ HitMetrics(n, 1).cache_hit
<1> DEFINE a == [n EXCEPT !.cache_hit = TRUE, !.usage = 1, !.total_usage = 1]
<1>1. a \in CallMetricsType /\ a.cache_hit = TRUE
  BY DEF CallMetricsType
<1> HIDE DEF a
<1>2. MarkSuccess(a, 0) = [a EXCEPT !.successful = TRUE, !.retries = 0, !.attempts = 1,
                                    !.error_category = NoCategory]
  BY DEF MarkSuccess
<1>3. MarkSuccess(a, 0) \in CallMetricsType /\ MarkSuccess(a, 0).cache_hit = TRUE
  <2>1. 0 \in Nat /\ 1 \in Nat
    OBVIOUS
  <2> QED
    BY <1>1, <1>2, <2>1 DEF CallMetricsType, NoCategory
<1> QED
  BY <1>3 DEF HitMetrics, a

LEMMA DefectFacts ==
    ASSUME NEW value
    PROVE  /\ Defect(value) # NoCategory => Defect(value) \in Categories
           /\ Defect(value) = NoCategory => Validates(value)
BY DEF Defect, NoCategory, Categories

-----------------------------------------------------------------------------
(***************************************************************************)
(* The steps: what all have in common, and failures.                       *)
(***************************************************************************)

Step(c) ==
    \/ Render(c) \/ LookupHit(c) \/ LookupMiss(c)
    \/ ReadCounter(c) \/ LoadCounter(c) \/ StoreCounter(c)
    \/ CallUnregistered(c) \/ CallProvider(c) \/ CallProviderFails(c)
    \/ ParseSucceeds(c) \/ ParseFails(c)

\* A step of c leaves what the other calls have as it is.
Frame(c) ==
    /\ scenario' = scenario
    /\ \A d \in Calls : d # c =>
         /\ pc'[d] = pc[d]
         /\ messages'[d] = messages[d]
         /\ request'[d] = request[d]
         /\ content'[d] = content[d]
         /\ contents'[d] = contents[d]
         /\ m'[d] = m[d]
         /\ result'[d] = result[d]
         /\ local'[d] = local[d]
         /\ servedBy'[d] = servedBy[d]

LEMMA StepFrame ==
    ASSUME TypeInv, NEW c \in Calls, Step(c)
    PROVE  Frame(c)
<1> USE DEF TypeInv, Goto, data, history
<1>1. CASE Render(c)
  BY <1>1 DEF Render, Frame
<1>2. CASE LookupHit(c)
  BY <1>2 DEF LookupHit, Frame
<1>3. CASE LookupMiss(c)
  BY <1>3 DEF LookupMiss, Frame
<1>4. CASE ReadCounter(c)
  BY <1>4 DEF ReadCounter, Sent, Frame
<1>5. CASE LoadCounter(c)
  BY <1>5 DEF LoadCounter, Frame
<1>6. CASE StoreCounter(c)
  BY <1>6 DEF StoreCounter, Answered, Frame
<1>7. CASE CallUnregistered(c)
  BY <1>7 DEF CallUnregistered, Answered, Sent, Frame
<1>8. CASE CallProvider(c)
  BY <1>8 DEF CallProvider, Answered, Sent, Frame
<1>9. CASE CallProviderFails(c)
  BY <1>9 DEF CallProviderFails, AfterFailure, Sent, Frame
<1>10. CASE ParseSucceeds(c)
  BY <1>10 DEF ParseSucceeds, Frame
<1>11. CASE ParseFails(c)
  BY <1>11 DEF ParseFails, AfterFailure, Frame
<1> QED
  BY <1>1, <1>2, <1>3, <1>4, <1>5, <1>6, <1>7, <1>8, <1>9, <1>10, <1>11 DEF Step

\* What becomes of the metrics n of a call whose attempt has failed.
FailedAs(c, n, category, e) ==
    /\ e \in CallMetricsType
    /\ m' = [m EXCEPT ![c] = e]
    /\ e.attempts = n.attempts
    /\ e.cache_hit = n.cache_hit
    /\ e.error_category = category
    /\ e.attempt_errors =
         Append(n.attempt_errors, [attempt |-> n.attempts - 1, category |-> category])
    /\ \/ pc' = [pc EXCEPT ![c] = "call"] /\ e.successful = n.successful
       \/ pc' = [pc EXCEPT ![c] = "settled"] /\ ~e.successful

LEMMA AfterFailureFacts ==
    ASSUME NEW c \in Calls, NEW n \in CallMetricsType, n.attempts > 0,
           NEW category \in Categories, AfterFailure(c, n, category)
    PROVE  \E e : FailedAs(c, n, category, e)
<1> DEFINE again == IsRetryable(category, n.attempts - 1, Job(c).fn.max_retries)
           failed == Failed(n, category)
           e == IF again THEN failed ELSE MarkFailure(failed)
<1>1. m' = [m EXCEPT ![c] = e] /\ pc' = [pc EXCEPT ![c] = IF again THEN "call" ELSE "settled"]
  BY DEF AfterFailure, Goto
<1> HIDE DEF again
<1>2. /\ failed \in CallMetricsType
      /\ failed.attempts = n.attempts
      /\ failed.successful = n.successful
      /\ failed.cache_hit = n.cache_hit
      /\ failed.error_category = category
      /\ failed.attempt_errors =
           Append(n.attempt_errors, [attempt |-> n.attempts - 1, category |-> category])
  BY FailedFacts
<1> HIDE DEF failed
<1>3. CASE again
  BY <1>1, <1>2, <1>3 DEF FailedAs
<1>4. CASE ~again
  <2>1. /\ MarkFailure(failed) \in CallMetricsType
        /\ MarkFailure(failed).attempts = failed.attempts
        /\ ~MarkFailure(failed).successful
        /\ MarkFailure(failed).cache_hit = failed.cache_hit
        /\ MarkFailure(failed).error_category = failed.error_category
        /\ MarkFailure(failed).attempt_errors = failed.attempt_errors
    BY <1>2, MarkFailureFacts
  <2>2. FailedAs(c, n, category, MarkFailure(failed))
    BY <1>1, <1>2, <1>4, <2>1 DEF FailedAs
  <2> QED
    BY <2>2
<1> QED
  BY <1>3, <1>4

-----------------------------------------------------------------------------
(***************************************************************************)
(* Type correctness.                                                       *)
(***************************************************************************)

LEMMA ScenarioFacts ==
    ASSUME TypeInv
    PROVE  /\ Len(scenario.tables) \in Nat
           /\ Tables = 1..Len(scenario.tables)
           /\ \A t \in Tables :
                /\ Len(scenario.tables[t].rows) \in Nat \ {0}
                /\ DOMAIN scenario.tables[t].rows = 1..Len(scenario.tables[t].rows)
                /\ \A k \in DOMAIN scenario.tables[t].rows : IsRow(scenario.tables[t].rows[k])
<1>1. PICK s : s = scenario
  OBVIOUS
<1>2. /\ s.tables \in Seq(ToSet(s.tables))
      /\ \A table \in ToSet(s.tables) :
           /\ table.rows \in Seq(ToSet(table.rows)) \ {<< >>}
           /\ \A row \in ToSet(table.rows) : IsRow(row)
  BY <1>1, ScenariosAssumption DEF TypeInv
<1>3. Len(s.tables) \in Nat /\ DOMAIN s.tables = 1..Len(s.tables)
  BY <1>2, LenProperties
<1>4. ASSUME NEW t \in DOMAIN s.tables
      PROVE  /\ Len(s.tables[t].rows) \in Nat \ {0}
             /\ DOMAIN s.tables[t].rows = 1..Len(s.tables[t].rows)
             /\ \A k \in DOMAIN s.tables[t].rows : IsRow(s.tables[t].rows[k])
  <2>1. s.tables[t] \in ToSet(s.tables)
    BY DEF ToSet
  <2>2. PICK rows : rows = s.tables[t].rows
    OBVIOUS
  <2>3. /\ rows \in Seq(ToSet(rows)) \ {<< >>}
        /\ \A row \in ToSet(rows) : IsRow(row)
    BY <1>2, <2>1, <2>2
  <2>4. Len(rows) \in Nat /\ DOMAIN rows = 1..Len(rows) /\ Len(rows) # 0
    BY <2>3, LenProperties, EmptySeq
  <2>5. \A k \in DOMAIN rows : rows[k] \in ToSet(rows)
    BY DEF ToSet
  <2> QED
    BY <2>2, <2>3, <2>4, <2>5
<1> QED
  BY <1>1, <1>3, <1>4 DEF Tables

LEMMA MinOfTwo ==
    ASSUME NEW a \in Nat, NEW b \in Nat
    PROVE  Min({a, b}) = IF a <= b THEN a ELSE b
<1>1. {a, b} \in SUBSET Nat /\ {a, b} # {}
  OBVIOUS
<1>2. Min({a, b}) \in {a, b} /\ \A i \in {a, b} : Min({a, b}) <= i
  BY <1>1, MinFacts
<1> QED
  BY <1>2

\* The tables that a call's request is for.
Matching(c) ==
    {i \in 1..Len(scenario.tables) :
        scenario.tables[i].signature \in {AnySignature, {Signature(c)}}}

LEMMA FirstMatchFacts ==
    ASSUME TypeInv, NEW c
    PROVE  FirstMatch(c) # 0 =>
             /\ FirstMatch(c) \in Tables
             /\ \A i \in Tables : i < FirstMatch(c) => scenario.tables[i].signature # AnySignature
<1>1. Tables = 1..Len(scenario.tables) /\ Len(scenario.tables) \in Nat
  BY ScenarioFacts
<1>2. FirstMatch(c) = IF Matching(c) # {} THEN Min(Matching(c)) ELSE 0
  BY DEF FirstMatch, SelectInSeq, Matching
<1>3. Matching(c) \in SUBSET Nat
  BY <1>1 DEF Matching
<1>4. ASSUME FirstMatch(c) # 0
      PROVE  FirstMatch(c) \in Matching(c) /\ \A i \in Matching(c) : FirstMatch(c) <= i
  BY <1>2, <1>3, <1>4, MinFacts
<1>5. ASSUME FirstMatch(c) # 0, NEW i \in Tables, i < FirstMatch(c),
             scenario.tables[i].signature = AnySignature
      PROVE  FALSE
  <2>1. i \in Matching(c)
    BY <1>1, <1>5 DEF Matching
  <2>2. FirstMatch(c) <= i /\ FirstMatch(c) \in Nat /\ i \in Nat
    BY <1>1, <1>3, <1>4, <1>5, <2>1
  <2> QED
    BY <1>5, <2>2
<1> QED
  BY <1>1, <1>4, <1>5 DEF Matching

\* The row that a handler serves is one of the table.
LEMMA RowFacts ==
    ASSUME NEW rows, Len(rows) \in Nat \ {0}, DOMAIN rows = 1..Len(rows), NEW idx \in Nat
    PROVE  LET i == Min({idx + 1, Len(rows)}) IN
           Row(rows, idx) = rows[i] /\ i \in DOMAIN rows
<1>1. Len(rows) - 1 \in Nat /\ idx + 1 \in Nat
  OBVIOUS
<1>2. Min({idx, Len(rows) - 1}) = IF idx <= Len(rows) - 1 THEN idx ELSE Len(rows) - 1
  BY <1>1, MinOfTwo
<1>3. Min({idx + 1, Len(rows)}) = IF idx + 1 <= Len(rows) THEN idx + 1 ELSE Len(rows)
  BY <1>1, MinOfTwo
<1>4. Min({idx, Len(rows) - 1}) + 1 = Min({idx + 1, Len(rows)})
  BY <1>1, <1>2, <1>3
<1>5. Min({idx + 1, Len(rows)}) \in 1..Len(rows)
  BY <1>1, <1>3
<1> QED
  BY <1>4, <1>5 DEF Row

\* Who is no further down than another is given no later row.
LEMMA TurnFacts ==
    ASSUME NEW idx \in Nat, NEW place \in Nat, idx <= place, NEW n \in Nat \ {0}
    PROVE  Min({idx + 1, n}) \in 1..Min({place + 1, n})
<1>1. idx + 1 \in Nat /\ place + 1 \in Nat /\ idx + 1 <= place + 1 /\ idx + 1 >= 1
  OBVIOUS
<1>2. Min({idx + 1, n}) = IF idx + 1 <= n THEN idx + 1 ELSE n
  BY <1>1, MinOfTwo
<1>3. Min({place + 1, n}) = IF place + 1 <= n THEN place + 1 ELSE n
  BY <1>1, MinOfTwo
<1> QED
  BY <1>1, <1>2, <1>3

\* No content is Other: that is what an attempt without any is noted as.
LEMMA MaterialiseFacts ==
    ASSUME NEW row, row.type \in {"dict", "str"}, NEW force
    PROVE  Materialise(row, force).type \in {"dict", "str"}
BY DEF Materialise, Text

LEMMA ContentFacts ==
    ASSUME NEW backend, NEW reply
    PROVE  ContentOf(backend, reply).type \in {"dict", "str", "list"}
BY DEF ContentOf, OpenAIContent, AnthropicContent, AnthropicText, AsContent, Dict, Text, List

LEMMA InitType == Init => TypeInv
<1> SUFFICES ASSUME Init PROVE TypeInv
  OBVIOUS
<1>1. NewCallMetrics \in CallMetricsType
  BY DEF NewCallMetrics, CallMetricsType
<1>2. NoHandler \in HandlerType
  BY DEF NoHandler, HandlerType
<1> QED
  BY <1>1, <1>2 DEF Init, TypeInv, Tables, Labels

LEMMA StepType ==
    ASSUME PipelineInv, NEW c \in Calls, Step(c)
    PROVE  TypeInv'
<1> USE DEF PipelineInv
<1>1. Frame(c) /\ Tables' = Tables
  BY StepFrame DEF Frame, Tables
<1>2. TypeInv /\ m[c] \in CallMetricsType /\ m[c].attempts \in Nat /\ local[c] \in HandlerType
  BY DEF TypeInv, CallMetricsType
<1>3. Started(c) \in CallMetricsType /\ Started(c).attempts > 0
  <2>1. /\ CountAttempt(m[c], m[c].attempts) \in CallMetricsType
        /\ CountAttempt(m[c], m[c].attempts).attempts = m[c].attempts + 1
    BY <1>2, StartedFacts
  <2>2. m[c].attempts + 1 > 0
    BY <1>2
  <2> QED
    BY <2>1, <2>2 DEF Started, Attempt
<1> USE DEF Goto, data, history, Labels
<1>4. CASE Render(c)
  BY <1>1, <1>4 DEF Render, TypeInv
<1>5. CASE LookupHit(c)
  <2>1. HitMetrics(m[c], 1) \in CallMetricsType
    BY <1>2, HitFacts
  <2>2. cached[MakeKey(c)].by \in Calls
    BY <1>5 DEF LookupHit, CacheInv
  <2> QED
    BY <1>1, <1>5, <2>1, <2>2 DEF LookupHit, TypeInv
<1>6. CASE LookupMiss(c)
  BY <1>1, <1>6 DEF LookupMiss, TypeInv
<1>7. CASE ReadCounter(c)
  <2> DEFINE t == FirstMatch(c)
             l == [table |-> t, idx |-> counter[t], loaded |-> 0, place |-> reads[t]]
  <2>1. t \in Tables /\ t \in Nat
    BY <1>2, <1>7, FirstMatchFacts, ScenarioFacts DEF ReadCounter
  <2>2. counter[t] \in Nat /\ reads[t] \in Nat /\ reads[t] + 1 \in Nat
    BY <1>2, <2>1 DEF TypeInv
  <2>3. l \in HandlerType
    BY <2>1, <2>2 DEF HandlerType
  <2>4. /\ local' = [local EXCEPT ![c] = l]
        /\ reads' = [reads EXCEPT ![t] = reads[t] + 1]
        /\ m' = [m EXCEPT ![c] = Started(c)]
        /\ pc' = [pc EXCEPT ![c] = "load"]
        /\ overlapped' \in BOOLEAN
        /\ DOMAIN request' = DOMAIN request
        /\ UNCHANGED <<scenario, messages, content, result, counter, cached, contents, servedBy>>
    BY <1>2, <1>7 DEF ReadCounter, Sent, TypeInv
  <2> HIDE DEF t, l
  <2> QED
    BY <1>1, <1>3, <2>2, <2>3, <2>4 DEF TypeInv
<1>8. CASE LoadCounter(c)
  <2>1. local[c].table \in Tables
    BY <1>2, <1>8, FirstMatchFacts DEF LoadCounter, HandlerInv
  <2>2. counter[local[c].table] \in Nat
    BY <1>2, <2>1 DEF TypeInv
  <2>3. [local[c] EXCEPT !.loaded = counter[local[c].table]] \in HandlerType
    BY <1>2, <2>2 DEF HandlerType
  <2> QED
    BY <1>1, <1>8, <2>3 DEF LoadCounter, TypeInv
<1>9. CASE StoreCounter(c)
  <2>1. local[c].loaded + 1 \in Nat
    BY <1>2 DEF HandlerType
  <2> QED
    BY <1>1, <1>9, <2>1 DEF StoreCounter, Answered, TypeInv
<1>10. CASE CallUnregistered(c)
  BY <1>1, <1>3, <1>10 DEF CallUnregistered, Answered, Sent, TypeInv
<1>11. CASE CallProvider(c)
  BY <1>1, <1>3, <1>11 DEF CallProvider, Answered, Sent, TypeInv
<1>12. CASE CallProviderFails(c)
  <2>1. PICK e : FailedAs(c, Started(c), "backend", e)
    BY <1>3, <1>12, AfterFailureFacts DEF CallProviderFails, Categories
  <2> QED
    BY <1>1, <1>12, <2>1 DEF CallProviderFails, FailedAs, Sent, TypeInv
<1>13. CASE ParseSucceeds(c)
  <2>1. m[c].attempts > 0
    BY <1>2, <1>13 DEF ParseSucceeds, AttemptsInv
  <2>2. MarkSuccess(AddResponse(m[c], m[c].attempts - 1, 1), m[c].attempts - 1)
          \in CallMetricsType
    BY <1>2, <2>1, SucceededFacts
  <2> QED
    BY <1>1, <1>13, <2>2 DEF ParseSucceeds, TypeInv
<1>14. CASE ParseFails(c)
  <2>1. m[c].attempts > 0
    BY <1>2, <1>14 DEF ParseFails, AttemptsInv
  <2>2. Defect(ExtractJson(content[c])) \in Categories
    BY <1>14, DefectFacts DEF ParseFails
  <2>3. PICK e : FailedAs(c, m[c], Defect(ExtractJson(content[c])), e)
    BY <1>2, <1>14, <2>1, <2>2, AfterFailureFacts DEF ParseFails
  <2> QED
    BY <1>1, <1>14, <2>3 DEF ParseFails, FailedAs, TypeInv
<1> QED
  BY <1>4, <1>5, <1>6, <1>7, <1>8, <1>9, <1>10, <1>11, <1>12, <1>13, <1>14 DEF Step

-----------------------------------------------------------------------------
(***************************************************************************)
(* The cache.                                                              *)
(***************************************************************************)

LEMMA InitResults == Init => ResultsValid /\ CacheInv
BY DEF Init, ResultsValid, CacheInv

\* Every answer that is kept has been validated, and every one that is given.
LEMMA StepResults ==
    ASSUME PipelineInv, NEW c \in Calls, Step(c)
    PROVE  ResultsValid'
<1> USE DEF PipelineInv
<1>1. Frame(c)
  BY StepFrame
<1>2. CASE UNCHANGED <<result, cached>>
  BY <1>2 DEF ResultsValid, Validates
<1>3. CASE LookupHit(c)
  BY <1>1, <1>3 DEF LookupHit, Frame, ResultsValid, Validates, TypeInv
<1>4. CASE ParseSucceeds(c)
  <2> DEFINE value == ExtractJson(content[c])
  <2>1. Validates(value)
    BY <1>4, DefectFacts DEF ParseSucceeds
  <2>2. /\ result' = [result EXCEPT ![c] = value]
        /\ cached' = Put(cached, MakeKey(c), [value |-> value, by |-> c])
    BY <1>4 DEF ParseSucceeds
  <2> HIDE DEF value
  <2> QED
    BY <2>1, <2>2 DEF ResultsValid, Validates, Put, TypeInv
<1> QED
  BY <1>2, <1>3, <1>4 DEF Step, Render, LookupMiss, ReadCounter, LoadCounter, StoreCounter,
       Answered, CallUnregistered, CallProvider, CallProviderFails, ParseFails, data, history

\* A settled call stays what it is.
LEMMA SettledStays ==
    ASSUME TypeInv, NEW c \in Calls, Step(c), NEW d \in Calls, pc[d] = "settled"
    PROVE  /\ pc'[d] = "settled"
           /\ messages'[d] = messages[d]
           /\ result'[d] = result[d]
           /\ servedBy'[d] = servedBy[d]
           /\ scenario' = scenario
<1>1. Frame(c)
  BY StepFrame
<1>2. d # c
  BY DEF Step, Render, LookupHit, LookupMiss, ReadCounter, LoadCounter, StoreCounter,
         CallUnregistered, CallProvider, CallProviderFails, ParseSucceeds, ParseFails, Goto
<1> QED
  BY <1>1, <1>2 DEF Frame

LEMMA StepCache ==
    ASSUME PipelineInv, NEW c \in Calls, Step(c)
    PROVE  CacheInv'
<1> USE DEF PipelineInv, MakeKey, Job
<1>1. scenario' = scenario
  BY StepFrame DEF Frame
<1>2. \A d \in Calls : pc[d] = "settled" =>
        /\ pc'[d] = "settled"
        /\ messages'[d] = messages[d]
        /\ result'[d] = result[d]
        /\ servedBy'[d] = servedBy[d]
  BY SettledStays
<1>4. servedBy \in [Calls -> Calls] /\ DOMAIN result = Calls /\ DOMAIN messages = Calls
  BY DEF TypeInv
<1>5. CASE UNCHANGED <<result, cached, servedBy>>
  BY <1>1, <1>2, <1>4, <1>5 DEF CacheInv
<1>6. CASE LookupHit(c)
  <2> DEFINE by == cached[MakeKey(c)].by
  <2>1. /\ by \in Calls
        /\ pc[by] = "settled"
        /\ MakeKey(c) = MakeKey(by)
        /\ result[by] = cached[MakeKey(c)].value
    BY <1>6 DEF LookupHit, CacheInv
  <2>2. messages[c] = messages[by] /\ Job(c).args = Job(by).args
    BY <2>1 DEF MakeKey
  <2>3. /\ pc'[c] = "settled"
        /\ result' = [result EXCEPT ![c] = cached[MakeKey(c)].value]
        /\ servedBy' = [servedBy EXCEPT ![c] = by]
        /\ cached' = cached /\ messages' = messages
        /\ pc[c] = "lookup"
    BY <1>6 DEF LookupHit, Goto, TypeInv
  <2> HIDE DEF by
  <2>4. by # c /\ servedBy'[c] = by /\ result'[c] = result[by]
    BY <1>4, <2>1, <2>3
  <2>5. ASSUME NEW key \in DOMAIN cached'
        PROVE  /\ cached'[key].by \in Calls
               /\ pc'[cached'[key].by] = "settled"
               /\ key = <<FnModel, messages'[cached'[key].by],
                          scenario'.jobs[cached'[key].by].args>>
               /\ result'[cached'[key].by] = cached'[key].value
    BY <1>1, <1>2, <2>3, <2>5 DEF CacheInv
  <2>6. ASSUME NEW d \in Calls, servedBy'[d] # d
        PROVE  /\ pc'[d] = "settled"
               /\ pc'[servedBy'[d]] = "settled"
               /\ messages'[d] = messages'[servedBy'[d]]
               /\ scenario'.jobs[d].args = scenario'.jobs[servedBy'[d]].args
               /\ result'[d] = result'[servedBy'[d]]
    <3>1. CASE d = c
      BY <1>1, <1>2, <2>1, <2>2, <2>3, <2>4, <3>1
    <3>2. CASE d # c
      <4>1. servedBy'[d] = servedBy[d]
        BY <2>3, <3>2, <1>4
      <4> QED
        BY <1>1, <1>2, <1>4, <2>3, <2>4, <2>6, <3>2, <4>1 DEF CacheInv
    <3> QED
      BY <3>1, <3>2
  <2> QED
    BY <2>5, <2>6 DEF CacheInv
<1>7. CASE ParseSucceeds(c)
  <2> DEFINE value == ExtractJson(content[c])
             entry == [value |-> value, by |-> c]
  <2>1. /\ pc'[c] = "settled"
        /\ pc[c] = "parse"
        /\ result' = [result EXCEPT ![c] = value]
        /\ cached' = Put(cached, MakeKey(c), entry)
        /\ servedBy' = servedBy /\ messages' = messages
    BY <1>7 DEF ParseSucceeds, Goto, TypeInv, history
  <2>2. entry.value = value /\ entry.by = c
    OBVIOUS
  <2> HIDE DEF entry, value
  <2>3. ASSUME NEW key \in DOMAIN cached'
        PROVE  IF key = MakeKey(c) THEN cached'[key] = entry
               ELSE key \in DOMAIN cached /\ cached'[key] = cached[key]
    BY <2>1, <2>3 DEF Put
  <2>4. ASSUME NEW key \in DOMAIN cached'
        PROVE  /\ cached'[key].by \in Calls
               /\ pc'[cached'[key].by] = "settled"
               /\ key = <<FnModel, messages'[cached'[key].by],
                          scenario'.jobs[cached'[key].by].args>>
               /\ result'[cached'[key].by] = cached'[key].value
    <3>1. CASE key = MakeKey(c)
      BY <1>1, <1>4, <2>1, <2>2, <2>3, <3>1
    <3>2. CASE key # MakeKey(c)
      BY <1>1, <1>2, <2>1, <2>3, <3>2 DEF CacheInv
    <3> QED
      BY <3>1, <3>2
  <2>5. ASSUME NEW d \in Calls, servedBy'[d] # d
        PROVE  /\ pc'[d] = "settled"
               /\ pc'[servedBy'[d]] = "settled"
               /\ messages'[d] = messages'[servedBy'[d]]
               /\ scenario'.jobs[d].args = scenario'.jobs[servedBy'[d]].args
               /\ result'[d] = result'[servedBy'[d]]
    BY <1>1, <1>2, <1>4, <2>1, <2>5 DEF CacheInv
  <2> QED
    BY <2>4, <2>5 DEF CacheInv
<1> QED
  BY <1>5, <1>6, <1>7 DEF Step, Render, LookupMiss, ReadCounter, LoadCounter, StoreCounter,
       Answered, CallUnregistered, CallProvider, CallProviderFails, ParseFails, data, history

-----------------------------------------------------------------------------
(***************************************************************************)
(* The tables of a mock backend.                                           *)
(***************************************************************************)

LEMMA HandlingIsFinite ==
    ASSUME NEW at, NEW handlers, NEW t
    PROVE  /\ IsFiniteSet(Handling(at, handlers, t))
           /\ Cardinality(Handling(at, handlers, t)) \in Nat
<1>1. Handling(at, handlers, t) \subseteq Calls
  BY DEF Handling
<1> QED
  BY <1>1, CallsAssumption, FS_Subset, FS_CardinalityType

LEMMA NoneHandling ==
    ASSUME NEW at, NEW handlers, NEW t, Handling(at, handlers, t) = {}
    PROVE  Cardinality(Handling(at, handlers, t)) = 0
BY FS_EmptySet

LEMMA OneMoreHandling ==
    ASSUME NEW at, NEW handlers, NEW at2, NEW handlers2, NEW t,
           NEW c \in Calls, c \notin Handling(at, handlers, t),
           Handling(at2, handlers2, t) = Handling(at, handlers, t) \union {c}
    PROVE  Cardinality(Handling(at2, handlers2, t)) = Cardinality(Handling(at, handlers, t)) + 1
BY HandlingIsFinite, FS_AddElement

LEMMA FirstMatchStays ==
    ASSUME scenario' = scenario, NEW c, messages'[c] = messages[c]
    PROVE  FirstMatch(c)' = FirstMatch(c)
BY DEF FirstMatch, SelectInSeq, Signature, Job

LEMMA InitTables == Init => CountersInv /\ \A c \in Calls : HandlerInv(c)
<1> SUFFICES ASSUME Init PROVE CountersInv /\ \A c \in Calls : HandlerInv(c)
  OBVIOUS
<1>1. TypeInv
  BY InitType
<1>2. \A c \in Calls : local[c].table = 0 /\ pc[c] \in {"idle", "render"}
  BY DEF Init, NoHandler
<1>3. \A t \in Tables : counter[t] = 0 /\ reads[t] = 0
  BY DEF Init, Tables
<1>4. \A t : Handling(pc, local, t) = {}
  BY <1>2 DEF Handling
<1>5. \A t : Cardinality(Handling(pc, local, t)) = 0
  BY <1>4, NoneHandling
<1>6. CountersInv
  BY <1>3, <1>4, <1>5 DEF CountersInv
<1>7. \A c \in Calls : HandlerInv(c)
  BY <1>2 DEF HandlerInv
<1> QED
  BY <1>6, <1>7

\* A step that has nothing to do with a handler.
Quiet(c) ==
    /\ UNCHANGED <<scenario, local, counter, reads, overlapped>>
    /\ pc[c] \notin {"load", "store"}
    /\ pc'[c] \notin {"render", "load", "store"}
    /\ local[c].table # 0 => messages'[c] = messages[c] /\ pc'[c] # "parse"

LEMMA QuietStep ==
    ASSUME PipelineInv, NEW c \in Calls, Frame(c), Quiet(c)
    PROVE  CountersInv' /\ \A d \in Calls : HandlerInv(d)'
<1> USE DEF PipelineInv
<1>1. \A t : Handling(pc', local', t) = Handling(pc, local, t)
  BY DEF Handling, Frame, Quiet
<1>2. Tables' = Tables
  BY DEF Tables, Frame
<1>3. CountersInv'
  BY <1>1, <1>2 DEF CountersInv, Quiet
<1>4. ASSUME NEW d \in Calls PROVE HandlerInv(d)'
  <2>1. HandlerInv(d)
    OBVIOUS
  <2>2. local' = local /\ counter' = counter /\ reads' = reads /\ overlapped' = overlapped
        /\ scenario' = scenario /\ Job(d)' = Job(d)
    BY DEF Quiet, Job
  <2>3. CASE local[d].table = 0
    BY <2>1, <2>2, <2>3 DEF HandlerInv, Frame, Quiet
  <2>4. CASE local[d].table # 0
    <3>1. messages'[d] = messages[d]
      BY <2>4 DEF Frame, Quiet
    <3>2. FirstMatch(d)' = FirstMatch(d)
      BY <2>2, <3>1, FirstMatchStays
    <3>3. CASE d = c
      BY <1>1, <2>1, <2>2, <2>4, <3>2, <3>3 DEF HandlerInv, Quiet
    <3>4. CASE d # c
      BY <1>1, <2>1, <2>2, <2>4, <3>2, <3>4 DEF HandlerInv, Frame
    <3> QED
      BY <3>3, <3>4
  <2> QED
    BY <2>3, <2>4
<1> QED
  BY <1>3, <1>4

LEMMA QuietSteps ==
    ASSUME PipelineInv, NEW c \in Calls, Step(c)
    PROVE  Quiet(c) \/ ReadCounter(c) \/ LoadCounter(c) \/ StoreCounter(c)
<1> USE DEF PipelineInv, Quiet, Goto, data, history, TypeInv
<1>1. HandlerInv(c)
  OBVIOUS
<1>2. CASE Render(c)
  BY <1>1, <1>2 DEF Render, HandlerInv
<1>3. CASE LookupHit(c)
  BY <1>3 DEF LookupHit
<1>4. CASE LookupMiss(c)
  BY <1>4 DEF LookupMiss
<1>5. CASE CallUnregistered(c)
  BY <1>1, <1>5 DEF CallUnregistered, HandlerInv
<1>6. CASE CallProvider(c)
  BY <1>1, <1>6 DEF CallProvider, HandlerInv
<1>7. CASE CallProviderFails(c)
  BY <1>7 DEF CallProviderFails, AfterFailure
<1>8. CASE ParseSucceeds(c)
  BY <1>8 DEF ParseSucceeds
<1>9. CASE ParseFails(c)
  BY <1>9 DEF ParseFails, AfterFailure
<1> QED
  BY <1>2, <1>3, <1>4, <1>5, <1>6, <1>7, <1>8, <1>9 DEF Step

\* A handler reads its counter.
LEMMA ReadStep ==
    ASSUME PipelineInv, NEW c \in Calls, Frame(c), ReadCounter(c)
    PROVE  CountersInv' /\ \A d \in Calls : HandlerInv(d)'
<1> USE DEF PipelineInv
<1> DEFINE t == FirstMatch(c)
           l == [table |-> t, idx |-> counter[t], loaded |-> 0, place |-> reads[t]]
           N(u) == Cardinality(Handling(pc, local, u))
<1>1. t \in Tables /\ t # 0 /\ Job(c).backend = "mock"
  BY FirstMatchFacts DEF ReadCounter
<1>2. /\ l.table = t /\ l.idx = counter[t] /\ l.place = reads[t]
      /\ local' = [local EXCEPT ![c] = l]
      /\ reads' = [reads EXCEPT ![t] = reads[t] + 1]
      /\ overlapped' = (overlapped \/ Handling(pc, local, t) # {})
      /\ counter' = counter /\ scenario' = scenario /\ messages' = messages
      /\ content' = content
      /\ pc[c] = "call" /\ pc' = [pc EXCEPT ![c] = "load"]
  BY DEF ReadCounter, Goto, Handling
<1>3. \A d \in Calls : FirstMatch(d)' = FirstMatch(d) /\ Job(d)' = Job(d)
  BY <1>2, FirstMatchStays DEF Job
<1> HIDE DEF t, l
<1>4. local'[c] = l /\ pc'[c] = "load" /\ Tables' = Tables
  BY <1>2 DEF TypeInv, Tables
<1>5. /\ c \notin Handling(pc, local, t)
      /\ Handling(pc', local', t) = Handling(pc, local, t) \union {c}
      /\ \A u : u # t => Handling(pc', local', u) = Handling(pc, local, u)
  BY <1>2, <1>4 DEF Handling, Frame
<1>6. Cardinality(Handling(pc', local', t)) = N(t) + 1
  BY <1>5, OneMoreHandling
<1>7. \A u \in Tables : counter[u] \in Nat /\ reads[u] \in Nat /\ N(u) \in Nat
  BY HandlingIsFinite DEF TypeInv
<1>8. \A u \in Tables : reads'[u] = IF u = t THEN reads[u] + 1 ELSE reads[u]
  BY <1>2 DEF TypeInv
<1>9. ~overlapped' => /\ ~overlapped /\ Handling(pc, local, t) = {}
                      /\ N(t) = 0 /\ counter[t] = reads[t]
  <2> SUFFICES ASSUME ~overlapped'
               PROVE  ~overlapped /\ Handling(pc, local, t) = {}
                      /\ N(t) = 0 /\ counter[t] = reads[t]
    OBVIOUS
  <2>1. ~overlapped /\ Handling(pc, local, t) = {}
    BY <1>2
  <2>2. N(t) = 0
    BY <2>1, NoneHandling
  <2>3. counter[t] + N(t) = reads[t]
    BY <1>1, <2>1 DEF CountersInv
  <2> HIDE DEF N
  <2>4. counter[t] = reads[t]
    BY <1>1, <1>7, <2>2, <2>3
  <2> QED
    BY <2>1, <2>2, <2>4
<1>10. CountersInv'
  <2> SUFFICES ASSUME NEW u \in Tables
               PROVE  /\ counter[u] + Cardinality(Handling(pc', local', u)) <= reads'[u]
                      /\ ~overlapped' =>
                           /\ counter[u] + Cardinality(Handling(pc', local', u)) = reads'[u]
                           /\ \A d, e \in Handling(pc', local', u) : d = e
                      /\ \A i \in Tables :
                           i < u /\ scenario.tables[i].signature = AnySignature => counter[u] = 0
    BY <1>2, <1>4 DEF CountersInv
  <2>1. /\ counter[u] + N(u) <= reads[u]
        /\ ~overlapped => /\ counter[u] + N(u) = reads[u]
                          /\ \A d, e \in Handling(pc, local, u) : d = e
        /\ \A i \in Tables :
             i < u /\ scenario.tables[i].signature = AnySignature => counter[u] = 0
    BY DEF CountersInv
  <2> HIDE DEF N
  <2>2. CASE u = t
    <3>1. counter[u] + (N(u) + 1) <= reads[u] + 1
      BY <1>7, <2>1
    <3>2. ~overlapped' => counter[u] + (N(u) + 1) = reads[u] + 1
      BY <1>7, <1>9, <2>1, <2>2
    <3>3. ~overlapped' => \A d, e \in Handling(pc', local', u) : d = e
      BY <1>5, <1>9, <2>2
    <3> QED
      BY <1>6, <1>8, <2>1, <2>2, <3>1, <3>2, <3>3
  <2>3. CASE u # t
    BY <1>5, <1>8, <1>9, <2>1, <2>3 DEF N
  <2> QED
    BY <2>2, <2>3
<1>11. HandlerInv(c)'
  <2>1. l.idx <= l.place
    <3>1. counter[t] + N(t) <= reads[t]
      BY <1>1 DEF CountersInv
    <3> HIDE DEF N
    <3> QED
      BY <1>1, <1>2, <1>7, <3>1
  <2>2. ~overlapped' => l.idx = l.place
    BY <1>2, <1>9
  <2>3. FirstMatch(c)' = t
    BY <1>3 DEF t
  <2> QED
    BY <1>1, <1>2, <1>3, <1>4, <2>1, <2>2, <2>3 DEF HandlerInv
<1>12. ASSUME NEW d \in Calls, d # c PROVE HandlerInv(d)'
  <2>1. HandlerInv(d) /\ local'[d] = local[d] /\ pc'[d] = pc[d]
    BY <1>12 DEF Frame
  <2>2. CASE local[d].table = 0
    BY <2>1, <2>2 DEF HandlerInv
  <2>3. CASE local[d].table # 0
    <3> DEFINE u == local[d].table
    <3>1. u \in Tables /\ local[d].loaded \in Nat
      BY <2>1, <2>3, FirstMatchFacts DEF HandlerInv, TypeInv, HandlerType
    <3>2. pc[d] = "store" =>
            local[d].loaded + Cardinality(Handling(pc', local', u)) <= reads'[u]
      <4> SUFFICES ASSUME pc[d] = "store"
                   PROVE  local[d].loaded + Cardinality(Handling(pc', local', u)) <= reads'[u]
        OBVIOUS
      <4>1. local[d].loaded + N(u) <= reads[u]
        BY <2>1, <2>3 DEF HandlerInv
      <4>2. Cardinality(Handling(pc', local', u)) = IF u = t THEN N(u) + 1 ELSE N(u)
        BY <1>5, <1>6
      <4>3. reads'[u] = (IF u = t THEN reads[u] + 1 ELSE reads[u]) /\ N(u) \in Nat
            /\ reads[u] \in Nat
        BY <1>7, <1>8, <3>1
      <4> HIDE DEF N, u
      <4> QED
        BY <3>1, <4>1, <4>2, <4>3
    <3>3. FirstMatch(d)' = FirstMatch(d) /\ Job(d)' = Job(d)
      BY <1>3
    <3> QED
      BY <1>2, <1>9, <2>1, <2>3, <3>2, <3>3 DEF HandlerInv
  <2> QED
    BY <2>2, <2>3
<1> QED
  BY <1>10, <1>11, <1>12

\* ... loads it again ...
LEMMA LoadStep ==
    ASSUME PipelineInv, NEW c \in Calls, Frame(c), LoadCounter(c)
    PROVE  CountersInv' /\ \A d \in Calls : HandlerInv(d)'
<1> USE DEF PipelineInv
<1> DEFINE t == local[c].table
           l == [local[c] EXCEPT !.loaded = counter[t]]
<1>1. /\ local' = [local EXCEPT ![c] = l]
      /\ reads' = reads /\ overlapped' = overlapped /\ counter' = counter
      /\ scenario' = scenario /\ messages' = messages /\ content' = content
      /\ pc[c] = "load" /\ pc' = [pc EXCEPT ![c] = "store"]
  BY DEF LoadCounter, Goto, history
<1>2. \A d \in Calls : FirstMatch(d)' = FirstMatch(d) /\ Job(d)' = Job(d)
  BY <1>1, FirstMatchStays DEF Job
<1>3. /\ l.table = t /\ l.idx = local[c].idx /\ l.place = local[c].place
      /\ l.loaded = counter[t] /\ local[c] \in HandlerType
  BY DEF TypeInv, HandlerType
<1>4. HandlerInv(c) /\ t # 0 /\ t \in Tables
  BY <1>1, FirstMatchFacts DEF HandlerInv
<1> HIDE DEF l
<1>5. local'[c] = l /\ pc'[c] = "store" /\ Tables' = Tables
  BY <1>1 DEF TypeInv, Tables
<1>6. \A u : Handling(pc', local', u) = Handling(pc, local, u)
  BY <1>1, <1>3, <1>5 DEF Handling, Frame
<1>7. CountersInv'
  <2> SUFFICES ASSUME NEW u \in Tables
               PROVE  /\ counter[u] + Cardinality(Handling(pc', local', u)) <= reads[u]
                      /\ ~overlapped =>
                           /\ counter[u] + Cardinality(Handling(pc', local', u)) = reads[u]
                           /\ \A d, e \in Handling(pc', local', u) : d = e
                      /\ \A i \in Tables :
                           i < u /\ scenario.tables[i].signature = AnySignature => counter[u] = 0
    BY <1>1, <1>5 DEF CountersInv
  <2>1. Handling(pc', local', u) = Handling(pc, local, u)
    BY <1>6
  <2> QED
    BY <2>1 DEF CountersInv
<1>8. HandlerInv(c)'
  <2>1. counter[t] + Cardinality(Handling(pc, local, t)) <= reads[t]
    BY <1>4 DEF CountersInv
  <2> QED
    BY <1>1, <1>2, <1>3, <1>4, <1>5, <1>6, <2>1 DEF HandlerInv
<1>9. ASSUME NEW d \in Calls, d # c PROVE HandlerInv(d)'
  <2>1. HandlerInv(d) /\ local'[d] = local[d] /\ pc'[d] = pc[d]
    BY <1>9 DEF Frame
  <2> QED
    BY <1>1, <1>2, <1>6, <2>1 DEF HandlerInv
<1> QED
  BY <1>7, <1>8, <1>9

\* ... and stores what it has loaded; the row is the one of the number it has read first.
LEMMA StoreStep ==
    ASSUME PipelineInv, NEW c \in Calls, Frame(c), StoreCounter(c)
    PROVE  CountersInv' /\ \A d \in Calls : HandlerInv(d)'
<1> USE DEF PipelineInv
<1> DEFINE t == local[c].table
           loaded == local[c].loaded
           N(u) == Cardinality(Handling(pc, local, u))
           N2(u) == Cardinality(Handling(pc', local', u))
<1>1. /\ local' = local /\ reads' = reads /\ overlapped' = overlapped
      /\ counter' = [counter EXCEPT ![t] = loaded + 1]
      /\ scenario' = scenario /\ messages' = messages
      /\ content' = [content EXCEPT ![c] = Materialise(Row(scenario.tables[t].rows, local[c].idx),
                                                       scenario.force)]
      /\ pc[c] = "store" /\ pc' = [pc EXCEPT ![c] = "parse"]
  BY DEF StoreCounter, Answered, Goto
<1>2. \A d \in Calls : FirstMatch(d)' = FirstMatch(d) /\ Job(d)' = Job(d)
  BY <1>1, FirstMatchStays DEF Job
<1>3. /\ HandlerInv(c) /\ t # 0 /\ t \in Tables /\ t = FirstMatch(c) /\ loaded \in Nat
      /\ \A i \in Tables : i < t => scenario.tables[i].signature # AnySignature
  BY <1>1, FirstMatchFacts DEF HandlerInv, TypeInv, HandlerType
<1>4. /\ pc'[c] = "parse" /\ Tables' = Tables
      /\ content'[c] = Materialise(Row(scenario.tables[t].rows, local[c].idx), scenario.force)
      /\ \A u \in Tables : counter'[u] = IF u = t THEN loaded + 1 ELSE counter[u]
  BY <1>1 DEF TypeInv, Tables
<1>5. /\ c \in Handling(pc, local, t) /\ c \notin Handling(pc', local', t)
      /\ Handling(pc, local, t) = Handling(pc', local', t) \union {c}
      /\ \A u : u # t => Handling(pc', local', u) = Handling(pc, local, u)
  BY <1>1, <1>4 DEF Handling, Frame
<1>6. N(t) = N2(t) + 1
  BY <1>5, OneMoreHandling
<1>7. \A u \in Tables : /\ counter[u] \in Nat /\ reads[u] \in Nat
                        /\ N(u) \in Nat /\ N2(u) \in Nat
  BY HandlingIsFinite DEF TypeInv
<1>8. loaded + N(t) <= reads[t] /\ (~overlapped => loaded = counter[t])
  BY <1>1, <1>3 DEF HandlerInv
<1>9. \A u : u # t => N2(u) = N(u)
  BY <1>5
<1>10. CountersInv'
  <2> SUFFICES ASSUME NEW u \in Tables
               PROVE  /\ counter'[u] + N2(u) <= reads[u]
                      /\ ~overlapped =>
                           /\ counter'[u] + N2(u) = reads[u]
                           /\ \A d, e \in Handling(pc', local', u) : d = e
                      /\ \A i \in Tables :
                           i < u /\ scenario.tables[i].signature = AnySignature => counter'[u] = 0
    BY <1>1, <1>4 DEF CountersInv
  <2>1. /\ counter[u] + N(u) <= reads[u]
        /\ ~overlapped => /\ counter[u] + N(u) = reads[u]
                          /\ \A d, e \in Handling(pc, local, u) : d = e
        /\ \A i \in Tables :
             i < u /\ scenario.tables[i].signature = AnySignature => counter[u] = 0
    BY DEF CountersInv
  <2> HIDE DEF N, N2, t, loaded
  <2>2. CASE u = t
    <3>1. (loaded + 1) + N2(t) <= reads[t]
      BY <1>3, <1>6, <1>7, <1>8
    <3>2. ~overlapped => (loaded + 1) + N2(t) = reads[t]
      BY <1>3, <1>6, <1>7, <1>8, <2>1, <2>2
    <3>3. ~overlapped => \A d, e \in Handling(pc', local', u) : d = e
      BY <1>5, <2>1, <2>2
    <3> QED
      BY <1>3, <1>4, <2>2, <3>1, <3>2, <3>3
  <2>3. CASE u # t
    BY <1>4, <1>5, <1>9, <2>1, <2>3
  <2> QED
    BY <2>2, <2>3
<1>11. HandlerInv(c)'
  BY <1>1, <1>2, <1>3, <1>4 DEF HandlerInv
<1>12. ASSUME NEW d \in Calls, d # c PROVE HandlerInv(d)'
  <2>1. HandlerInv(d) /\ local'[d] = local[d] /\ pc'[d] = pc[d] /\ content'[d] = content[d]
    BY <1>12 DEF Frame
  <2>2. CASE local[d].table = 0
    BY <2>1, <2>2 DEF HandlerInv
  <2>3. CASE local[d].table # 0
    <3> DEFINE u == local[d].table
    <3>1. u \in Tables /\ local[d].loaded \in Nat
      BY <2>1, <2>3, FirstMatchFacts DEF HandlerInv, TypeInv, HandlerType
    <3>2. pc[d] = "store" =>
            /\ local[d].loaded + N2(u) <= reads[u]
            /\ ~overlapped => local[d].loaded = counter'[u]
      <4> SUFFICES ASSUME pc[d] = "store"
                   PROVE  /\ local[d].loaded + N2(u) <= reads[u]
                          /\ ~overlapped => local[d].loaded = counter'[u]
        OBVIOUS
      <4>1. /\ local[d].loaded + N(u) <= reads[u]
            /\ ~overlapped => local[d].loaded = counter[u]
        BY <2>1, <2>3 DEF HandlerInv
      <4>2. u = t => overlapped
        <5>1. u = t => d \in Handling(pc, local, t)
          BY DEF Handling
        <5> QED
          BY <1>3, <1>5, <1>12, <5>1 DEF CountersInv
      <4> HIDE DEF N, N2, u, t
      <4>3. CASE u = t
        <5>1. local[d].loaded + N2(u) <= reads[u]
          BY <1>6, <1>7, <3>1, <4>1, <4>3
        <5> QED
          BY <4>2, <4>3, <5>1
      <4>4. CASE u # t
        BY <1>4, <1>9, <3>1, <4>1, <4>4
      <4> QED
        BY <4>3, <4>4
    <3> QED
      BY <1>1, <1>2, <2>1, <2>3, <3>2 DEF HandlerInv
  <2> QED
    BY <2>2, <2>3
<1> QED
  BY <1>10, <1>11, <1>12

LEMMA StepTables ==
    ASSUME PipelineInv, NEW c \in Calls, Step(c)
    PROVE  CountersInv' /\ \A d \in Calls : HandlerInv(d)'
<1>1. Frame(c)
  BY StepFrame DEF PipelineInv
<1> QED
  BY <1>1, QuietSteps, QuietStep, ReadStep, LoadStep, StoreStep

-----------------------------------------------------------------------------
(***************************************************************************)
(* The attempts of a call.                                                 *)
(***************************************************************************)

LEMMA AppendFacts ==
    ASSUME NEW s, s \in Seq(Range(s)), NEW e
    PROVE  /\ Append(s, e) \in Seq(Range(Append(s, e)))
           /\ Len(Append(s, e)) = Len(s) + 1
           /\ \A i \in 1..Len(s) : Append(s, e)[i] = s[i]
           /\ Append(s, e)[Len(s) + 1] = e
           /\ Len(s) \in Nat
<1> DEFINE S == Range(s) \union {e}
           a == Append(s, e)
<1>1. s \in Seq(S) /\ Len(s) \in Nat /\ DOMAIN s = 1..Len(s)
  BY LenProperties
<1>2. e \in S
  OBVIOUS
<1> HIDE DEF S
<1>3. /\ a \in Seq(S) /\ Len(a) = Len(s) + 1
      /\ \A i \in 1..Len(s) : a[i] = s[i]
      /\ a[Len(s) + 1] = e
  BY <1>1, <1>2, AppendProperties
<1> HIDE DEF a
<1>4. DOMAIN a = 1..Len(a) /\ Len(a) \in Nat
  BY <1>3, LenProperties
<1>5. \A i \in 1..Len(a) : a[i] \in Range(a)
  BY <1>4 DEF Range
<1>6. a \in Seq(Range(a))
  BY <1>3, <1>4, <1>5
<1> QED
  BY <1>1, <1>3, <1>6 DEF a

\* The n answers that have failed stay so when there is a further answer.
LEMMA FailsStays ==
    ASSUME NEW answers, NEW more, NEW n \in Nat, NEW errors, Fails(answers, n, errors),
           \A i \in 1..n : more[i] = answers[i]
    PROVE  Fails(more, n, errors)
BY DEF Fails

\* One more has failed.
LEMMA FailsOnce ==
    ASSUME NEW answers, NEW n \in Nat, NEW errors, Fails(answers, n, errors),
           DefectOf(answers[n + 1]) # NoCategory
    PROVE  Fails(answers, n + 1,
                 Append(errors, [attempt |-> n, category |-> DefectOf(answers[n + 1])]))
<1> DEFINE error(i) == [attempt |-> i - 1, category |-> DefectOf(answers[i])]
           S == {error(i) : i \in 1..(n + 1)}
           after == [i \in 1..(n + 1) |-> error(i)]
<1>1. errors = [i \in 1..n |-> error(i)]
  BY DEF Fails
<1>0. n + 1 \in Nat /\ \A i \in 1..n : i \in 1..(n + 1)
  OBVIOUS
<1>2. errors \in Seq(S) /\ Len(errors) = n
  <2>1. errors \in [1..n -> S]
    BY <1>0, <1>1
  <2> QED
    BY <2>1, FunctionIsSeq
<1>3. after \in Seq(S) /\ Len(after) = n + 1
  <2>1. after \in [1..(n + 1) -> S]
    OBVIOUS
  <2> QED
    BY <1>0, <2>1, FunctionIsSeq
<1>4. error(n + 1) \in S /\ error(n + 1) = [attempt |-> n, category |-> DefectOf(answers[n + 1])]
  OBVIOUS
<1>5. \A i \in 1..n : errors[i] = error(i) /\ after[i] = error(i)
  BY <1>1
<1>6. after[n + 1] = error(n + 1)
  OBVIOUS
<1> HIDE DEF S, after, error
<1>7. /\ Append(errors, error(n + 1)) \in Seq(S)
      /\ Len(Append(errors, error(n + 1))) = n + 1
      /\ \A i \in 1..n : Append(errors, error(n + 1))[i] = errors[i]
      /\ Append(errors, error(n + 1))[n + 1] = error(n + 1)
  BY <1>2, <1>4, AppendProperties
<1>8. \A i \in 1..(n + 1) : Append(errors, error(n + 1))[i] = after[i]
  <2> TAKE i \in 1..(n + 1)
  <2>1. i \in 1..n \/ i = n + 1
    OBVIOUS
  <2> QED
    BY <1>5, <1>6, <1>7, <2>1
<1>9. Append(errors, error(n + 1)) = after
  BY <1>3, <1>7, <1>8, SeqEqual
<1>10. \A i \in 1..(n + 1) : DefectOf(answers[i]) # NoCategory
  <2> TAKE i \in 1..(n + 1)
  <2>1. i \in 1..n \/ i = n + 1
    OBVIOUS
  <2> QED
    BY <2>1 DEF Fails
<1> QED
  BY <1>4, <1>9, <1>10 DEF Fails, after, error

LEMMA InitAttempts == Init => \A c \in Calls : AttemptsInv(c)
<1> SUFFICES ASSUME Init, NEW c \in Calls PROVE AttemptsInv(c)
  OBVIOUS
<1>1. contents[c] = << >> /\ m[c] = NewCallMetrics /\ pc[c] \in {"idle", "render"}
  BY DEF Init
<1>2. << >> \in Seq(Range(<< >>))
  BY EmptySeq
<1> QED
  BY <1>1, <1>2 DEF AttemptsInv

\* An attempt has been answered: the call goes on to parse it.
LEMMA AnsweredAttempt ==
    ASSUME TypeInv, NEW c \in Calls, AttemptsInv(c),
           NEW answer, answer # Other, Answered(c, answer),
           pc' = [pc EXCEPT ![c] = "parse"],
           \/ pc[c] = "call" /\ m' = [m EXCEPT ![c] = Started(c)]
           \/ pc[c] = "store" /\ m' = m
    PROVE  AttemptsInv(c)'
<1> DEFINE s == contents[c]
           n == Len(s)
<1>1. m[c] \in CallMetricsType /\ m[c].attempts \in Nat
  BY DEF TypeInv, CallMetricsType
<1>2. /\ pc'[c] = "parse" /\ content'[c] = answer /\ contents'[c] = Append(s, answer)
      /\ s \in Seq(Range(s))
  BY DEF Answered, TypeInv, AttemptsInv
<1>3. /\ Append(s, answer) \in Seq(Range(Append(s, answer)))
      /\ Len(Append(s, answer)) = n + 1
      /\ \A i \in 1..n : Append(s, answer)[i] = s[i]
      /\ Append(s, answer)[n + 1] = answer
      /\ n \in Nat
  BY <1>2, AppendFacts
<1>4. /\ ~m'[c].successful /\ ~m'[c].cache_hit
      /\ m'[c].attempts = n + 1
      /\ m'[c].attempt_errors = m[c].attempt_errors
      /\ Fails(s, n, m[c].attempt_errors)
  <2>1. CASE pc[c] = "store" /\ m' = m
    BY <2>1 DEF AttemptsInv
  <2>2. CASE pc[c] = "call" /\ m' = [m EXCEPT ![c] = Started(c)]
    <3>1. m'[c] = CountAttempt(m[c], m[c].attempts)
      BY <2>2 DEF TypeInv, Started, Attempt
    <3>2. /\ m'[c].attempts = m[c].attempts + 1
          /\ m'[c].successful = m[c].successful
          /\ m'[c].cache_hit = m[c].cache_hit
          /\ m'[c].attempt_errors = m[c].attempt_errors
      BY <1>1, <3>1, StartedFacts
    <3> QED
      BY <2>2, <3>2 DEF AttemptsInv
  <2> QED
    BY <2>1, <2>2
<1> HIDE DEF n
<1>5. Fails(Append(s, answer), n, m[c].attempt_errors)
  BY <1>3, <1>4, FailsStays
<1>6. n + 1 > 0 /\ n + 1 - 1 = n
  BY <1>3
<1> QED
  BY <1>2, <1>3, <1>4, <1>5, <1>6 DEF AttemptsInv

\* An attempt has failed: k were made before, with this one there are k + 1 answers.
LEMMA FailedAttempt ==
    ASSUME TypeInv, NEW c \in Calls, NEW n \in CallMetricsType, NEW category,
           NEW e, FailedAs(c, n, category, e),
           contents'[c] \in Seq(Range(contents'[c])),
           NEW k \in Nat, Len(contents'[c]) = k + 1,
           n.attempts = k + 1, ~n.successful, ~n.cache_hit,
           Fails(contents'[c], k, n.attempt_errors),
           DefectOf(contents'[c][k + 1]) = category, category # NoCategory
    PROVE  AttemptsInv(c)'
<1> DEFINE s == contents'[c]
           errors == Append(n.attempt_errors, [attempt |-> k, category |-> category])
<1>1. n.attempts - 1 = k /\ k + 1 > 0
  OBVIOUS
<1>2. Fails(s, k + 1, errors)
  BY FailsOnce
<1>3. /\ m'[c] = e
      /\ e.attempts = k + 1
      /\ e.cache_hit = n.cache_hit
      /\ e.error_category = category
      /\ e.attempt_errors = errors
  BY <1>1 DEF FailedAs, TypeInv
<1>4. \/ pc'[c] = "call" /\ e.successful = n.successful
      \/ pc'[c] = "settled" /\ ~e.successful
  BY DEF FailedAs, TypeInv
<1> HIDE DEF errors
<1> QED
  BY <1>1, <1>2, <1>3, <1>4 DEF AttemptsInv

LEMMA StepAttempts ==
    ASSUME PipelineInv, NEW c \in Calls, Step(c)
    PROVE  \A d \in Calls : AttemptsInv(d)'
<1> USE DEF PipelineInv
<1>1. Frame(c) /\ AttemptsInv(c) /\ TypeInv
  BY StepFrame
<1>2. ASSUME NEW d \in Calls, d # c PROVE AttemptsInv(d)'
  <2>1. /\ AttemptsInv(d)
        /\ pc'[d] = pc[d] /\ contents'[d] = contents[d] /\ content'[d] = content[d]
        /\ m'[d] = m[d]
    BY <1>1, <1>2 DEF Frame
  <2> QED
    BY <2>1 DEF AttemptsInv
<1> SUFFICES AttemptsInv(c)'
  BY <1>2
<1>3. m[c] \in CallMetricsType /\ m[c].attempts \in Nat
  BY DEF TypeInv, CallMetricsType
<1>4. CASE Render(c)
  BY <1>1, <1>4 DEF Render, Goto, history, AttemptsInv, TypeInv
<1>5. CASE LookupHit(c)
  <2>1. HitMetrics(m[c], 1).cache_hit
    BY <1>3, HitFacts
  <2>2. /\ pc'[c] = "settled" /\ m'[c] = HitMetrics(m[c], 1)
        /\ contents'[c] = contents[c] /\ contents[c] = << >>
    BY <1>1, <1>5 DEF LookupHit, Goto, AttemptsInv, TypeInv
  <2> QED
    BY <1>1, <2>1, <2>2 DEF AttemptsInv
<1>6. CASE LookupMiss(c)
  <2>1. /\ pc'[c] = "call" /\ m'[c] = m[c] /\ contents'[c] = contents[c]
        /\ contents[c] = << >> /\ m[c] = NewCallMetrics
    BY <1>1, <1>6 DEF LookupMiss, Goto, data, history, AttemptsInv, TypeInv
  <2>2. Fails(<< >>, 0, << >>)
    BY DEF Fails
  <2> QED
    BY <1>1, <2>1, <2>2 DEF AttemptsInv, NewCallMetrics
<1>7. CASE ReadCounter(c)
  <2>1. /\ pc[c] = "call" /\ pc'[c] = "load" /\ contents'[c] = contents[c]
        /\ m'[c] = CountAttempt(m[c], m[c].attempts)
    BY <1>1, <1>7 DEF ReadCounter, Goto, TypeInv, Started, Attempt
  <2>2. /\ m'[c].attempts = m[c].attempts + 1
        /\ m'[c].successful = m[c].successful
        /\ m'[c].cache_hit = m[c].cache_hit
        /\ m'[c].attempt_errors = m[c].attempt_errors
    BY <1>3, <2>1, StartedFacts
  <2> QED
    BY <1>1, <2>1, <2>2 DEF AttemptsInv
<1>8. CASE LoadCounter(c)
  BY <1>1, <1>8 DEF LoadCounter, Goto, history, AttemptsInv, TypeInv
<1>9. CASE StoreCounter(c)
  <2> DEFINE rows == scenario.tables[local[c].table].rows
             row == Row(rows, local[c].idx)
  <2>1. /\ pc[c] = "store" /\ pc' = [pc EXCEPT ![c] = "parse"] /\ m' = m
        /\ Answered(c, Materialise(row, scenario.force))
    BY <1>9 DEF StoreCounter, Goto
  <2>2. local[c].table \in Tables /\ local[c].idx \in Nat
    BY <1>1, <2>1, FirstMatchFacts DEF HandlerInv, TypeInv, HandlerType
  <2>3. /\ Len(rows) \in Nat \ {0} /\ DOMAIN rows = 1..Len(rows)
        /\ \A k \in DOMAIN rows : IsRow(rows[k])
    BY <1>1, <2>2, ScenarioFacts
  <2> HIDE DEF rows
  <2>4. row.type \in {"dict", "str"}
    BY <2>2, <2>3, RowFacts DEF IsRow
  <2> HIDE DEF row
  <2>5. Materialise(row, scenario.force) # Other
    BY <2>4, MaterialiseFacts DEF Other
  <2> QED
    BY <1>1, <2>1, <2>5, AnsweredAttempt
<1>10. CASE CallUnregistered(c)
  <2>1. SensibleDefaults.type \in {"dict", "str"}
    BY DEF SensibleDefaults, Dict
  <2>2. Materialise(SensibleDefaults, scenario.force) # Other
    BY <2>1, MaterialiseFacts DEF Other
  <2>3. /\ pc[c] = "call" /\ pc' = [pc EXCEPT ![c] = "parse"]
        /\ m' = [m EXCEPT ![c] = Started(c)]
        /\ Answered(c, Materialise(SensibleDefaults, scenario.force))
    BY <1>10 DEF CallUnregistered, Goto
  <2> QED
    BY <1>1, <2>2, <2>3, AnsweredAttempt
<1>11. CASE CallProvider(c)
  <2>1. ContentOf(Job(c).backend, NextReply(c)) # Other
    BY ContentFacts DEF Other
  <2>2. /\ pc[c] = "call" /\ pc' = [pc EXCEPT ![c] = "parse"]
        /\ m' = [m EXCEPT ![c] = Started(c)]
        /\ Answered(c, ContentOf(Job(c).backend, NextReply(c)))
    BY <1>11 DEF CallProvider, Goto
  <2> QED
    BY <1>1, <2>1, <2>2, AnsweredAttempt
<1>12. CASE CallProviderFails(c)
  <2> DEFINE s == contents[c]
             k == Len(s)
  <2>1. /\ pc[c] = "call" /\ AfterFailure(c, Started(c), "backend")
        /\ contents'[c] = Append(s, Other)
        /\ Started(c) = CountAttempt(m[c], m[c].attempts)
    BY <1>12 DEF CallProviderFails, TypeInv, Started, Attempt
  <2>2. /\ Started(c) \in CallMetricsType
        /\ Started(c).attempts = m[c].attempts + 1
        /\ Started(c).successful = m[c].successful
        /\ Started(c).cache_hit = m[c].cache_hit
        /\ Started(c).attempt_errors = m[c].attempt_errors
    BY <1>3, <2>1, StartedFacts
  <2>3. /\ ~m[c].successful /\ ~m[c].cache_hit /\ m[c].attempts = k
        /\ Fails(s, k, m[c].attempt_errors) /\ s \in Seq(Range(s))
    BY <1>1, <2>1 DEF AttemptsInv
  <2>4. /\ Append(s, Other) \in Seq(Range(Append(s, Other)))
        /\ Len(Append(s, Other)) = k + 1
        /\ \A i \in 1..k : Append(s, Other)[i] = s[i]
        /\ Append(s, Other)[k + 1] = Other
        /\ k \in Nat
    BY <2>3, AppendFacts
  <2> HIDE DEF k
  <2>5. Fails(Append(s, Other), k, m[c].attempt_errors)
    BY <2>3, <2>4, FailsStays
  <2>6. DefectOf(Other) = "backend" /\ "backend" # NoCategory /\ "backend" \in Categories
    BY DEF DefectOf, NoCategory, Categories
  <2>7. Started(c).attempts > 0
    BY <1>3, <2>2
  <2>8. PICK e : FailedAs(c, Started(c), "backend", e)
    BY <2>1, <2>2, <2>6, <2>7, AfterFailureFacts
  <2> QED
    BY <1>1, <2>1, <2>2, <2>3, <2>4, <2>5, <2>6, <2>8, FailedAttempt
<1>13. CASE ParseSucceeds(c)
  <2>1. /\ pc[c] = "parse" /\ pc'[c] = "settled"
        /\ Defect(ExtractJson(content[c])) = NoCategory
        /\ m'[c] = MarkSuccess(AddResponse(m[c], m[c].attempts - 1, 1), m[c].attempts - 1)
        /\ contents'[c] = contents[c]
    BY <1>13 DEF ParseSucceeds, Goto, history, TypeInv
  <2>2. /\ Len(contents[c]) > 0 /\ m[c].attempts = Len(contents[c]) /\ ~m[c].cache_hit
        /\ contents[c][Len(contents[c])] = content[c] /\ content[c] # Other
    BY <1>1, <2>1 DEF AttemptsInv
  <2>3. m'[c].successful /\ m'[c].retries = m[c].attempts - 1 /\ m'[c].cache_hit = m[c].cache_hit
    BY <1>3, <2>1, <2>2, SucceededFacts
  <2>4. DefectOf(content[c]) = NoCategory
    BY <2>1, <2>2 DEF DefectOf
  <2> QED
    BY <1>1, <2>1, <2>2, <2>3, <2>4 DEF AttemptsInv
<1>14. CASE ParseFails(c)
  <2> DEFINE defect == Defect(ExtractJson(content[c]))
             k == m[c].attempts - 1
  <2>1. /\ pc[c] = "parse" /\ defect # NoCategory /\ AfterFailure(c, m[c], defect)
        /\ contents'[c] = contents[c]
    BY <1>14 DEF ParseFails, history
  <2>2. /\ Len(contents[c]) > 0 /\ m[c].attempts = Len(contents[c])
        /\ ~m[c].cache_hit /\ ~m[c].successful
        /\ contents[c][Len(contents[c])] = content[c] /\ content[c] # Other
        /\ Fails(contents[c], Len(contents[c]) - 1, m[c].attempt_errors)
        /\ contents[c] \in Seq(Range(contents[c]))
    BY <1>1, <2>1 DEF AttemptsInv
  <2>3. defect \in Categories /\ DefectOf(content[c]) = defect
    BY <2>1, <2>2, DefectFacts DEF DefectOf
  <2> HIDE DEF defect
  <2>4. k \in Nat /\ Len(contents[c]) = k + 1 /\ Len(contents[c]) - 1 = k /\ m[c].attempts = k + 1
        /\ m[c].attempts > 0
    BY <1>3, <2>2
  <2> HIDE DEF k
  <2>5. PICK e : FailedAs(c, m[c], defect, e)
    BY <1>3, <2>1, <2>3, <2>4, AfterFailureFacts
  <2> QED
    BY <1>1, <1>3, <2>1, <2>2, <2>3, <2>4, <2>5, FailedAttempt
<1> QED
  BY <1>4, <1>5, <1>6, <1>7, <1>8, <1>9, <1>10, <1>11, <1>12, <1>13, <1>14 DEF Step

-----------------------------------------------------------------------------
(***************************************************************************)
(* Prompts, requests and contents.                                         *)
(***************************************************************************)

LEMMA JobFacts ==
    ASSUME TypeInv, NEW c \in Calls, Job(c) # NoJob
    PROVE  IsJob(Job(c))
BY ScenariosAssumption DEF TypeInv, Job

LEMMA RowIsOne ==
    ASSUME NEW row, IsRow(row)
    PROVE  IsContent(row) /\ row.type \in {"dict", "str"}
<1>1. ASSUME row.type = "dict" PROVE IsContent(row)
  <2>1. IsDict(row.value) /\ row.text = << >>
    BY <1>1 DEF IsRow
  <2>2. row.value \in Decoded /\ row.value.kind = "object"
    BY <2>1, DictFacts
  <2> QED
    BY <1>1, <2>1, <2>2 DEF IsContent
<1> QED
  BY <1>1 DEF IsRow, IsContent

LEMMA DefaultsAreContent == IsContent(SensibleDefaults) /\ SensibleDefaults.type = "dict"
<1> DEFINE text == <<"{", "quote">> \o Field \o <<"quote", "quote", "word", "quote", "}">>
<1>1. text = <<"{", "quote">> \o <<"word">> \o <<"quote", "quote", "word", "quote", "}">>
  BY Zenon DEF Field
<1>2. Loads(text) \in Decoded /\ Loads(text).kind = "object"
  BY <1>1, SmallObject, Zenon
<1>3. SensibleDefaults = Dict(Loads(text))
  BY Zenon DEF SensibleDefaults
<1> HIDE DEF text
<1> QED
  BY <1>2, <1>3 DEF Dict, IsContent

\* The next reply of a provider is one of the job's.
LEMMA NextReplyFacts ==
    ASSUME TypeInv, NEW c \in Calls, IsJob(Job(c)), Job(c).backend # "mock"
    PROVE  /\ NextReply(c).text \in Seq(Symbols)
           /\ NextReply(c).input = NoValue \/ IsDict(NextReply(c).input)
<1>1. PICK replies : replies = Job(c).replies
  OBVIOUS
<1>2. /\ replies \in Seq(ToSet(replies)) \ {<< >>}
      /\ \A reply \in ToSet(replies) :
           reply.text \in Seq(Symbols) /\ (reply.input = NoValue \/ IsDict(reply.input))
  BY <1>1 DEF IsJob
<1>3. Len(replies) \in Nat \ {0} /\ DOMAIN replies = 1..Len(replies)
  BY <1>2, LenProperties, EmptySeq
<1>4. PICK n \in Nat : n = Attempt(c)
  BY DEF TypeInv, CallMetricsType, Attempt
<1>5. Min({n + 1, Len(replies)}) = IF n + 1 <= Len(replies) THEN n + 1 ELSE Len(replies)
  BY <1>3, MinOfTwo
<1>6. Min({n + 1, Len(replies)}) \in DOMAIN replies
  BY <1>3, <1>5
<1>7. NextReply(c) \in ToSet(replies)
  BY <1>1, <1>4, <1>6 DEF NextReply, ToSet
<1> QED
  BY <1>2, <1>7

LEMMA InitTexts == Init => \A c \in Calls : TextsInv(c)
<1> SUFFICES ASSUME Init, NEW c \in Calls PROVE TextsInv(c)
  OBVIOUS
<1>1. pc[c] \in {"idle", "render"} /\ messages[c] = << >> /\ content[c] = Other
      /\ (pc[c] # "idle" => Job(c) # NoJob)
  BY DEF Init, Job
<1>2. IsContent(Other)
  BY DEF IsContent, Other
<1> QED
  BY <1>1, <1>2 DEF TextsInv, TextsAt

\* A prompt is rendered once, the request is made of it, and what comes back is a
\* content.
LEMMA StepTexts ==
    ASSUME PipelineInv, NEW c \in Calls, Step(c)
    PROVE  \A d \in Calls : TextsInv(d)'
<1>1. TypeInv /\ Frame(c) /\ \A d \in Calls : TextsInv(d)
  BY StepFrame DEF PipelineInv
<1>2. scenario' = scenario /\ \A d : Job(d)' = Job(d)
  BY <1>1 DEF Frame, Job
<1>3. ASSUME NEW d \in Calls, d # c PROVE TextsInv(d)'
  BY <1>1, <1>2, <1>3, Zenon DEF Frame, TextsInv
<1>4. /\ pc \in [Calls -> Labels] /\ DOMAIN messages = Calls
      /\ DOMAIN request = Calls /\ DOMAIN content = Calls
  BY <1>1 DEF TypeInv
<1>5. /\ TextsAt(pc[c], Job(c), messages[c], request[c], content[c])
      /\ pc[c] # "idle" => IsJob(Job(c))
  BY <1>1, JobFacts DEF TextsInv, TextsAt
<1> DEFINE Now == TextsAt(pc'[c], Job(c), messages'[c], request'[c], content'[c])
<1>6. Now
  <2> USE DEF Goto, data, history
  <2>1. CASE Render(c)
    <3>1. /\ pc[c] = "render" /\ pc'[c] \in {"raised", "lookup"}
          /\ messages'[c] = RenderPrompt(Job(c).fn, Job(c).args, Job(c).extra)
          /\ content'[c] = content[c]
      BY <1>4, <2>1 DEF Render
    <3> QED
      BY <1>5, <3>1 DEF TextsAt
  <2>2. CASE LookupHit(c)
    BY <1>4, <1>5, <2>2 DEF LookupHit, TextsAt
  <2>3. CASE LookupMiss(c)
    BY <1>4, <1>5, <2>3 DEF LookupMiss, TextsAt
  <2>4. CASE ReadCounter(c)
    BY <1>4, <1>5, <2>4 DEF ReadCounter, Sent, TextsAt
  <2>5. CASE LoadCounter(c)
    BY <1>4, <1>5, <2>5 DEF LoadCounter, TextsAt
  <2>6. CASE StoreCounter(c)
    <3> DEFINE rows == scenario.tables[local[c].table].rows
               row == Row(rows, local[c].idx)
    <3>1. /\ pc[c] = "store" /\ pc'[c] = "parse"
          /\ content'[c] = Materialise(row, scenario.force)
          /\ messages'[c] = messages[c] /\ request'[c] = request[c]
      BY <1>4, <2>6 DEF StoreCounter, Answered
    <3>2. /\ local[c].table \in Tables /\ local[c].idx \in Nat
          /\ Job(c).backend = "mock"
      BY <1>1, <3>1, FirstMatchFacts DEF PipelineInv, HandlerInv, TypeInv, HandlerType
    <3>3. /\ Len(rows) \in Nat \ {0} /\ DOMAIN rows = 1..Len(rows)
          /\ \A k \in DOMAIN rows : IsRow(rows[k])
      BY <1>1, <3>2, ScenarioFacts
    <3> HIDE DEF rows
    <3>4. IsRow(row)
      BY <3>2, <3>3, RowFacts
    <3> HIDE DEF row
    <3>5. IsContent(Materialise(row, scenario.force))
      BY <3>4, RowIsOne, RowIsContent
    <3> QED
      BY <1>5, <3>1, <3>2, <3>5 DEF TextsAt
  <2>7. CASE CallUnregistered(c)
    <3>1. IsContent(Materialise(SensibleDefaults, scenario.force))
      BY DefaultsAreContent, RowIsContent
    <3>2. /\ pc[c] = "call" /\ pc'[c] = "parse" /\ Job(c).backend = "mock"
          /\ content'[c] = Materialise(SensibleDefaults, scenario.force)
          /\ request'[c] = RequestTo(Job(c).backend, messages[c])
          /\ messages'[c] = messages[c]
      BY <1>4, <2>7 DEF CallUnregistered, Answered, Sent
    <3> QED
      BY <1>5, <3>1, <3>2 DEF TextsAt
  <2>8. CASE CallProvider(c)
    <3>1. /\ pc[c] = "call" /\ pc'[c] = "parse" /\ Job(c).backend # "mock"
          /\ content'[c] = ContentOf(Job(c).backend, NextReply(c))
          /\ request'[c] = RequestTo(Job(c).backend, messages[c])
          /\ messages'[c] = messages[c]
      BY <1>4, <2>8 DEF CallProvider, Answered, Sent
    <3>2. IsContent(ContentOf(Job(c).backend, NextReply(c)))
      BY <1>1, <1>5, <3>1, NextReplyFacts, ReplyIsContent
    <3>3. Job(c).backend = "openai" => ContentOf(Job(c).backend, NextReply(c)).type = "str"
      BY DEF ContentOf, OpenAIContent, Text
    <3> QED
      BY <1>5, <3>1, <3>2, <3>3 DEF TextsAt
  <2>9. CASE CallProviderFails(c)
    <3>1. /\ pc[c] = "call" /\ pc'[c] \in {"call", "settled"}
          /\ messages'[c] = messages[c] /\ content'[c] = content[c]
      BY <1>4, <2>9 DEF CallProviderFails, AfterFailure
    <3> QED
      BY <1>5, <3>1 DEF TextsAt
  <2>10. CASE ParseSucceeds(c)
    BY <1>4, <1>5, <2>10 DEF ParseSucceeds, TextsAt
  <2>11. CASE ParseFails(c)
    <3>1. /\ pc[c] = "parse" /\ pc'[c] \in {"call", "settled"}
          /\ messages'[c] = messages[c] /\ content'[c] = content[c]
      BY <1>4, <2>11 DEF ParseFails, AfterFailure
    <3> QED
      BY <1>5, <3>1 DEF TextsAt
  <2> QED
    BY <2>1, <2>2, <2>3, <2>4, <2>5, <2>6, <2>7, <2>8, <2>9, <2>10, <2>11 DEF Step
<1> QED
  BY <1>2, <1>3, <1>6, Zenon DEF TextsInv

-----------------------------------------------------------------------------
(***************************************************************************)
(* The theorems.                                                           *)
(***************************************************************************)

LEMMA StepInv ==
    ASSUME PipelineInv, Next
    PROVE  PipelineInv'
<1>1. PICK c \in Calls : Step(c)
  BY DEF Next, Step
<1> QED
  BY <1>1, StepType, StepResults, StepCache, StepTables, StepAttempts, StepTexts DEF PipelineInv

\* A step that changes no variable.
LEMMA StutterInv ==
    ASSUME PipelineInv, UNCHANGED vars
    PROVE  PipelineInv'
<1> USE DEF PipelineInv, vars, data, history
<1>1. TypeInv'
  BY DEF TypeInv, Tables
<1>2. ResultsValid'
  BY DEF ResultsValid
<1>3. CacheInv'
  BY DEF CacheInv, MakeKey, Job
<1>4. Tables' = Tables /\ \A c : FirstMatch(c)' = FirstMatch(c) /\ Job(c)' = Job(c)
  BY FirstMatchStays DEF Tables, Job
<1>5. CountersInv'
  BY <1>4 DEF CountersInv
<1>6. ASSUME NEW c \in Calls PROVE HandlerInv(c)' /\ AttemptsInv(c)' /\ TextsInv(c)'
  BY <1>4 DEF HandlerInv, AttemptsInv, TextsInv
<1> QED
  BY <1>1, <1>2, <1>3, <1>5, <1>6

LEMMA Inductive == Spec => []PipelineInv
<1>1. Init => PipelineInv
  BY InitType, InitResults, InitTables, InitAttempts, InitTexts DEF PipelineInv
<1>2. PipelineInv /\ [Next]_vars => PipelineInv'
  BY StepInv, StutterInv
<1> QED
  BY <1>1, <1>2, PTL DEF Spec

\* No call is given an answer that the schema has not passed, by a backend or by the
\* cache, whatever the backends reply (executor.py:666-688, result.py:63-87).
THEOREM OnlyValidResults == Spec => []ResultsValid
<1>1. PipelineInv => ResultsValid
  BY DEF PipelineInv
<1> QED
  BY <1>1, Inductive, PTL

\* HitsMatchRequests: a hit gives what a call with the same messages and arguments has
\* obtained, to calls that ask for the same model (executor.py:201-208).
THEOREM HitsMatch == Spec => []HitsMatchRequests
<1>1. PipelineInv => HitsMatchRequests
  BY DEF PipelineInv, CacheInv, HitsMatchRequests
<1> QED
  BY <1>1, Inductive, PTL

\* Which row of a mock table a call is given, whatever handlers overlap
\* (testing.py:106-118, mock_backend.py:152-174).
THEOREM RowsAreServedInOrder == Spec => []RowsInOrder
<1>1. ASSUME PipelineInv PROVE RowsInOrder
  <2> USE <1>1 DEF PipelineInv
  <2>1. ASSUME NEW c \in Calls, local[c].table # 0
        PROVE  LET l    == local[c]
                   rows == scenario.tables[l.table].rows
                   turn == Min({l.place + 1, Len(rows)}) IN
               /\ l.idx <= l.place
               /\ ~overlapped => l.idx = l.place
               /\ pc[c] = "parse" =>
                    \E i \in 1..turn : /\ content[c] = Materialise(rows[i], scenario.force)
                                       /\ ~overlapped => i = turn
    <3> DEFINE l    == local[c]
               rows == scenario.tables[l.table].rows
               turn == Min({l.place + 1, Len(rows)})
               i    == Min({l.idx + 1, Len(rows)})
    <3>1. /\ l.table \in Tables /\ l.idx \in Nat /\ l.place \in Nat
          /\ l.idx <= l.place /\ (~overlapped => l.idx = l.place)
          /\ pc[c] = "parse" => content[c] = Materialise(Row(rows, l.idx), scenario.force)
      BY <2>1, FirstMatchFacts DEF HandlerInv, TypeInv, HandlerType
    <3>2. Len(rows) \in Nat \ {0} /\ DOMAIN rows = 1..Len(rows)
      BY <3>1, ScenarioFacts
    <3> HIDE DEF rows, l
    <3>3. Row(rows, l.idx) = rows[i] /\ i \in 1..Len(rows)
      BY <3>1, <3>2, RowFacts
    <3>4. i \in 1..turn
      BY <3>1, <3>2, TurnFacts
    <3>5. ~overlapped => i = turn
      BY <3>1
    <3> HIDE DEF turn, i
    <3> QED
      BY <3>1, <3>3, <3>4, <3>5 DEF l, rows, turn
  <2>2. \A i, j \in Tables :
          i < j /\ scenario.tables[i].signature = AnySignature => counter[j] = 0
    BY DEF CountersInv
  <2> QED
    BY <2>1, <2>2 DEF RowsInOrder
<1> QED
  BY <1>1, Inductive, PTL

\* What is said of a call afterwards, however its attempts went
\* (diagnostics.py:171-205, 211-258; executor.py:342-386).
THEOREM ExplanationsTell == Spec => []ExplanationTellsAttempts
<1>1. ASSUME PipelineInv PROVE ExplanationTellsAttempts
  <2> SUFFICES ASSUME NEW c \in Calls, pc[c] = "settled"
               PROVE  LET defects  == [i \in DOMAIN contents[c] |->
                                          IF contents[c][i] = Other THEN "backend"
                                          ELSE Defect(ExtractJson(contents[c][i]))]
                          answered == defects # << >> /\ Last(defects) = NoCategory IN
                      /\ StatusOf(m[c]) = IF defects = << >> THEN "cache_hit"
                                          ELSE IF ~answered THEN "failed"
                                          ELSE IF Len(defects) > 1 THEN "recovered" ELSE "success"
                      /\ StatusOf(m[c]) = "failed" =>
                           /\ ExplainFailure(c).root_category = Last(defects)
                           /\ ExplainFailure(c).attempts = Len(defects)
                           /\ ExplainFailure(c).attempt_errors =
                                [i \in DOMAIN defects |->
                                    [attempt |-> i - 1, category |-> defects[i]]]
    BY DEF ExplanationTellsAttempts
  <2> DEFINE s       == contents[c]
             n       == Len(s)
             defects == [i \in DOMAIN s |-> IF s[i] = Other THEN "backend"
                                            ELSE Defect(ExtractJson(s[i]))]
             last    == DefectOf(s[n])
  <2>1. AttemptsInv(c) /\ m[c] \in CallMetricsType
    BY <1>1 DEF PipelineInv, TypeInv
  <2>2. s \in Seq(Range(s)) /\ n \in Nat /\ DOMAIN s = 1..n
    BY <2>1, LenProperties DEF AttemptsInv
  <2>3. defects = [i \in 1..n |-> DefectOf(s[i])]
    BY <2>2 DEF DefectOf
  <2>4. Len(defects) = n /\ (defects = << >> <=> n = 0) /\ DOMAIN defects = 1..n
    BY <2>2, <2>3
  <2>5. n > 0 => Last(defects) = last
    BY <2>2, <2>3, <2>4 DEF Last
  <2>6. CASE m[c].cache_hit
    <3>1. n = 0
      BY <2>1, <2>6 DEF AttemptsInv
    <3>2. StatusOf(m[c]) = "cache_hit"
      BY <2>6 DEF StatusOf
    <3> QED
      BY <2>4, <3>1, <3>2
  <2>7. CASE ~m[c].cache_hit
    <3>1. /\ n > 0
          /\ m[c].successful <=> last = NoCategory
          /\ m[c].successful => m[c].retries = n - 1
          /\ ~m[c].successful => /\ m[c].attempts = n
                                 /\ m[c].error_category = last
                                 /\ Fails(s, n, m[c].attempt_errors)
      BY <2>1, <2>7 DEF AttemptsInv
    <3>2. CASE m[c].successful
      <4>1. m[c].retries > 0 <=> n > 1
        BY <2>2, <3>1, <3>2
      <4>2. StatusOf(m[c]) = IF n > 1 THEN "recovered" ELSE "success"
        BY <2>7, <3>2, <4>1 DEF StatusOf, Recovered
      <4> QED
        BY <2>4, <2>5, <3>1, <3>2, <4>2
    <3>3. CASE ~m[c].successful
      <4>1. StatusOf(m[c]) = "failed"
        BY <2>7, <3>3 DEF StatusOf, Recovered
      <4>2. /\ ExplainFailure(c).root_category = last
            /\ ExplainFailure(c).attempts = n
            /\ ExplainFailure(c).attempt_errors = m[c].attempt_errors
        BY <3>1, <3>3 DEF ExplainFailure
      <4>3. m[c].attempt_errors =
              [i \in DOMAIN defects |-> [attempt |-> i - 1, category |-> defects[i]]]
        BY <2>3, <2>4, <3>1, <3>3 DEF Fails
      <4>4. n # 0
        BY <3>1
      <4> QED
        BY <2>4, <2>5, <3>1, <3>3, <4>1, <4>2, <4>3, <4>4
    <3> QED
      BY <3>2, <3>3
  <2> QED
    BY <2>6, <2>7
<1> QED
  BY <1>1, Inductive, PTL

\* What of the texts is so in every state.
LEMMA TextTypes ==
    ASSUME TypeInv, NEW c \in Calls, TextsInv(c)
    PROVE  /\ messages[c] \in Seq(MessageType)
           /\ ExtractJson(content[c]).kind \in Kinds \union {"none"}
           /\ content[c].type \in {"dict", "str", "list", "other"}
<1>1. ExtractJson(content[c]) \in Decoded \union {NoValue}
  BY ContentIsExtracted DEF TextsInv, TextsAt
<1>2. ASSUME pc[c] \in {"idle", "render"} PROVE messages[c] \in Seq(MessageType)
  <2>1. messages[c] = << >>
    BY <1>2 DEF TextsInv, TextsAt
  <2> QED
    BY <2>1, EmptySeq
<1>3. ASSUME pc[c] \notin {"idle", "render"} PROVE messages[c] \in Seq(MessageType)
  <2>1. IsJob(Job(c))
    BY <1>3, JobFacts DEF TextsInv, TextsAt
  <2>2. IsPrompt(messages[c])
    BY <1>3, <2>1, RenderedIsPrompt DEF IsJob, TextsInv, TextsAt
  <2> QED
    BY <2>2, RequestKeepsPrompt, Zenon
<1>4. messages[c] \in Seq(MessageType)
  BY <1>2, <1>3
<1>5. ExtractJson(content[c]).kind \in Kinds \union {"none"}
  BY <1>1, DecodedFacts DEF NoValue
<1> QED
  BY <1>4, <1>5 DEF TextsInv, TextsAt, IsContent

\* Whatever the prompts and the answers, every variable keeps its type, and what is
\* found in an answer is an object, an array or a string (executor.py:707-754).
THEOREM TypeCorrect == Spec => []TypeOK
<1>1. ASSUME PipelineInv PROVE TypeOK
  <2>1. TypeInv /\ ResultsValid /\ \A c \in Calls : TextsInv(c)
    BY <1>1 DEF PipelineInv
  <2>2. \A c \in Calls : /\ messages[c] \in Seq(MessageType)
                         /\ ExtractJson(content[c]).kind \in Kinds \union {"none"}
                         /\ content[c].type \in {"dict", "str", "list", "other"}
    BY <2>1, TextTypes
  <2>3. \A c \in Calls : ExtractJson(content[c]).kind \in {"none", "object", "array", "string"}
    BY <2>2 DEF Kinds
  <2> QED
    BY <2>1, <2>2, <2>3, Zenon DEF TypeOK, TypeInv, MessageType
<1> QED
  BY <1>1, Inductive, PTL

\* RequestIsWhole: whatever the functions, their arguments and exemplars, no message gets
\* lost on its way to a backend, and no exemplar is torn from its input (prompt.py:134-145,
\* anthropic_backend.py:135-159).
THEOREM RequestsAreWhole == Spec => []RequestIsWhole
<1>1. ASSUME PipelineInv PROVE RequestIsWhole
  <2>1. ASSUME NEW c \in Calls, pc[c] = "parse"
        PROVE  /\ SaidOf(request[c].system \o request[c].turns) = SaidOf(messages[c])
               /\ Conversation(request[c].turns)
    <3>1. TypeInv /\ TextsInv(c)
      BY <1>1 DEF PipelineInv
    <3>2. IsJob(Job(c))
      BY <2>1, <3>1, JobFacts DEF TextsInv, TextsAt
    <3>3. /\ messages[c] = RenderPrompt(Job(c).fn, Job(c).args, Job(c).extra)
          /\ request[c] = RequestTo(Job(c).backend, messages[c])
      BY <2>1, <3>1 DEF TextsInv, TextsAt
    <3>4. IsPrompt(messages[c])
      BY <3>2, <3>3, RenderedIsPrompt DEF IsJob
    <3> QED
      BY <3>3, <3>4, RequestKeepsPrompt
  <2> QED
    BY <2>1, Zenon DEF RequestIsWhole, SaidOf
<1> QED
  BY <1>1, Inductive, PTL

\* Whatever a model says, and whatever a table has, it is understood the same by each
\* of the ways it can be sent (anthropic_backend.py:360-379, mock_backend.py:200-219).
THEOREM AdaptersAreAlike == Spec => []AdaptersAgree
<1>1. ASSUME PipelineInv PROVE AdaptersAgree
  <2>1. ASSUME NEW c \in Calls, NEW text, text = Strip(content[c].text),
               pc[c] = "parse", Job(c).backend = "openai",
               Undressed(text) # << >>,
               Head(text) = "fence" =>
                  LastOf(text, "newline") # 0 /\ FenceOf(text) = LastOf(text, "newline") + 1,
               Loads(Undressed(text)).kind \notin {"string", "array"}
        PROVE  ExtractJson(AnthropicText(text)) = ExtractJson(Text(text))
    <3>1. content[c].text \in Seq(Symbols)
      BY <1>1, <2>1 DEF PipelineInv, TextsInv, TextsAt, IsContent
    <3> QED
      BY <2>1, <3>1, AdaptersAgreeOn
  <2>2. ASSUME NEW row, IsRow(row)
        PROVE  ExtractJson(Materialise(row, TRUE)) = ExtractJson(Materialise(row, FALSE))
    <3>1. CASE row.type = "dict"
      <4>1. IsDict(row.value)
        BY <2>2, <3>1 DEF IsRow
      <4>2. ExtractJson(Text(row.value.text)) = row.value
        BY <4>1, DictTextIsUnderstood
      <4> QED
        BY <3>1, <4>2 DEF Materialise, ExtractJson
    <3>2. CASE row.type # "dict"
      BY <3>2 DEF Materialise
    <3> QED
      BY <3>1, <3>2
  <2>3. \A i \in Tables : \A k \in DOMAIN scenario.tables[i].rows : IsRow(scenario.tables[i].rows[k])
    BY <1>1, ScenarioFacts DEF PipelineInv
  <2> QED
    BY <2>1, <2>2, <2>3, Zenon DEF AdaptersAgree, LastOf, FenceOf
<1> QED
  BY <1>1, Inductive, PTL

\* Whatever the templates and the values, a value without braces is put in where it is
\* named, and the rest of the template, its braces too, is left as it is
\* (prompt.py:28-57).
THEOREM PlainValues == Spec => []PlainValuesVerbatim
<1>1. ASSUME PipelineInv PROVE PlainValuesVerbatim
  <2>1. ASSUME NEW c \in Calls, pc[c] \in {"lookup", "raised"}
        PROVE  LET template == Job(c).fn.prompt_template
                   context  == Context(Job(c).args, Job(c).extra)
                   named    == {template[p + 1] : p \in Placeholders(template)} \intersect DOMAIN context
                   piece(i) == Verbatim(template, context, i) IN
               template # << >> /\ (\A name \in named : Braces \intersect ToSet(context[name]) = {}) =>
                   messages[c][2].content = FlattenSeq([i \in DOMAIN template |-> piece(i)])
    <3>1. TypeInv /\ TextsInv(c)
      BY <1>1 DEF PipelineInv
    <3>2. Job(c) # NoJob /\ messages[c] = RenderPrompt(Job(c).fn, Job(c).args, Job(c).extra)
      BY <2>1, <3>1 DEF TextsInv, TextsAt
    <3>3. IsFunction(Job(c).fn) /\ IsValues(Job(c).args) /\ IsValues(Job(c).extra)
      BY <3>1, <3>2, JobFacts DEF IsJob
    <3> DEFINE template == Job(c).fn.prompt_template
               context  == Context(Job(c).args, Job(c).extra)
               named    == {template[p + 1] : p \in Placeholders(template)} \intersect DOMAIN context
    <3>4. ASSUME template # << >>, \A name \in named : Braces \intersect ToSet(context[name]) = {}
          PROVE  messages[c][2].content
                   = FlattenSeq([i \in DOMAIN template |-> Verbatim(template, context, i)])
      <4>1. \A p \in Placeholders(template) : template[p + 1] \in DOMAIN context =>
                Braces \intersect ToSet(context[template[p + 1]]) = {}
        BY <3>4
      <4>2. template = Job(c).fn.prompt_template /\ context = Context(Job(c).args, Job(c).extra)
        OBVIOUS
      <4> HIDE DEF template, context, named
      <4>3. RenderPrompt(Job(c).fn, Job(c).args, Job(c).extra)[2].content
              = FlattenSeq([i \in DOMAIN template |-> Verbatim(template, context, i)])
        BY <3>3, <3>4, <4>1, <4>2, QuestionIsVerbatim
      <4> QED
        BY <3>2, <4>3, Zenon
    <3> QED
      BY <3>4, Zenon
  <2> QED
    BY <2>1, Zenon DEF PlainValuesVerbatim, Verbatim
<1> QED
  BY <1>1, Inductive, PTL

\* Whatever is in the strings of an object, and whatever the prose and the fences around
\* it, the object is what is found in the answer (executor.py:727-785).
THEOREM ObjectsAreFound == Spec => []ObjectIsFound
<1>1. ASSUME PipelineInv PROVE ObjectIsFound
  <2>1. ASSUME NEW c \in Calls, pc[c] = "parse", content[c].type = "str",
               NEW text, text = Strip(content[c].text),
               FirstOpener(text) # 0, Loads(text) = NoValue,
               NEW last \in FirstOpener(text)..Len(text),
               Loads(SubSeq(text, FirstOpener(text), last)).kind = "object",
               Head(text) = "fence" =>
                  /\ NewlineOf(text) \in 1..FirstOpener(text)
                  /\ "quote" \notin ToSet(SubSeq(text, 1, FirstOpener(text)))
                  /\ FenceOf(text) > last \/ FenceOf(text) = 1
        PROVE  ExtractJson(content[c]) = Loads(SubSeq(text, FirstOpener(text), last))
    <3>1. content[c].text \in Seq(Symbols)
      <4>1. TextsInv(c)
        BY <1>1 DEF PipelineInv
      <4>2. IsContent(content[c])
        BY <4>1, Zenon DEF TextsInv, TextsAt
      <4> QED
        BY <2>1, <4>2 DEF IsContent
    <3>2. Loads(SubSeq(text, FirstOpener(text), last)) # NoValue
      BY <2>1 DEF NoValue
    <3>3. ExtractFromText(content[c].text) = Loads(SubSeq(text, FirstOpener(text), last))
      BY <2>1, <3>1, <3>2, ValueIsExtracted
    <3> QED
      BY <2>1, <3>3 DEF ExtractJson
  <2> QED
    BY <2>1, Zenon DEF ObjectIsFound, FirstOpener, Openers, NewlineOf, FenceOf, FirstOf, LastOf
<1> QED
  BY <1>1, Inductive, PTL
=============================================================================
