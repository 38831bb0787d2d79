------------------------------ MODULE Pipeline -------------------------------
(***************************************************************************)
(* What happens to the data of a call on its way: the prompt is rendered,  *)
(* the cache key made of it, the request answered by a provider or by the  *)
(* tables of a mock backend, JSON found in the answer and validated, and   *)
(* in the end the outcome explained.  The calls run in threads.  Executor  *)
(* has the bookkeeping that is left out here; the cache is on, never full. *)
(***************************************************************************)
EXTENDS BackendAdapters, PromptRendering, CallMetrics, RetryPolicy

CONSTANTS
    Calls,
    Scenarios,      \* sets of scenarios: the calls' jobs and a mock backend's fixtures
    NoJob

(***************************************************************************)
(* A scenario is a record:                                                 *)
(*   jobs    call -> NoJob, or [fn, args, extra, model, backend, replies]: *)
(*           fn is [system_template, docstring, prompt_template, few_shots,*)
(*           max_retries], model the one asked for by the call alone, and  *)
(*           replies what a provider says, attempt by attempt;             *)
(*   tables  [signature, rows] in the order they were registered in: the   *)
(*           set of the one [model, messages] it is for, or AnySignature;  *)
(*   force   force_string_output.                                          *)
(* The schema is dynamic and declares one field, of type str.              *)
(***************************************************************************)

ASSUME CallsAssumption == IsFiniteSet(Calls)

IsJob(job) ==
    /\ IsFunction(job.fn) /\ IsValues(job.args) /\ IsValues(job.extra)
    /\ job.backend \in {"mock", "openai", "anthropic"}
    /\ job.backend # "mock" =>
         /\ job.replies \in Seq(ToSet(job.replies)) \ {<< >>}
         /\ \A reply \in ToSet(job.replies) :
              reply.text \in Seq(Symbols) /\ (reply.input = NoValue \/ IsDict(reply.input))

IsRow(row) ==
    \/ row.type = "dict" /\ row.text = << >> /\ IsDict(row.value)
    \/ row.type = "str" /\ row.text \in Seq(Symbols)

\* A table has rows: mock_llm_table raises without any.
ASSUME ScenariosAssumption ==
    \A family \in Scenarios : \A s \in family :
        /\ \A c \in Calls : s.jobs[c] # NoJob => IsJob(s.jobs[c])
        /\ s.tables \in Seq(ToSet(s.tables))
        /\ \A table \in ToSet(s.tables) :
             /\ table.rows \in Seq(ToSet(table.rows)) \ {<< >>}
             /\ \A row \in ToSet(table.rows) : IsRow(row)

AnySignature == {}
FnModel      == "fn_model"      \* AgenticFunction.model
Field        == <<"word">>

VARIABLES
    scenario,
    pc,
    messages,   \* call -> the rendered messages
    request,    \* call -> what the backend has been sent last
    content,    \* call -> the content of the last response
    m,          \* call -> its CallMetrics
    result,     \* call -> the parsed answer, or NoValue
    local,      \* call -> the table handler's locals
    counter,    \* table -> its counter[0]
    cached,     \* cache key -> [value, by]: the answer, and History: whose it is
    \* History
    contents,   \* call -> the content of every attempt, "none" if there was none
    reads,      \* table -> how many handlers have read its counter
    overlapped, \* two handlers of a table have been at work at once
    servedBy    \* call -> the call whose cached answer it was given

data    == <<scenario, messages, request, content, m, result, local, counter, cached>>
history == <<contents, reads, overlapped, servedBy>>
vars    == <<pc, data, history>>

Job(c)    == scenario.jobs[c]
Tables    == DOMAIN scenario.tables
NoHandler == [table |-> 0, idx |-> 0, loaded |-> 0, place |-> 0]

Init ==
    /\ \E family \in Scenarios : scenario \in family
    /\ pc = [c \in Calls |-> IF scenario.jobs[c] = NoJob THEN "idle" ELSE "render"]
    /\ messages   = [c \in Calls |-> << >>]
    /\ request    = [c \in Calls |-> << >>]
    /\ content    = [c \in Calls |-> Other]
    /\ m          = [c \in Calls |-> NewCallMetrics]
    /\ result     = [c \in Calls |-> NoValue]
    /\ local      = [c \in Calls |-> NoHandler]
    /\ counter    = [i \in DOMAIN scenario.tables |-> 0]
    /\ cached     = << >>
    /\ contents   = [c \in Calls |-> << >>]
    /\ reads      = [i \in DOMAIN scenario.tables |-> 0]
    /\ overlapped = FALSE
    /\ servedBy   = [c \in Calls |-> c]

Goto(c, from, to) == pc[c] = from /\ pc' = [pc EXCEPT ![c] = to]

-----------------------------------------------------------------------------
\* The prompt, and the cache.

\* An exception of the rendering leaves the call as it is.
Render(c) ==
    LET rendered == RenderPrompt(Job(c).fn, Job(c).args, Job(c).extra) IN
    /\ Goto(c, "render", IF RenderRaises(rendered) THEN "raised" ELSE "lookup")
    /\ messages' = [messages EXCEPT ![c] = rendered]
    /\ UNCHANGED <<scenario, request, content, m, result, local, counter, cached, history>>

\* Mutant: the messages are left out of the key.
MakeKeyOfArguments(c) == <<FnModel, Job(c).args>>

\* make_key, whose hash is taken to tell any two requests of the function apart
\* that differ in what is hashed: the function's model, not the call's.
MakeKey(c) == <<FnModel, messages[c], Job(c).args>>

LookupHit(c) ==
    /\ Goto(c, "lookup", "settled")
    /\ MakeKey(c) \in DOMAIN cached
    /\ m' = [m EXCEPT ![c] = HitMetrics(@, 1)]
    /\ result' = [result EXCEPT ![c] = cached[MakeKey(c)].value]
    /\ servedBy' = [servedBy EXCEPT ![c] = cached[MakeKey(c)].by]
    /\ UNCHANGED <<scenario, messages, request, content, local, counter, cached,
                   contents, reads, overlapped>>

LookupMiss(c) ==
    /\ Goto(c, "lookup", "call")
    /\ MakeKey(c) \notin DOMAIN cached
    /\ UNCHANGED <<data, history>>

-----------------------------------------------------------------------------
\* An attempt.

Attempt(c) == m[c].attempts     \* 0-based, while the call is at "call"

\* The call's metrics at the head of the loop, and after its attempt failed.
Started(c) == CountAttempt(m[c], Attempt(c))

Failed(n, category) == NoteAttemptFailure(n, n.attempts - 1, category)

\* Where a call goes whose attempt failed, and with which metrics.
AfterFailure(c, n, category) ==
    LET again == IsRetryable(category, n.attempts - 1, Job(c).fn.max_retries) IN
    /\ Goto(c, pc[c], IF again THEN "call" ELSE "settled")
    /\ m' = [m EXCEPT ![c] = IF again THEN Failed(n, category)
                             ELSE MarkFailure(Failed(n, category))]

\* _sig_of: the request's own model and messages.
Signature(c) ==
    [model |-> IF Job(c).model = "" THEN FnModel ELSE Job(c).model, messages |-> messages[c]]

\* MockBackend.complete: the first registration that matches; 0 is none.
FirstMatch(c) ==
    SelectInSeq(scenario.tables,
                LAMBDA t : t.signature \in {AnySignature, {Signature(c)}})

Sent(c) == request' = [request EXCEPT ![c] = RequestTo(Job(c).backend, messages[c])]

\* The table's handler: idx = counter[0].  A build of Python with a global lock gives
\* no other thread a turn within the handler's two lines; a free-threaded one may.
ReadCounter(c) ==
    LET table == FirstMatch(c) IN
    /\ Goto(c, "call", "load")
    /\ Job(c).backend = "mock" /\ table # 0
    /\ Sent(c)
    /\ m' = [m EXCEPT ![c] = Started(c)]
    /\ local' = [local EXCEPT ![c] = [table |-> table, idx |-> counter[table], loaded |-> 0,
                                      place |-> reads[table]]]
    /\ reads' = [reads EXCEPT ![table] = @ + 1]
    /\ overlapped' = (overlapped \/ \E d \in Calls :
                          pc[d] \in {"load", "store"} /\ local[d].table = table)
    /\ UNCHANGED <<scenario, messages, content, result, counter, cached,
                   contents, servedBy>>

\* counter[0] += 1 loads it again ...
LoadCounter(c) ==
    /\ Goto(c, "load", "store")
    /\ local' = [local EXCEPT ![c].loaded = counter[local[c].table]]
    /\ UNCHANGED <<scenario, messages, request, content, m, result, counter, cached, history>>

\* Mutant: the row is counted from 1.
RowFromOne(rows, idx) == rows[IF idx = 0 THEN 1 ELSE Min({idx, Len(rows)})]

\* The last row is repeated.
Row(rows, idx) == rows[Min({idx, Len(rows) - 1}) + 1]

Answered(c, answer) ==
    /\ content' = [content EXCEPT ![c] = answer]
    /\ contents' = [contents EXCEPT ![c] = Append(@, answer)]

\* ... and stores it; the row is made a response.
StoreCounter(c) ==
    /\ Goto(c, "store", "parse")
    /\ counter' = [counter EXCEPT ![local[c].table] = local[c].loaded + 1]
    /\ Answered(c, Materialise(Row(scenario.tables[local[c].table].rows, local[c].idx),
                               scenario.force))
    /\ UNCHANGED <<scenario, messages, request, m, result, local, cached,
                   reads, overlapped, servedBy>>

\* _sensible_defaults: a str for the declared field.
SensibleDefaults ==
    Dict(Loads(<<"{", "quote">> \o Field \o <<"quote", "quote", "word", "quote", "}">>))

CallUnregistered(c) ==
    /\ Goto(c, "call", "parse")
    /\ Job(c).backend = "mock" /\ FirstMatch(c) = 0
    /\ Sent(c)
    /\ m' = [m EXCEPT ![c] = Started(c)]
    /\ Answered(c, Materialise(SensibleDefaults, scenario.force))
    /\ UNCHANGED <<scenario, messages, result, local, counter, cached,
                   reads, overlapped, servedBy>>

\* The provider's next reply; the last one is repeated.
NextReply(c) == Job(c).replies[Min({Attempt(c) + 1, Len(Job(c).replies)})]

\* OpenAI's reply has no choice: a BackendError.  Anthropic's is taken for a blank text.
Unanswered(c) == Job(c).backend = "openai" /\ ~NextReply(c).choices

CallProvider(c) ==
    /\ Goto(c, "call", "parse")
    /\ Job(c).backend # "mock" /\ ~Unanswered(c)
    /\ Sent(c)
    /\ m' = [m EXCEPT ![c] = Started(c)]
    /\ Answered(c, ContentOf(Job(c).backend, NextReply(c)))
    /\ UNCHANGED <<scenario, messages, result, local, counter, cached,
                   reads, overlapped, servedBy>>

CallProviderFails(c) ==
    /\ pc[c] = "call"
    /\ Job(c).backend # "mock" /\ Unanswered(c)
    /\ AfterFailure(c, Started(c), "backend")
    /\ Sent(c)
    /\ contents' = [contents EXCEPT ![c] = Append(@, Other)]
    /\ UNCHANGED <<scenario, messages, content, result, local, counter, cached,
                   reads, overlapped, servedBy>>

-----------------------------------------------------------------------------
\* Parsing and validation.

\* SchemaSpec.coerce and the dynamic model: a dict with the field in it; what else
\* there is goes to the extras.
Validates(value) == value.kind = "object" /\ <<Field, "string">> \in value.members

\* Mutant: any object will do.
DefectUnvalidated(value) == IF value.kind # "object" THEN "parse" ELSE NoCategory

\* _parse_and_validate: the category of its exception, or none.
Defect(value) ==
    IF value = NoValue THEN "parse" ELSE IF Validates(value) THEN NoCategory ELSE "validation"

\* The cache after a set.
Put(entries, key, entry) ==
    [k \in DOMAIN entries \union {key} |-> IF k = key THEN entry ELSE entries[k]]

ParseSucceeds(c) ==
    LET value == ExtractJson(content[c]) IN
    /\ Goto(c, "parse", "settled")
    /\ Defect(value) = NoCategory
    /\ m' = [m EXCEPT ![c] = MarkSuccess(AddResponse(@, @.attempts - 1, 1), @.attempts - 1)]
    /\ result' = [result EXCEPT ![c] = value]
    /\ cached' = Put(cached, MakeKey(c), [value |-> value, by |-> c])
    /\ UNCHANGED <<scenario, messages, request, content, local, counter, history>>

ParseFails(c) ==
    LET defect == Defect(ExtractJson(content[c])) IN
    /\ pc[c] = "parse"
    /\ defect # NoCategory
    /\ AfterFailure(c, m[c], defect)
    /\ UNCHANGED <<scenario, messages, request, content, result, local, counter, cached, history>>

-----------------------------------------------------------------------------
\* Explanations.

\* Mutant: success comes before recovery.
StatusOfSuccessFirst(n) ==
    CASE n.cache_hit -> "cache_hit"
      [] ~n.cache_hit /\ n.successful -> "success"
      [] OTHER -> "failed"

\* diagnostics._from_metrics.
StatusOf(n) ==
    CASE n.cache_hit -> "cache_hit"
      [] ~n.cache_hit /\ Recovered(n) -> "recovered"
      [] ~n.cache_hit /\ ~Recovered(n) /\ n.successful -> "success"
      [] OTHER -> "failed"

\* explain_failure of what the call raises: a RetryExhaustedError, of which the
\* last exception is the root, or the rendering's exception as it is.
ExplainFailure(c) ==
    IF pc[c] = "raised" THEN [category |-> "unknown", root_category |-> "unknown",
                              attempts |-> 0, attempt_errors |-> << >>]
    ELSE [category |-> "retry_exhausted", root_category |-> m[c].error_category,
          attempts |-> m[c].attempts, attempt_errors |-> m[c].attempt_errors]

Next ==
    \E c \in Calls :
        \/ Render(c) \/ LookupHit(c) \/ LookupMiss(c)
        \/ ReadCounter(c) \/ LoadCounter(c) \/ StoreCounter(c)
        \/ CallUnregistered(c) \/ CallProvider(c) \/ CallProviderFails(c)
        \/ ParseSucceeds(c) \/ ParseFails(c)

Spec == Init /\ [][Next]_vars

-----------------------------------------------------------------------------
(***************************************************************************)
(* Properties.                                                             *)
(***************************************************************************)

Labels == {"idle", "render", "raised", "lookup", "call", "load", "store", "parse",
           "settled"}

\* No answer is given, and none kept for later calls, that the schema has not passed.
ResultsValid ==
    /\ \A c \in Calls : result[c] # NoValue => Validates(result[c])
    /\ \A key \in DOMAIN cached : Validates(cached[key].value)

\* Every variable keeps its type: in particular whatever is found in an answer is
\* an object, array or string, and a result is an object that has the field.
TypeOK ==
    /\ pc \in [Calls -> Labels]
    /\ m \in [Calls -> CallMetricsType]
    /\ counter \in [Tables -> Nat]
    /\ reads \in [Tables -> Nat]
    /\ overlapped \in BOOLEAN
    /\ \A c \in Calls :
         /\ messages[c] \in Seq([role : Roles, content : Seq(Tokens) \union {Raises}])
         /\ content[c].type \in {"dict", "str", "list", "other"}
         /\ ExtractJson(content[c]).kind \in {"none", "object", "array", "string"}
    /\ ResultsValid

\* A mock table serves its rows in the order of the calls and then repeats the last
\* one, as long as no two of its handlers overlap; when they do, rows may be given
\* twice or skipped, but no call gets one further down than its turn.  A table
\* registered behind one for any request is never asked
\* (testing.py:106-118, mock_backend.py:152-174).
RowsInOrder ==
    /\ \A c \in Calls :
         LET l    == local[c]
             rows == scenario.tables[l.table].rows
             turn == Min({l.place + 1, Len(rows)}) IN
         l.table # 0 =>
           /\ l.idx <= l.place
           /\ ~overlapped => l.idx = l.place
           /\ pc[c] = "parse" =>
                \E i \in 1..turn : /\ content[c] = Materialise(rows[i], scenario.force)
                                   /\ ~overlapped => i = turn
    /\ \A i, j \in Tables :
         i < j /\ scenario.tables[i].signature = AnySignature => counter[j] = 0

\* A call that the cache answers is given what a call with the same messages and
\* arguments has obtained, whatever extra context either had (executor.py:201-208).
\* It is promised to calls that ask for the same model: the key has the function's
\* model, not the call's, though README.md:220 says that keys cover the model.
HitsMatchRequests ==
    \A c \in Calls :
        servedBy[c] # c /\ Signature(c).model = Signature(servedBy[c]).model =>
            /\ messages[c] = messages[servedBy[c]]
            /\ Job(c).args = Job(servedBy[c]).args
            /\ result[c] = result[servedBy[c]]

\* An object in an answer is found, whatever is in its strings and whatever prose is
\* around it, if no bracket comes before it and the answer, if it begins with a
\* fence, goes on to a new line, has no quote before the object, and no further
\* fence before its end unless there is one behind it too.  An answer that is JSON
\* as a whole is taken as that.  (executor.py:727-785; a bracket in the prose before
\* it hides an object.)
ObjectIsFound ==
    \A c \in Calls :
        LET text     == Strip(content[c].text)
            first    == SelectInSeq(text, LAMBDA s : s \in {"{", "["})
            newline  == SelectInSeq(text, LAMBDA s : s = "newline")
            fence    == SelectLastInSeq(text, LAMBDA s : s = "fence")
            unquoted == "quote" \notin ToSet(SubSeq(text, 1, first)) IN
        pc[c] = "parse" /\ content[c].type = "str" /\ first # 0 /\ Loads(text) = NoValue =>
            \A last \in first..Len(text) :
                LET object == Loads(SubSeq(text, first, last)) IN
                /\ object.kind = "object"
                /\ Head(text) = "fence" =>
                     newline \in 1..first /\ unquoted /\ (fence > last \/ fence = 1)
                => ExtractJson(content[c]) = object

\* Whether its API is OpenAI's or Anthropic's, what a model says is understood the
\* same, unless it begins with a fence and the last fence in it does not open the
\* last line; or is blank, or only fences, which the Anthropic adapter makes {}; or
\* is, or has between its fences, a JSON string or array: the adapter decodes that,
\* and the executor decodes what comes of it again.  A mock's dict is understood the
\* same as its text.
\* (anthropic_backend.py:360-379, openai_backend.py:204-208, mock_backend.py:200-219)
AdaptersAgree ==
    /\ \A c \in Calls :
         LET text  == Strip(content[c].text)
             last  == SelectLastInSeq(text, LAMBDA s : s = "newline")
             fence == SelectLastInSeq(text, LAMBDA s : s = "fence") IN
         /\ pc[c] = "parse" /\ Job(c).backend = "openai"
         /\ Undressed(text) # << >>
         /\ Head(text) = "fence" => last # 0 /\ fence = last + 1
         /\ Loads(Undressed(text)).kind \notin {"string", "array"}
         => ExtractJson(AnthropicText(text)) = ExtractJson(Text(text))
    /\ \A i \in Tables : \A k \in DOMAIN scenario.tables[i].rows :
         LET row == scenario.tables[i].rows[k] IN
         ExtractJson(Materialise(row, TRUE)) = ExtractJson(Materialise(row, FALSE))

\* A template is rendered with every placeholder that has a value replaced by it and
\* all else left as it is, braces too, if no value that it mentions has a brace in
\* it; and only then may it raise (prompt.py:28-57, where a comment denies that).
PlainValuesVerbatim ==
    \A c \in Calls : pc[c] \in {"lookup", "raised"} =>
        LET template == Job(c).fn.prompt_template
            context  == Context(Job(c).args, Job(c).extra)
            named    == {template[p + 1] : p \in Placeholders(template)} \intersect DOMAIN context
            piece(i) == IF Inside(i, template) /\ ~(\E p \in Placeholders(template) :
                                                        i \in p..(p + 2) /\ template[p + 1] \notin named)
                        THEN IF i \in Placeholders(template) THEN context[template[i + 1]] ELSE << >>
                        ELSE <<template[i]>>
        IN
        template # << >> /\ (\A name \in named : Braces \intersect ToSet(context[name]) = {}) =>
            messages[c][2].content = FlattenSeq([i \in DOMAIN template |-> piece(i)])

\* Every message that says something reaches the backend, once and in order, the
\* system's apart where the API wants that; and each exemplar's output comes directly
\* after its input, also if that is blank.  Whether the question is before or after the
\* exemplars is left open: the code puts it before, prompt.py:10-11 says after.
\* (prompt.py:134-145, anthropic_backend.py:135-159)
RequestIsWhole ==
    \A c \in Calls : pc[c] = "parse" =>
        LET Said(s) == Selected(s, LAMBDA message : message.content # << >>) IN
        /\ Said(request[c].system \o request[c].turns) = Said(messages[c])
        /\ Conversation(request[c].turns)

\* What diagnose and explain_failure say of a call is what happened: a success, one
\* recovered after failures, a hit, or a failure with the defect of each attempt's
\* content, in order, and the last one's as the root
\* (diagnostics.py:171-205, 211-258; executor.py:342-386).
ExplanationTellsAttempts ==
    \A c \in Calls : pc[c] = "settled" =>
        LET defects == [i \in DOMAIN contents[c] |->
                           IF contents[c][i] = Other THEN "backend"
                           ELSE Defect(ExtractJson(contents[c][i]))]
            answered == defects # << >> /\ Last(defects) = NoCategory IN
        /\ StatusOf(m[c]) = IF defects = << >> THEN "cache_hit"
                            ELSE IF ~answered THEN "failed"
                            ELSE IF Len(defects) > 1 THEN "recovered" ELSE "success"
        /\ StatusOf(m[c]) = "failed" =>
             /\ ExplainFailure(c).root_category = Last(defects)
             /\ ExplainFailure(c).attempts = Len(defects)
             /\ ExplainFailure(c).attempt_errors =
                  [i \in DOMAIN defects |-> [attempt |-> i - 1, category |-> defects[i]]]

=============================================================================
