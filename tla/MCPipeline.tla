----------------------------- MODULE MCPipeline ------------------------------
(***************************************************************************)
(* Pipeline with the scenarios of the TLC run: one call over many texts,   *)
(* prompts and values, and three calls over a few fixtures.                *)
(***************************************************************************)
EXTENDS PipelineAndCoercion

CONSTANTS c1, c2, c3

One(job) == [c \in Calls |-> IF c = c1 THEN job ELSE NoJob]

Scenario(jobs, tables, force) == [jobs |-> jobs, tables |-> tables, force |-> force]

PlainFn ==
    [system_template |-> << >>, docstring |-> <<"word">>, prompt_template |-> << >>,
     few_shots |-> << >>, max_retries |-> 0]

CallJob(fn, args, extra, model, backend, replies) ==
    [fn |-> fn, args |-> args, extra |-> extra, model |-> model, backend |-> backend,
     replies |-> replies]

X(text) == "x" :> text

-----------------------------------------------------------------------------
\* Texts: a good object, and objects, arrays and strings that are hard to tell
\* from one, between all short prefixes and some suffixes.

Member(value) == <<"{", "quote", "word", "quote">> \o value \o <<"}">>
InQuotes(text) == <<"quote">> \o text \o <<"quote">>

Good == Member(InQuotes(<<"word">>))

Bodies ==
    {<< >>, Good,
     Member(InQuotes(<<"}">>)), Member(InQuotes(<<"{">>)), Member(InQuotes(<<"fence">>)),
     Member(InQuotes(<<"backslash", "quote", "}">>)),
     Member(Good), Member(InQuotes(<< >>) \o InQuotes(<<"word">>) \o <<"[", "{", "}", "]">>),
     <<"{", "newline">> \o Tail(Good), <<"{", "}">>, <<"[">> \o Good \o <<"]">>,
     InQuotes(Good), InQuotes(<<"{", "}">>)}

Suffixed == BoundedSeq(Symbols, 1) \union
    {<<"newline", "fence">>, <<"newline", "word">>, <<"quote", "}">>, <<"fence", "newline">>}

Texts == {pre \o body \o suf : pre \in BoundedSeq(Symbols, 2), body \in Bodies, suf \in Suffixed}

TextScenarios ==
    {Scenario(One(CallJob(PlainFn, << >>, << >>, "", "openai", <<Reply(text, NoValue)>>)),
              << >>, FALSE) : text \in Texts}

\* Replies one after the other, to a function that tries twice.
ReplyScenarios ==
    {Scenario(One(CallJob([PlainFn EXCEPT !.max_retries = 1], << >>, << >>, "", backend,
                          <<first, second>>)), << >>, FALSE) :
        backend \in {"openai", "anthropic"},
        first   \in {Reply(Good, NoValue), Reply(<<"word">>, NoValue), NoChoices,
                     Reply(<<"word">>, Loads(Good)), Reply(InQuotes(<<"word">>), NoValue)},
        second  \in {Reply(Good, NoValue), Reply(<<"[", "]">>, NoValue),
                     Reply(<<"word">>, NoValue)}}

-----------------------------------------------------------------------------
\* Prompts: all short templates over values with and without braces.

Templates == BoundedSeq({"{", "}", "x", "z", "word"}, 4) \union
    {<<"{", "x", "}", "{", "z", "}">>, <<"{", "{", "x", "}", "}">>, <<"{", "x", "}", "{", "y", "}">>}

ArgumentTexts ==
    {<<"word">>, <<"{", "z", "}">>, <<"{", "y", "}">>, <<"{", "x", "}">>, <<"{", "{">>, <<"}">>}

PromptFn(template, shots) ==
    [PlainFn EXCEPT !.system_template = template, !.prompt_template = template,
                    !.few_shots = shots]

PromptScenarios ==
    {Scenario(One(CallJob(PromptFn(template, << >>), X(text) @@ "y" :> <<"y">>, << >>, "",
                          "mock", << >>)), << >>, FALSE) :
        template \in Templates, text \in ArgumentTexts}
    \union
    {Scenario(One(CallJob(PromptFn(template, <<X(<<"z">>)>>), X(<<"word">>), extra, "",
                          backend, <<Reply(Good, NoValue)>>)), << >>, TRUE) :
        template \in {<< >>, <<"{", "x", "}">>, <<"{", "z", "}">>},
        extra    \in {<< >>, "z" :> <<"word">>},
        backend  \in {"mock", "openai", "anthropic"}}

-----------------------------------------------------------------------------
\* Fixtures: two calls of a function that tries twice, which may differ in the model
\* they ask for or in the extra context; and three that are alike.

TableFn(retries) ==
    [PlainFn EXCEPT !.prompt_template = <<"{", "x", "}">>, !.max_retries = retries]

TableCall(extra, model, retries) ==
    CallJob(TableFn(retries), X(<<"word">>), IF extra = "" THEN << >> ELSE X(<<extra>>), model,
            "mock", << >>)

Rows == <<Text(<<"word">>), Dict(Loads(Good)), Dict(EmptyObject),
          Text(<<"word">> \o Member(InQuotes(<< >>)))>>

OneTable == <<[signature |-> AnySignature, rows |-> Rows]>>

\* A fixture for the first call alone, one for all, one behind it.
ThreeTables ==
    <<[signature |-> {[model    |-> "other",
                       messages |-> RenderPrompt(TableFn(0), X(<<"word">>), << >>)]},
       rows |-> <<Dict(Loads(Good))>>]>>
    \o OneTable \o <<[signature |-> AnySignature, rows |-> Tail(Rows)]>>

TableScenarios ==
    {Scenario(c1 :> TableCall("", "other", 1) @@ c2 :> second @@ c3 :> NoJob, tables, force) :
        second \in {TableCall("", "", 1), TableCall("y", "other", 1)},
        tables \in {OneTable, ThreeTables},
        force  \in BOOLEAN}
    \union
    {Scenario([c \in Calls |-> TableCall("", "", 0)], OneTable, FALSE)}

-----------------------------------------------------------------------------
\* Values and types.

Scalars ==
    {Co!None, Co!Str(<< >>), Co!Str(<<"yes", "2">>)}
    \union {Co!Str(<<atom>>) : atom \in {"yes", "no", "1", "2", "2.0", "0.5", "word"}}
    \union {Co!Number("bool", halves) : halves \in {0, 2}}
    \union {Co!Number("int", halves) : halves \in {0, 2, 4}}
    \union {Co!Number("float", halves) : halves \in {0, 1, 2, 4}}

MCPyValues == Scalars \union
    {Co!Collection(type, items) : type \in {"list", "dict"}, items \in BoundedSeq(Scalars, 2)}

ScalarTypes == {Co!Scalar(kind) : kind \in {"Any", "bool", "int", "float", "str"}}

MCPyTypes == ScalarTypes \union
    {Co!Generic(kind, elem) :
        kind \in {"list", "tuple", "set", "dict"},
        elem \in ScalarTypes \union {Co!Generic("list", Co!Scalar("int"))}}

\* No call runs, and a value is coerced.
IdleScenarios == {Scenario([c \in Calls |-> NoJob], << >>, FALSE)}

MCScenarios ==
    {TextScenarios, ReplyScenarios, PromptScenarios, TableScenarios, IdleScenarios}
=============================================================================
