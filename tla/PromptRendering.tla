--------------------------- MODULE PromptRendering ---------------------------
(***************************************************************************)
(* How a prompt is rendered (core/prompt.py).  A text is a sequence of     *)
(* braces, names and "word", which stands for text that is no identifier;  *)
(* the placeholder {x} is <<"{", "x", "}">>.  An argument's value is the    *)
(* text that it is formatted to.                                           *)
(***************************************************************************)
EXTENDS Naturals, Sequences, FiniteSets, SequencesExt

CONSTANT Names      \* the identifiers of the texts

Braces == {"{", "}"}
Tokens == Names \union Braces \union {"word"}

ASSUME NamesAssumption == Names \intersect Braces = {}

\* What arguments, extra context and an exemplar's input are.
IsValues(values) ==
    /\ DOMAIN values \subseteq Names /\ IsFiniteSet(DOMAIN values)
    /\ \A name \in DOMAIN values : values[name] \in Seq(Tokens)

IsFunction(fn) ==
    /\ {fn.system_template, fn.docstring, fn.prompt_template} \subseteq Seq(Tokens)
    /\ fn.few_shots \in Seq(ToSet(fn.few_shots)) /\ \A shot \in ToSet(fn.few_shots) : IsValues(shot)
    /\ fn.max_retries \in Nat

\* An exception of str.format_map.
Raises == <<"raises">>

\* placeholder_re, by the place of the brace that opens it.
Placeholders(template) ==
    {i \in 1..(Len(template) - 2) :
        template[i] = "{" /\ template[i + 1] \in Names /\ template[i + 2] = "}"}

Inside(i, template) == \E p \in Placeholders(template) : i \in p..(p + 2)

-----------------------------------------------------------------------------
\* The first pass: values are put in as they are, all other braces are doubled.

\* Mutant: the braces of the template are not doubled.
DoubledNot(c) == <<c>>

Doubled(c) == IF c \in Braces THEN <<c, c>> ELSE <<c>>

Substituted(template, context) ==
    LET piece(i) ==
          IF i \in Placeholders(template)
          THEN LET name == template[i + 1] IN
               IF name \in DOMAIN context THEN context[name] ELSE <<"{", name, "}">>
          ELSE IF Inside(i, template) THEN << >> ELSE Doubled(template[i])
    IN
    FlattenSeq([i \in DOMAIN template |-> piece(i)])

-----------------------------------------------------------------------------
\* The second pass: str.format_map, over the values of the first as well.

Formatter == [out |-> << >>, at |-> "text", field |-> << >>]

FormatSymbol(s, c, map) ==
    LET Write(t) == [s EXCEPT !.out = @ \o t, !.at = "text"]
        failed   == [s EXCEPT !.at = "failed"]
    IN
    CASE s.at = "failed" -> s
      [] s.at = "text"  -> CASE c = "{" -> [s EXCEPT !.at = "open", !.field = << >>]
                             [] c = "}" -> [s EXCEPT !.at = "close"]
                             [] OTHER   -> Write(<<c>>)
      [] s.at = "close" -> IF c = "}" THEN Write(<<c>>) ELSE failed
      [] s.at \in {"open", "field"} ->
           CASE c = "{" -> IF s.at = "open" THEN Write(<<c>>) ELSE failed
             [] c = "}" -> IF Len(s.field) = 1 /\ s.field[1] \in DOMAIN map
                           THEN Write(map[s.field[1]]) ELSE failed
             [] OTHER   -> [s EXCEPT !.at = "field", !.field = Append(@, c)]

Format(text, map) ==
    LET end == FoldLeft(LAMBDA s, c : FormatSymbol(s, c, map), Formatter, text) IN
    IF end.at = "text" THEN end.out ELSE Raises

\* _safe_format: the placeholders that nothing is known for stand for themselves.
SafeFormat(template, context) ==
    LET unknown == {template[p + 1] : p \in Placeholders(template)} \ DOMAIN context
        safe    == [name \in unknown \union DOMAIN context |->
                       IF name \in unknown THEN <<"{", name, "}">> ELSE context[name]]
    IN
    Format(Substituted(template, context), safe)

-----------------------------------------------------------------------------
\* render_prompt.

\* dict.update
Updated(values, others) ==
    [name \in DOMAIN values \union DOMAIN others |->
        IF name \in DOMAIN others THEN others[name] ELSE values[name]]

\* _bind_args, and extra_context over it.
Context(args, extra) == Updated(args, extra)

\* The lines "- name: value", for names and values in some order.
Lines(values) ==
    LET names == SetToSeq(DOMAIN values) IN
    FlattenSeq([i \in DOMAIN names |-> <<names[i]>> \o values[names[i]]])

\* A template that is empty is none.  The schema's part, the same for every call of
\* a function, is left out.
SystemContent(fn, context) ==
    IF fn.system_template # << >> THEN SafeFormat(fn.system_template, context)
    ELSE fn.docstring

UserContent(fn, args, extra) ==
    IF fn.prompt_template # << >> THEN SafeFormat(fn.prompt_template, Context(args, extra))
    ELSE IF args = << >> THEN fn.docstring ELSE Lines(args)

\* An exemplar's input comes before the arguments; its output is dumped as JSON.
Exemplar(fn, context, shot) ==
    <<[role |-> "user",
       content |-> IF fn.prompt_template # << >>
                   THEN SafeFormat(fn.prompt_template, Updated(context, shot)) ELSE Lines(shot)],
      [role |-> "assistant", content |-> <<"word">>]>>

\* The messages in the order they are sent in: the exemplars after the question.
RenderPrompt(fn, args, extra) ==
    <<[role |-> "system", content |-> SystemContent(fn, Context(args, extra))],
      [role |-> "user", content |-> UserContent(fn, args, extra)]>>
    \o FlattenSeq([i \in DOMAIN fn.few_shots |->
            Exemplar(fn, Context(args, extra), fn.few_shots[i])])

RenderRaises(messages) == \E i \in DOMAIN messages : messages[i].content = Raises
=============================================================================
