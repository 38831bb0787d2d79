--------------------------- MODULE JsonExtraction ----------------------------
(***************************************************************************)
(* How the executor finds the JSON in what a backend returns               *)
(* (runtime/executor.py, _extract_json).  A text is a sequence of symbols: *)
(* brackets, quotes and the like, and "word" for any other run of          *)
(* characters.  Commas and colons are elided and there are no numbers, so  *)
(* that {"a": "b"} is written { quote word quote quote word quote }.       *)
(***************************************************************************)
EXTENDS Naturals, Sequences, FiniteSets, SequencesExt, FiniteSetsExt

Symbols == {"{", "}", "[", "]", "quote", "backslash", "word", "newline", "fence"}

\* A word begins with a slash, which an escape leaves as it is.
Escapable == {"quote", "backslash", "word"}

\* A JSON value: its text without newlines; of a string what it says, of an object
\* its members, each as a key and the kind of the value.
NoValue == [kind |-> "none", text |-> << >>, says |-> << >>, members |-> {}]

EmptyObject == [NoValue EXCEPT !.kind = "object", !.text = <<"{", "}">>]

\* The elements that pass the test, in order (SelectSeq, which proofs cannot unfold).
Selected(s, Test(_)) == FlattenSeq([i \in DOMAIN s |-> IF Test(s[i]) THEN <<s[i]>> ELSE << >>])

-----------------------------------------------------------------------------
\* json.loads, a symbol at a time.  `open` is a stack: "[", or for an object "{"
\* where a key or the end is next and ":" where a value is.

Reader ==
    [state |-> "value", open |-> << >>, says |-> << >>, key |-> << >>,
     kind |-> "none", members |-> {}]

Bad(r) == [r EXCEPT !.state = "bad"]

\* r after a whole value of the kind.
Completed(r, kind) ==
    LET put == {member \in r.members : member[1] # r.key} \union {<<r.key, kind>>}
        top == r.open # << >>
    IN
    CASE ~top -> [r EXCEPT !.state = "end", !.kind = kind]
      [] top /\ Last(r.open) = "[" -> [r EXCEPT !.state = "value"]
      [] top /\ Last(r.open) = "{" ->
             [r EXCEPT !.state = "value", !.open = Append(Front(@), ":"),
                       !.key = IF Len(r.open) = 1 THEN r.says ELSE @]
      [] top /\ Last(r.open) = ":" ->
             [r EXCEPT !.state = "value", !.open = Append(Front(@), "{"),
                       !.members = IF Len(r.open) = 1 THEN put ELSE @]

InString(r, c) ==
    CASE c = "quote"     -> Completed(r, "string")
      [] c = "backslash" -> [r EXCEPT !.state = "escape"]
      [] c = "newline"   -> Bad(r)
      [] OTHER           -> [r EXCEPT !.says = Append(@, c)]

OutsideString(r, c) ==
    LET keyNext == r.open # << >> /\ Last(r.open) = "{"
        pop     == [r EXCEPT !.open = Front(@)]
    IN
    CASE c = "quote" -> [r EXCEPT !.state = "string", !.says = << >>]
      [] c \in {"{", "["} /\ ~keyNext -> [r EXCEPT !.open = Append(@, c)]
      [] c = "}" /\ keyNext -> Completed(pop, "object")
      [] c = "]" /\ r.open # << >> /\ Last(r.open) = "[" -> Completed(pop, "array")
      [] OTHER -> Bad(r)

ReadSymbol(r, c) ==
    CASE r.state = "bad"    -> r
      [] r.state = "string" -> InString(r, c)
      [] r.state = "escape" -> IF c \in Escapable
                               THEN [r EXCEPT !.state = "string", !.says = Append(@, c)]
                               ELSE Bad(r)
      [] r.state = "value"  -> IF c = "newline" THEN r ELSE OutsideString(r, c)
      [] r.state = "end"    -> IF c = "newline" THEN r ELSE Bad(r)

\* NoValue is the exception.
Loads(text) ==
    LET r == FoldLeft(ReadSymbol, Reader, text) IN
    IF r.state # "end" THEN NoValue
    ELSE [kind |-> r.kind, text |-> Selected(text, LAMBDA c : c # "newline"),
          says |-> IF r.kind = "string" THEN r.says ELSE << >>,
          members |-> IF r.kind = "object" THEN r.members ELSE {}]

\* A dict that json.dumps writes down and json.loads reads again.
IsDict(value) ==
    value.text \in Seq(Symbols) /\ value.kind = "object" /\ Loads(value.text) = value

-----------------------------------------------------------------------------
\* Extraction.

\* str.strip
Strip(text) ==
    LET kept == {i \in DOMAIN text : text[i] # "newline"} IN
    IF kept = {} THEN << >> ELSE SubSeq(text, Min(kept), Max(kept))

\* The inner loop of _find_top_level_json, from the bracket open on: only
\* brackets of its own sort are counted.  `length` is that of the balanced part.
ScanSymbol(s, c) ==
    LET t == [s EXCEPT !.read = @ + 1] IN
    CASE s.length > 0    -> s
      [] s.length = 0 /\ s.escaped    -> [t EXCEPT !.escaped = FALSE]
      [] s.length = 0 /\ ~s.escaped ->
         CASE c = "backslash" -> [t EXCEPT !.escaped = TRUE]
           [] c = "quote"     -> [t EXCEPT !.quoted = ~@]
           [] c = s.opens /\ ~s.quoted  -> [t EXCEPT !.depth = @ + 1]
           [] c = s.closes /\ ~s.quoted ->
                [t EXCEPT !.depth = @ - 1, !.length = IF s.depth = 1 THEN t.read ELSE 0]
           [] OTHER -> t

Scan(opens) ==
    [read |-> 0, length |-> 0, depth |-> 0, quoted |-> FALSE, escaped |-> FALSE,
     opens |-> opens, closes |-> IF opens = "{" THEN "}" ELSE "]"]

\* Mutant: brackets inside strings count.
BalancedUnquoted(text) ==
    FoldLeft(ScanSymbol, Scan(text[1]), ReplaceAll(text, "quote", "word")).length

Balanced(text) == FoldLeft(ScanSymbol, Scan(text[1]), text).length

\* The first bracket that is closed, up to where it is; << >> is None.
FindTopLevelJson(text) ==
    LET from(i) == SubSeq(text, i, Len(text))
        starts  == {i \in DOMAIN text : text[i] \in {"{", "["} /\ Balanced(from(i)) > 0}
    IN
    IF starts = {} THEN << >>
    ELSE SubSeq(from(Min(starts)), 1, Balanced(from(Min(starts))))

OrElse(value, other) == IF value # NoValue THEN value ELSE other

\* _extract_json on a str: all of it, what is inside the fences, the first candidate.
ExtractFromText(content) ==
    LET text    == Strip(content)
        newline == SelectInSeq(text, LAMBDA c : c = "newline")
        fence   == SelectLastInSeq(text, LAMBDA c : c = "fence")
        fenced  == text # << >> /\ Head(text) = "fence" /\ newline # 0 /\ fence > newline
        inner   == Strip(SubSeq(text, newline + 1, fence - 1))
    IN
    OrElse(Loads(text),
           IF fenced THEN OrElse(Loads(inner), Loads(FindTopLevelJson(inner)))
                     ELSE Loads(FindTopLevelJson(text)))

\* What LLMResponse.content may be.
Dict(value) == [type |-> "dict", value |-> value, text |-> << >>]
Text(text)  == [type |-> "str", value |-> NoValue, text |-> text]
Other       == [type |-> "other", value |-> NoValue, text |-> << >>]
\* A list; its elements are no text blocks, for which the symbols would not do.
List        == [type |-> "list", value |-> NoValue, text |-> << >>]

\* NoValue is the ParseError.
ExtractJson(content) ==
    CASE content.type = "dict"            -> content.value
      [] content.type \in {"str", "list"} -> ExtractFromText(content.text)
      [] content.type = "other"           -> NoValue
=============================================================================
