--------------------------- MODULE BackendAdapters ---------------------------
(***************************************************************************)
(* What the backends make of a request and of a reply: the OpenAI and the  *)
(* Anthropic adapters, and the values of mock handlers.  Temperatures,     *)
(* limits, clients, usage and the streams are left out.                    *)
(***************************************************************************)
EXTENDS JsonExtraction

Roles == {"system", "user", "assistant"}

Message(role, content) == [role |-> role, content |-> content]

\* A provider's reply: the text of its text blocks, the input of its tool_use
\* block if that is a dict (else NoValue), and whether there is any choice at all.
Reply(text, input) == [text |-> text, input |-> input, choices |-> TRUE]
NoChoices == [text |-> << >>, input |-> NoValue, choices |-> FALSE]

-----------------------------------------------------------------------------
\* Requests.

OpenAIRequest(messages) == [system |-> << >>, turns |-> messages]

\* Mutant: an assistant message is taken for one of an unknown role.
AnthropicRequestUserOnly(messages) ==
    [system |-> Selected(messages, LAMBDA m : m.role # "user" /\ m.content # << >>),
     turns  |-> Selected(messages, LAMBDA m : m.role = "user")]

\* _messages_to_anthropic: the system messages that say something are one text
\* apart; the default text and the suffix that _request_kwargs adds are left out.
AnthropicRequest(messages) ==
    [system |-> Selected(messages, LAMBDA m : m.role = "system" /\ m.content # << >>),
     turns  |-> Selected(messages, LAMBDA m : m.role # "system")]

RequestTo(backend, messages) ==
    IF backend = "anthropic" THEN AnthropicRequest(messages) ELSE OpenAIRequest(messages)

\* In a conversation the assistant speaks after the user only, and one turn of the
\* user has no answer: the question.
Conversation(turns) ==
    LET answered(i) == i < Len(turns) /\ turns[i + 1].role = "assistant" IN
    /\ \A i \in DOMAIN turns :
         turns[i].role = "assistant" => i > 1 /\ turns[i - 1].role = "user"
    /\ \E question \in DOMAIN turns :
         /\ turns[question].role = "user"
         /\ \A i \in DOMAIN turns : turns[i].role = "user" => (answered(i) <=> i # question)

-----------------------------------------------------------------------------
\* Replies.

\* _response_from_openai.
OpenAIContent(reply) == Text(reply.text)

\* A decoded value as the executor is given it: a string is text once more.
AsContent(value) ==
    CASE value.kind = "object" -> Dict(value)
      [] value.kind = "string" -> Text(value.says)
      [] OTHER -> List

\* The lines between the fences, the last of which may be missing.
StripFences(text) ==
    LET newline == SelectInSeq(text, LAMBDA c : c = "newline")
        rest    == IF newline = 0 THEN << >> ELSE SubSeq(text, newline + 1, Len(text))
        last    == SelectLastInSeq(rest, LAMBDA c : c = "newline")
        closed  == last < Len(rest) /\ rest[last + 1] = "fence"
    IN
    Strip(IF closed THEN SubSeq(rest, 1, last) ELSE rest)

Undressed(text) ==
    IF Strip(text) # << >> /\ Head(Strip(text)) = "fence" THEN StripFences(Strip(text))
    ELSE Strip(text)

\* Mutant: what cannot be decoded is an empty object too.
AnthropicTextOrEmpty(text) ==
    LET value == Loads(Undressed(text)) IN
    IF value # NoValue THEN AsContent(value) ELSE Dict(EmptyObject)

\* The text of a message: decoded if it can be, an empty object if there is none.
AnthropicText(text) ==
    LET value == Loads(Undressed(text)) IN
    IF Undressed(text) = << >> THEN Dict(EmptyObject)
    ELSE IF value # NoValue THEN AsContent(value) ELSE Text(text)

\* _response_from_anthropic: the input of the tool wins over the text.
AnthropicContent(reply) ==
    IF reply.input # NoValue THEN Dict(reply.input) ELSE AnthropicText(reply.text)

\* MockBackend._materialise on a dict or a str: with force_string_output a dict
\* is sent as its JSON text.
Materialise(row, forceString) ==
    IF row.type = "dict" /\ forceString THEN Text(row.value.text) ELSE row

\* What `complete` returns, unless it raises for want of a choice.
ContentOf(backend, reply) ==
    IF backend = "anthropic" THEN AnthropicContent(reply) ELSE OpenAIContent(reply)
=============================================================================
