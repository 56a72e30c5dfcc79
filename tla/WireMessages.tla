---------------------------- MODULE WireMessages ----------------------------
(***************************************************************************)
(* convertMessages of every adapter (src/ai/apis): the turns a request     *)
(* carries for a history.  A turn is of the user, of the assistant, of     *)
(* tool results, or of the pictures that came with a result.               *)
(*                                                                         *)
(* Left out are the turn's encoding, cache breakpoints, and the            *)
(* compatibility flags that only rename a field.  An Add... operator is    *)
(* what one round of an adapter's loop does with message i of msgs.        *)
(***************************************************************************)
EXTENDS TransformMessages

Turn(role, parts) == [role |-> role, parts |-> parts]
Skipped(role, parts) == IF parts = <<>> THEN <<>> ELSE <<Turn(role, parts)>>
Shown(parts) == Only(parts, {p \in Range(parts) : ~p.blank})
Sees(model) == "images" \in model.traits
Pictured(msg) == \E i \in DOMAIN msg.parts : msg.parts[i].kind = "image"
Unsigned(p) == [p EXCEPT !.by = Nobody]

Result(msg, id, pictures) ==
    [kind |-> "result", blank |-> FALSE, by |-> Nobody, real |-> msg.real, id |-> id, pictures |-> pictures]

\* A result goes into the turn of the results before it, if there is one.
Join(turns, joins, result) ==
    IF joins THEN Front(turns) \o <<Turn("results", Append(Last(turns).parts, result))>>
    ELSE Append(turns, Turn("results", <<result>>))

\* A run of tool results becomes one turn.
AfterResult(msgs, i) == i > 1 /\ msgs[i - 1].role = "toolResult"

-----------------------------------------------------------------------------
(* Anthropic and Bedrock                                                   *)

\* Thinking without its signature is sent as text; only thinking keeps one.
SignedOrText(p) ==
    CASE p.kind = "thinking" /\ p.by = Nobody -> Text
      [] p.kind \in {"text", "call"} -> Unsigned(p)
      [] OTHER -> p

ClaudeParts(parts) == [i \in DOMAIN Shown(parts) |-> SignedOrText(Shown(parts)[i])]

ClaudeResult(msg) == Result(msg, msg.id, Pictured(msg))

AddAnthropic(turns, msgs, i) ==
    LET msg == msgs[i]
    IN  CASE msg.role = "user" -> turns \o Skipped("user", Shown(msg.parts))
          [] msg.role = "assistant" -> turns \o Skipped("assistant", ClaudeParts(msg.parts))
          [] msg.role = "toolResult" -> Join(turns, AfterResult(msgs, i), ClaudeResult(msg))

\* Only Claude's thinking has signatures.
BedrockParts(parts, model) ==
    IF "claude" \in model.traits THEN ClaudeParts(parts)
    ELSE [i \in DOMAIN Shown(parts) |-> Unsigned(Shown(parts)[i])]

\* A user who says nothing says "<empty>".
BedrockUser(msg) == Turn("user", IF Shown(msg.parts) = <<>> THEN <<Text>> ELSE Shown(msg.parts))

AddBedrock(turns, msgs, i, model) ==
    LET msg == msgs[i]
    IN  CASE msg.role = "user" -> Append(turns, BedrockUser(msg))
          [] msg.role = "assistant" -> turns \o Skipped("assistant", BedrockParts(msg.parts, model))
          [] msg.role = "toolResult" -> Join(turns, AfterResult(msgs, i), ClaudeResult(msg))

-----------------------------------------------------------------------------
(* Completions                                                             *)

\* All thinking goes under the field that the signature of the first names, if
\* it has one; a turn is nothing without text or a call.
CompletionsParts(parts) ==
    LET shown == Shown(parts)
        thinking == Only(shown, {p \in Range(shown) : p.kind = "thinking"})
        unsigned == thinking # <<>> /\ thinking[1].by = Nobody
        said == Only(shown, {p \in Range(shown) : p.kind # "thinking"})
    IN  IF said = <<>> THEN <<>>
        ELSE IF unsigned THEN [i \in DOMAIN said |-> IF said[i].kind = "text" THEN Unsigned(said[i]) ELSE said[i]]
        ELSE [i \in DOMAIN shown |-> IF shown[i].kind = "text" THEN Unsigned(shown[i]) ELSE shown[i]]

CompletionsResult(msg) == Result(msg, msg.id, FALSE)

\* A toolResult -> user transition is bridged where the provider requires it.
Bridge(msgs, i, model) ==
    IF "bridge" \in model.traits /\ msgs[i].role = "user" /\ AfterResult(msgs, i)
    THEN <<Turn("assistant", <<Text>>)>>
    ELSE <<>>

AddCompletions(turns, msgs, i, model) ==
    LET msg == msgs[i]
    IN  CASE msg.role = "user" -> turns \o Bridge(msgs, i, model) \o <<Turn("user", msg.parts)>>
          [] msg.role = "assistant" -> turns \o Skipped("assistant", CompletionsParts(msg.parts))
          [] msg.role = "toolResult" -> Append(turns, Turn("results", <<CompletionsResult(msg)>>))

-----------------------------------------------------------------------------
(* The Responses family                                                    *)

\* A pair is split again; another model of the provider does not know the item.
SplitToolCallID(id) == IF id.form \in {"piped", "foreign"} THEN [id EXCEPT !.form = "call"] ELSE id

FunctionCall(call, model, source) ==
    Call(SplitToolCallID(call.id), IF call.id.form = "piped" /\ source = model THEN source.name ELSE Nobody)

\* Thinking is replayed as the item that its signature holds, or not at all.
ResponsesParts(parts, model, source) ==
    LET kept == Only(parts, {p \in Range(parts) : p.kind # "thinking" \/ p.by # Nobody})
    IN  [i \in DOMAIN kept |-> IF kept[i].kind = "call" THEN FunctionCall(kept[i], model, source) ELSE kept[i]]

ResponsesResult(msg, model) == Result(msg, SplitToolCallID(msg.id), Pictured(msg) /\ Sees(model))

AddResponses(turns, msgs, i, model) ==
    LET msg == msgs[i]
    IN  CASE msg.role = "user" -> turns \o Skipped("user", msg.parts)
          [] msg.role = "assistant" -> turns \o Skipped("assistant", ResponsesParts(msg.parts, model, msg.model))
          [] msg.role = "toolResult" -> Append(turns, Turn("results", <<ResponsesResult(msg, model)>>))

-----------------------------------------------------------------------------
(* Google and Mistral                                                      *)

\* The pictures of a result go inside it where the model takes them there; older
\* Gemini models see them in a turn of their own.
GoogleResult(msg, model) == Result(msg, msg.id, Pictured(msg) /\ Sees(model) /\ "nested" \in model.traits)

PictureTurns(msg, model) ==
    IF Pictured(msg) /\ Sees(model) /\ "nested" \notin model.traits
    THEN <<Turn("pictures", Only(msg.parts, {p \in Range(msg.parts) : p.kind = "image"}))>>
    ELSE <<>>

AddGoogle(turns, msgs, i, model) ==
    LET msg == msgs[i]
        joins == turns # <<>> /\ Last(turns).role = "results"
    IN  CASE msg.role = "user" -> turns \o Skipped("user", msg.parts)
          [] msg.role = "assistant" -> turns \o Skipped("assistant", Shown(msg.parts))
          [] msg.role = "toolResult" -> Join(turns, joins, GoogleResult(msg, model)) \o PictureTurns(msg, model)

MistralParts(parts) == [i \in DOMAIN Shown(parts) |-> Unsigned(Shown(parts)[i])]

MistralResult(msg, model) == Result(msg, msg.id, Pictured(msg) /\ Sees(model))

AddMistral(turns, msgs, i, model) ==
    LET msg == msgs[i]
    IN  CASE msg.role = "user" -> turns \o Skipped("user", msg.parts)
          [] msg.role = "assistant" -> turns \o Skipped("assistant", MistralParts(msg.parts))
          [] msg.role = "toolResult" -> Append(turns, Turn("results", <<MistralResult(msg, model)>>))

-----------------------------------------------------------------------------

AddMessage(turns, msgs, i, model) ==
    CASE model.api = "anthropic" -> AddAnthropic(turns, msgs, i)
      [] model.api = "bedrock" -> AddBedrock(turns, msgs, i, model)
      [] model.api = "completions" -> AddCompletions(turns, msgs, i, model)
      [] model.api = "responses" -> AddResponses(turns, msgs, i, model)
      [] model.api = "google" -> AddGoogle(turns, msgs, i, model)
      [] model.api = "mistral" -> AddMistral(turns, msgs, i, model)

ConvertMessages(history, model) ==
    LET msgs == TransformHistory(history, model)
        turns[i \in 0..Len(msgs)] == IF i = 0 THEN <<>> ELSE AddMessage(turns[i - 1], msgs, i, model)
    IN  turns[Len(msgs)]
=============================================================================
