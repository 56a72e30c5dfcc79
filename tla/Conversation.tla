---------------------------- MODULE Conversation ----------------------------
(***************************************************************************)
(* A conversation that several models take part in, and the request any    *)
(* model would be sent for it at every moment: its turns (WireMessages)    *)
(* and its token limits (RequestOptions).                                  *)
(*                                                                         *)
(* The history grows as the caller of the library lets it grow: a user     *)
(* speaks or interrupts, models answer in turn, may fail and be asked      *)
(* again, and tools return when they are done, in any order, late, or      *)
(* never.                                                                  *)
(***************************************************************************)
EXTENDS WireMessages, RequestOptions, FiniteSets

CONSTANTS Models,       \* the models that a request may be for
          Speakers,     \* those of them that answer
          MaxMessages,  \* bound on the history
          Caps,         \* the caps that a caller may ask for
          Customs       \* the thinking budgets a caller may set

Apis == {"anthropic", "bedrock", "completions", "responses", "google", "mistral"}

\* Names tell models apart; a model may have no window or cap on record.
ASSUME ConversationAssumption ==
    /\ Speakers \subseteq Models
    /\ \A m, n \in Models : m.name = n.name => m = n
    /\ \A m \in Models : m.api \in Apis /\ m.window \in Int /\ m.maxTokens \in Nat /\ m.usage \in Nat
    /\ MaxMessages \in Nat /\ Caps \subseteq Nat
    /\ Customs \subseteq [{"minimal", "low", "medium", "high"} -> Nat \cup {Unset}]

VARIABLE history

\* What a user says, and what the tools return: the first one a picture.
Prompts == {<<Blank>>, <<Image, Image, Text>>}
Output(id) == IF id.n = 1 THEN <<Image>> ELSE <<Text>>

ConversationInit == history = <<User(<<Image, Image, Text>>)>>

Say(msg) == Len(history) < MaxMessages /\ history' = Append(history, msg)

CallsMade == {at \in (DOMAIN history) \X (1..2) : at[2] \in DOMAIN Calls(history[at[1]])}
CallAt(at) == Calls(history[at[1]])[at[2]]

UserSays == \E parts \in Prompts : Say(User(parts))

\* The shapes of answers, as the adapters decode them.
Signs(model) == model.api # "mistral"
SignsText(model) == model.api \in {"responses", "google"}
SignsCalls(model) == model.api \in {"google", "completions"}
By(model, signs) == IF signs THEN model.name ELSE Nobody

MadeCall(model, n) ==
    Call([n |-> n, form |-> IF model.api = "responses" THEN "piped" ELSE "plain"], By(model, SignsCalls(model)))

Answers(model) ==
    LET n == Cardinality(CallsMade) + 1
        signed == By(model, Signs(model))
    IN  { <<Part("thinking", FALSE, signed), Blank, Part("text", FALSE, By(model, SignsText(model)))>>,
          <<Part("thinking", TRUE, signed), MadeCall(model, n), MadeCall(model, n + 1)>> }
        \cup (IF model.api = "anthropic" THEN {<<Part("redacted", FALSE, signed)>>} ELSE {<<Part("thinking", FALSE, Nobody)>>})

\* A model is asked after the user, the tools, or an answer that failed.
ModelAnswers ==
    /\ history[Len(history)].role # "assistant" \/ Failed(history[Len(history)])
    /\ \E model \in Speakers : \E parts \in Answers(model) :
          \/ Say(Assistant(model, "ok", model.usage, parts))
          \/ /\ \E i \in DOMAIN parts : parts[i].kind = "call"
             /\ Say(Assistant(model, "failed", 0, parts))

Returned(id) == \E j \in DOMAIN history : history[j].role = "toolResult" /\ history[j].id = id

\* A tool runs for a call of an answer that did not fail, and returns once.
ToolReturns ==
    \E at \in CallsMade :
        /\ ~Failed(history[at[1]]) /\ ~Returned(CallAt(at).id)
        /\ Say(ToolResult(CallAt(at).id, Output(CallAt(at).id), TRUE))

ConversationNext == UserSays \/ ModelAnswers \/ ToolReturns

ConversationSpec == ConversationInit /\ [][ConversationNext]_history

-----------------------------------------------------------------------------
(* Properties                                                              *)

\* The tools' turns that follow turn t, up to the next one of the user or the
\* assistant.
Following(turns, t) ==
    {u \in t + 1..Len(turns) : \A v \in t + 1..u : turns[v].role \in {"results", "pictures"}}

ResultsFor(turns, t, id) ==
    {r \in UNION {{turns[u].parts[i] : i \in DOMAIN turns[u].parts} : u \in Following(turns, t)} :
        r.kind = "result" /\ r.id = id}

\* The tool of call n returned before anybody else spoke.
InTime(n) ==
    \E i \in DOMAIN history : \E c \in DOMAIN Calls(history[i]) :
        /\ Calls(history[i])[c].id.n = n
        /\ \E j \in i + 1..Len(history) :
              /\ history[j].role = "toolResult" /\ history[j].id.n = n
              /\ \A k \in i + 1..j : history[k].role = "toolResult"

\* "Provider APIs that require a result for every call still see one"
\* (transform.go, the comment on TransformMessages): whichever models took
\* part, whoever interrupted, every call a request carries is answered before
\* anybody else speaks, under the id the request gives it, by its real result
\* if there was one in time and else by a made-up one.
CallsAnswered ==
    \A model \in Models :
        LET turns == ConvertMessages(history, model)
        IN  \A t \in DOMAIN turns : turns[t].role = "assistant" =>
                \A i \in DOMAIN turns[t].parts : turns[t].parts[i].kind = "call" =>
                    LET id == turns[t].parts[i].id
                        results == ResultsFor(turns, t, id)
                    IN  IF InTime(id.n) THEN Cardinality(results) = 1 /\ \A r \in results : r.real
                        ELSE \E r \in results : ~r.real

Pictures(part) == part.kind = "image" \/ (part.kind = "result" /\ part.pictures)

\* A request carries nothing its model cannot take: no signature, encrypted
\* reasoning or stored item of another model, no picture for a model without
\* eyes, no blank text for the APIs that refuse it, and no turn without content
\* (convertMessages of the adapters).
NothingForeign ==
    \A model \in Models :
        LET turns == ConvertMessages(history, model)
        IN  \A t \in DOMAIN turns :
                /\ turns[t].parts # <<>>
                /\ \A i \in DOMAIN turns[t].parts :
                      LET part == turns[t].parts[i]
                      IN  /\ part.by \in {Nobody, model.name}
                          /\ Pictures(part) => Sees(model)
                          /\ part.kind = "redacted" => model.api = "anthropic"
                          /\ model.api \in {"anthropic", "bedrock"} => ~part.blank

\* What a request asks for fits: at least a token, unless the caller's cap or
\* the model's is none; no more than the context has left over the estimate and
\* the safety margin; and a thinking budget that leaves the answer
\* minOutputTokens of the cap or all of it, and that is no larger than the
\* caller's (StreamSimple, "would leave no room for output").
BudgetsFit ==
    history # <<>> =>
    LET estimate == EstimateContextTokens(history)
    IN  \A model \in Models, requested \in Caps \cup {Unset}, level \in Levels, custom \in Customs :
            LET options == StreamSimple(model, estimate, requested, level, custom)
            IN  /\ options.max >= 1 \/ 0 \in {requested, model.maxTokens}
                /\ model.window > 0 => options.max <= 1 \/ estimate + options.max + contextSafetyTokens <= model.window
                /\ (level # "off" /\ ThinksByBudget(model)) =>
                       /\ options.max <= Most(minMaxTokens, model.maxTokens)
                       /\ options.budget \in 0..LevelBudget(level, custom)
                       /\ options.max - options.budget >= Least(minOutputTokens, options.max)
=============================================================================
