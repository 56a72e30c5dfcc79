------------------------------- MODULE Adapters -------------------------------
(***************************************************************************)
(* All API adapters behind one contract: the event protocol of             *)
(* src/ai/events.go, whatever the server sends and whenever the request is *)
(* cancelled.  One request to one adapter, chosen in the initial state.    *)
(***************************************************************************)
EXTENDS AdapterStream

CONSTANT Canned

\* A test queues well-formed messages, with any stop reason.
ASSUME CannedAssumption ==
    \A m \in Canned : m \in [content : Seq([kind : Kinds \ {"reasoning"}, text : Nat]), stop : Reasons \cup {"aborted"}]

Anthropic == INSTANCE AnthropicStream
Responses == INSTANCE ResponsesStream
Completions == INSTANCE CompletionsStream
Google == INSTANCE GoogleStream
Mistral == INSTANCE MistralStream
Bedrock == INSTANCE BedrockStream
Faux == INSTANCE FauxStream

Init ==
    \/ Anthropic!Init \/ Responses!Init \/ Completions!Init
    \/ Google!Init \/ Mistral!Init \/ Bedrock!Init \/ Faux!Init

Runs ==
    \/ adapter = "anthropic" /\ Anthropic!Run
    \/ adapter = "openai-responses" /\ (Responses!Run \/ Responses!RunAzure)
    \/ adapter = "openai-completions" /\ Completions!Run
    \/ adapter = "google" /\ (Google!Run \/ Google!RunVertex)
    \/ adapter = "mistral" /\ Mistral!Run
    \/ adapter = "bedrock" /\ Bedrock!Run

Broken == adapter # "faux" /\ BodyBreaks
Replay == adapter = "faux" /\ Faux!Run

Next == Runs \/ Broken \/ Replay \/ Cancel

\* The goroutine of a request runs; waiting for the server ends with the context, and
\* for nothing else.
Fairness == WF_vars(ctx /\ phase # "decode" /\ Runs) /\ WF_vars(ctx /\ Broken) /\ WF_vars(Replay)

Spec == Init /\ [][Next]_vars /\ Fairness

-----------------------------------------------------------------------------
(* Properties                                                              *)

StartsOf(p) == EventsOf("start", p)
TerminalAt(i) == log[i].type \in {"done", "error"}
Polite == ~rude
Finished == log # <<>> /\ log[Len(log)].type = "done"

\* Bedrock passes on the start of its server; the other adapters push it themselves.
OwnStart == adapter # "bedrock"
Opened(e) ==
    \/ e.type \in {"start", "delta", "end"} /\ (Polite \/ OwnStart)
    \/ e.type = "done" /\ OwnStart

\* The event protocol (the comment on Event in src/ai/events.go) against any server.
\* One terminal event at most, and nothing after it; blocks start once each, in the order
\* of the content and with its kinds; what extends or ends a block comes after its start
\* and names its kind.  The start event comes once and before all else but a failure: with
\* Bedrock as far as its server keeps to its own protocol, and not before a done (see
\* StartBeforeDone).  With such a server no block is touched after its end.
ProtocolKept ==
    /\ \A i \in DOMAIN log :
          /\ TerminalAt(i) => i = Len(log)
          /\ Opened(log[i]) => \E j \in 1..(i - 1) : log[j] = Begin
          /\ log[i].type \in {"delta", "end"} => \E j \in 1..(i - 1) : log[j].type = "start" /\ log[j].at = log[i].at /\ log[j].kind = log[i].kind
          /\ log[i].type = "end" /\ Polite => \A j \in (i + 1)..Len(log) : log[j].at # log[i].at
    /\ Polite \/ OwnStart => Cardinality({i \in DOMAIN log : log[i] = Begin}) <= 1
    /\ \A p \in DOMAIN content : \E i \in StartsOf(p) : log[i].kind = content[p].kind
    /\ \A i \in DOMAIN log : log[i].type = "start" =>
          /\ log[i].at \in DOMAIN content
          /\ \A j \in 1..(i - 1) : log[j].type = "start" => log[j].at < log[i].at

\* A request ends as done only with a whole answer.  If the server kept to its
\* protocol every block has ended (Bedrock's decoder does not miss a message stop, and
\* takes an answer cut off before it for complete); the OpenAI adapters insist on the end
\* mark, and Anthropic's on that of a message that began; and where the adapter itself
\* decides, tool calls in the content make a tool use of what would pass for an
\* ordinary stop.
DoneIsComplete ==
    Finished =>
        /\ Polite /\ (adapter = "bedrock" => mark = "complete") => \A p \in DOMAIN content : Ended(p)
        /\ adapter \in {"openai-responses", "openai-completions"} => mark = "complete"
        /\ adapter = "anthropic" => mark = "complete" \/ (Polite => content = <<>>)
        /\ adapter \in {"openai-responses", "google"} /\ Polite /\ mark = "complete" /\ HasToolCall(content) =>
              log[Len(log)].kind # "stop"

\* What a block is at its end is what it started with and the deltas in between:
\* accumulating deltas gives the same message as waiting for the end events.
\* (Responses reasoning is left out: its end says the summary, which need not be what was
\* streamed.)
EndCarriesDeltas ==
    Polite => \A i \in DOMAIN log :
        LET before == {j \in 1..(i - 1) : log[j].at = log[i].at}
            start == CHOOSE j \in before : log[j].type = "start"
        IN  log[i].type = "end" =>
                \/ log[i].kind = "reasoning"
                \/ log[i].text = log[start].text + Cardinality({j \in before : log[j].type = "delta"})

\* "A stream emits `start` first" (the comment on Event in src/ai/events.go), asked of the
\* answers that end well.
StartBeforeDone == Finished => log[1] = Begin

\* A cancelled request gets its terminal event, however silent the server is, unless
\* a server that broke its protocol crashed the decoder.
Terminates == ctx ~> (phase = "crashed" \/ (log # <<>> /\ TerminalAt(Len(log))))
=============================================================================
