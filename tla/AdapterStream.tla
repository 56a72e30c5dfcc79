---------------------------- MODULE AdapterStream ----------------------------
(***************************************************************************)
(* What the API adapters (src/ai/apis) share: one request, run by one      *)
(* goroutine that sets the request up, sends it, decodes the answer event  *)
(* by event while it pushes its own events, and concludes with a terminal  *)
(* event.  Each adapter's module EXTENDS this one with its decoder.        *)
(*                                                                         *)
(* A piece of text, thinking or arguments is one fragment: content[i].text *)
(* counts the fragments a block holds.  The server is the environment: it  *)
(* may send anything at any time.  rude records that it broke the order    *)
(* its own protocol promises, which no adapter can rely on to go unharmed. *)
(***************************************************************************)
EXTENDS Naturals, Sequences, FiniteSets

CONSTANTS MaxEvents,  \* the server sends nothing more once so many events are pushed
          Indexes     \* the indexes, keys or ids by which the server names its blocks

VARIABLES adapter,    \* which adapter serves the request
          phase,
          ctx,        \* the context of the request is done
          content,    \* output.Content
          stop,       \* output.StopReason
          slots,      \* how the decoder finds the block an event is about
          mark,       \* whether the answer has begun, and whether its end mark came
          log,        \* the events pushed to the stream
          rude

vars == <<adapter, phase, ctx, content, stop, slots, mark, log, rude>>

\* "reasoning" is the thinking of the Responses API, whose end may say another text than
\* was streamed.
Kinds == {"text", "thinking", "reasoning", "toolCall"}
Reasons == {"stop", "length", "toolUse", "error"}

Event(type, kind, at, text) == [type |-> type, kind |-> kind, at |-> at, text |-> text]
Begin == Event("begin", "none", 0, 0)
Start(b, at) == Event("start", b.kind, at, b.text)
Delta(b, at) == Event("delta", b.kind, at, 1)
End(b, at) == Event("end", b.kind, at, b.text)
Terminal(type, reason) == Event(type, reason, 0, 0)

\* output as run starts it, and the decoder's own table.
InitWith(name, table) ==
    /\ adapter = name
    /\ phase = "setup"
    /\ ctx = FALSE
    /\ content = <<>>
    /\ stop = "stop"
    /\ slots = table
    /\ mark = "none"
    /\ log = <<>>
    /\ rude = FALSE

-----------------------------------------------------------------------------
(* The skeleton of every run                                               *)

Emit(events) == log' = log \o events

\* fail: an error event, which blames the caller if its context is done by now.
FailAfter(events) ==
    /\ Emit(Append(events, Terminal("error", IF ctx THEN "aborted" ELSE "error")))
    /\ phase' = "closed"
    /\ UNCHANGED <<adapter, ctx, stop, slots, mark, rude>>
Fail == FailAfter(<<>>) /\ UNCHANGED content

\* The end of the answer: a done event, unless the context is done or the answer's
\* own stop reason is an error.  reason is the stop reason by then.
ConcludeAfter(events, reason) ==
    IF ctx \/ reason = "error"
    THEN FailAfter(events)
    ELSE /\ Emit(Append(events, Terminal("done", reason)))
         /\ phase' = "closed"
         /\ UNCHANGED <<adapter, ctx, stop, slots, mark, rude>>

Goto(p) == phase' = p /\ UNCHANGED <<adapter, ctx, content, stop, slots, mark, rude>>

\* Credentials, payload hook and marshalling may each fail a request.
Prepare ==
    /\ phase = "setup"
    /\ Fail \/ (Goto("request") /\ UNCHANGED log)

\* The request fails, or it is answered and the events in opening are pushed.
Send(opening) ==
    /\ phase = "request"
    /\ Fail \/ (Goto("decode") /\ Emit(opening))

\* The bound on a server that broke its protocol is tighter by two.
Reading == phase = "decode" /\ Len(log) < IF rude THEN MaxEvents - 2 ELSE MaxEvents

\* Mutated BodyBreaks: the error is dropped, and the stream is left without a terminal event.
BodyBreaksSilently == phase = "decode" /\ Goto("closed") /\ UNCHANGED log

\* The body cannot be read on: a broken connection, a done context.
BodyBreaks == phase = "decode" /\ Fail

Cancel ==
    /\ phase # "closed" /\ ~ctx
    /\ ctx' = TRUE
    /\ UNCHANGED <<adapter, phase, content, stop, slots, mark, log, rude>>

-----------------------------------------------------------------------------
(* Decoder steps                                                           *)

\* The decoder keeps reading; what it pushed, its blocks, table and stop reason are
\* as the step says.
Keep(events, blocks, table, reason) ==
    /\ Emit(events)
    /\ content' = blocks
    /\ slots' = table
    /\ stop' = reason
    /\ UNCHANGED <<adapter, phase, ctx>>

Block(kind, text) == [kind |-> kind, text |-> text]
Grow(at) == [content EXCEPT ![at].text = @ + 1]

EventsOf(type, at) == {i \in DOMAIN log : log[i].type = type /\ log[i].at = at}
Ended(at) == EventsOf("end", at) # {}
ToolCalls == {p \in DOMAIN content : content[p].kind = "toolCall"}

\* The positions in S in increasing order: a set of one sequence.
InOrder(S) == {s \in [1..Cardinality(S) -> S] : \A i, j \in DOMAIN s : i < j => s[i] < s[j]}

HasToolCall(blocks) == \E i \in DOMAIN blocks : blocks[i].kind = "toolCall"
=============================================================================
