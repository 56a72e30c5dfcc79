------------------------------ MODULE FauxStream ------------------------------
(***************************************************************************)
(* The faux provider (src/ai/providers/faux/faux.go), which replays canned *)
(* messages.  slots holds the message of this call, how many of its blocks *)
(* are done, and how many fragments of the next one are sent.              *)
(***************************************************************************)
EXTENDS AdapterStream

CONSTANT Canned   \* the messages a test may queue: a sequence of blocks and a stop reason

Nothing == [content |-> <<>>, stop |-> "stop"]
At(message, done, sent) == [message |-> message, done |-> done, sent |-> sent]

Init == InitWith("faux", At(Nothing, 0, 0))

\* fail: an error event, whatever the context.
FauxFail == Emit(<<Terminal("error", "error")>>) /\ phase' = "closed" /\ UNCHANGED <<adapter, ctx, content, stop, slots, mark, rude>>

\* The partial message as far as it got.
Abort ==
    /\ ctx
    /\ Emit(<<Terminal("error", "aborted")>>) /\ phase' = "closed"
    /\ UNCHANGED <<adapter, ctx, content, stop, slots, mark, rude>>

\* stream: nothing queued, OnResponse or the factory may refuse.
Respond ==
    /\ phase = "setup"
    /\ \/ FauxFail
       \/ \E m \in Canned : slots' = At(m, 0, 0) /\ phase' = "request" /\ UNCHANGED <<adapter, ctx, content, stop, mark, log, rude>>

\* streamWithDeltas up to its first block.
Open ==
    /\ phase = "request"
    /\ Abort \/ (~ctx /\ Emit(<<Begin>>) /\ phase' = "decode" /\ UNCHANGED <<adapter, ctx, content, stop, slots, mark, rude>>)

Current == slots.message.content[slots.done + 1]
More == phase = "decode" /\ slots.done < Len(slots.message.content)
InBlock == More /\ Len(content) > slots.done
here == slots.done + 1

StartBlock ==
    /\ More /\ ~InBlock
    /\ \/ Abort
       \/ ~ctx /\ Keep(<<Start(Block(Current.kind, 0), here)>>, Append(content, Block(Current.kind, 0)), slots, stop) /\ UNCHANGED <<mark, rude>>

\* scheduleChunk sleeps, if the provider is paced: the chunk may win over a context
\* that is done.  Without a pace the context is looked at first.
SendChunk ==
    /\ InBlock /\ slots.sent < Current.text
    /\ \/ Abort
       \/ Keep(<<Delta(content[here], here)>>, Grow(here), [slots EXCEPT !.sent = @ + 1], stop) /\ UNCHANGED <<mark, rude>>

EndBlock ==
    /\ InBlock /\ slots.sent = Current.text
    /\ Keep(<<End(Current, here)>>, [content EXCEPT ![here] = Current], At(slots.message, here, 0), stop)
    /\ UNCHANGED <<mark, rude>>

\* The context is not looked at again.
Finish ==
    /\ phase = "decode" /\ slots.done = Len(slots.message.content)
    /\ LET reason == slots.message.stop
       IN  Emit(<<IF reason \in {"error", "aborted"} THEN Terminal("error", reason) ELSE Terminal("done", reason)>>)
    /\ phase' = "closed"
    /\ UNCHANGED <<adapter, ctx, content, stop, slots, mark, rude>>

Run == Respond \/ Open \/ StartBlock \/ SendChunk \/ EndBlock \/ Finish
=============================================================================
