--------------------------- MODULE AnthropicStream ---------------------------
(***************************************************************************)
(* The Anthropic Messages adapter (src/ai/apis/anthropic/anthropic.go).    *)
(* slots is the list blocks, in step with content: the index the server    *)
(* gave each block.                                                        *)
(***************************************************************************)
EXTENDS AdapterStream

Init == InitWith("anthropic", <<>>)

\* A key, or a header of the caller's own, authorizes.
SetUp == Prepare
Request == Send(<<Begin>>)

\* findBlock: the first block that has the index, or 0.
FindBlock(i) ==
    LET found == {p \in DOMAIN slots : slots[p] = i}
    IN  IF found = {} THEN 0 ELSE CHOOSE p \in found : \A q \in found : p <= q

\* applyUsage aside, message_start only marks the beginning.
MessageStart ==
    /\ Reading
    /\ mark' = IF mark = "complete" THEN mark ELSE "begun"
    /\ rude' = (rude \/ mark # "none")
    /\ Keep(<<>>, content, slots, stop)

\* Redacted thinking arrives whole, and a tool call may bring arguments along.
NewBlocks == {Block("text", 0), Block("thinking", 0), Block("thinking", 1), Block("toolCall", 0), Block("toolCall", 1)}

AllEnded == \A p \in DOMAIN content : Ended(p)

ContentBlockStart ==
    /\ Reading
    /\ \E i \in Indexes, b \in NewBlocks :
          /\ Keep(<<Start(b, Len(content) + 1)>>, Append(content, b), Append(slots, i), stop)
          /\ rude' = (rude \/ mark # "begun" \/ FindBlock(i) # 0 \/ ~AllEnded \/ b = Block("toolCall", 1))
    /\ UNCHANGED mark

\* Deltas of another kind than their block's, and for no block, are ignored; a
\* signature is kept but pushes nothing.
ContentBlockDelta ==
    /\ Reading
    /\ \E i \in Indexes :
          LET p == FindBlock(i)
          IN  /\ p # 0
              /\ Keep(<<Delta(content[p], p)>>, Grow(p), slots, stop)
              /\ rude' = (rude \/ Ended(p))
    /\ UNCHANGED mark

\* The arguments of a tool call are parsed again, from its deltas alone.
Settled(p) ==
    IF content[p].kind = "toolCall" THEN Block("toolCall", Cardinality(EventsOf("delta", p))) ELSE content[p]

ContentBlockStop ==
    /\ Reading
    /\ \E i \in Indexes :
          LET p == FindBlock(i)
          IN  /\ p # 0
              /\ Keep(<<End(Settled(p), p)>>, [content EXCEPT ![p] = Settled(p)], slots, stop)
              /\ rude' = (rude \/ Ended(p))
    /\ UNCHANGED mark

\* mapStopReason: nil stands for a reason it has no name for.
StopReasonOf == [end_turn |-> "stop", pause_turn |-> "stop", stop_sequence |-> "stop", max_tokens |-> "length",
                 tool_use |-> "toolUse", refusal |-> "error", sensitive |-> "error", other |-> "nil"]

MessageDelta ==
    /\ Reading
    /\ \E r \in DOMAIN StopReasonOf :
          \/ StopReasonOf[r] = "nil" /\ Fail
          \/ /\ StopReasonOf[r] # "nil"
             /\ Keep(<<>>, content, slots, StopReasonOf[r])
             /\ rude' = (rude \/ ~AllEnded)
             /\ UNCHANGED mark

MessageStop ==
    /\ Reading
    /\ mark' = "complete"
    /\ rude' = (rude \/ ~AllEnded \/ mark # "begun")
    /\ Keep(<<>>, content, slots, stop)

\* An error event, or one that does not parse even after a repair.
Garbled == Reading /\ Fail

\* The answer ended; a message that began must have been completed.
EndOfStream ==
    /\ phase = "decode"
    /\ IF mark = "begun" THEN Fail ELSE ConcludeAfter(<<>>, stop) /\ UNCHANGED content

Frames ==
    \/ MessageStart \/ ContentBlockStart \/ ContentBlockDelta \/ ContentBlockStop
    \/ MessageDelta \/ MessageStop \/ Garbled \/ EndOfStream
Run == SetUp \/ Request \/ Frames
=============================================================================
