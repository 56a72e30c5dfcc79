---------------------------- MODULE BedrockStream ----------------------------
(***************************************************************************)
(* The Bedrock adapter (src/ai/apis/bedrock).  slots is indexOf: the block *)
(* of each contentBlockIndex, never forgotten.                             *)
(***************************************************************************)
EXTENDS AdapterStream

Init == InitWith("bedrock", [i \in Indexes |-> 0])

\* There is no key to ask for: the SDK client finds its own credentials, or fails.
SetUp == Prepare

\* The start event waits for the server's own.
Request == Send(<<>>)

Begun == \E i \in DOMAIN log : log[i].type = "begin"

MessageStart ==
    /\ Reading
    /\ Keep(<<Begin>>, content, slots, stop)
    /\ rude' = (rude \/ Begun)
    /\ UNCHANGED mark

New == Len(content) + 1

\* Content outside of the message.
Outside == ~Begun \/ mark # "none"

\* Only tool calls are announced.
ContentBlockStart ==
    /\ Reading
    /\ \E i \in Indexes :
          /\ Keep(<<Start(Block("toolCall", 0), New)>>, Append(content, Block("toolCall", 0)), [slots EXCEPT ![i] = New], stop)
          /\ rude' = (rude \/ Outside \/ slots[i] # 0)
    /\ UNCHANGED mark

DeltaKinds == {"text", "thinking", "toolCall"}

\* A delta starts its block when there is none.  A delta of another kind than the
\* block's fails a type assertion, and the process with it.
ContentBlockDelta ==
    /\ Reading
    /\ \E i \in Indexes, kind \in DeltaKinds :
          \/ /\ slots[i] = 0
             /\ Keep(<<Start(Block(kind, 0), New), Delta(Block(kind, 0), New)>>, Append(content, Block(kind, 1)),
                     [slots EXCEPT ![i] = New], stop)
             /\ rude' = (rude \/ Outside)
          \/ /\ slots[i] # 0 /\ content[slots[i]].kind = kind
             /\ Keep(<<Delta(content[slots[i]], slots[i])>>, Grow(slots[i]), slots, stop)
             /\ rude' = (rude \/ Ended(slots[i]))
          \/ /\ slots[i] # 0 /\ content[slots[i]].kind # kind
             /\ phase' = "crashed" /\ rude' = TRUE
             /\ UNCHANGED <<adapter, ctx, content, stop, slots, log>>
    /\ UNCHANGED mark

\* A signature, or redacted reasoning, may be the first of its block: no delta is pushed.
SignatureDelta ==
    /\ Reading
    /\ \E i \in Indexes :
          /\ slots[i] = 0
          /\ Keep(<<Start(Block("thinking", 0), New)>>, Append(content, Block("thinking", 0)), [slots EXCEPT ![i] = New], stop)
          /\ rude' = (rude \/ Outside)
    /\ UNCHANGED mark

ContentBlockStop ==
    /\ Reading
    /\ \E i \in Indexes :
          /\ slots[i] # 0
          /\ Keep(<<End(content[slots[i]], slots[i])>>, content, slots, stop)
          /\ rude' = (rude \/ Ended(slots[i]))
    /\ UNCHANGED mark

\* mapStopReason
StopReasonOf == [end_turn |-> "stop", max_tokens |-> "length", tool_use |-> "toolUse", guardrail |-> "error"]

AllEnded == \A p \in DOMAIN content : Ended(p)

MessageStop ==
    /\ Reading
    /\ \E r \in DOMAIN StopReasonOf : Keep(<<>>, content, slots, StopReasonOf[r])
    /\ mark' = "complete"
    /\ rude' = (rude \/ ~AllEnded \/ ~Begun)

\* The channel of events is closed, and stream.Err() is nil.
EndOfStream ==
    /\ phase = "decode"
    /\ ConcludeAfter(<<>>, stop)
    /\ UNCHANGED content

Frames ==
    \/ MessageStart \/ ContentBlockStart \/ ContentBlockDelta \/ SignatureDelta \/ ContentBlockStop
    \/ MessageStop \/ EndOfStream
Run == SetUp \/ Request \/ Frames
=============================================================================
