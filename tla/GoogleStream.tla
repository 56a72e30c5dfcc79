----------------------------- MODULE GoogleStream -----------------------------
(***************************************************************************)
(* The Google adapter (src/ai/apis/google) and the Vertex adapter that     *)
(* reuses its decoder (src/ai/apis/google/vertex).  A chunk is read part   *)
(* by part.  slots is the current text or thinking block, or 0.            *)
(***************************************************************************)
EXTENDS AdapterStream

Init == InitWith("google", 0)

SetUp == Prepare
Request == Send(<<Begin>>)

\* Vertex takes an API key, or a project, a location and a token of the environment's
\* credentials; each of them may be missing.
SetUpVertex == Prepare

\* Mutated Close: a block of thinking is left open.
CloseText == IF slots = 0 \/ content[slots].kind = "thinking" THEN <<>> ELSE <<End(content[slots], slots)>>

\* closeCurrent
Close == IF slots = 0 THEN <<>> ELSE <<End(content[slots], slots)>>

New == Len(content) + 1
AfterFinish == rude' = (rude \/ mark = "complete")

TextPart ==
    /\ Reading
    /\ \E kind \in {"text", "thinking"} :
          IF slots # 0 /\ content[slots].kind = kind
          THEN Keep(<<Delta(content[slots], slots)>>, Grow(slots), slots, stop)
          ELSE Keep(Close \o <<Start(Block(kind, 0), New), Delta(Block(kind, 0), New)>>, Append(content, Block(kind, 1)), New, stop)
    /\ AfterFinish
    /\ UNCHANGED mark

\* A function call comes whole: it starts, carries its arguments and ends at once.
\* nextToolCallID makes up the id that is missing or taken.
FunctionCallPart ==
    /\ Reading
    /\ LET b == Block("toolCall", 1)
       IN  Keep(Close \o <<Start(Block("toolCall", 0), New), Delta(b, New), End(b, New)>>, Append(content, b), 0, stop)
    /\ AfterFinish
    /\ UNCHANGED mark

\* MapStopReasonString
FinishReasonOf == [STOP |-> "stop", MAX_TOKENS |-> "length", SAFETY |-> "error"]
Upgraded(reason) == IF HasToolCall(content) THEN "toolUse" ELSE reason

\* The reason is that of the chunk's end, after its parts.  With a tool call in the
\* content it is a tool use, whatever the server said.
FinishReason ==
    /\ Reading
    /\ \E r \in DOMAIN FinishReasonOf : Keep(<<>>, content, slots, Upgraded(FinishReasonOf[r]))
    /\ mark' = "complete"
    /\ AfterFinish

\* A chunk that does not parse fails the request; the open block is not closed.
Garbled == Reading /\ Fail

\* No finish reason is asked for at the end.
EndOfStream ==
    /\ phase = "decode"
    /\ ConcludeAfter(Close, stop)
    /\ UNCHANGED content

Frames == TextPart \/ FunctionCallPart \/ FinishReason \/ Garbled \/ EndOfStream
Run == SetUp \/ Request \/ Frames
RunVertex == SetUpVertex \/ Request \/ Frames
=============================================================================
