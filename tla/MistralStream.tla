---------------------------- MODULE MistralStream ----------------------------
(***************************************************************************)
(* The Mistral adapter (src/ai/apis/mistral).  A chunk is read item by     *)
(* item and call by call.  slots holds the current text or thinking block  *)
(* and the tool calls by key.                                              *)
(***************************************************************************)
EXTENDS AdapterStream

\* A call is keyed by its id and index; a missing id is derived from the index, so
\* that a key is an index and whether an id came along.
CallKeys == Indexes \X BOOLEAN

Init == InitWith("mistral", [current |-> 0, byKey |-> [k \in CallKeys |-> 0]])

\* Only a key authorizes.
SetUp == Prepare
Request == Send(<<Begin>>)

Current == slots.current
Close == IF Current = 0 THEN <<>> ELSE <<End(content[Current], Current)>>
New == Len(content) + 1
AfterFinish == rude' = (rude \/ mark = "complete")

\* appendDelta
ContentItem ==
    /\ Reading
    /\ \E kind \in {"text", "thinking"} :
          IF Current # 0 /\ content[Current].kind = kind
          THEN Keep(<<Delta(content[Current], Current)>>, Grow(Current), slots, stop)
          ELSE Keep(Close \o <<Start(Block(kind, 0), New), Delta(Block(kind, 0), New)>>, Append(content, Block(kind, 1)),
                    [slots EXCEPT !.current = New], stop)
    /\ AfterFinish
    /\ UNCHANGED mark

\* The current block is closed before the first call of a chunk.
ToolCallDelta ==
    /\ Reading
    /\ \E k \in CallKeys :
          LET at == slots.byKey[k]
              table == [slots EXCEPT !.current = 0, !.byKey[k] = IF at = 0 THEN New ELSE at]
          IN  IF at = 0
              THEN Keep(Close \o <<Start(Block("toolCall", 0), New), Delta(Block("toolCall", 0), New)>>,
                        Append(content, Block("toolCall", 1)), table, stop)
              ELSE Keep(Close \o <<Delta(content[at], at)>>, Grow(at), table, stop)
    /\ AfterFinish
    /\ UNCHANGED mark

\* mapChatStopReason
FinishReasonOf == [stop |-> "stop", length |-> "length", tool_calls |-> "toolUse", error |-> "error"]

FinishReason ==
    /\ Reading
    /\ \E r \in DOMAIN FinishReasonOf : Keep(<<>>, content, slots, FinishReasonOf[r])
    /\ mark' = "complete"
    /\ AfterFinish

Garbled == Reading /\ Fail

Ends(calls) == Close \o [k \in 1..Len(calls) |-> End(content[calls[k]], calls[k])]

EndOfStream ==
    /\ phase = "decode"
    /\ \E calls \in InOrder(ToolCalls) : ConcludeAfter(Ends(calls), stop)
    /\ UNCHANGED content

Frames == ContentItem \/ ToolCallDelta \/ FinishReason \/ Garbled \/ EndOfStream
Run == SetUp \/ Request \/ Frames
=============================================================================
