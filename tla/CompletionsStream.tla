-------------------------- MODULE CompletionsStream --------------------------
(***************************************************************************)
(* The OpenAI Chat Completions adapter                                     *)
(* (src/ai/apis/openaicompletions/openaicompletions.go).  A chunk that     *)
(* carries several things is read like several chunks with one each:       *)
(* finish_reason, then content, reasoning and the tool calls in order.     *)
(* slots holds the one text block, the one thinking block with the field   *)
(* it came by, and the tool calls by index and by id.                      *)
(***************************************************************************)
EXTENDS AdapterStream

NoBlocks == [text |-> 0, thinking |-> 0, field |-> "none", byIndex |-> [i \in Indexes |-> 0], byId |-> [i \in Indexes |-> 0]]

Init == InitWith("openai-completions", NoBlocks)

SetUp == Prepare
Request == Send(<<Begin>>)

New == Len(content) + 1
AfterFinish == rude' = (rude \/ mark = "complete")

\* Mutated Extend: the start is pushed behind the delta.
ExtendSwapped(at, kind, table) ==
    IF at = 0
    THEN Keep(<<Delta(Block(kind, 0), New), Start(Block(kind, 0), New)>>, Append(content, Block(kind, 1)), table, stop)
    ELSE Keep(<<Delta(content[at], at)>>, Grow(at), table, stop)

\* A delta of a block: a new one is started first.
Extend(at, kind, table) ==
    IF at = 0
    THEN Keep(<<Start(Block(kind, 0), New), Delta(Block(kind, 0), New)>>, Append(content, Block(kind, 1)), table, stop)
    ELSE Keep(<<Delta(content[at], at)>>, Grow(at), table, stop)

Or(at, other) == IF at # 0 THEN at ELSE other

TextDelta ==
    /\ Reading
    /\ Extend(slots.text, "text", [slots EXCEPT !.text = Or(@, New)])
    /\ AfterFinish
    /\ UNCHANGED mark

\* Only the field that reasoning first came by is read.
ReasoningDelta ==
    /\ Reading
    /\ \E field \in {"reasoning_content", "reasoning"} :
          /\ slots.field \in {"none", field}
          /\ Extend(slots.thinking, "thinking", [slots EXCEPT !.thinking = Or(@, New), !.field = field])
    /\ AfterFinish
    /\ UNCHANGED mark

\* ensureToolCallBlock: by its index, or else by its id; either may be missing.
ToolBlock(index, id) ==
    Or(IF index = {} THEN 0 ELSE slots.byIndex[CHOOSE i \in index : TRUE],
       IF id = {} THEN 0 ELSE slots.byId[CHOOSE i \in id : TRUE])

Named(table, names, at) == [i \in Indexes |-> IF i \in names THEN at ELSE table[i]]

ToolCallDelta ==
    /\ Reading
    /\ \E index, id \in {{}} \cup {{i} : i \in Indexes} :
          LET at == ToolBlock(index, id)
          IN  Extend(at, "toolCall", [slots EXCEPT !.byIndex = Named(@, index, Or(at, New)), !.byId = Named(@, id, Or(at, New))])
    /\ AfterFinish
    /\ UNCHANGED mark

\* mapStopReason
FinishReasonOf == [stop |-> "stop", length |-> "length", tool_calls |-> "toolUse", content_filter |-> "error"]

FinishReason ==
    /\ Reading
    /\ \E r \in DOMAIN FinishReasonOf : Keep(<<>>, content, slots, FinishReasonOf[r])
    /\ mark' = "complete"
    /\ AfterFinish

Single(at) == IF at = 0 THEN <<>> ELSE <<at>>

\* Every block ends with the answer: text, thinking, then the tool calls in order.
Ends(calls) ==
    LET order == Single(slots.text) \o Single(slots.thinking) \o calls
    IN  [k \in 1..Len(order) |-> End(content[order[k]], order[k])]

\* The blocks end even when the answer then turns out to be cut off.
EndOfStream ==
    /\ phase = "decode"
    /\ \E calls \in InOrder(ToolCalls) :
          IF mark # "complete" THEN FailAfter(Ends(calls)) ELSE ConcludeAfter(Ends(calls), stop)
    /\ UNCHANGED content

Frames == TextDelta \/ ReasoningDelta \/ ToolCallDelta \/ FinishReason \/ EndOfStream
Run == SetUp \/ Request \/ Frames
=============================================================================
