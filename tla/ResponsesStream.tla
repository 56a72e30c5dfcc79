--------------------------- MODULE ResponsesStream ---------------------------
(***************************************************************************)
(* The OpenAI Responses adapter and the decoder that the Azure and Codex   *)
(* adapters share (src/ai/apis/openairesponses).  slots tells for every    *)
(* output_index the block being streamed and the arguments gathered so     *)
(* far; output_item.done frees the index.                                  *)
(***************************************************************************)
EXTENDS AdapterStream

ItemKinds == {"text", "reasoning", "toolCall"}

Slot(at, args) == [at |-> at, args |-> args]
Free == Slot(0, 0)

Init == InitWith("openai-responses", [i \in Indexes |-> Free])

SetUp == Prepare
Request == Send(<<Begin>>)

\* Azure takes a key only, and its run is otherwise the same: a configuration that
\* does not resolve is one more failure to set up.
SetUpAzure == Prepare

\* getSlot: the block streamed at index i, if it has that kind.
Streaming(i, kind) == slots[i] # Free /\ content[slots[i].at].kind = kind

\* createSlot.  Arguments that come with a call wait in the slot.
Created(i, kind, args) == [slots EXCEPT ![i] = Slot(Len(content) + 1, args)]

\* An item that is added takes its index over, whatever was streamed there.
OutputItemAdded ==
    /\ Reading
    /\ \E i \in Indexes, kind \in ItemKinds, args \in 0..1 :
          /\ kind # "toolCall" => args = 0
          /\ Keep(<<Start(Block(kind, 0), Len(content) + 1)>>, Append(content, Block(kind, 0)), Created(i, kind, args), stop)
          /\ rude' = (rude \/ slots[i] # Free \/ args # 0 \/ mark # "none")
    /\ UNCHANGED mark

\* Text, refusal, reasoning or the end of a reasoning part.
TextDelta ==
    /\ Reading
    /\ \E i \in Indexes, kind \in ItemKinds \ {"toolCall"} :
          /\ Streaming(i, kind)
          /\ Keep(<<Delta(content[slots[i].at], slots[i].at)>>, Grow(slots[i].at), slots, stop)
    /\ UNCHANGED <<mark, rude>>

\* Mutated WithArgs: the whole arguments are written behind those gathered so far.
WithArgsUnreset(i, n) == [slots EXCEPT ![i].args = @ + n]

WithArgs(i, n) == [slots EXCEPT ![i].args = n]
Holding(i, n) == [content EXCEPT ![slots[i].at].text = n]

ArgumentsDelta ==
    /\ Reading
    /\ \E i \in Indexes :
          LET n == slots[i].args + 1
          IN  /\ Streaming(i, "toolCall")
              /\ Keep(<<Delta(content[slots[i].at], slots[i].at)>>, Holding(i, n), WithArgs(i, n), stop)
    /\ UNCHANGED <<mark, rude>>

\* The whole arguments: what they add to those streamed is pushed as one delta.
\* Arguments that are not an extension replace them without a word.
ArgumentsDone ==
    /\ Reading
    /\ \E i \in Indexes :
          /\ Streaming(i, "toolCall")
          /\ \/ Keep(<<>>, Holding(i, slots[i].args), slots, stop) /\ UNCHANGED rude
             \/ LET n == slots[i].args + 1
                IN  Keep(<<Delta(content[slots[i].at], slots[i].at)>>, Holding(i, n), WithArgs(i, n), stop) /\ UNCHANGED rude
             \/ Keep(<<>>, Holding(i, 1), WithArgs(i, 1), stop) /\ rude' = TRUE
    /\ UNCHANGED mark

Without(table, i) == [table EXCEPT ![i] = Free]

\* What was streamed at index i.
Held(i) == IF content[slots[i].at].kind = "toolCall" THEN slots[i].args ELSE content[slots[i].at].text

\* The item as a whole replaces what was streamed, whether it repeats it or not: only
\* text may become empty.  The summary of a reasoning need not be what was streamed of it,
\* and lacks the separator that ended its last part.  An item of another kind than the
\* block's is ignored.
OutputItemDone ==
    /\ Reading
    /\ \E i \in Indexes :
          /\ slots[i] # Free
          /\ \E n \in 0..(Held(i) + 1) :
                LET p == slots[i].at
                    whole == Block(content[p].kind, n)
                IN  /\ n = 0 => whole.kind = "text" \/ Held(i) = 0
                    /\ Keep(<<End(whole, p)>>, [content EXCEPT ![p] = whole], Without(slots, i), stop)
                    /\ rude' = (rude \/ (whole.kind # "reasoning" /\ n # Held(i)))
    /\ UNCHANGED mark

\* An item that is done and was never added is started and ended at once; when its
\* kind is none of the three it is ignored.
UnannouncedItemDone ==
    /\ Reading
    /\ \E i \in Indexes, kind \in ItemKinds, n \in 0..1 :
          LET p == Len(content) + 1
          IN  /\ slots[i] = Free
              /\ Keep(<<Start(Block(kind, 0), p), End(Block(kind, n), p)>>, Append(content, Block(kind, n)), slots, stop)
    /\ rude' = TRUE
    /\ UNCHANGED mark

\* finalizeResponse: the status decides the stop reason, and a stop with tool calls
\* in the content is a tool use.
StatusReason == [completed |-> "stop", in_progress |-> "stop", incomplete |-> "length", failed |-> "error", other |-> "error"]
Upgraded(reason) == IF reason = "stop" /\ HasToolCall(content) THEN "toolUse" ELSE reason

\* completed or incomplete; reading goes on to the end of the body.
ResponseCompleted ==
    /\ Reading
    /\ \E status \in DOMAIN StatusReason : Keep(<<>>, content, slots, Upgraded(StatusReason[status]))
    /\ mark' = "complete"
    /\ rude' = (rude \/ mark # "none" \/ \E i \in Indexes : slots[i] # Free)

\* An error event, or response.failed.
ResponseFailed == Reading /\ Fail

EndOfStream ==
    /\ phase = "decode"
    /\ IF mark # "complete" THEN Fail ELSE ConcludeAfter(<<>>, stop) /\ UNCHANGED content

Frames ==
    \/ OutputItemAdded \/ TextDelta \/ ArgumentsDelta \/ ArgumentsDone \/ OutputItemDone
    \/ UnannouncedItemDone \/ ResponseCompleted \/ ResponseFailed \/ EndOfStream
Run == SetUp \/ Request \/ Frames
RunAzure == SetUpAzure \/ Request \/ Frames
=============================================================================
