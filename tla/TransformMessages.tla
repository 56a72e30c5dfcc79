--------------------------- MODULE TransformMessages ---------------------------
(***************************************************************************)
(* TransformMessages (src/ai/apis/transform.go): a history written by      *)
(* several models is made ready for replay to one of them.                 *)
(*                                                                         *)
(* A message is a record with its role and parts.  What only one model can *)
(* read (a signature, encrypted reasoning, the id of a stored item) is the *)
(* name of that model in the field "by".  A model is a record with its     *)
(* name, provider and api, and with its traits: what the catalog or the    *)
(* adapter knows of it.  The id of a call is its number and its form: the  *)
(* Responses family makes "piped" ids (call id, pipe, item id), everybody  *)
(* else "plain" ones; the other forms are what the normalizers make.       *)
(***************************************************************************)
EXTENDS Integers, Sequences, SequencesExt

Nobody == "nobody"
Part(kind, blank, by) == [kind |-> kind, blank |-> blank, by |-> by]
Text == Part("text", FALSE, Nobody)
Blank == Part("text", TRUE, Nobody)
Image == Part("image", FALSE, Nobody)
Call(id, by) == [kind |-> "call", blank |-> FALSE, by |-> by, id |-> id]

User(parts) == [role |-> "user", parts |-> parts]
Assistant(model, stop, usage, parts) ==
    [role |-> "assistant", model |-> model, stop |-> stop, usage |-> usage, parts |-> parts]
ToolResult(id, parts, real) == [role |-> "toolResult", id |-> id, parts |-> parts, real |-> real]

\* The elements of s that are in kept, in their order.
Only(s, kept) == FlattenSeq([i \in DOMAIN s |-> IF s[i] \in kept THEN <<s[i]>> ELSE <<>>])

Calls(msg) == IF msg.role = "assistant" THEN Only(msg.parts, {p \in Range(msg.parts) : p.kind = "call"}) ELSE <<>>

-----------------------------------------------------------------------------
(* NormalizeToolCallID: each adapter's way with the ids of other models.    *)

\* Only [a-zA-Z0-9_-]: a pipe becomes an underscore.
Sanitized(id) == IF id.form = "piped" THEN [id EXCEPT !.form = "joined"] ELSE id

\* The Responses family keeps its pairs, with a made-up item id for an item that
\* is stored elsewhere.
NormalizePair(id, model, source) ==
    IF "pipes" \notin model.traits \/ id.form # "piped" THEN Sanitized(id)
    ELSE IF source.provider = model.provider /\ source.api = model.api THEN id
    ELSE [id EXCEPT !.form = "foreign"]

\* Only the models behind Cloud Code Assist that are not native have ids.
GoogleID(id, model) == IF "ids" \in model.traits THEN Sanitized(id) ELSE id

CompletionsID(id) == IF id.form = "piped" THEN [id EXCEPT !.form = "call"] ELSE id

\* Nine letters and digits; no two ids of a conversation get the same.
MistralID(id) == [id EXCEPT !.form = "short"]

NormalizeToolCallID(id, model, source) ==
    CASE model.api \in {"anthropic", "bedrock"} -> Sanitized(id)
      [] model.api = "google" -> GoogleID(id, model)
      [] model.api = "completions" -> CompletionsID(id)
      [] model.api = "mistral" -> MistralID(id)
      [] model.api = "responses" -> NormalizePair(id, model, source)

-----------------------------------------------------------------------------
(* TransformMessages                                                       *)

\* Consecutive images become one placeholder.
DowngradeImages(parts, model) ==
    IF "images" \in model.traits THEN parts
    ELSE FlattenSeq([i \in DOMAIN parts |->
            IF parts[i].kind # "image" THEN <<parts[i]>>
            ELSE IF i > 1 /\ parts[i - 1].kind = "image" THEN <<>> ELSE <<Text>>])

\* Mutated TransformBlock: models of one provider read each other's signatures.
TransformBlockByProvider(b, model, source) ==
    LET same == source.provider = model.provider
    IN  CASE b.kind = "redacted" -> IF same THEN <<b>> ELSE <<>>
          [] b.kind = "thinking" ->
                IF same /\ b.by # Nobody THEN <<b>>
                ELSE IF b.blank THEN <<>> ELSE <<IF same THEN b ELSE Text>>
          [] b.kind = "text" -> <<IF same THEN b ELSE [b EXCEPT !.by = Nobody]>>
          [] b.kind = "call" -> <<IF same THEN b ELSE Call(NormalizeToolCallID(b.id, model, source), Nobody)>>

\* What only another model can read is dropped or becomes text.
TransformBlock(b, model, source) ==
    LET same == source = model
    IN  CASE b.kind = "redacted" -> IF same THEN <<b>> ELSE <<>>
          [] b.kind = "thinking" ->
                IF same /\ b.by # Nobody THEN <<b>>
                ELSE IF b.blank THEN <<>> ELSE <<IF same THEN b ELSE Text>>
          [] b.kind = "text" -> <<IF same THEN b ELSE [b EXCEPT !.by = Nobody]>>
          [] b.kind = "call" -> <<IF same THEN b ELSE Call(NormalizeToolCallID(b.id, model, source), Nobody)>>

\* toolCallIDMap as it is when message i is reached: what the calls before it were mapped to.
MappedId(history, i, model) ==
    LET id == history[i].id
        makers == {j \in 1..(i - 1) : history[j].role = "assistant" /\ history[j].model # model
                                      /\ \E c \in DOMAIN Calls(history[j]) : Calls(history[j])[c].id = id}
    IN  IF makers = {} THEN id ELSE NormalizeToolCallID(id, model, history[CHOOSE j \in makers : TRUE].model)

TransformOne(history, i, model) ==
    LET msg == history[i]
    IN  CASE msg.role = "user" -> User(DowngradeImages(msg.parts, model))
          [] msg.role = "toolResult" ->
                [msg EXCEPT !.id = MappedId(history, i, model), !.parts = DowngradeImages(@, model)]
          [] msg.role = "assistant" ->
                [msg EXCEPT !.parts = FlattenSeq([b \in DOMAIN @ |-> TransformBlock(@[b], model, msg.model)])]

\* A turn that failed or was aborted is incomplete, and left out.
Failed(msg) == msg.role = "assistant" /\ msg.stop = "failed"
Replayed(msg) == IF Failed(msg) THEN <<>> ELSE <<msg>>

\* What flush appends before message k: results for the calls of the turn it ends that
\* have none yet.
Flush(msgs, k) ==
    LET turns == {j \in 1..(k - 1) : msgs[j].role # "toolResult"}
        last == CHOOSE j \in turns : \A other \in turns : other <= j
        ends == k > Len(msgs) \/ msgs[k].role # "toolResult"
        answered == {msgs[j].id : j \in last + 1..(k - 1)}
        open == Only(Calls(msgs[last]), {c \in Range(Calls(msgs[last])) : c.id \notin answered})
    IN  IF ~ends \/ turns = {} \/ Failed(msgs[last]) THEN <<>>
        ELSE [c \in DOMAIN open |-> ToolResult(open[c].id, <<Text>>, FALSE)]

\* Mutated InsertOrphanToolResults: a user who interrupts the tools does not flush.
InsertAtTurns(msgs) ==
    FlattenSeq([i \in DOMAIN msgs |-> (IF msgs[i].role = "user" THEN <<>> ELSE Flush(msgs, i)) \o Replayed(msgs[i])])
        \o Flush(msgs, Len(msgs) + 1)

InsertOrphanToolResults(msgs) ==
    FlattenSeq([i \in DOMAIN msgs |-> Flush(msgs, i) \o Replayed(msgs[i])]) \o Flush(msgs, Len(msgs) + 1)

TransformHistory(history, model) ==
    InsertOrphanToolResults(FlattenSeq([i \in DOMAIN history |-> <<TransformOne(history, i, model)>>]))
=============================================================================
