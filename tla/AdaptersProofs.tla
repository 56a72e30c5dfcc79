---------------------------- MODULE AdaptersProofs ----------------------------
(***************************************************************************)
(* Proofs about the adapters' event protocol, for any indexes, any canned  *)
(* messages and any number of events: what each decoder keeps true of its  *)
(* table, its content and the events it pushed.                            *)
(***************************************************************************)
EXTENDS Adapters, FiniteSetTheorems, SequenceTheorems, TLAPS

-----------------------------------------------------------------------------
(* Events and content, as values                                           *)

\* Kinds of blocks, reasons to stop, or neither.
Labels == Kinds \cup Reasons \cup {"aborted", "none"}
\* All events and blocks the adapters can make.
Events == [type : {"begin", "start", "delta", "end", "done", "error"}, kind : Labels, at : Nat, text : Nat]
Blocks == [kind : Kinds, text : Nat]

\* Events about a block, and those of block p.
About(e) == e.type \in {"start", "delta", "end"}
Opens(L, i, p) == L[i].type = "start" /\ L[i].at = p
Deltas(L, n, p) == {j \in 1..n : L[j].type = "delta" /\ L[j].at = p}
\* Block p has ended; the stream has not.
EndedIn(L, p) == \E i \in 1..Len(L) : L[i].type = "end" /\ L[i].at = p
Open(L) == \A i \in 1..Len(L) : L[i].type \notin {"done", "error"}

\* Every block event names a block and its kind, behind the block's start.
Named(L, C) ==
    \A i \in 1..Len(L) : About(L[i]) =>
        /\ L[i].at \in 1..Len(C) /\ L[i].kind = C[L[i].at].kind
        /\ \E j \in 1..i : Opens(L, j, L[i].at)

\* Every block started, and the starts come in the order of the content.
Started(L, C) ==
    /\ \A p \in 1..Len(C) : \E i \in 1..Len(L) : Opens(L, i, p)
    /\ \A i \in 1..Len(L) : \A j \in 1..(i - 1) :
          L[i].type = "start" /\ L[j].type = "start" => L[j].at < L[i].at

\* Whatever the server does.
Loose(L, C) == L \in Seq(Events) /\ C \in Seq(Blocks) /\ Named(L, C) /\ Started(L, C)

\* The start event is the first and comes once.
BeginFirst(L) ==
    /\ Len(L) # 0 => L[1] = Begin
    /\ \A i \in 1..Len(L) : L[i].type = "begin" => i = 1

\* Nothing about a block behind its end.
EndsLast(L) == \A i \in 1..Len(L) : L[i].type = "end" => \A j \in (i + 1)..Len(L) : L[j].at # L[i].at

\* The text at the end is that of the start and the deltas in between, but for Responses
\* reasoning.
EndsWhole(L) ==
    \A i \in 1..Len(L) : L[i].type = "end" /\ L[i].kind # "reasoning" =>
        \A j \in 1..Len(L) : Opens(L, j, L[i].at) =>
            L[i].text = L[j].text + Cardinality(Deltas(L, i - 1, L[i].at))

\* A block that has not ended holds the text of its start and its deltas.
Gathered(L, C) ==
    \A p \in 1..Len(C) : ~EndedIn(L, p) =>
        \A j \in 1..Len(L) : Opens(L, j, p) => C[p].text = L[j].text + Cardinality(Deltas(L, Len(L), p))

\* With a server that keeps to its protocol.
Strict(L, C) == BeginFirst(L) /\ EndsLast(L) /\ EndsWhole(L) /\ Gathered(L, C)

\* What holds of the events and the content while a request runs; polite: with a
\* server that keeps to its protocol.
Sound(L, C, polite) ==
    Open(L) /\ Loose(L, C) /\ (polite => Strict(L, C)) /\ (OwnStart => BeginFirst(L))

\* The events so far, with or without a terminal event behind them.
Tailed(N, M) ==
    /\ N \in Seq(Events) /\ Len(N) >= Len(M)
    /\ \A i \in 1..Len(M) : N[i] = M[i]
    /\ \A i \in 1..Len(N) : i \in 1..Len(M) \/ (i = Len(N) /\ N[i].type \in {"done", "error"} /\ N[i].at = 0)

-----------------------------------------------------------------------------
(* The adapters' tables                                                    *)

\* The blocks in a table: no block, or a block of some kind that is still open.
Texts == {"text", "thinking"}
Places == 0..Len(content)
KindAt(p, kinds) == p # 0 => content[p].kind \in kinds
OpenAt(p) == p # 0 => ~EndedIn(log, p)
AllClosed == \A p \in 1..Len(content) : EndedIn(log, p)

\* slots runs in step with content.  The blocks are complete with the message, and a
\* tool call starts empty.
AnthropicInv ==
    /\ slots \in Seq(Indexes) /\ Len(slots) = Len(content)
    /\ Polite =>
          /\ mark = "complete" => AllClosed
          /\ mark = "none" => content = <<>>
          /\ \A i \in 1..Len(log) : log[i].type = "start" /\ log[i].kind = "toolCall" => log[i].text = 0

\* A slot that holds an item.
Used(T, i) == T[i] # Responses!Free

\* Every slot in use has a block.
SlotsFit(T, C) ==
    /\ T \in [Indexes -> [at : Nat, args : Nat]]
    /\ \A i \in Indexes : Used(T, i) => T[i].at \in 1..Len(C)

\* The blocks that have not ended are those in the slots, one each, and a tool call's
\* arguments are those of its slot.
Tracks(T, L, C) ==
    /\ \A i \in Indexes : Used(T, i) =>
          /\ ~EndedIn(L, T[i].at)
          /\ C[T[i].at].kind = "toolCall" => T[i].args = C[T[i].at].text
          /\ \A j \in Indexes : Used(T, j) /\ T[j].at = T[i].at => i = j
    /\ \A p \in 1..Len(C) : EndedIn(L, p) \/ \E i \in Indexes : Used(T, i) /\ T[i].at = p

\* The slots in use are exactly the open blocks; when the answer is complete there are none.
ResponsesInv ==
    /\ SlotsFit(slots, content)
    /\ Polite =>
          /\ Tracks(slots, log, content)
          /\ mark = "complete" =>
                /\ \A i \in Indexes : ~Used(slots, i)
                /\ HasToolCall(content) => stop # "stop"

\* No block ends before the answer does, and each is the text, the thinking or a tool call.
CompletionsInv ==
    /\ slots \in [text : Nat, thinking : Nat, field : {"none", "reasoning_content", "reasoning"},
                 byIndex : [Indexes -> Nat], byId : [Indexes -> Nat]]
    /\ slots.text \in Places /\ slots.thinking \in Places
    /\ KindAt(slots.text, {"text"}) /\ KindAt(slots.thinking, {"thinking"})
    /\ \A i \in Indexes :
          /\ slots.byIndex[i] \in Places /\ slots.byId[i] \in Places
          /\ KindAt(slots.byIndex[i], {"toolCall"}) /\ KindAt(slots.byId[i], {"toolCall"})
    /\ \A p \in 1..Len(content) : p = slots.text \/ p = slots.thinking \/ content[p].kind = "toolCall"
    /\ \A p \in 1..Len(content) : ~EndedIn(log, p)

\* All blocks but the current one have ended.
GoogleInv ==
    /\ slots \in Places /\ OpenAt(slots)
    /\ \A p \in 1..Len(content) : p # slots => EndedIn(log, p)
    /\ Polite /\ mark = "complete" /\ HasToolCall(content) => stop # "stop"

\* The current block and the tool calls have not ended, all others have.
MistralInv ==
    /\ slots \in [current : Nat, byKey : [Mistral!CallKeys -> Nat]]
    /\ slots.current \in Places /\ KindAt(slots.current, Texts)
    /\ \A k \in Mistral!CallKeys : slots.byKey[k] \in Places /\ KindAt(slots.byKey[k], {"toolCall"})
    /\ \A p \in 1..Len(content) : EndedIn(log, p) <=> p # slots.current /\ content[p].kind # "toolCall"

\* Slots point at blocks; every block has ended when the message stops.
BedrockInv ==
    /\ slots \in [Indexes -> Nat] /\ \A i \in Indexes : slots[i] \in Places
    /\ Polite /\ mark = "complete" => AllClosed

\* The blocks that are done ended, the next one is as far as it was sent.
FauxInv ==
    /\ slots.message \in [content : Seq([kind : Kinds \ {"reasoning"}, text : Nat]), stop : Reasons \cup {"aborted"}]
    /\ slots \in [message : [content : Seq([kind : Kinds \ {"reasoning"}, text : Nat]), stop : Reasons \cup {"aborted"}], done : Nat, sent : Nat]
    /\ slots.done <= Len(content) /\ Len(content) <= slots.done + 1 /\ Len(content) <= Len(slots.message.content)
    /\ \A p \in 1..Len(content) : EndedIn(log, p) <=> p <= slots.done
    /\ Len(content) = slots.done + 1 =>
          content[slots.done + 1] = Block(slots.message.content[slots.done + 1].kind, slots.sent)
    /\ Len(content) = slots.done => slots.sent = 0
    /\ ~rude

\* Each adapter's own part.
TableInv ==
    /\ adapter = "anthropic" => AnthropicInv
    /\ adapter = "openai-responses" => ResponsesInv
    /\ adapter = "openai-completions" => CompletionsInv
    /\ adapter = "google" => GoogleInv
    /\ adapter = "mistral" => MistralInv
    /\ adapter = "bedrock" => BedrockInv
    /\ adapter = "faux" => FauxInv

-----------------------------------------------------------------------------
(* The inductive invariant                                                 *)

\* The types of the request's own state.
Scalars ==
    /\ adapter \in {"anthropic", "openai-responses", "openai-completions", "google", "mistral", "bedrock", "faux"}
    /\ phase \in {"setup", "request", "decode", "crashed", "closed"}
    /\ ctx \in BOOLEAN /\ rude \in BOOLEAN
    /\ stop \in Reasons /\ mark \in {"none", "begun", "complete"}

\* Nothing is pushed before the answer is there; all but Bedrock push the start then.
Early ==
    /\ phase \in {"setup", "request"} => log = <<>> /\ content = <<>> /\ ~rude /\ mark = "none"
    /\ phase = "decode" /\ adapter # "bedrock" => log # <<>>

\* The log is sound, but for the terminal event of a request that is over.
Over == \E n \in 0..Len(log) : Tailed(log, SubSeq(log, 1, n)) /\ Sound(SubSeq(log, 1, n), content, Polite)

\* An adapter with a start event of its own has pushed it before it is done.
DoneOpened == OwnStart /\ Finished => Len(log) > 1

\* All of it: sound while the request runs, sound but for the end when it is over.
AInv ==
    /\ Scalars /\ Early
    /\ phase \notin {"closed", "crashed"} => Sound(log, content, Polite) /\ TableInv
    /\ phase = "crashed" => rude /\ Sound(log, content, FALSE)
    /\ phase = "closed" => Over /\ DoneIsComplete /\ DoneOpened

-----------------------------------------------------------------------------
(* Numbers                                                                 *)

\* A finite set of numbers that is not empty has a least one.
LEMMA LeastElement ==
  ASSUME NEW S, IsFiniteSet(S), S \subseteq Nat, S # {}
  PROVE  \E m \in S : \A q \in S : m <= q
<1> DEFINE Below(x) == {y \in S : y < x}
           R == StrictSubsetOrdering(S)
           F == {Below(x) : x \in S}
<1>1. IsWellFoundedOn(R, FiniteSubsetsOf(S))
  BY FS_StrictSubsetOrderingWellFounded
<1>2. F \subseteq FiniteSubsetsOf(S) /\ F # {}
  <2>1. ASSUME NEW x \in S PROVE Below(x) \in SUBSET S /\ IsFiniteSet(Below(x))
    <3>1. Below(x) \subseteq S
      OBVIOUS
    <3> HIDE DEF Below
    <3> QED BY <3>1, FS_Subset
  <2> QED BY <2>1 DEF FiniteSubsetsOf
<1>3. PICK T \in F : \A U \in F : <<U, T>> \notin R
  BY <1>1, <1>2, WFMin
<1>4. PICK m \in S : T = Below(m)
  BY <1>3
<1>5. ASSUME NEW q \in S, q < m PROVE FALSE
  <2>0. m \in Nat /\ q \in Nat /\ S \subseteq Nat
    OBVIOUS
  <2>1. Below(q) \subseteq Below(m)
    <3>1. ASSUME NEW y \in S, y < q PROVE y < m
      BY <1>5, <2>0, <3>1
    <3> QED BY <3>1
  <2>2. q \in Below(m) /\ q \notin Below(q)
    BY <1>5, <2>0
  <2>3. <<Below(q), T>> \in R
    BY <1>4, <2>1, <2>2 DEF StrictSubsetOrdering
  <2> QED BY <1>3, <2>3
<1> QED BY <1>5

-----------------------------------------------------------------------------
(* Pushing one event                                                       *)

\* The same blocks as before, and perhaps one more.
Extends(D, C) ==
    /\ D \in Seq(Blocks) /\ Len(D) \in {Len(C), Len(C) + 1}
    /\ \A p \in 1..Len(C) : D[p].kind = C[p].kind

\* An event pushed behind the others.
LEMMA PushFacts ==
  ASSUME NEW L \in Seq(Events), NEW e \in Events
  PROVE  /\ Append(L, e) \in Seq(Events) /\ Len(Append(L, e)) = Len(L) + 1 /\ Len(L) \in Nat
         /\ \A i \in 1..Len(L) : Append(L, e)[i] = L[i] /\ L[i] \in Events
         /\ Append(L, e)[Len(L) + 1] = e
  OBVIOUS

\* A new event that names a block that is there.
LEMMA PushNamed ==
  ASSUME NEW L \in Seq(Events), NEW e \in Events, NEW C \in Seq(Blocks), NEW D, Extends(D, C), Named(L, C),
         About(e) => /\ e.at \in 1..Len(D) /\ e.kind = D[e.at].kind
                     /\ e.type = "start" \/ \E j \in 1..Len(L) : Opens(L, j, e.at)
  PROVE  Named(Append(L, e), D)
<1> DEFINE M == Append(L, e)
<1>1. M \in Seq(Events) /\ Len(M) = Len(L) + 1 /\ Len(L) \in Nat /\ M[Len(L) + 1] = e
  BY PushFacts
<1>2. \A i \in 1..Len(L) : M[i] = L[i] /\ L[i] \in Events
  BY PushFacts
<1>3. Len(C) \in Nat /\ Len(D) \in Nat /\ Len(D) >= Len(C)
  BY DEF Extends
<1> HIDE DEF M
<1> SUFFICES ASSUME NEW i \in 1..Len(M), About(M[i])
             PROVE  /\ M[i].at \in 1..Len(D) /\ M[i].kind = D[M[i].at].kind
                    /\ \E j \in 1..i : Opens(M, j, M[i].at)
  BY DEF Named, M
<1>4. CASE i \in 1..Len(L)
  <2>1. PICK j \in 1..i : Opens(L, j, L[i].at)
    BY <1>2, <1>4 DEF Named
  <2>2. L[i].at \in 1..Len(C) /\ L[i].kind = C[L[i].at].kind
    BY <1>2, <1>4 DEF Named
  <2>3. j \in 1..Len(L) /\ M[i] = L[i]
    BY <1>1, <1>2, <1>4
  <2>4. Opens(M, j, M[i].at)
    BY <1>2, <2>1, <2>3 DEF Opens
  <2> QED BY <1>3, <2>2, <2>3, <2>4 DEF Extends
<1>5. CASE i = Len(L) + 1
  <2>1. M[i] = e
    BY <1>1, <1>5
  <2>2. CASE e.type = "start"
    <3>1. Opens(M, i, M[i].at)
      BY <2>1, <2>2 DEF Opens
    <3> QED BY <1>1, <2>1, <3>1
  <2>3. CASE \E j \in 1..Len(L) : Opens(L, j, e.at)
    <3>1. PICK j \in 1..Len(L) : Opens(L, j, e.at)
      BY <2>3
    <3>2. Opens(M, j, M[i].at) /\ j \in 1..i
      BY <1>1, <1>2, <1>5, <2>1, <3>1 DEF Opens
    <3> QED BY <2>1, <3>2
  <2> QED BY <2>1, <2>2, <2>3
<1> QED BY <1>1, <1>4, <1>5

\* A start event starts the newest block, the others start none.
LEMMA PushStarted ==
  ASSUME NEW L \in Seq(Events), NEW e \in Events, NEW C \in Seq(Blocks), NEW D, Extends(D, C), Named(L, C),
           Started(L, C),
         IF e.type = "start" THEN e.at = Len(C) + 1 /\ Len(D) = Len(C) + 1 ELSE Len(D) = Len(C)
  PROVE  Started(Append(L, e), D)
<1> DEFINE M == Append(L, e)
<1>1. M \in Seq(Events) /\ Len(M) = Len(L) + 1 /\ Len(L) \in Nat /\ M[Len(L) + 1] = e
  BY PushFacts
<1>2. \A i \in 1..Len(L) : M[i] = L[i] /\ L[i] \in Events
  BY PushFacts
<1>3. Len(C) \in Nat /\ Len(D) \in Nat
  BY DEF Extends
<1> HIDE DEF M
<1>4. ASSUME NEW p \in 1..Len(D) PROVE \E i \in 1..Len(M) : Opens(M, i, p)
  <2>1. CASE p \in 1..Len(C)
    <3>1. PICK i \in 1..Len(L) : Opens(L, i, p)
      BY <2>1 DEF Started
    <3>2. Opens(M, i, p) /\ i \in 1..Len(M)
      BY <1>1, <1>2, <3>1 DEF Opens
    <3> QED BY <3>2
  <2>2. CASE p \notin 1..Len(C)
    <3>1. e.type = "start" /\ e.at = p
      BY <1>3, <2>2
    <3>2. Opens(M, Len(L) + 1, p) /\ Len(L) + 1 \in 1..Len(M)
      BY <1>1, <3>1 DEF Opens
    <3> QED BY <3>2
  <2> QED BY <2>1, <2>2
<1>5. ASSUME NEW i \in 1..Len(M), NEW j \in 1..(i - 1), M[i].type = "start", M[j].type = "start"
      PROVE  M[j].at < M[i].at
  <2>1. j \in 1..Len(L) /\ M[j] = L[j]
    BY <1>1, <1>2
  <2>2. CASE i \in 1..Len(L)
    BY <1>2, <1>5, <2>1, <2>2 DEF Started
  <2>3. CASE i = Len(L) + 1
    <3>1. L[j].at \in 1..Len(C)
      BY <1>2, <1>5, <2>1 DEF Named, About
    <3>2. M[i].at = Len(C) + 1
      BY <1>1, <1>5, <2>3
    <3> QED BY <1>3, <2>1, <3>1, <3>2
  <2> QED BY <1>1, <2>2, <2>3
<1> QED BY <1>4, <1>5 DEF Started, M

\* The start event comes first.
LEMMA PushBegin ==
  ASSUME NEW L \in Seq(Events), NEW e \in Events, BeginFirst(L),
         \/ L = <<>> /\ e = Begin
         \/ Len(L) # 0 /\ e.type # "begin"
  PROVE  BeginFirst(Append(L, e))
<1> DEFINE M == Append(L, e)
<1>1. M \in Seq(Events) /\ Len(M) = Len(L) + 1 /\ Len(L) \in Nat /\ M[Len(L) + 1] = e
  BY PushFacts
<1>2. \A i \in 1..Len(L) : M[i] = L[i] /\ L[i] \in Events
  BY PushFacts
<1> HIDE DEF M
<1>3. CASE L = <<>> /\ e = Begin
  <2>1. Len(L) = 0 /\ M[1] = Begin /\ Len(M) = 1
    BY <1>1, <1>3
  <2> QED BY <2>1 DEF BeginFirst, M
<1>4. CASE Len(L) # 0 /\ e.type # "begin"
  <2>1. M[1] = Begin
    BY <1>1, <1>2, <1>4 DEF BeginFirst
  <2>2. ASSUME NEW i \in 1..Len(M), M[i].type = "begin" PROVE i = 1
    BY <1>1, <1>2, <1>4, <2>2 DEF BeginFirst
  <2> QED BY <2>1, <2>2 DEF BeginFirst, M
<1> QED BY <1>3, <1>4

\* No event about a block behind its end.
LEMMA PushEndsLast ==
  ASSUME NEW L \in Seq(Events), NEW e \in Events, EndsLast(L), ~EndedIn(L, e.at)
  PROVE  EndsLast(Append(L, e))
<1> DEFINE M == Append(L, e)
<1>1. M \in Seq(Events) /\ Len(M) = Len(L) + 1 /\ Len(L) \in Nat /\ M[Len(L) + 1] = e
  BY PushFacts
<1>2. \A i \in 1..Len(L) : M[i] = L[i] /\ L[i] \in Events
  BY PushFacts
<1> HIDE DEF M
<1>3. ASSUME NEW i \in 1..Len(M), M[i].type = "end", NEW j \in (i + 1)..Len(M) PROVE M[j].at # M[i].at
  <2>1. i \in 1..Len(L) /\ L[i].type = "end" /\ M[i] = L[i]
    BY <1>1, <1>2, <1>3
  <2>2. CASE j \in (i + 1)..Len(L)
    <3>1. L[j].at # L[i].at /\ M[j] = L[j]
      BY <1>1, <1>2, <2>1, <2>2 DEF EndsLast
    <3> QED BY <2>1, <3>1
  <2>3. CASE j = Len(L) + 1
    BY <1>1, <2>1, <2>3 DEF EndedIn
  <2> QED BY <1>1, <2>1, <2>2, <2>3
<1> QED BY <1>3 DEF EndsLast, M

\* How far the deltas before a position change with a push.
LEMMA PushDeltas ==
  ASSUME NEW L \in Seq(Events), NEW e \in Events, NEW p
  PROVE  /\ \A n \in 0..Len(L) : Deltas(Append(L, e), n, p) = Deltas(L, n, p)
         /\ e.type = "delta" /\ e.at = p =>
               Cardinality(Deltas(Append(L, e), Len(L) + 1, p)) = Cardinality(Deltas(L, Len(L), p)) + 1
         /\ ~(e.type = "delta" /\ e.at = p) => Deltas(Append(L, e), Len(L) + 1, p) = Deltas(L, Len(L), p)
<1> DEFINE M == Append(L, e)
<1>1. M \in Seq(Events) /\ Len(M) = Len(L) + 1 /\ Len(L) \in Nat /\ M[Len(L) + 1] = e
  BY PushFacts
<1>2. \A i \in 1..Len(L) : M[i] = L[i] /\ L[i] \in Events
  BY PushFacts
<1> HIDE DEF M
<1>3. ASSUME NEW n \in 0..Len(L) PROVE Deltas(M, n, p) = Deltas(L, n, p)
  <2>1. \A j \in 1..n : M[j] = L[j]
    BY <1>1, <1>2
  <2> QED BY <2>1 DEF Deltas
<1>4. CASE e.type = "delta" /\ e.at = p
  <2>1. Deltas(M, Len(L) + 1, p) = Deltas(L, Len(L), p) \cup {Len(L) + 1}
    BY <1>1, <1>2, <1>4 DEF Deltas
  <2>2. IsFiniteSet(Deltas(L, Len(L), p)) /\ Len(L) + 1 \notin Deltas(L, Len(L), p)
    <3>1. Deltas(L, Len(L), p) \subseteq 1..Len(L)
      BY DEF Deltas
    <3>2. IsFiniteSet(1..Len(L))
      BY <1>1, FS_Interval
    <3> QED BY <1>1, <3>1, <3>2, FS_Subset
  <2>3. Cardinality(Deltas(M, Len(L) + 1, p)) = Cardinality(Deltas(L, Len(L), p)) + 1
    BY <2>1, <2>2, FS_AddElement
  <2> QED BY <1>3, <1>4, <2>3 DEF M
<1>5. CASE ~(e.type = "delta" /\ e.at = p)
  <2>1. Deltas(M, Len(L) + 1, p) = Deltas(L, Len(L), p)
    BY <1>1, <1>2, <1>5 DEF Deltas
  <2> QED BY <1>3, <1>5, <2>1 DEF M
<1> QED BY <1>4, <1>5

\* The deltas of a block can be counted.
LEMMA DeltasNat ==
  ASSUME NEW L, NEW n \in Int, NEW p
  PROVE  Cardinality(Deltas(L, n, p)) \in Nat
<1>1. Deltas(L, n, p) \subseteq 1..n
  BY DEF Deltas
<1>2. IsFiniteSet(1..n)
  BY FS_Interval
<1> QED BY <1>1, <1>2, FS_Subset, FS_CardinalityType

\* Only an end event ends a block, and only its own.
LEMMA PushEnded ==
  ASSUME NEW L \in Seq(Events), NEW e \in Events, NEW p
  PROVE  EndedIn(Append(L, e), p) <=> EndedIn(L, p) \/ (e.type = "end" /\ e.at = p)
<1> DEFINE M == Append(L, e)
<1>1. M \in Seq(Events) /\ Len(M) = Len(L) + 1 /\ Len(L) \in Nat /\ M[Len(L) + 1] = e
  BY PushFacts
<1>2. \A i \in 1..Len(L) : M[i] = L[i] /\ L[i] \in Events
  BY PushFacts
<1> HIDE DEF M
<1>3. ASSUME EndedIn(M, p) PROVE EndedIn(L, p) \/ (e.type = "end" /\ e.at = p)
  <2>1. PICK i \in 1..Len(M) : M[i].type = "end" /\ M[i].at = p
    BY <1>3 DEF EndedIn
  <2>2. i \in 1..Len(L) \/ i = Len(L) + 1
    BY <1>1
  <2> QED BY <1>1, <1>2, <2>1, <2>2 DEF EndedIn
<1>4. ASSUME EndedIn(L, p) PROVE EndedIn(M, p)
  <2>1. PICK i \in 1..Len(L) : L[i].type = "end" /\ L[i].at = p
    BY <1>4 DEF EndedIn
  <2> QED BY <1>1, <1>2, <2>1 DEF EndedIn
<1>5. ASSUME e.type = "end", e.at = p PROVE EndedIn(M, p)
  <2>1. Len(L) + 1 \in 1..Len(M) /\ M[Len(L) + 1].type = "end" /\ M[Len(L) + 1].at = p
    BY <1>1, <1>5
  <2> QED BY <2>1 DEF EndedIn
<1> QED BY <1>3, <1>4, <1>5 DEF M

\* An end event carries what its block gathered.
LEMMA PushEndsWhole ==
  ASSUME NEW L \in Seq(Events), NEW e \in Events, EndsWhole(L), ~EndedIn(L, e.at),
         e.type = "end" /\ e.kind # "reasoning" =>
            \A j \in 1..Len(L) : Opens(L, j, e.at) => e.text = L[j].text + Cardinality(Deltas(L, Len(L), e.at))
  PROVE  EndsWhole(Append(L, e))
<1> DEFINE M == Append(L, e)
<1>1. M \in Seq(Events) /\ Len(M) = Len(L) + 1 /\ Len(L) \in Nat /\ M[Len(L) + 1] = e
  BY PushFacts
<1>2. \A i \in 1..Len(L) : M[i] = L[i] /\ L[i] \in Events
  BY PushFacts
<1>0. \A n \in 0..Len(L), p \in Nat : Deltas(M, n, p) = Deltas(L, n, p)
  BY PushDeltas
<1> HIDE DEF M
<1> SUFFICES ASSUME NEW i \in 1..Len(M), M[i].type = "end", M[i].kind # "reasoning",
                    NEW j \in 1..Len(M), Opens(M, j, M[i].at)
             PROVE  M[i].text = M[j].text + Cardinality(Deltas(M, i - 1, M[i].at))
  BY DEF EndsWhole, M
<1>3. M[i].at \in Nat
  <2>1. M[i] \in Events
    BY <1>1
  <2> QED BY <2>1 DEF Events
<1>4. CASE i \in 1..Len(L)
  <2>1. j \in 1..Len(L)
    <3>1. CASE j = Len(L) + 1
      <4>1. M[j] = e /\ L[i].type = "end" /\ e.at = L[i].at
        BY <1>1, <1>2, <1>4, <3>1 DEF Opens
      <4> QED BY <1>4, <4>1 DEF EndedIn
    <3> QED BY <1>1, <3>1
  <2>2. M[i] = L[i] /\ M[j] = L[j]
    BY <1>2, <1>4, <2>1
  <2>3. i - 1 \in 0..Len(L)
    BY <1>1, <1>4
  <2>4. Deltas(M, i - 1, M[i].at) = Deltas(L, i - 1, L[i].at)
    BY <1>0, <1>3, <2>2, <2>3
  <2>5. Opens(L, j, L[i].at)
    BY <2>2 DEF Opens
  <2> QED BY <1>4, <2>1, <2>2, <2>4, <2>5 DEF EndsWhole
<1>5. CASE i = Len(L) + 1
  <2>1. M[i] = e /\ j \in 1..Len(L)
    BY <1>1, <1>5 DEF Opens
  <2>2. M[j] = L[j] /\ Opens(L, j, e.at)
    BY <1>2, <2>1 DEF Opens
  <2>3. Deltas(M, i - 1, e.at) = Deltas(L, Len(L), e.at)
    BY <1>0, <1>1, <1>3, <1>5, <2>1
  <2> QED BY <2>1, <2>2, <2>3
<1> QED BY <1>1, <1>4, <1>5

\* The content follows the event: a new block is as it started, a delta lets its block
\* grow, and an end may set its block to anything of its kind.
Follows(D, C, e) ==
    /\ \A p \in 1..Len(C) :
          \/ e.type = "end" /\ e.at = p
          \/ D[p].text = C[p].text + (IF e.type = "delta" /\ e.at = p THEN 1 ELSE 0)
    /\ Len(D) = Len(C) + 1 => e.type = "start" /\ e.at = Len(D) /\ D[e.at].text = e.text

\* A delta adds one to what its block gathered.
LEMMA PushGathered ==
  ASSUME NEW L \in Seq(Events), NEW e \in Events, NEW C \in Seq(Blocks), NEW D, Extends(D, C), Named(L, C),
           Gathered(L, C),
         e.type = "start" => e.at = Len(C) + 1, Follows(D, C, e)
  PROVE  Gathered(Append(L, e), D)
<1> DEFINE M == Append(L, e)
<1>1. M \in Seq(Events) /\ Len(M) = Len(L) + 1 /\ Len(L) \in Nat /\ M[Len(L) + 1] = e
  BY PushFacts
<1>2. \A i \in 1..Len(L) : M[i] = L[i] /\ L[i] \in Events
  BY PushFacts
<1>3. Len(C) \in Nat /\ Len(D) \in Nat
  BY DEF Extends
<1> SUFFICES ASSUME NEW p \in 1..Len(D), ~EndedIn(M, p), NEW j \in 1..Len(M), Opens(M, j, p)
             PROVE  D[p].text = M[j].text + Cardinality(Deltas(M, Len(M), p))
  BY DEF Gathered
<1>4. ~EndedIn(L, p) /\ ~(e.type = "end" /\ e.at = p)
  BY PushEnded
<1>5. /\ e.type = "delta" /\ e.at = p => Cardinality(Deltas(M, Len(M), p)) = Cardinality(Deltas(L, Len(L), p)) + 1
      /\ ~(e.type = "delta" /\ e.at = p) => Deltas(M, Len(M), p) = Deltas(L, Len(L), p)
  BY <1>1, PushDeltas
<1>6. Cardinality(Deltas(L, Len(L), p)) \in Nat
  BY <1>1, DeltasNat
<1> HIDE DEF M
<1>7. CASE p \in 1..Len(C)
  <2>1. j \in 1..Len(L)
    <3>1. CASE j = Len(L) + 1
      <4>1. e.type = "start" /\ e.at = p
        BY <1>1, <3>1 DEF Opens
      <4> QED BY <1>3, <1>7, <4>1
    <3> QED BY <1>1, <3>1
  <2>2. M[j] = L[j] /\ Opens(L, j, p) /\ L[j].text \in Nat
    BY <1>2, <2>1 DEF Opens, Events
  <2>3. C[p].text = L[j].text + Cardinality(Deltas(L, Len(L), p))
    BY <1>4, <1>7, <2>1, <2>2 DEF Gathered
  <2>4. D[p].text = C[p].text + (IF e.type = "delta" /\ e.at = p THEN 1 ELSE 0)
    BY <1>4, <1>7 DEF Follows
  <2>5. C[p].text \in Nat
    BY <1>6, <2>2, <2>3
  <2>6. CASE e.type = "delta" /\ e.at = p
    <3>1. D[p].text = C[p].text + 1
      BY <2>4, <2>6
    <3>2. Cardinality(Deltas(M, Len(M), p)) = Cardinality(Deltas(L, Len(L), p)) + 1
      BY <1>5, <2>6
    <3>3. PICK n \in Nat : n = Cardinality(Deltas(L, Len(L), p))
      BY <1>6
    <3>4. PICK t \in Nat : t = L[j].text
      BY <2>2
    <3>5. (t + n) + 1 = t + (n + 1)
      OBVIOUS
    <3> QED BY <2>2, <2>3, <3>1, <3>2, <3>3, <3>4, <3>5
  <2>7. CASE ~(e.type = "delta" /\ e.at = p)
    BY <1>5, <1>6, <2>2, <2>3, <2>4, <2>5, <2>7
  <2> QED BY <2>6, <2>7
<1>8. CASE p \notin 1..Len(C)
  <2>1. p = Len(C) + 1 /\ Len(D) = Len(C) + 1
    BY <1>3, <1>8 DEF Extends
  <2>2. e.type = "start" /\ e.at = p /\ D[p].text = e.text
    BY <2>1 DEF Follows
  <2>3. ASSUME NEW i \in 1..Len(L), About(L[i]) PROVE L[i].at # p
    BY <1>3, <2>1, <2>3 DEF Named
  <2>4. Deltas(L, Len(L), p) = {}
    BY <2>3 DEF Deltas, About
  <2>5. j = Len(L) + 1
    <3>1. ASSUME j \in 1..Len(L) PROVE FALSE
      BY <1>2, <2>3, <3>1 DEF Opens, About
    <3> QED BY <1>1, <3>1
  <2>6. Deltas(M, Len(M), p) = {}
    BY <1>5, <2>2, <2>4
  <2>7. Cardinality(Deltas(M, Len(M), p)) = 0
    BY <2>6, FS_EmptySet
  <2>8. M[j].text = e.text /\ e.text \in Nat
    BY <1>1, <2>5 DEF Events
  <2> QED BY <2>2, <2>7, <2>8
<1> QED BY <1>7, <1>8

-----------------------------------------------------------------------------
(* What a push keeps                                                       *)

\* The event fits the content it comes with: a start opens the next block, a delta or
\* an end is about a block there is and names its kind.
Fits(e, C, D) ==
    /\ Extends(D, C)
    /\ e.type \in {"start", "delta", "end", "begin"}
    /\ e.type = "start" => e.at = Len(C) + 1 /\ Len(D) = Len(C) + 1 /\ e.kind = D[e.at].kind
    /\ e.type # "start" => Len(D) = Len(C)
    /\ e.type \in {"delta", "end"} => e.at \in 1..Len(C) /\ e.kind = C[e.at].kind

\* What holds whatever the server does.
LEMMA PushLoose ==
  ASSUME NEW L, NEW C, Loose(L, C), Open(L), NEW e \in Events, NEW D, Fits(e, C, D)
  PROVE  Loose(Append(L, e), D) /\ Open(Append(L, e))
<1>1. L \in Seq(Events) /\ C \in Seq(Blocks) /\ D \in Seq(Blocks)
  BY DEF Loose, Fits, Extends
<1>2. Len(C) \in Nat /\ Len(D) \in Nat
  BY <1>1
<1>3. About(e) => e.at \in 1..Len(D) /\ e.kind = D[e.at].kind
  BY <1>2 DEF Fits, About, Extends
<1>4. About(e) => e.type = "start" \/ \E j \in 1..Len(L) : Opens(L, j, e.at)
  BY DEF Fits, About, Loose, Started
<1>5. Named(Append(L, e), D)
  BY <1>1, <1>3, <1>4, PushNamed DEF Fits, Loose
<1>6. Started(Append(L, e), D)
  BY <1>1, PushStarted DEF Fits, Loose
<1>7. Append(L, e) \in Seq(Events)
  BY <1>1
<1>8. Open(Append(L, e))
  <2>1. ASSUME NEW i \in 1..Len(Append(L, e)) PROVE Append(L, e)[i].type \notin {"done", "error"}
    <3>1. CASE i \in 1..Len(L)
      BY <1>1, <3>1, PushFacts DEF Open
    <3>2. CASE i = Len(L) + 1
      BY <1>1, <3>2, PushFacts DEF Fits
    <3> QED BY <1>1, <3>1, <3>2, PushFacts
  <2> QED BY <2>1 DEF Open
<1> QED BY <1>1, <1>5, <1>6, <1>7, <1>8 DEF Loose

\* A block that has ended is left alone, and what an end says of its block is what the
\* block holds.
LEMMA PushStrict ==
  ASSUME NEW L, NEW C, Loose(L, C), Strict(L, C), NEW e \in Events, NEW D, Fits(e, C, D), Follows(D, C, e),
         IF e.type = "begin" THEN L = <<>> /\ e = Begin ELSE Len(L) # 0 /\ ~EndedIn(L, e.at),
         e.type = "end" /\ e.kind # "reasoning" => e.text = C[e.at].text
  PROVE  Strict(Append(L, e), D)
<1>1. L \in Seq(Events) /\ C \in Seq(Blocks) /\ D \in Seq(Blocks)
  BY DEF Loose, Fits, Extends
<1>2. BeginFirst(Append(L, e))
  BY <1>1, PushBegin DEF Strict
<1>3. ~EndedIn(L, e.at)
  <2>1. CASE e.type = "begin"
    <3>1. Len(L) = 0
      BY <2>1
    <3> QED BY <3>1 DEF EndedIn
  <2> QED BY <2>1
<1>4. EndsLast(Append(L, e))
  BY <1>1, <1>3, PushEndsLast DEF Strict
<1>5. ASSUME e.type = "end", e.kind # "reasoning", NEW j \in 1..Len(L), Opens(L, j, e.at)
      PROVE  e.text = L[j].text + Cardinality(Deltas(L, Len(L), e.at))
  BY <1>3, <1>5 DEF Strict, Gathered, Fits
<1>6. EndsWhole(Append(L, e))
  BY <1>1, <1>3, <1>5, PushEndsWhole DEF Strict
<1>7. Gathered(Append(L, e), D)
  BY <1>1, PushGathered DEF Strict, Loose, Fits
<1> QED BY <1>2, <1>4, <1>6, <1>7 DEF Strict

-----------------------------------------------------------------------------
(* The steps of a decoder, on values                                       *)

\* The same blocks, whatever they hold.
SameKinds(D, C) ==
    /\ D \in Seq(Blocks) /\ Len(D) = Len(C)
    /\ \A p \in 1..Len(C) : D[p].kind = C[p].kind

\* The adapters' events are events.
LEMMA EventTypes ==
  ASSUME NEW b \in Blocks, NEW p \in Nat
  PROVE  /\ Start(b, p) \in Events /\ Delta(b, p) \in Events /\ End(b, p) \in Events /\ Begin \in Events
         /\ Start(b, p).type = "start" /\ Start(b, p).kind = b.kind /\ Start(b, p).at = p /\ Start(b, p).text = b.text
         /\ Delta(b, p).type = "delta" /\ Delta(b, p).kind = b.kind /\ Delta(b, p).at = p
         /\ End(b, p).type = "end" /\ End(b, p).kind = b.kind /\ End(b, p).at = p /\ End(b, p).text = b.text
         /\ Begin.type = "begin"
<1>1. b.kind \in Labels /\ b.text \in Nat /\ "none" \in Labels
  BY DEF Blocks, Labels
<1> QED BY <1>1 DEF Start, Delta, End, Begin, Event, Events

\* Sound logs and contents have their types.
LEMMA SoundTypes ==
  ASSUME NEW L, NEW C, NEW s, Sound(L, C, s)
  PROVE  /\ L \in Seq(Events) /\ C \in Seq(Blocks) /\ Len(L) \in Nat /\ Len(C) \in Nat
         /\ \A p \in 1..Len(C) : C[p] \in Blocks /\ C[p].kind \in Kinds /\ C[p].text \in Nat
<1>1. L \in Seq(Events) /\ C \in Seq(Blocks)
  BY DEF Sound, Loose
<1>2. \A p \in 1..Len(C) : C[p] \in Blocks
  BY <1>1
<1> QED BY <1>1, <1>2 DEF Blocks

\* A block that is there has started.
LEMMA SoundBegun ==
  ASSUME NEW L, NEW C, NEW s, Sound(L, C, s), NEW p \in 1..Len(C)
  PROVE  Len(L) # 0
<1>1. PICK i \in 1..Len(L) : Opens(L, i, p)
  BY DEF Sound, Loose, Started
<1>2. Len(L) \in Nat
  BY SoundTypes
<1> QED BY <1>1, <1>2

\* What has ended is a block.
LEMMA EndedThere ==
  ASSUME NEW L, NEW C, NEW s, Sound(L, C, s), NEW p, EndedIn(L, p)
  PROVE  p \in 1..Len(C)
<1>1. PICK i \in 1..Len(L) : L[i].type = "end" /\ L[i].at = p
  BY DEF EndedIn
<1> QED BY <1>1 DEF Sound, Loose, Named, About

\* With fewer promises of the server less holds.
LEMMA Weaken ==
  ASSUME NEW L, NEW C, NEW s, NEW t, Sound(L, C, s), t => s
  PROVE  Sound(L, C, t)
  BY DEF Sound

\* The start event, pushed to an empty log.
LEMMA PushBeginSound ==
  ASSUME NEW L, NEW C, NEW s, Sound(L, C, s), s \/ OwnStart => L = <<>>
  PROVE  /\ Sound(Append(L, Begin), C, s) /\ Len(Append(L, Begin)) # 0
         /\ \A p : EndedIn(Append(L, Begin), p) <=> EndedIn(L, p)
<1>1. L \in Seq(Events) /\ C \in Seq(Blocks) /\ Len(L) \in Nat /\ Len(C) \in Nat
  BY SoundTypes
<1>2. Begin \in Events /\ Begin.type = "begin"
  BY DEF Begin, Event, Events, Labels
<1>3. Fits(Begin, C, C)
  BY <1>1, <1>2 DEF Fits, Extends
<1>4. Loose(Append(L, Begin), C) /\ Open(Append(L, Begin))
  BY <1>2, <1>3, PushLoose DEF Sound
<1>5. ASSUME s PROVE Strict(Append(L, Begin), C)
  <2>1. \A p \in 1..Len(C) : C[p].text \in Nat
    BY SoundTypes
  <2>2. Follows(C, C, Begin)
    BY <1>1, <1>2, <2>1 DEF Follows
  <2>3. L = <<>> /\ Strict(L, C) /\ Loose(L, C)
    BY <1>5 DEF Sound
  <2> QED BY <1>2, <1>3, <2>2, <2>3, PushStrict
<1>6. \A p : EndedIn(Append(L, Begin), p) <=> EndedIn(L, p)
  BY <1>1, <1>2, PushEnded
<1>7. OwnStart => BeginFirst(Append(L, Begin))
  BY <1>1, <1>2, PushBegin DEF Sound
<1> QED BY <1>1, <1>2, <1>4, <1>5, <1>6, <1>7, PushFacts DEF Sound

\* A block that begins.
LEMMA PushStartSound ==
  ASSUME NEW L, NEW C, NEW s, Sound(L, C, s), NEW b \in Blocks, s \/ OwnStart => Len(L) # 0
  PROVE  /\ Sound(Append(L, Start(b, Len(C) + 1)), Append(C, b), s) /\ Len(Append(L, Start(b, Len(C) + 1))) # 0
         /\ \A p : EndedIn(Append(L, Start(b, Len(C) + 1)), p) <=> EndedIn(L, p)
         /\ ~EndedIn(L, Len(C) + 1)
         /\ Append(C, b) \in Seq(Blocks) /\ Len(Append(C, b)) = Len(C) + 1 /\ Append(C, b)[Len(C) + 1] = b
         /\ \A p \in 1..Len(C) : Append(C, b)[p] = C[p]
<1> DEFINE e == Start(b, Len(C) + 1)
           D == Append(C, b)
<1>1. L \in Seq(Events) /\ C \in Seq(Blocks) /\ Len(L) \in Nat /\ Len(C) \in Nat
  BY SoundTypes
<1>2. e \in Events /\ e.type = "start" /\ e.kind = b.kind /\ e.at = Len(C) + 1 /\ e.text = b.text
  BY <1>1, EventTypes
<1>3. D \in Seq(Blocks) /\ Len(D) = Len(C) + 1 /\ D[Len(C) + 1] = b /\ \A p \in 1..Len(C) : D[p] = C[p]
  BY <1>1
<1> HIDE DEF e, D
<1>4. Fits(e, C, D)
  BY <1>1, <1>2, <1>3 DEF Fits, Extends
<1>5. Loose(Append(L, e), D) /\ Open(Append(L, e))
  BY <1>2, <1>4, PushLoose DEF Sound
<1>6. ~EndedIn(L, Len(C) + 1)
  <2>1. Len(C) + 1 \notin 1..Len(C)
    BY <1>1
  <2> QED BY <2>1, EndedThere
<1>7. ASSUME s PROVE Strict(Append(L, e), D)
  <2>1. \A p \in 1..Len(C) : C[p].text \in Nat
    BY SoundTypes
  <2>2. Follows(D, C, e)
    BY <1>1, <1>2, <1>3, <2>1 DEF Follows
  <2>3. Len(L) # 0 /\ Strict(L, C) /\ Loose(L, C) /\ ~EndedIn(L, e.at)
    BY <1>2, <1>6, <1>7 DEF Sound
  <2> QED BY <1>2, <1>4, <2>2, <2>3, PushStrict
<1>8. \A p : EndedIn(Append(L, e), p) <=> EndedIn(L, p)
  BY <1>1, <1>2, PushEnded
<1>10. OwnStart => BeginFirst(Append(L, e))
  BY <1>1, <1>2, PushBegin DEF Sound
<1>9. Sound(Append(L, e), D, s) /\ Len(Append(L, e)) # 0
  BY <1>1, <1>2, <1>5, <1>7, <1>10, PushFacts DEF Sound
<1> QED BY <1>3, <1>6, <1>8, <1>9 DEF e, D

\* A block that grows.
LEMMA PushDeltaSound ==
  ASSUME NEW L, NEW C, NEW s, Sound(L, C, s), NEW p \in 1..Len(C), NEW b \in Blocks, b.kind = C[p].kind,
         NEW D, SameKinds(D, C), s => ~EndedIn(L, p),
         s => \A q \in 1..Len(C) : D[q].text = IF q = p THEN C[q].text + 1 ELSE C[q].text
  PROVE  /\ Sound(Append(L, Delta(b, p)), D, s) /\ Len(Append(L, Delta(b, p))) # 0
         /\ \A q : EndedIn(Append(L, Delta(b, p)), q) <=> EndedIn(L, q)
<1> DEFINE e == Delta(b, p)
<1>1. L \in Seq(Events) /\ C \in Seq(Blocks) /\ Len(L) \in Nat /\ Len(C) \in Nat /\ Len(D) \in Nat
  BY SoundTypes DEF SameKinds
<1>2. e \in Events /\ e.type = "delta" /\ e.kind = b.kind /\ e.at = p
  BY <1>1, EventTypes
<1> HIDE DEF e
<1>3. Fits(e, C, D)
  BY <1>1, <1>2 DEF Fits, Extends, SameKinds
<1>4. Loose(Append(L, e), D) /\ Open(Append(L, e))
  BY <1>2, <1>3, PushLoose DEF Sound
<1>5. ASSUME s PROVE Strict(Append(L, e), D)
  <2>1. \A q \in 1..Len(C) : C[q].text \in Nat
    BY SoundTypes
  <2>2. Follows(D, C, e)
    BY <1>1, <1>2, <1>5, <2>1 DEF Follows, SameKinds
  <2>3. Len(L) # 0
    BY SoundBegun
  <2>4. Strict(L, C) /\ Loose(L, C) /\ ~EndedIn(L, e.at)
    BY <1>2, <1>5 DEF Sound
  <2> QED BY <1>2, <1>3, <2>2, <2>3, <2>4, PushStrict
<1>6. \A q : EndedIn(Append(L, e), q) <=> EndedIn(L, q)
  BY <1>1, <1>2, PushEnded
<1>8. OwnStart => BeginFirst(Append(L, e))
  BY <1>1, <1>2, SoundBegun, PushBegin DEF Sound
<1>7. Sound(Append(L, e), D, s) /\ Len(Append(L, e)) # 0
  BY <1>1, <1>2, <1>4, <1>5, <1>8, PushFacts DEF Sound
<1> QED BY <1>6, <1>7 DEF e

\* A block that ends.
LEMMA PushEndSound ==
  ASSUME NEW L, NEW C, NEW s, Sound(L, C, s), NEW p \in 1..Len(C), NEW w \in Blocks, w.kind = C[p].kind,
         NEW D, SameKinds(D, C), s => ~EndedIn(L, p) /\ (w.kind # "reasoning" => w.text = C[p].text),
         s => \A q \in 1..Len(C) : q # p => D[q].text = C[q].text
  PROVE  /\ Sound(Append(L, End(w, p)), D, s) /\ Len(Append(L, End(w, p))) # 0
         /\ \A q : EndedIn(Append(L, End(w, p)), q) <=> EndedIn(L, q) \/ q = p
<1> DEFINE e == End(w, p)
<1>1. L \in Seq(Events) /\ C \in Seq(Blocks) /\ Len(L) \in Nat /\ Len(C) \in Nat /\ Len(D) \in Nat
  BY SoundTypes DEF SameKinds
<1>2. e \in Events /\ e.type = "end" /\ e.kind = w.kind /\ e.at = p /\ e.text = w.text
  BY <1>1, EventTypes
<1> HIDE DEF e
<1>3. Fits(e, C, D)
  BY <1>1, <1>2 DEF Fits, Extends, SameKinds
<1>4. Loose(Append(L, e), D) /\ Open(Append(L, e))
  BY <1>2, <1>3, PushLoose DEF Sound
<1>5. ASSUME s PROVE Strict(Append(L, e), D)
  <2>1. \A q \in 1..Len(C) : C[q].text \in Nat
    BY SoundTypes
  <2>2. Follows(D, C, e)
    BY <1>1, <1>2, <1>5, <2>1 DEF Follows, SameKinds
  <2>3. Len(L) # 0
    BY SoundBegun
  <2>4. /\ Strict(L, C) /\ Loose(L, C) /\ ~EndedIn(L, e.at)
        /\ e.kind # "reasoning" => e.text = C[e.at].text
    BY <1>2, <1>5 DEF Sound
  <2> QED BY <1>2, <1>3, <2>2, <2>3, <2>4, PushStrict
<1>6. \A q : EndedIn(Append(L, e), q) <=> EndedIn(L, q) \/ q = p
  BY <1>1, <1>2, PushEnded
<1>8. OwnStart => BeginFirst(Append(L, e))
  BY <1>1, <1>2, SoundBegun, PushBegin DEF Sound
<1>7. Sound(Append(L, e), D, s) /\ Len(Append(L, e)) # 0
  BY <1>1, <1>2, <1>4, <1>5, <1>8, PushFacts DEF Sound
<1> QED BY <1>6, <1>7 DEF e

\* The content changes and no event tells of it.
LEMMA RetextSound ==
  ASSUME NEW L, NEW C, NEW s, Sound(L, C, s), NEW D, SameKinds(D, C), s => D = C
  PROVE  Sound(L, D, s)
<1>1. Loose(L, D)
  BY DEF Sound, Loose, Named, Started, SameKinds, Opens
<1> QED BY <1>1 DEF Sound

\* Several ends at once, of blocks that have not ended.
Batch(C, order) == [k \in 1..Len(order) |-> End(C[order[k]], order[k])]

\* Some last events of a decoder behind its log.
LEMMA BatchFacts ==
  ASSUME NEW L \in Seq(Events), NEW C \in Seq(Blocks), NEW order \in Seq(1..Len(C))
  PROVE  /\ L \o Batch(C, order) \in Seq(Events) /\ Len(L \o Batch(C, order)) = Len(L) + Len(order)
         /\ \A i \in 1..Len(L) : (L \o Batch(C, order))[i] = L[i]
         /\ \A k \in 1..Len(order) : (L \o Batch(C, order))[Len(L) + k] = End(C[order[k]], order[k])
<1>1. Len(L) \in Nat /\ Len(order) \in Nat /\ Len(C) \in Nat
  OBVIOUS
<1>2. \A k \in 1..Len(order) : order[k] \in 1..Len(C) /\ order[k] \in Nat /\ C[order[k]] \in Blocks
  BY <1>1
<1>3. \A k \in 1..Len(order) : End(C[order[k]], order[k]) \in Events
  BY <1>2, EventTypes
<1>4. Batch(C, order) \in Seq(Events) /\ Len(Batch(C, order)) = Len(order)
  BY <1>1, <1>3 DEF Batch
<1>5. \A k \in 1..Len(order) : Batch(C, order)[k] = End(C[order[k]], order[k])
  BY DEF Batch
<1>6. PICK E \in Seq(Events) : E = Batch(C, order)
  BY <1>4
<1>7. L \o E \in Seq(Events) /\ Len(L \o E) = Len(L) + Len(E) /\ \A i \in 1..Len(L) : (L \o E)[i] = L[i]
  OBVIOUS
<1>8. ASSUME NEW k \in 1..Len(E) PROVE (L \o E)[Len(L) + k] = E[k]
  OBVIOUS
<1> QED BY <1>4, <1>5, <1>6, <1>7, <1>8

\* A batch of ends of different blocks, each as its block is.
LEMMA BatchSound ==
  ASSUME NEW L, NEW C, NEW s, Sound(L, C, s), NEW order \in Seq(1..Len(C)),
         \A k, l \in 1..Len(order) : order[k] = order[l] => k = l,
         s => \A k \in 1..Len(order) : ~EndedIn(L, order[k])
  PROVE  /\ Sound(L \o Batch(C, order), C, s)
         /\ \A p : EndedIn(L \o Batch(C, order), p) <=> EndedIn(L, p) \/ \E k \in 1..Len(order) : order[k] = p
<1> DEFINE M == L \o Batch(C, order)
<1>1. /\ L \in Seq(Events) /\ C \in Seq(Blocks) /\ Len(L) \in Nat /\ Len(C) \in Nat /\ Len(order) \in Nat
      /\ \A p \in 1..Len(C) : C[p] \in Blocks
  BY SoundTypes
<1>2. /\ M \in Seq(Events) /\ Len(M) = Len(L) + Len(order)
      /\ \A i \in 1..Len(L) : M[i] = L[i]
  BY <1>1, BatchFacts
<1>3. ASSUME NEW k \in 1..Len(order)
      PROVE  /\ M[Len(L) + k].type = "end" /\ M[Len(L) + k].at = order[k] /\ M[Len(L) + k].kind = C[order[k]].kind
             /\ M[Len(L) + k].text = C[order[k]].text /\ order[k] \in 1..Len(C)
  <2>1. M[Len(L) + k] = End(C[order[k]], order[k])
    BY <1>1, BatchFacts
  <2>2. order[k] \in 1..Len(C)
    OBVIOUS
  <2> QED BY <1>1, <2>1, <2>2, EventTypes
<1>0. Len(M) = Len(L) + Len(order) /\ Len(L) \in Nat /\ Len(order) \in Nat
  BY <1>1, <1>2
<1> HIDE DEF M
<1>4. ASSUME NEW i \in 1..Len(M) PROVE i \in 1..Len(L) \/ \E k \in 1..Len(order) : i = Len(L) + k
  <2>1. CASE i > Len(L)
    <3>1. i - Len(L) \in 1..Len(order) /\ i = Len(L) + (i - Len(L))
      BY <1>0, <2>1
    <3> QED BY <3>1
  <2> QED BY <1>0, <2>1
<1>5. Open(M)
  <2>1. ASSUME NEW i \in 1..Len(M) PROVE M[i].type \notin {"done", "error"}
    <3>1. CASE i \in 1..Len(L)
      BY <1>2, <3>1 DEF Sound, Open
    <3>2. ASSUME NEW k \in 1..Len(order), i = Len(L) + k PROVE M[i].type \notin {"done", "error"}
      BY <1>3, <3>2
    <3> QED BY <1>4, <3>1, <3>2
  <2> QED BY <2>1 DEF Open
<1>6. Named(M, C)
  <2> SUFFICES ASSUME NEW i \in 1..Len(M), About(M[i])
               PROVE  /\ M[i].at \in 1..Len(C) /\ M[i].kind = C[M[i].at].kind
                      /\ \E j \in 1..i : Opens(M, j, M[i].at)
    BY DEF Named
  <2>1. CASE i \in 1..Len(L)
    <3>1. /\ L[i].at \in 1..Len(C) /\ L[i].kind = C[L[i].at].kind
          /\ \E j \in 1..i : Opens(L, j, L[i].at)
      BY <1>2, <2>1 DEF Sound, Loose, Named
    <3>2. PICK j \in 1..i : Opens(L, j, L[i].at)
      BY <3>1
    <3>3. j \in 1..Len(L)
      BY <1>1, <2>1
    <3> QED BY <1>2, <2>1, <3>1, <3>2, <3>3 DEF Opens
  <2>2. ASSUME NEW k \in 1..Len(order), i = Len(L) + k
        PROVE  /\ M[i].at \in 1..Len(C) /\ M[i].kind = C[M[i].at].kind
               /\ \E j \in 1..i : Opens(M, j, M[i].at)
    <3>1. M[i].at = order[k] /\ order[k] \in 1..Len(C) /\ M[i].kind = C[order[k]].kind
      BY <1>3, <2>2
    <3>2. PICK j \in 1..Len(L) : Opens(L, j, order[k])
      BY <3>1 DEF Sound, Loose, Started
    <3>3. Opens(M, j, M[i].at) /\ j \in 1..i
      BY <1>1, <1>2, <2>2, <3>1, <3>2 DEF Opens
    <3> QED BY <3>1, <3>3
  <2> QED BY <1>4, <2>1, <2>2
<1>7. Started(M, C)
  <2>1. ASSUME NEW p \in 1..Len(C) PROVE \E i \in 1..Len(M) : Opens(M, i, p)
    <3>1. PICK i \in 1..Len(L) : Opens(L, i, p)
      BY DEF Sound, Loose, Started
    <3>2. Opens(M, i, p) /\ i \in 1..Len(M)
      BY <1>1, <1>2, <3>1 DEF Opens
    <3> QED BY <3>2
  <2>2. ASSUME NEW i \in 1..Len(M), NEW j \in 1..(i - 1), M[i].type = "start", M[j].type = "start"
        PROVE  M[j].at < M[i].at
    <3>1. i \in 1..Len(L)
      BY <1>3, <1>4, <2>2
    <3>2. j \in 1..Len(L)
      BY <1>1, <3>1
    <3> QED BY <1>2, <2>2, <3>1, <3>2 DEF Sound, Loose, Started
  <2> QED BY <2>1, <2>2 DEF Started
<1>8. \A p : EndedIn(M, p) <=> EndedIn(L, p) \/ \E k \in 1..Len(order) : order[k] = p
  <2>1. ASSUME NEW p, EndedIn(M, p) PROVE EndedIn(L, p) \/ \E k \in 1..Len(order) : order[k] = p
    <3>1. PICK i \in 1..Len(M) : M[i].type = "end" /\ M[i].at = p
      BY <2>1 DEF EndedIn
    <3>2. CASE i \in 1..Len(L)
      BY <1>2, <3>1, <3>2 DEF EndedIn
    <3>3. ASSUME NEW k \in 1..Len(order), i = Len(L) + k PROVE order[k] = p
      BY <1>3, <3>1, <3>3
    <3> QED BY <1>4, <3>2, <3>3
  <2>2. ASSUME NEW p, EndedIn(L, p) PROVE EndedIn(M, p)
    <3>1. PICK i \in 1..Len(L) : L[i].type = "end" /\ L[i].at = p
      BY <2>2 DEF EndedIn
    <3>2. i \in 1..Len(M) /\ M[i] = L[i]
      BY <1>1, <1>2
    <3> QED BY <3>1, <3>2 DEF EndedIn
  <2>3. ASSUME NEW k \in 1..Len(order) PROVE EndedIn(M, order[k])
    <3>1. Len(L) + k \in 1..Len(M)
      BY <1>0
    <3>2. M[Len(L) + k].type = "end" /\ M[Len(L) + k].at = order[k]
      BY <1>3
    <3> QED BY <3>1, <3>2 DEF EndedIn
  <2> QED BY <2>1, <2>2, <2>3
<1>10. ASSUME BeginFirst(L) PROVE BeginFirst(M)
  <2>1. CASE Len(L) = 0
    <3>1. ASSUME Len(order) # 0 PROVE FALSE
      <4>1. order[1] \in 1..Len(C)
        BY <1>1, <3>1
      <4> QED BY <2>1, <4>1, SoundBegun
    <3> QED BY <1>2, <2>1, <3>1 DEF BeginFirst
  <2>2. CASE Len(L) # 0
    <3>0. 1 \in 1..Len(L)
      BY <1>0, <2>2
    <3>1. M[1] = Begin
      BY <1>2, <1>10, <2>2, <3>0 DEF BeginFirst
    <3>2. ASSUME NEW i \in 1..Len(M), M[i].type = "begin" PROVE i = 1
      <4>1. i \in 1..Len(L)
        BY <1>3, <1>4, <3>2
      <4> QED BY <1>2, <1>10, <3>2, <4>1 DEF BeginFirst
    <3> QED BY <3>1, <3>2 DEF BeginFirst
  <2> QED BY <2>1, <2>2
<1>9. ASSUME s PROVE Strict(M, C)
  <2>1. BeginFirst(L) /\ EndsLast(L) /\ EndsWhole(L) /\ Gathered(L, C) /\ Named(L, C) /\ Started(L, C)
    BY <1>9 DEF Sound, Strict, Loose
  <2>2. BeginFirst(M)
    BY <1>10, <2>1
  <2>3. EndsLast(M)
    <3> SUFFICES ASSUME NEW i \in 1..Len(M), M[i].type = "end", NEW j \in (i + 1)..Len(M) PROVE M[j].at # M[i].at
      BY DEF EndsLast
    <3>1. j \in 1..Len(M) /\ j > i
      BY <1>1, <1>2
    <3>2. CASE i \in 1..Len(L) /\ j \in 1..Len(L)
      BY <1>1, <1>2, <2>1, <3>1, <3>2 DEF EndsLast
    <3>3. ASSUME i \in 1..Len(L), NEW k \in 1..Len(order), j = Len(L) + k PROVE M[j].at # M[i].at
      <4>1. M[j].at = order[k] /\ M[i] = L[i] /\ ~EndedIn(L, order[k])
        BY <1>2, <1>3, <1>9, <3>3
      <4> QED BY <3>3, <4>1 DEF EndedIn
    <3>4. ASSUME NEW k \in 1..Len(order), i = Len(L) + k, NEW l \in 1..Len(order), j = Len(L) + l
                   PROVE M[j].at # M[i].at
      <4>1. M[j].at = order[l] /\ M[i].at = order[k]
        BY <1>3, <3>4
      <4>2. k # l
        BY <1>0, <3>1, <3>4
      <4> QED BY <4>1, <4>2
    <3>5. ASSUME NEW k \in 1..Len(order), i = Len(L) + k, j \in 1..Len(L) PROVE FALSE
      BY <1>1, <3>1, <3>5
    <3> QED BY <1>4, <3>1, <3>2, <3>3, <3>4, <3>5
  <2>4. ASSUME NEW p, NEW n \in 0..Len(M) PROVE Deltas(M, n, p) = Deltas(L, IF n <= Len(L) THEN n ELSE Len(L), p)
    <3>1. ASSUME NEW j \in 1..n, M[j].type = "delta" PROVE j \in 1..Len(L)
      <4>1. j \in 1..Len(M)
        BY <1>1, <1>2
      <4> QED BY <1>3, <1>4, <3>1, <4>1
    <3>2. CASE n <= Len(L)
      <4>1. \A j \in 1..n : M[j] = L[j]
        BY <1>1, <1>2, <3>2
      <4> QED BY <3>2, <4>1 DEF Deltas
    <3>3. CASE n > Len(L)
      <4>1. \A j \in 1..Len(L) : M[j] = L[j] /\ j \in 1..n
        BY <1>1, <1>2, <3>3
      <4>2. Deltas(M, n, p) = Deltas(L, Len(L), p)
        BY <3>1, <4>1 DEF Deltas
      <4> QED BY <1>1, <3>3, <4>2
    <3> QED BY <1>1, <1>2, <3>2, <3>3
  <2>5. EndsWhole(M)
    <3> SUFFICES ASSUME NEW i \in 1..Len(M), M[i].type = "end", M[i].kind # "reasoning",
                        NEW j \in 1..Len(M), Opens(M, j, M[i].at)
                 PROVE  M[i].text = M[j].text + Cardinality(Deltas(M, i - 1, M[i].at))
      BY DEF EndsWhole
    <3>1. j \in 1..Len(L)
      BY <1>3, <1>4 DEF Opens
    <3>2. M[j] = L[j] /\ Opens(L, j, M[i].at) /\ i - 1 \in 0..Len(M)
      BY <1>1, <1>2, <3>1 DEF Opens
    <3>3. CASE i \in 1..Len(L)
      <4>0. i - 1 \in 0..Len(M) /\ i - 1 <= Len(L)
        BY <1>0, <3>2, <3>3
      <4>1. Deltas(M, i - 1, M[i].at) = Deltas(L, i - 1, M[i].at)
        BY <2>4, <4>0
      <4>2. M[i] = L[i]
        BY <1>2, <3>3
      <4> QED BY <2>1, <3>1, <3>2, <3>3, <4>1, <4>2 DEF EndsWhole
    <3>4. ASSUME NEW k \in 1..Len(order), i = Len(L) + k
          PROVE  M[i].text = M[j].text + Cardinality(Deltas(M, i - 1, M[i].at))
      <4>1. Deltas(M, i - 1, M[i].at) = Deltas(L, Len(L), M[i].at)
        <5>1. PICK n \in 0..Len(M) : n = i - 1
          BY <3>2
        <5>2. Deltas(M, n, M[i].at) = Deltas(L, IF n <= Len(L) THEN n ELSE Len(L), M[i].at)
          BY <2>4
        <5>3. n <= Len(L) => n = Len(L)
          BY <1>0, <3>4, <5>1
        <5> QED BY <5>1, <5>2, <5>3
      <4>2. M[i].at = order[k] /\ M[i].text = C[order[k]].text /\ order[k] \in 1..Len(C)
        BY <1>3, <3>4
      <4>3. ~EndedIn(L, order[k])
        BY <1>9
      <4>4. C[order[k]].text = L[j].text + Cardinality(Deltas(L, Len(L), order[k]))
        BY <2>1, <3>1, <3>2, <4>2, <4>3 DEF Gathered
      <4> QED BY <3>2, <4>1, <4>2, <4>4
    <3> QED BY <1>4, <3>3, <3>4
  <2>6. Gathered(M, C)
    <3> SUFFICES ASSUME NEW p \in 1..Len(C), ~EndedIn(M, p), NEW j \in 1..Len(M), Opens(M, j, p)
                 PROVE  C[p].text = M[j].text + Cardinality(Deltas(M, Len(M), p))
      BY DEF Gathered
    <3>1. j \in 1..Len(L)
      BY <1>3, <1>4 DEF Opens
    <3>2. M[j] = L[j] /\ Opens(L, j, p) /\ ~EndedIn(L, p)
      BY <1>2, <1>8, <3>1 DEF Opens
    <3>3. Deltas(M, Len(M), p) = Deltas(L, Len(L), p)
      <4>1. Len(M) \in 0..Len(M) /\ (Len(M) <= Len(L) => Len(M) = Len(L))
        BY <1>1, <1>2
      <4> QED BY <2>4, <4>1
    <3> QED BY <2>1, <3>1, <3>2, <3>3 DEF Gathered
  <2> QED BY <2>2, <2>3, <2>5, <2>6 DEF Strict
<1>11. OwnStart => BeginFirst(M)
  BY <1>10 DEF Sound
<1> QED BY <1>1, <1>2, <1>5, <1>6, <1>7, <1>8, <1>9, <1>11 DEF Sound, Loose, M

-----------------------------------------------------------------------------
(* What the invariant says of the properties                               *)

\* A log without a terminal event.
LEMMA TailedNone ==
  ASSUME NEW M \in Seq(Events)
  PROVE  Tailed(M, M)
  BY DEF Tailed

\* A log with one.
LEMMA TailedTerminal ==
  ASSUME NEW M \in Seq(Events), NEW type \in {"done", "error"}, NEW reason \in Labels
  PROVE  Tailed(Append(M, Terminal(type, reason)), M)
<1>1. /\ Terminal(type, reason) \in Events /\ Terminal(type, reason).type = type
      /\ Terminal(type, reason).at = 0
  BY DEF Terminal, Event, Events
<1> QED BY <1>1, PushFacts DEF Tailed

\* A sound log keeps to the event protocol, with or without its terminal event.
LEMMA SoundProtocol ==
  ASSUME NEW M, log \in Seq(Events), Tailed(log, M), Sound(M, content, Polite), DoneOpened
  PROVE  ProtocolKept
<1>1. /\ M \in Seq(Events) /\ content \in Seq(Blocks) /\ Len(M) \in Nat /\ Len(content) \in Nat
      /\ DOMAIN content = 1..Len(content) /\ DOMAIN log = 1..Len(log) /\ Len(log) \in Nat
  BY SoundTypes
<1>2. Open(M) /\ Named(M, content) /\ Started(M, content) /\ (Polite => EndsLast(M))
      /\ (Polite \/ OwnStart => BeginFirst(M))
  BY DEF Sound, Loose, Strict
<1>3. /\ Len(log) >= Len(M) /\ \A i \in 1..Len(M) : log[i] = M[i]
      /\ \A i \in 1..Len(log) : i \in 1..Len(M) \/ (i = Len(log) /\ log[i].type \in {"done", "error"} /\ log[i].at = 0)
  BY DEF Tailed
<1>4. ASSUME NEW i \in 1..Len(log), TerminalAt(i) PROVE i = Len(log)
  BY <1>2, <1>3, <1>4 DEF TerminalAt, Open
<1>5. ASSUME NEW i \in 1..Len(log), About(log[i])
      PROVE  i \in 1..Len(M) /\ M[i] = log[i] /\ log[i].at \in 1..Len(content) /\ log[i].kind = content[log[i].at].kind
  BY <1>2, <1>3, <1>5 DEF About, Named
<1>6. ASSUME NEW i \in 1..Len(log), Opened(log[i]) PROVE \E j \in 1..(i - 1) : log[j] = Begin
  <2>0. Polite \/ OwnStart
    BY <1>6 DEF Opened
  <2>1. CASE About(log[i])
    <3>1. i \in 1..Len(M) /\ M[i].type # "begin"
      BY <1>5, <2>1 DEF About
    <3>2. M[1] = Begin /\ Len(M) # 0
      BY <1>1, <1>2, <2>0, <3>1 DEF BeginFirst
    <3>3. i # 1
      BY <3>1, <3>2 DEF Begin, Event
    <3>4. 1 \in 1..(i - 1) /\ 1 \in 1..Len(M)
      BY <1>1, <3>1, <3>3
    <3>5. log[1] = Begin
      BY <1>3, <3>2, <3>4
    <3> QED BY <3>4, <3>5
  <2>2. CASE log[i].type = "done" /\ OwnStart
    <3>1. i = Len(log) /\ log # <<>>
      <4>1. TerminalAt(i)
        BY <2>2 DEF TerminalAt
      <4>2. i = Len(log)
        BY <1>4, <4>1
      <4>3. log # <<>>
        OBVIOUS
      <4> QED BY <4>2, <4>3
    <3>2. Len(log) > 1
      <4>1. Finished
        BY <2>2, <3>1 DEF Finished
      <4> QED BY <2>2, <4>1 DEF DoneOpened
    <3>3. 1 \in 1..(i - 1) /\ 1 \in 1..Len(log) /\ 1 # Len(log)
      BY <1>1, <3>1, <3>2
    <3>4. 1 \in 1..Len(M) /\ Len(M) # 0
      <4>1. 1 \in 1..Len(M)
        BY <1>3, <3>3
      <4> QED BY <1>1, <4>1
    <3>5. log[1] = Begin
      BY <1>2, <1>3, <2>2, <3>4 DEF BeginFirst
    <3> QED BY <3>3, <3>5
  <2> QED BY <1>6, <2>1, <2>2 DEF Opened, About
<1>7. ASSUME NEW i \in 1..Len(log), log[i].type \in {"delta", "end"}
      PROVE  \E j \in 1..(i - 1) : log[j].type = "start" /\ log[j].at = log[i].at /\ log[j].kind = log[i].kind
  <2>1. i \in 1..Len(M) /\ M[i] = log[i] /\ log[i].kind = content[log[i].at].kind /\ About(log[i])
    BY <1>5, <1>7 DEF About
  <2>2. PICK j \in 1..i : Opens(M, j, M[i].at)
    BY <1>2, <2>1 DEF Named
  <2>0. Len(log) >= Len(M) /\ Len(M) \in Nat /\ Len(log) \in Nat
    BY <1>1, <1>3
  <2>8. j \in 1..Len(log) /\ j \in 1..Len(M)
    BY <2>0, <2>1
  <2>3. j \in 1..Len(log) /\ log[j] = M[j] /\ About(log[j])
    BY <1>3, <2>2, <2>8 DEF Opens, About
  <2>4. log[j].type = "start" /\ log[j].at = log[i].at
    BY <2>1, <2>2, <2>3 DEF Opens
  <2>5. log[j].kind = content[log[j].at].kind
    BY <1>5, <2>3
  <2>6. j # i
    BY <1>7, <2>4
  <2>7. j \in 1..(i - 1)
    BY <2>6
  <2> QED BY <2>1, <2>4, <2>5, <2>7
<1>8. ASSUME NEW i \in 1..Len(log), log[i].type = "end", Polite, NEW j \in (i + 1)..Len(log) PROVE log[j].at # log[i].at
  <2>1. i \in 1..Len(M) /\ M[i] = log[i] /\ log[i].at \in 1..Len(content)
    BY <1>5, <1>8 DEF About
  <2>2. CASE j \in 1..Len(M)
    <3>1. M[j].at # M[i].at
      BY <1>1, <1>2, <1>8, <2>1, <2>2 DEF EndsLast
    <3> QED BY <1>3, <2>1, <2>2, <3>1
  <2>3. CASE j \notin 1..Len(M)
    <3>0. j \in 1..Len(log)
      BY <1>1, <2>1
    <3>1. log[j].at = 0
      BY <1>3, <2>3, <3>0
    <3> QED BY <2>1, <3>1
  <2> QED BY <2>2, <2>3
<1>9. ASSUME Polite \/ OwnStart PROVE Cardinality({i \in DOMAIN log : log[i] = Begin}) <= 1
  <2>1. ASSUME NEW i \in DOMAIN log, log[i] = Begin PROVE i = 1
    <3>1. log[i].type = "begin"
      BY <2>1 DEF Begin, Event
    <3>2. i \in 1..Len(M) /\ M[i].type = "begin"
      BY <1>1, <1>3, <3>1
    <3> QED BY <1>2, <1>9, <3>2 DEF BeginFirst
  <2>2. {i \in DOMAIN log : log[i] = Begin} \subseteq {1}
    BY <2>1
  <2>3. IsFiniteSet({1}) /\ Cardinality({1}) = 1
    BY FS_Singleton
  <2> QED BY <2>2, <2>3, FS_Subset
<1>10. ASSUME NEW p \in 1..Len(content) PROVE \E i \in StartsOf(p) : log[i].kind = content[p].kind
  <2>1. PICK i \in 1..Len(M) : Opens(M, i, p)
    BY <1>2 DEF Started
  <2>0. Len(log) >= Len(M) /\ Len(M) \in Nat /\ Len(log) \in Nat
    BY <1>1, <1>3
  <2>4. i \in 1..Len(log)
    BY <2>0
  <2>2. i \in 1..Len(log) /\ log[i] = M[i] /\ log[i].type = "start" /\ log[i].at = p
    BY <1>3, <2>1, <2>4 DEF Opens
  <2>3. log[i].kind = content[p].kind
    BY <1>5, <2>2 DEF About
  <2> QED BY <1>1, <2>2, <2>3 DEF StartsOf, EventsOf
<1>11. ASSUME NEW i \in 1..Len(log), log[i].type = "start"
       PROVE  /\ log[i].at \in 1..Len(content)
              /\ \A j \in 1..(i - 1) : log[j].type = "start" => log[j].at < log[i].at
  <2>1. i \in 1..Len(M) /\ M[i] = log[i] /\ log[i].at \in 1..Len(content)
    BY <1>5, <1>11 DEF About
  <2>2. ASSUME NEW j \in 1..(i - 1), log[j].type = "start" PROVE log[j].at < log[i].at
    <3>0. j \in 1..Len(M)
      BY <1>1, <2>1
    <3>1. j \in 1..Len(M) /\ M[j] = log[j]
      BY <1>3, <3>0
    <3> QED BY <1>2, <1>11, <2>1, <2>2, <3>1 DEF Started
  <2> QED BY <2>1, <2>2
<1> QED BY <1>1, <1>4, <1>6, <1>7, <1>8, <1>9, <1>10, <1>11 DEF ProtocolKept, About

\* In a sound log the end of a block carries its start and its deltas.
LEMMA SoundCarries ==
  ASSUME NEW M, log \in Seq(Events), Tailed(log, M), Sound(M, content, Polite)
  PROVE  EndCarriesDeltas
<1>1. /\ M \in Seq(Events) /\ Len(M) \in Nat /\ DOMAIN log = 1..Len(log) /\ Len(log) \in Nat
  BY SoundTypes
<1>2. Named(M, content) /\ (Polite => EndsWhole(M))
  BY DEF Sound, Loose, Strict
<1>3. /\ Len(log) >= Len(M) /\ \A i \in 1..Len(M) : log[i] = M[i]
      /\ \A i \in 1..Len(log) : i \in 1..Len(M) \/ (i = Len(log) /\ log[i].type \in {"done", "error"} /\ log[i].at = 0)
  BY DEF Tailed
<1> SUFFICES ASSUME Polite, NEW i \in DOMAIN log, log[i].type = "end", log[i].kind # "reasoning",
                    NEW before, before = {j \in 1..(i - 1) : log[j].at = log[i].at},
                    NEW start, start = CHOOSE j \in before : log[j].type = "start"
             PROVE  log[i].text = log[start].text + Cardinality({j \in before : log[j].type = "delta"})
  BY DEF EndCarriesDeltas
<1>4. i \in 1..Len(M) /\ M[i] = log[i] /\ About(M[i]) /\ \A j \in 1..(i - 1) : log[j] = M[j] /\ j \in 1..Len(M)
  <2>1. i \in 1..Len(M) /\ M[i] = log[i] /\ About(M[i])
    BY <1>1, <1>3 DEF About
  <2>2. \A j \in 1..(i - 1) : j \in 1..Len(M)
    BY <1>1, <2>1
  <2> QED BY <1>3, <2>1, <2>2
<1>5. PICK j \in 1..i : Opens(M, j, M[i].at)
  BY <1>2, <1>4 DEF Named
<1>6. j # i
  BY <1>4, <1>5 DEF Opens
<1>7. j \in before /\ log[j].type = "start"
  BY <1>1, <1>4, <1>5, <1>6 DEF Opens
<1>8. start \in before /\ log[start].type = "start"
  BY <1>7
<1>9. start \in 1..Len(M) /\ Opens(M, start, M[i].at) /\ log[start] = M[start]
  BY <1>4, <1>8 DEF Opens
<1>10. {k \in before : log[k].type = "delta"} = Deltas(M, i - 1, M[i].at)
  BY <1>4 DEF Deltas
<1>11. M[i].text = M[start].text + Cardinality(Deltas(M, i - 1, M[i].at))
  BY <1>2, <1>4, <1>9 DEF EndsWhole
<1> QED BY <1>4, <1>9, <1>10, <1>11

-----------------------------------------------------------------------------
(* The steps all adapters share                                            *)

\* What an action that only pushes events leaves alone.
Untouched == UNCHANGED <<adapter, ctx, content, stop, slots, mark, rude>>

\* The decoder keeps reading.
Pushes(E, D, T, reason) ==
    /\ log' = log \o E /\ content' = D /\ slots' = T /\ stop' = reason
    /\ UNCHANGED <<adapter, phase, ctx>>

\* The run goes on to its next phase.
Passes(p, E) == log' = log \o E /\ phase' = p /\ Untouched

\* The run is over.
Closes(E, type, reason) == log' = log \o Append(E, Terminal(type, reason)) /\ phase' = "closed" /\ Untouched
\* Some failure.
Fails(E) == \E reason \in Labels : Closes(E, "error", reason)

\* What makes a done event true.
Whole(L, reason) ==
    /\ Polite /\ (adapter = "bedrock" => mark = "complete") => \A p \in 1..Len(content) : EndedIn(L, p)
    /\ adapter \in {"openai-responses", "openai-completions"} => mark = "complete"
    /\ adapter = "anthropic" => mark = "complete" \/ (Polite => content = <<>>)
    /\ adapter \in {"openai-responses", "google"} /\ Polite /\ mark = "complete" /\ HasToolCall(content)
         => reason # "stop"

\* Terminal events are events.
LEMMA TerminalEvent ==
  ASSUME NEW type \in {"done", "error"}, NEW reason \in Labels
  PROVE  /\ Terminal(type, reason) \in Events /\ Terminal(type, reason).type = type
         /\ Terminal(type, reason).kind = reason /\ Terminal(type, reason).at = 0
  BY DEF Terminal, Event, Events

\* Events pushed in a batch, the last one apart.
LEMMA ConcatPush ==
  ASSUME NEW L \in Seq(Events), NEW E \in Seq(Events), NEW e \in Events
  PROVE  L \o Append(E, e) = Append(L \o E, e)
  OBVIOUS

\* One event pushed in a batch.
LEMMA ConcatOne ==
  ASSUME NEW L \in Seq(Events), NEW a \in Events
  PROVE  L \o <<a>> = Append(L, a) /\ L \o <<>> = L /\ <<>> \o <<a>> = <<a>>
  OBVIOUS

\* Two events pushed in a batch.
LEMMA ConcatTwo ==
  ASSUME NEW L \in Seq(Events), NEW a \in Events, NEW b \in Events
  PROVE  L \o <<a, b>> = Append(Append(L, a), b)
  OBVIOUS

\* The end of a run, as a value.
LEMMA CloseLog ==
  ASSUME NEW E \in Seq(Events), NEW type \in {"done", "error"}, NEW reason \in Labels,
         Sound(log \o E, content, Polite), Closes(E, type, reason), log \in Seq(Events)
  PROVE  /\ Over' /\ log' \in Seq(Events) /\ log' = Append(log \o E, Terminal(type, reason)) /\ log' # <<>>
         /\ Len(log') = Len(log \o E) + 1 /\ log'[Len(log')] = Terminal(type, reason)
         /\ \A p : EndedIn(log', p) <=> EndedIn(log \o E, p)
<1> DEFINE M == log \o E
           t == Terminal(type, reason)
<1>1. M \in Seq(Events) /\ Len(M) \in Nat
  OBVIOUS
<1>2. t \in Events /\ t.type = type
  BY TerminalEvent
<1>3. log' = Append(M, t)
  BY <1>2, ConcatPush DEF Closes
<1>4. Tailed(Append(M, t), M)
  BY <1>1, TailedTerminal
<1>5. content' = content /\ Polite' = Polite
  BY DEF Closes, Untouched, Polite
<1>6. Sound(M, content, Polite)
  OBVIOUS
<1> HIDE DEF M, t
<1>7. SubSeq(Append(M, t), 1, Len(M)) = M
  BY <1>1, <1>2
<1>8. /\ Len(M) \in 0..Len(Append(M, t)) /\ Len(Append(M, t)) = Len(M) + 1 /\ Append(M, t)[Len(M) + 1] = t
      /\ Append(M, t) \in Seq(Events) /\ Append(M, t) # <<>>
  <2>1. Len(Append(M, t)) = Len(M) + 1 /\ Append(M, t)[Len(M) + 1] = t /\ Append(M, t) \in Seq(Events)
    BY <1>1, <1>2, PushFacts
  <2>2. Append(M, t) # <<>>
    BY <1>1, <1>2
  <2> QED BY <1>1, <2>1, <2>2
<1>9. Over'
  <2>1. PICK N : N = M
    OBVIOUS
  <2>2. OwnStart' = OwnStart /\ SubSeq(log', 1, Len(N)) = N
    BY <1>3, <1>7, <2>1 DEF Closes, Untouched, OwnStart
  <2>3. Sound(N, content, Polite)
    BY <1>6, <2>1
  <2>4. Sound(N, content, Polite)'
    BY <1>5, <2>2, <2>3 DEF Sound
  <2>5. Tailed(log', SubSeq(log', 1, Len(N))) /\ Len(N) \in 0..Len(log')
    BY <1>3, <1>4, <1>8, <2>1, <2>2
  <2>6. Sound(SubSeq(log, 1, Len(N)), content, Polite)'
    BY <2>2, <2>4
  <2> QED BY <2>5, <2>6 DEF Over
<1>10. \A p : EndedIn(Append(M, t), p) <=> EndedIn(M, p)
  BY <1>1, <1>2, PushEnded
<1> QED BY <1>3, <1>8, <1>9, <1>10 DEF M, t

\* A run that ends with an error.
LEMMA CloseError ==
  ASSUME Scalars, NEW E \in Seq(Events), log \in Seq(Events), Sound(log \o E, content, Polite), Fails(E)
  PROVE  AInv'
<1>1. PICK reason \in Labels : Closes(E, "error", reason)
  BY DEF Fails
<1>2. Over' /\ log' # <<>> /\ log'[Len(log')] = Terminal("error", reason)
  BY <1>1, CloseLog
<1>3. Terminal("error", reason).type = "error"
  BY TerminalEvent
<1>4. DoneIsComplete' /\ DoneOpened'
  BY <1>2, <1>3 DEF DoneIsComplete, DoneOpened, Finished
<1>5. phase' = "closed" /\ Scalars' /\ Early'
  BY <1>1 DEF Closes, Untouched, Scalars, Early
<1> QED BY <1>2, <1>4, <1>5 DEF AInv

\* A run that ends with an answer.
LEMMA CloseDone ==
  ASSUME AInv, phase = "decode", NEW E \in Seq(Events), log \in Seq(Events), Sound(log \o E, content, Polite),
         NEW reason \in Labels, Closes(E, "done", reason), Whole(log \o E, reason)
  PROVE  AInv'
<1>1. /\ Over' /\ log' # <<>> /\ log'[Len(log')] = Terminal("done", reason) /\ log' \in Seq(Events)
      /\ \A p : EndedIn(log', p) <=> EndedIn(log \o E, p)
      /\ Len(log') = Len(log \o E) + 1 /\ Scalars
  BY CloseLog DEF AInv
<1>2. Terminal("done", reason).kind = reason
  BY TerminalEvent
<1>3. /\ adapter' = adapter /\ content' = content /\ mark' = mark /\ Polite' = Polite /\ content \in Seq(Blocks)
  BY SoundTypes DEF Closes, Untouched, Polite
<1>4. DOMAIN log' = 1..Len(log') /\ DOMAIN content = 1..Len(content)
  BY <1>1, <1>3
<1>5. \A p : EndedIn(log', p) => Ended(p)'
  BY <1>4 DEF EndedIn, Ended, EventsOf
<1>6. DoneIsComplete'
  BY <1>1, <1>2, <1>3, <1>4, <1>5 DEF DoneIsComplete, Finished, Whole
<1>7. phase' = "closed" /\ Scalars' /\ Early'
  BY <1>1 DEF Closes, Untouched, Scalars, Early
<1>8. DoneOpened'
  <2>1. OwnStart' => Len(log) > 0
    BY <1>3 DEF AInv, Early, OwnStart
  <2>2. Len(log \o E) = Len(log) + Len(E) /\ Len(E) \in Nat /\ Len(log) \in Nat
    OBVIOUS
  <2> QED BY <1>1, <2>1, <2>2 DEF DoneOpened
<1> QED BY <1>1, <1>6, <1>7, <1>8 DEF AInv

\* The request is set up: nothing was pushed yet.
LEMMA PassRequest ==
  ASSUME AInv, phase = "setup", Passes("request", <<>>)
  PROVE  AInv'
<1>1. log' = log /\ content' = content /\ Polite' = Polite /\ log = <<>>
  BY DEF Passes, Untouched, Polite, AInv, Early
<1>2. Sound(log, content, Polite)'
  BY <1>1 DEF AInv, Sound, OwnStart, Passes, Untouched
<1>3. Scalars' /\ Early' /\ phase' = "request"
  BY <1>1 DEF AInv, Passes, Untouched, Scalars, Early
<1>4. TableInv'
  BY <1>1 DEF AInv, TableInv, Passes, Untouched, AnthropicInv, ResponsesInv, CompletionsInv, GoogleInv, MistralInv,
     BedrockInv, FauxInv, Polite, Places, KindAt, OpenAt, AllClosed
<1> QED BY <1>2, <1>3, <1>4 DEF AInv

\* The answer begins.
LEMMA PassDecode ==
  ASSUME AInv, phase = "request", Passes("decode", IF adapter = "bedrock" THEN <<>> ELSE <<Begin>>)
  PROVE  AInv'
<1>1. content' = content /\ slots' = slots /\ adapter' = adapter /\ Polite' = Polite /\ mark' = mark /\ stop' = stop
        /\ rude' = rude
      /\ log = <<>> /\ log \in Seq(Events) /\ Begin \in Events
  BY SoundTypes, EventTypes DEF Passes, Untouched, Polite, AInv, Early, Begin, Event, Events, Labels
<1>2. Sound(log, content, Polite)
  BY DEF AInv
<1>3. IF adapter = "bedrock" THEN log' = log ELSE log' = Append(log, Begin)
  BY <1>1, ConcatOne DEF Passes
<1>4. /\ Sound(log', content', Polite') /\ (adapter # "bedrock" => Len(log') # 0)
      /\ \A p : EndedIn(log', p) <=> EndedIn(log, p)
  BY <1>1, <1>2, <1>3, PushBeginSound
<1>8. Sound(log, content, Polite)'
  BY <1>1, <1>4 DEF Sound, OwnStart
<1>5. Scalars' /\ Early' /\ phase' = "decode"
  BY <1>4 DEF AInv, Passes, Untouched, Scalars, Early
<1>6. TableInv /\ content = <<>> /\ Len(content) = 0
  BY DEF AInv, Early
<1>7. TableInv'
  <2>1. CASE adapter = "anthropic"
    <3>1. \A i \in 1..Len(log') : log'[i].type # "start"
      <4>1. log' = Append(log, Begin) /\ Len(log) = 0
        BY <1>1, <1>3, <2>1
      <4>2. Len(log') = 1 /\ log'[1] = Begin
        BY <1>1, <4>1, PushFacts
      <4> QED BY <4>2 DEF Begin, Event
    <3> QED BY <1>1, <1>6, <2>1, <3>1 DEF TableInv, AnthropicInv, AllClosed
  <2>2. CASE adapter = "openai-responses"
    BY <1>1, <1>4, <1>6, <2>2 DEF TableInv, ResponsesInv, SlotsFit, Tracks
  <2>3. CASE adapter = "openai-completions"
    BY <1>1, <1>4, <1>6, <2>3 DEF TableInv, CompletionsInv, Places, KindAt
  <2>4. CASE adapter = "google"
    BY <1>1, <1>4, <1>6, <2>4 DEF TableInv, GoogleInv, Places, OpenAt
  <2>5. CASE adapter = "mistral"
    BY <1>1, <1>4, <1>6, <2>5 DEF TableInv, MistralInv, Places, KindAt
  <2>6. CASE adapter = "bedrock"
    BY <1>1, <1>4, <1>6, <2>6 DEF TableInv, BedrockInv, Places, AllClosed
  <2>7. CASE adapter = "faux"
    BY <1>1, <1>4, <1>6, <2>7 DEF TableInv, FauxInv
  <2> QED BY <1>1, <2>1, <2>2, <2>3, <2>4, <2>5, <2>6, <2>7 DEF AInv, Scalars
<1> QED BY <1>5, <1>7, <1>8 DEF AInv

\* Any other step of a decoder.
LEMMA KeepReading ==
  ASSUME AInv, phase = "decode", NEW E, NEW D, NEW T, NEW reason \in Reasons, Pushes(E, D, T, reason),
         mark' \in {"none", "begun", "complete"}, rude' \in BOOLEAN,
         Sound(log', D, Polite'), log' = <<>> => log = <<>>, TableInv'
  PROVE  AInv'
<1>1. Scalars' /\ Early' /\ phase' = "decode"
  BY DEF AInv, Scalars, Early, Pushes
<1>2. OwnStart' = OwnStart /\ content' = D
  BY DEF Pushes, OwnStart
<1>3. Sound(log, content, Polite)'
  BY <1>2 DEF Sound
<1> QED BY <1>1, <1>3 DEF AInv

\* The body breaks off, or something else ends the request before it began.
LEMMA FailStep ==
  ASSUME AInv, phase \notin {"closed", "crashed"}, Fails(<<>>)
  PROVE  AInv'
<1>1. Sound(log, content, Polite) /\ Scalars
  BY DEF AInv
<1>2. log \in Seq(Events) /\ log \o <<>> = log /\ <<>> \in Seq(Events)
  BY <1>1, SoundTypes
<1> QED BY <1>1, <1>2, CloseError

-----------------------------------------------------------------------------
(* Anthropic                                                               *)

\* The events and blocks of AnthropicStream are those of AdapterStream.
LEMMA AnthropicNames ==
  /\ \A b, p : /\ Anthropic!Start(b, p) = Start(b, p) /\ Anthropic!Delta(b, p) = Delta(b, p)
               /\ Anthropic!End(b, p) = End(b, p)
  /\ Anthropic!Begin = Begin
  /\ \A type, reason : Anthropic!Terminal(type, reason) = Terminal(type, reason)
  /\ \A kind, text : Anthropic!Block(kind, text) = Block(kind, text)
  BY DEF Anthropic!Start, Anthropic!Delta, Anthropic!End, Anthropic!Event, Anthropic!Begin, Anthropic!Terminal,
       Anthropic!Block,
     Start, Delta, End, Event, Begin, Terminal, Block

\* AnthropicStream sees the end of a block where the log has it.
LEMMA AnthropicEnded ==
  ASSUME log \in Seq(Events), NEW p
  PROVE  Anthropic!Ended(p) <=> EndedIn(log, p)
<1>1. DOMAIN log = 1..Len(log)
  OBVIOUS
<1> QED BY <1>1 DEF Anthropic!Ended, Anthropic!EventsOf, EndedIn

\* Fail of AnthropicStream pushes an error event and ends the run.
LEMMA AnthropicFail ==
  ASSUME Anthropic!Fail
  PROVE  Fails(<<>>)
<1> DEFINE reason == IF ctx THEN "aborted" ELSE "error"
<1>1. reason \in Labels
  BY DEF Labels, Reasons
<1>2. log' = log \o Append(<<>>, Terminal("error", reason))
  BY AnthropicNames DEF Anthropic!Fail, Anthropic!FailAfter, Anthropic!Emit
<1> HIDE DEF reason
<1> QED BY <1>1, <1>2 DEF Anthropic!Fail, Anthropic!FailAfter, Anthropic!Emit, Fails, Closes, Untouched

\* Preparing and sending the request of AnthropicStream, which may fail.
LEMMA AnthropicSetUp ==
  ASSUME AInv, adapter = "anthropic", Anthropic!SetUp \/ Anthropic!Request
  PROVE  AInv'
<1>1. CASE Anthropic!SetUp
  <2>1. phase = "setup" /\ (Anthropic!Fail \/ Passes("request", <<>>))
    <3>1. log \o <<>> = log
      BY SoundTypes DEF AInv, Early
    <3> QED BY <1>1, <3>1 DEF Anthropic!SetUp, Anthropic!Prepare, Anthropic!Goto, Passes, Untouched
  <2>2. CASE Anthropic!Fail
    BY <2>1, <2>2, AnthropicFail, FailStep
  <2>3. CASE Passes("request", <<>>)
    BY <2>1, <2>3, PassRequest
  <2> QED BY <2>1, <2>2, <2>3
<1>2. CASE Anthropic!Request
  <2>1. phase = "request" /\ (Anthropic!Fail \/ Passes("decode", <<Begin>>))
    BY <1>2, AnthropicNames DEF Anthropic!Request, Anthropic!Send, Anthropic!Goto, Anthropic!Emit, Passes, Untouched
  <2>2. CASE Anthropic!Fail
    BY <2>1, <2>2, AnthropicFail, FailStep
  <2>3. CASE Passes("decode", <<Begin>>)
    BY <2>1, <2>3, PassDecode
  <2> QED BY <2>1, <2>2, <2>3
<1> QED BY <1>1, <1>2

\* What AnthropicStream's decoder relies on, with the types of its state.
LEMMA AnthropicFacts ==
  ASSUME AInv, adapter = "anthropic", phase = "decode"
  PROVE  /\ AnthropicInv /\ Sound(log, content, Polite) /\ Scalars /\ stop \in Reasons
         /\ log \in Seq(Events) /\ content \in Seq(Blocks) /\ Len(content) \in Nat /\ Len(log) \in Nat
         /\ DOMAIN content = 1..Len(content)
         /\ \A p \in 1..Len(content) : content[p] \in Blocks /\ content[p].kind \in Kinds /\ content[p].text \in Nat
         /\ log # <<>> /\ Len(log) # 0
<1>1. Sound(log, content, Polite) /\ AnthropicInv /\ Scalars
  BY DEF AInv, TableInv
<1>2. stop \in Reasons
  BY <1>1 DEF Scalars
<1>3. log # <<>>
  BY DEF AInv, Early
<1> QED BY <1>1, <1>2, SoundTypes, <1>3

-----------------------------------------------------------------------------
(* What the decoders push, as values                                       *)

\* The same blocks; the same ends; a block with one more fragment.
Same(D, C) == Len(D) = Len(C) /\ \A q \in 1..Len(C) : D[q].kind = C[q].kind
SameEnds(M, L) == \A p : EndedIn(M, p) <=> EndedIn(L, p)
Grown(C, p) == [C EXCEPT ![p].text = @ + 1]

\* A block that gains a fragment.
LEMMA GrowFacts ==
  ASSUME NEW C \in Seq(Blocks), NEW p \in 1..Len(C)
  PROVE  /\ Grown(C, p) \in Seq(Blocks) /\ Len(Grown(C, p)) = Len(C)
         /\ \A q \in 1..Len(C) : /\ Grown(C, p)[q] \in Blocks /\ Grown(C, p)[q].kind = C[q].kind
                                 /\ Grown(C, p)[q].text = IF q = p THEN C[q].text + 1 ELSE C[q].text
<1>0. \A q \in 1..Len(C) : C[q] \in Blocks
  OBVIOUS
<1>1. \A q \in 1..Len(C) : C[q] \in Blocks /\ C[q].kind \in Kinds /\ C[q].text \in Nat
  BY <1>0 DEF Blocks
<1>2. Grown(C, p) = [q \in 1..Len(C) |-> IF q = p THEN [C[q] EXCEPT !.text = @ + 1] ELSE C[q]]
  BY DEF Grown
<1>3. \A q \in 1..Len(C) : /\ [C[q] EXCEPT !.text = @ + 1] \in Blocks /\ [C[q] EXCEPT !.text = @ + 1].kind = C[q].kind
                           /\ [C[q] EXCEPT !.text = @ + 1].text = C[q].text + 1
  BY <1>1 DEF Blocks
<1>4. /\ Len(Grown(C, p)) = Len(C) /\ DOMAIN Grown(C, p) = 1..Len(C)
      /\ \A q \in 1..Len(C) : /\ Grown(C, p)[q] \in Blocks /\ Grown(C, p)[q].kind = C[q].kind
                              /\ Grown(C, p)[q].text = IF q = p THEN C[q].text + 1 ELSE C[q].text
  BY <1>1, <1>2, <1>3
<1> QED BY <1>2, <1>4

\* A block replaced by another.
Replaced(C, p, w) == [C EXCEPT ![p] = w]

\* A delta.
LEMMA DeltaStep ==
  ASSUME NEW L, NEW C, NEW s, Sound(L, C, s), NEW p \in 1..Len(C), s => ~EndedIn(L, p)
  PROVE  /\ Sound(L \o <<Delta(C[p], p)>>, Grown(C, p), s) /\ L \o <<Delta(C[p], p)>> # <<>>
         /\ SameEnds(L \o <<Delta(C[p], p)>>, L) /\ Same(Grown(C, p), C)
<1>1. L \in Seq(Events) /\ C \in Seq(Blocks) /\ Len(C) \in Nat /\ C[p] \in Blocks
  BY SoundTypes
<1>2. Delta(C[p], p) \in Events
  BY <1>1, EventTypes
<1>3. L \o <<Delta(C[p], p)>> = Append(L, Delta(C[p], p)) /\ Append(L, Delta(C[p], p)) # <<>>
  BY <1>1, <1>2, ConcatOne
<1>4. /\ Grown(C, p) \in Seq(Blocks) /\ Len(Grown(C, p)) = Len(C)
      /\ \A q \in 1..Len(C) : /\ Grown(C, p)[q] \in Blocks /\ Grown(C, p)[q].kind = C[q].kind
                              /\ Grown(C, p)[q].text = IF q = p THEN C[q].text + 1 ELSE C[q].text
  BY <1>1, GrowFacts
<1>5. SameKinds(Grown(C, p), C) /\ Same(Grown(C, p), C)
  BY <1>4 DEF SameKinds, Same
<1>6. Sound(Append(L, Delta(C[p], p)), Grown(C, p), s)
  BY <1>1, <1>4, <1>5, PushDeltaSound
<1>7. SameEnds(Append(L, Delta(C[p], p)), L)
  BY <1>1, <1>2, <1>4, <1>5, PushDeltaSound DEF SameEnds
<1> QED BY <1>3, <1>5, <1>6, <1>7

\* A start.
LEMMA StartStep ==
  ASSUME NEW L, NEW C, NEW s, Sound(L, C, s), NEW b \in Blocks, s \/ OwnStart => Len(L) # 0
  PROVE  LET M == L \o <<Start(b, Len(C) + 1)>>
             D == Append(C, b)
         IN  /\ Sound(M, D, s) /\ M # <<>> /\ SameEnds(M, L) /\ ~EndedIn(L, Len(C) + 1) /\ Len(C) + 1 \in 1..Len(D)
             /\ Len(D) = Len(C) + 1 /\ D[Len(C) + 1] = b /\ \A p \in 1..Len(C) : D[p] = C[p] /\ p \in 1..Len(D)
             /\ \A p \in 1..Len(D) : p \in 1..Len(C) \/ p = Len(C) + 1
<1>1. L \in Seq(Events) /\ C \in Seq(Blocks) /\ Len(C) \in Nat
  BY SoundTypes
<1>2. Start(b, Len(C) + 1) \in Events
  BY <1>1, EventTypes
<1>3. L \o <<Start(b, Len(C) + 1)>> = Append(L, Start(b, Len(C) + 1)) /\ Append(L, Start(b, Len(C) + 1)) # <<>>
  BY <1>1, <1>2, ConcatOne
<1>4. /\ Sound(Append(L, Start(b, Len(C) + 1)), Append(C, b), s)
      /\ \A p : EndedIn(Append(L, Start(b, Len(C) + 1)), p) <=> EndedIn(L, p)
      /\ ~EndedIn(L, Len(C) + 1) /\ Len(Append(C, b)) = Len(C) + 1 /\ Append(C, b)[Len(C) + 1] = b
      /\ \A p \in 1..Len(C) : Append(C, b)[p] = C[p]
  BY PushStartSound
<1>5. /\ Len(C) + 1 \in 1..(Len(C) + 1) /\ \A p \in 1..Len(C) : p \in 1..(Len(C) + 1)
      /\ \A p \in 1..(Len(C) + 1) : p \in 1..Len(C) \/ p = Len(C) + 1
  BY <1>1
<1> QED BY <1>3, <1>4, <1>5 DEF SameEnds

\* A block that starts with its first fragment.
LEMMA StartDeltaStep ==
  ASSUME NEW L, NEW C, NEW s, Sound(L, C, s), NEW kind \in Kinds, s \/ OwnStart => Len(L) # 0,
         NEW n, n = Len(C) + 1, NEW t \in Nat
  PROVE  LET M == L \o <<Start(Block(kind, 0), n), Delta(Block(kind, t), n)>>
             D == Append(C, Block(kind, 1))
         IN  /\ Sound(M, D, s) /\ M # <<>> /\ SameEnds(M, L) /\ ~EndedIn(L, n) /\ n \in 1..Len(D)
             /\ Len(D) = n /\ D[n].kind = kind /\ D[n].text = 1 /\ \A p \in 1..Len(C) : D[p] = C[p] /\ p \in 1..Len(D)
             /\ \A p \in 1..Len(D) : p \in 1..Len(C) \/ p = n
<1> DEFINE b == Block(kind, 0)
           w == Block(kind, 1)
           d == Block(kind, t)
           A == Append(C, b)
           D == Append(C, w)
           N == L \o <<Start(b, n)>>
<1>1. /\ b \in Blocks /\ w \in Blocks /\ d \in Blocks /\ b.kind = kind /\ w.kind = kind /\ d.kind = kind
      /\ b.text = 0 /\ w.text = 1
  BY DEF Block, Blocks
<1>2. L \in Seq(Events) /\ C \in Seq(Blocks) /\ Len(C) \in Nat /\ n \in Nat /\ n \in 1..n
  BY SoundTypes
<1>3. Start(b, n) \in Events /\ Delta(d, n) \in Events
  BY <1>1, <1>2, EventTypes
<1> HIDE DEF b, w, d
<1>4. L \o <<Start(b, n), Delta(d, n)>> = Append(N, Delta(d, n)) /\ Append(N, Delta(d, n)) # <<>>
  <2>1. N = Append(L, Start(b, n)) /\ N \in Seq(Events)
    BY <1>2, <1>3, ConcatOne
  <2>2. L \o <<Start(b, n), Delta(d, n)>> = Append(Append(L, Start(b, n)), Delta(d, n))
    BY <1>2, <1>3, ConcatTwo
  <2>3. Append(N, Delta(d, n)) # <<>>
    BY <1>3, <2>1
  <2> QED BY <2>1, <2>2, <2>3
<1>5. /\ Sound(N, A, s) /\ SameEnds(N, L) /\ ~EndedIn(L, n)
      /\ Len(A) = n /\ A[n] = b /\ \A p \in 1..Len(C) : A[p] = C[p]
  BY <1>1, StartStep
<1>6. /\ D \in Seq(Blocks) /\ Len(D) = n /\ D[n] = w /\ \A p \in 1..Len(C) : D[p] = C[p] /\ p \in 1..n
      /\ \A p \in 1..n : p \in 1..Len(C) \/ p = n
      /\ \A p \in 1..Len(C) : p # n
  BY <1>1, <1>2
<1> HIDE DEF A, D, N
<1>7. /\ \A q \in 1..n : D[q].kind = A[q].kind
      /\ \A q \in 1..n : D[q].text = IF q = n THEN A[q].text + 1 ELSE A[q].text
  BY <1>1, <1>2, <1>5, <1>6
<1>8. SameKinds(D, A)
  BY <1>5, <1>6, <1>7 DEF SameKinds
<1>9. Sound(Append(N, Delta(d, n)), D, s) /\ SameEnds(Append(N, Delta(d, n)), N)
  <2>1. n \in 1..Len(A) /\ d.kind = A[n].kind /\ (s => ~EndedIn(N, n))
    BY <1>1, <1>2, <1>5 DEF SameEnds
  <2>2. s => \A q \in 1..Len(A) : D[q].text = IF q = n THEN A[q].text + 1 ELSE A[q].text
    BY <1>5, <1>7
  <2>3. Sound(N, A, s) /\ d \in Blocks
    BY <1>1, <1>5
  <2> QED BY <1>8, <2>1, <2>2, <2>3, PushDeltaSound DEF SameEnds
<1> QED BY <1>1, <1>2, <1>4, <1>5, <1>6, <1>9 DEF SameEnds, D, w, d, b

\* An end that settles what the block is.
LEMMA EndStep ==
  ASSUME NEW L, NEW C, NEW s, Sound(L, C, s), NEW p \in 1..Len(C), NEW w \in Blocks, w.kind = C[p].kind,
         s => ~EndedIn(L, p) /\ (w.kind # "reasoning" => w.text = C[p].text)
  PROVE  /\ Sound(L \o <<End(w, p)>>, Replaced(C, p, w), s) /\ L \o <<End(w, p)>> # <<>> /\ Same(Replaced(C, p, w), C)
         /\ \A q : EndedIn(L \o <<End(w, p)>>, q) <=> EndedIn(L, q) \/ q = p
<1> DEFINE D == Replaced(C, p, w)
<1>1. /\ L \in Seq(Events) /\ C \in Seq(Blocks) /\ Len(C) \in Nat
      /\ \A q \in 1..Len(C) : C[q] \in Blocks /\ C[q].kind \in Kinds /\ C[q].text \in Nat
  BY SoundTypes
<1>2. End(w, p) \in Events
  BY <1>1, EventTypes
<1>3. L \o <<End(w, p)>> = Append(L, End(w, p)) /\ Append(L, End(w, p)) # <<>>
  BY <1>1, <1>2, ConcatOne
<1>4. D \in Seq(Blocks) /\ Len(D) = Len(C) /\ DOMAIN D = 1..Len(C)
        /\ \A q \in 1..Len(C) : D[q] = IF q = p THEN w ELSE C[q]
  BY <1>1 DEF Replaced
<1> HIDE DEF D
<1>6. SameKinds(D, C) /\ Same(D, C)
  BY <1>1, <1>4 DEF SameKinds, Same
<1>7. s => \A q \in 1..Len(C) : q # p => D[q].text = C[q].text
  BY <1>4
<1>8. Sound(Append(L, End(w, p)), D, s) /\ \A q : EndedIn(Append(L, End(w, p)), q) <=> EndedIn(L, q) \/ q = p
  BY <1>6, <1>7, PushEndSound
<1> QED BY <1>3, <1>6, <1>8 DEF D

\* The end of a block as it is.
LEMMA EndAsIs ==
  ASSUME NEW L, NEW C, NEW s, Sound(L, C, s), NEW p \in 1..Len(C), s => ~EndedIn(L, p)
  PROVE  /\ Sound(L \o <<End(C[p], p)>>, C, s) /\ L \o <<End(C[p], p)>> # <<>>
         /\ \A q : EndedIn(L \o <<End(C[p], p)>>, q) <=> EndedIn(L, q) \/ q = p
<1>1. /\ L \in Seq(Events) /\ C \in Seq(Blocks) /\ Len(C) \in Nat /\ C[p] \in Blocks
  BY SoundTypes
<1>2. End(C[p], p) \in Events
  BY <1>1, EventTypes
<1>3. L \o <<End(C[p], p)>> = Append(L, End(C[p], p)) /\ Append(L, End(C[p], p)) # <<>>
  BY <1>1, <1>2, ConcatOne
<1>4. SameKinds(C, C)
  BY <1>1 DEF SameKinds
<1>5. /\ Sound(Append(L, End(C[p], p)), C, s)
      /\ \A q : EndedIn(Append(L, End(C[p], p)), q) <=> EndedIn(L, q) \/ q = p
  BY <1>1, <1>4, PushEndSound
<1> QED BY <1>3, <1>5

-----------------------------------------------------------------------------
(* Responses                                                               *)

\* The events and blocks of ResponsesStream are those of AdapterStream.
LEMMA ResponsesNames ==
  /\ \A b, p : /\ Responses!Start(b, p) = Start(b, p) /\ Responses!Delta(b, p) = Delta(b, p)
               /\ Responses!End(b, p) = End(b, p)
  /\ Responses!Begin = Begin
  /\ \A type, reason : Responses!Terminal(type, reason) = Terminal(type, reason)
  /\ \A kind, text : Responses!Block(kind, text) = Block(kind, text)
  BY DEF Responses!Start, Responses!Delta, Responses!End, Responses!Event, Responses!Begin, Responses!Terminal,
       Responses!Block,
     Start, Delta, End, Event, Begin, Terminal, Block

\* Fail of ResponsesStream pushes an error event and ends the run.
LEMMA ResponsesFail ==
  ASSUME Responses!Fail
  PROVE  Fails(<<>>)
<1> DEFINE reason == IF ctx THEN "aborted" ELSE "error"
<1>1. reason \in Labels
  BY DEF Labels, Reasons
<1>2. log' = log \o Append(<<>>, Terminal("error", reason))
  BY ResponsesNames DEF Responses!Fail, Responses!FailAfter, Responses!Emit
<1> HIDE DEF reason
<1> QED BY <1>1, <1>2 DEF Responses!Fail, Responses!FailAfter, Responses!Emit, Fails, Closes, Untouched

\* Preparing and sending the request of ResponsesStream, which may fail.
LEMMA ResponsesSetUp ==
  ASSUME AInv, adapter = "openai-responses", Responses!SetUp \/ Responses!SetUpAzure \/ Responses!Request
  PROVE  AInv'
<1>1. CASE Responses!SetUp \/ Responses!SetUpAzure
  <2>1. phase = "setup" /\ (Responses!Fail \/ Passes("request", <<>>))
    <3>1. log \o <<>> = log
      BY SoundTypes DEF AInv, Early
    <3> QED BY <1>1, <3>1 DEF Responses!SetUp, Responses!SetUpAzure, Responses!Prepare, Responses!Goto, Passes,
                 Untouched
  <2>2. CASE Responses!Fail
    BY <2>1, <2>2, ResponsesFail, FailStep
  <2>3. CASE Passes("request", <<>>)
    BY <2>1, <2>3, PassRequest
  <2> QED BY <2>1, <2>2, <2>3
<1>2. CASE Responses!Request
  <2>1. phase = "request" /\ (Responses!Fail \/ Passes("decode", <<Begin>>))
    BY <1>2, ResponsesNames DEF Responses!Request, Responses!Send, Responses!Goto, Responses!Emit, Passes, Untouched
  <2>2. CASE Responses!Fail
    BY <2>1, <2>2, ResponsesFail, FailStep
  <2>3. CASE Passes("decode", <<Begin>>)
    BY <2>1, <2>3, PassDecode
  <2> QED BY <2>1, <2>2, <2>3
<1> QED BY <1>1, <1>2

\* What ResponsesStream's decoder relies on, with the types of its state.
LEMMA ResponsesFacts ==
  ASSUME AInv, adapter = "openai-responses", phase = "decode"
  PROVE  /\ ResponsesInv /\ Sound(log, content, Polite) /\ Scalars /\ stop \in Reasons
         /\ log \in Seq(Events) /\ content \in Seq(Blocks) /\ Len(content) \in Nat /\ Len(log) \in Nat
         /\ DOMAIN content = 1..Len(content)
         /\ \A p \in 1..Len(content) : content[p] \in Blocks /\ content[p].kind \in Kinds /\ content[p].text \in Nat
         /\ log # <<>> /\ Len(log) # 0
<1>1. Sound(log, content, Polite) /\ ResponsesInv /\ Scalars
  BY DEF AInv, TableInv
<1>2. stop \in Reasons
  BY <1>1 DEF Scalars
<1>3. log # <<>>
  BY DEF AInv, Early
<1> QED BY <1>1, <1>2, SoundTypes, <1>3

-----------------------------------------------------------------------------
(* Completions                                                             *)

\* The events and blocks of CompletionsStream are those of AdapterStream.
LEMMA CompletionsNames ==
  /\ \A b, p : /\ Completions!Start(b, p) = Start(b, p) /\ Completions!Delta(b, p) = Delta(b, p)
               /\ Completions!End(b, p) = End(b, p)
  /\ Completions!Begin = Begin
  /\ \A type, reason : Completions!Terminal(type, reason) = Terminal(type, reason)
  /\ \A kind, text : Completions!Block(kind, text) = Block(kind, text)
  BY DEF Completions!Start, Completions!Delta, Completions!End, Completions!Event, Completions!Begin,
       Completions!Terminal, Completions!Block,
     Start, Delta, End, Event, Begin, Terminal, Block

\* Fail of CompletionsStream pushes an error event and ends the run.
LEMMA CompletionsFail ==
  ASSUME Completions!Fail
  PROVE  Fails(<<>>)
<1> DEFINE reason == IF ctx THEN "aborted" ELSE "error"
<1>1. reason \in Labels
  BY DEF Labels, Reasons
<1>2. log' = log \o Append(<<>>, Terminal("error", reason))
  BY CompletionsNames DEF Completions!Fail, Completions!FailAfter, Completions!Emit
<1> HIDE DEF reason
<1> QED BY <1>1, <1>2 DEF Completions!Fail, Completions!FailAfter, Completions!Emit, Fails, Closes, Untouched

\* Preparing and sending the request of CompletionsStream, which may fail.
LEMMA CompletionsSetUp ==
  ASSUME AInv, adapter = "openai-completions", Completions!SetUp \/ Completions!Request
  PROVE  AInv'
<1>1. CASE Completions!SetUp
  <2>1. phase = "setup" /\ (Completions!Fail \/ Passes("request", <<>>))
    <3>1. log \o <<>> = log
      BY SoundTypes DEF AInv, Early
    <3> QED BY <1>1, <3>1 DEF Completions!SetUp, Completions!Prepare, Completions!Goto, Passes, Untouched
  <2>2. CASE Completions!Fail
    BY <2>1, <2>2, CompletionsFail, FailStep
  <2>3. CASE Passes("request", <<>>)
    BY <2>1, <2>3, PassRequest
  <2> QED BY <2>1, <2>2, <2>3
<1>2. CASE Completions!Request
  <2>1. phase = "request" /\ (Completions!Fail \/ Passes("decode", <<Begin>>))
    BY <1>2, CompletionsNames DEF Completions!Request, Completions!Send, Completions!Goto, Completions!Emit, Passes,
         Untouched
  <2>2. CASE Completions!Fail
    BY <2>1, <2>2, CompletionsFail, FailStep
  <2>3. CASE Passes("decode", <<Begin>>)
    BY <2>1, <2>3, PassDecode
  <2> QED BY <2>1, <2>2, <2>3
<1> QED BY <1>1, <1>2

\* What CompletionsStream's decoder relies on, with the types of its state.
LEMMA CompletionsFacts ==
  ASSUME AInv, adapter = "openai-completions", phase = "decode"
  PROVE  /\ CompletionsInv /\ Sound(log, content, Polite) /\ Scalars /\ stop \in Reasons
         /\ log \in Seq(Events) /\ content \in Seq(Blocks) /\ Len(content) \in Nat /\ Len(log) \in Nat
         /\ DOMAIN content = 1..Len(content)
         /\ \A p \in 1..Len(content) : content[p] \in Blocks /\ content[p].kind \in Kinds /\ content[p].text \in Nat
         /\ log # <<>> /\ Len(log) # 0
<1>1. Sound(log, content, Polite) /\ CompletionsInv /\ Scalars
  BY DEF AInv, TableInv
<1>2. stop \in Reasons
  BY <1>1 DEF Scalars
<1>3. log # <<>>
  BY DEF AInv, Early
<1> QED BY <1>1, <1>2, SoundTypes, <1>3

-----------------------------------------------------------------------------
(* Google                                                                  *)

\* The events and blocks of GoogleStream are those of AdapterStream.
LEMMA GoogleNames ==
  /\ \A b, p : /\ Google!Start(b, p) = Start(b, p) /\ Google!Delta(b, p) = Delta(b, p)
               /\ Google!End(b, p) = End(b, p)
  /\ Google!Begin = Begin
  /\ \A type, reason : Google!Terminal(type, reason) = Terminal(type, reason)
  /\ \A kind, text : Google!Block(kind, text) = Block(kind, text)
  BY DEF Google!Start, Google!Delta, Google!End, Google!Event, Google!Begin, Google!Terminal, Google!Block,
     Start, Delta, End, Event, Begin, Terminal, Block

\* Fail of GoogleStream pushes an error event and ends the run.
LEMMA GoogleFail ==
  ASSUME Google!Fail
  PROVE  Fails(<<>>)
<1> DEFINE reason == IF ctx THEN "aborted" ELSE "error"
<1>1. reason \in Labels
  BY DEF Labels, Reasons
<1>2. log' = log \o Append(<<>>, Terminal("error", reason))
  BY GoogleNames DEF Google!Fail, Google!FailAfter, Google!Emit
<1> HIDE DEF reason
<1> QED BY <1>1, <1>2 DEF Google!Fail, Google!FailAfter, Google!Emit, Fails, Closes, Untouched

\* Preparing and sending the request of GoogleStream, which may fail.
LEMMA GoogleSetUp ==
  ASSUME AInv, adapter = "google", Google!SetUp \/ Google!SetUpVertex \/ Google!Request
  PROVE  AInv'
<1>1. CASE Google!SetUp \/ Google!SetUpVertex
  <2>1. phase = "setup" /\ (Google!Fail \/ Passes("request", <<>>))
    <3>1. log \o <<>> = log
      BY SoundTypes DEF AInv, Early
    <3> QED BY <1>1, <3>1 DEF Google!SetUp, Google!SetUpVertex, Google!Prepare, Google!Goto, Passes, Untouched
  <2>2. CASE Google!Fail
    BY <2>1, <2>2, GoogleFail, FailStep
  <2>3. CASE Passes("request", <<>>)
    BY <2>1, <2>3, PassRequest
  <2> QED BY <2>1, <2>2, <2>3
<1>2. CASE Google!Request
  <2>1. phase = "request" /\ (Google!Fail \/ Passes("decode", <<Begin>>))
    BY <1>2, GoogleNames DEF Google!Request, Google!Send, Google!Goto, Google!Emit, Passes, Untouched
  <2>2. CASE Google!Fail
    BY <2>1, <2>2, GoogleFail, FailStep
  <2>3. CASE Passes("decode", <<Begin>>)
    BY <2>1, <2>3, PassDecode
  <2> QED BY <2>1, <2>2, <2>3
<1> QED BY <1>1, <1>2

\* What GoogleStream's decoder relies on, with the types of its state.
LEMMA GoogleFacts ==
  ASSUME AInv, adapter = "google", phase = "decode"
  PROVE  /\ GoogleInv /\ Sound(log, content, Polite) /\ Scalars /\ stop \in Reasons
         /\ log \in Seq(Events) /\ content \in Seq(Blocks) /\ Len(content) \in Nat /\ Len(log) \in Nat
         /\ DOMAIN content = 1..Len(content)
         /\ \A p \in 1..Len(content) : content[p] \in Blocks /\ content[p].kind \in Kinds /\ content[p].text \in Nat
         /\ log # <<>> /\ Len(log) # 0
<1>1. Sound(log, content, Polite) /\ GoogleInv /\ Scalars
  BY DEF AInv, TableInv
<1>2. stop \in Reasons
  BY <1>1 DEF Scalars
<1>3. log # <<>>
  BY DEF AInv, Early
<1> QED BY <1>1, <1>2, SoundTypes, <1>3

-----------------------------------------------------------------------------
(* Mistral                                                                 *)

\* The events and blocks of MistralStream are those of AdapterStream.
LEMMA MistralNames ==
  /\ \A b, p : /\ Mistral!Start(b, p) = Start(b, p) /\ Mistral!Delta(b, p) = Delta(b, p)
               /\ Mistral!End(b, p) = End(b, p)
  /\ Mistral!Begin = Begin
  /\ \A type, reason : Mistral!Terminal(type, reason) = Terminal(type, reason)
  /\ \A kind, text : Mistral!Block(kind, text) = Block(kind, text)
  BY DEF Mistral!Start, Mistral!Delta, Mistral!End, Mistral!Event, Mistral!Begin, Mistral!Terminal, Mistral!Block,
     Start, Delta, End, Event, Begin, Terminal, Block

\* Fail of MistralStream pushes an error event and ends the run.
LEMMA MistralFail ==
  ASSUME Mistral!Fail
  PROVE  Fails(<<>>)
<1> DEFINE reason == IF ctx THEN "aborted" ELSE "error"
<1>1. reason \in Labels
  BY DEF Labels, Reasons
<1>2. log' = log \o Append(<<>>, Terminal("error", reason))
  BY MistralNames DEF Mistral!Fail, Mistral!FailAfter, Mistral!Emit
<1> HIDE DEF reason
<1> QED BY <1>1, <1>2 DEF Mistral!Fail, Mistral!FailAfter, Mistral!Emit, Fails, Closes, Untouched

\* Preparing and sending the request of MistralStream, which may fail.
LEMMA MistralSetUp ==
  ASSUME AInv, adapter = "mistral", Mistral!SetUp \/ Mistral!Request
  PROVE  AInv'
<1>1. CASE Mistral!SetUp
  <2>1. phase = "setup" /\ (Mistral!Fail \/ Passes("request", <<>>))
    <3>1. log \o <<>> = log
      BY SoundTypes DEF AInv, Early
    <3> QED BY <1>1, <3>1 DEF Mistral!SetUp, Mistral!Prepare, Mistral!Goto, Passes, Untouched
  <2>2. CASE Mistral!Fail
    BY <2>1, <2>2, MistralFail, FailStep
  <2>3. CASE Passes("request", <<>>)
    BY <2>1, <2>3, PassRequest
  <2> QED BY <2>1, <2>2, <2>3
<1>2. CASE Mistral!Request
  <2>1. phase = "request" /\ (Mistral!Fail \/ Passes("decode", <<Begin>>))
    BY <1>2, MistralNames DEF Mistral!Request, Mistral!Send, Mistral!Goto, Mistral!Emit, Passes, Untouched
  <2>2. CASE Mistral!Fail
    BY <2>1, <2>2, MistralFail, FailStep
  <2>3. CASE Passes("decode", <<Begin>>)
    BY <2>1, <2>3, PassDecode
  <2> QED BY <2>1, <2>2, <2>3
<1> QED BY <1>1, <1>2

\* What MistralStream's decoder relies on, with the types of its state.
LEMMA MistralFacts ==
  ASSUME AInv, adapter = "mistral", phase = "decode"
  PROVE  /\ MistralInv /\ Sound(log, content, Polite) /\ Scalars /\ stop \in Reasons
         /\ log \in Seq(Events) /\ content \in Seq(Blocks) /\ Len(content) \in Nat /\ Len(log) \in Nat
         /\ DOMAIN content = 1..Len(content)
         /\ \A p \in 1..Len(content) : content[p] \in Blocks /\ content[p].kind \in Kinds /\ content[p].text \in Nat
         /\ log # <<>> /\ Len(log) # 0
<1>1. Sound(log, content, Polite) /\ MistralInv /\ Scalars
  BY DEF AInv, TableInv
<1>2. stop \in Reasons
  BY <1>1 DEF Scalars
<1>3. log # <<>>
  BY DEF AInv, Early
<1> QED BY <1>1, <1>2, SoundTypes, <1>3

-----------------------------------------------------------------------------
(* Bedrock                                                                 *)

\* The events and blocks of BedrockStream are those of AdapterStream.
LEMMA BedrockNames ==
  /\ \A b, p : /\ Bedrock!Start(b, p) = Start(b, p) /\ Bedrock!Delta(b, p) = Delta(b, p)
               /\ Bedrock!End(b, p) = End(b, p)
  /\ Bedrock!Begin = Begin
  /\ \A type, reason : Bedrock!Terminal(type, reason) = Terminal(type, reason)
  /\ \A kind, text : Bedrock!Block(kind, text) = Block(kind, text)
  BY DEF Bedrock!Start, Bedrock!Delta, Bedrock!End, Bedrock!Event, Bedrock!Begin, Bedrock!Terminal, Bedrock!Block,
     Start, Delta, End, Event, Begin, Terminal, Block

\* BedrockStream sees the end of a block where the log has it.
LEMMA BedrockEnded ==
  ASSUME log \in Seq(Events), NEW p
  PROVE  Bedrock!Ended(p) <=> EndedIn(log, p)
<1>1. DOMAIN log = 1..Len(log)
  OBVIOUS
<1> QED BY <1>1 DEF Bedrock!Ended, Bedrock!EventsOf, EndedIn

\* Fail of BedrockStream pushes an error event and ends the run.
LEMMA BedrockFail ==
  ASSUME Bedrock!Fail
  PROVE  Fails(<<>>)
<1> DEFINE reason == IF ctx THEN "aborted" ELSE "error"
<1>1. reason \in Labels
  BY DEF Labels, Reasons
<1>2. log' = log \o Append(<<>>, Terminal("error", reason))
  BY BedrockNames DEF Bedrock!Fail, Bedrock!FailAfter, Bedrock!Emit
<1> HIDE DEF reason
<1> QED BY <1>1, <1>2 DEF Bedrock!Fail, Bedrock!FailAfter, Bedrock!Emit, Fails, Closes, Untouched

\* Preparing and sending the request of BedrockStream, which may fail.
LEMMA BedrockSetUp ==
  ASSUME AInv, adapter = "bedrock", Bedrock!SetUp \/ Bedrock!Request
  PROVE  AInv'
<1>1. CASE Bedrock!SetUp
  <2>1. phase = "setup" /\ (Bedrock!Fail \/ Passes("request", <<>>))
    <3>1. log \o <<>> = log
      BY SoundTypes DEF AInv, Early
    <3> QED BY <1>1, <3>1 DEF Bedrock!SetUp, Bedrock!Prepare, Bedrock!Goto, Passes, Untouched
  <2>2. CASE Bedrock!Fail
    BY <2>1, <2>2, BedrockFail, FailStep
  <2>3. CASE Passes("request", <<>>)
    BY <2>1, <2>3, PassRequest
  <2> QED BY <2>1, <2>2, <2>3
<1>2. CASE Bedrock!Request
  <2>1. phase = "request" /\ (Bedrock!Fail \/ Passes("decode", <<>>))
    BY <1>2, BedrockNames DEF Bedrock!Request, Bedrock!Send, Bedrock!Goto, Bedrock!Emit, Passes, Untouched
  <2>2. CASE Bedrock!Fail
    BY <2>1, <2>2, BedrockFail, FailStep
  <2>3. CASE Passes("decode", <<>>)
    BY <2>1, <2>3, PassDecode
  <2> QED BY <2>1, <2>2, <2>3
<1> QED BY <1>1, <1>2

\* What BedrockStream's decoder relies on, with the types of its state.
LEMMA BedrockFacts ==
  ASSUME AInv, adapter = "bedrock", phase = "decode"
  PROVE  /\ BedrockInv /\ Sound(log, content, Polite) /\ Scalars /\ stop \in Reasons
         /\ log \in Seq(Events) /\ content \in Seq(Blocks) /\ Len(content) \in Nat /\ Len(log) \in Nat
         /\ DOMAIN content = 1..Len(content)
         /\ \A p \in 1..Len(content) : content[p] \in Blocks /\ content[p].kind \in Kinds /\ content[p].text \in Nat
<1>1. Sound(log, content, Polite) /\ BedrockInv /\ Scalars
  BY DEF AInv, TableInv
<1>2. stop \in Reasons
  BY <1>1 DEF Scalars
<1> QED BY <1>1, <1>2, SoundTypes

\* A decoder that fails, or concludes with nothing more to push.
LEMMA ConcludeStep ==
  ASSUME AInv, phase = "decode",
         Fails(<<>>) \/ (Closes(<<>>, "done", stop) /\ Whole(log, stop))
  PROVE  AInv'
<1>1. Sound(log, content, Polite) /\ Scalars /\ stop \in Labels
  BY DEF AInv, Scalars, Labels
<1>2. log \in Seq(Events) /\ log \o <<>> = log /\ <<>> \in Seq(Events)
  BY <1>1, SoundTypes
<1>3. CASE Fails(<<>>)
  BY <1>3, FailStep
<1>4. CASE Closes(<<>>, "done", stop) /\ Whole(log, stop)
  BY <1>1, <1>2, <1>4, CloseDone
<1> QED BY <1>3, <1>4

-----------------------------------------------------------------------------
(* The decoder of Anthropic                                                *)

\* A step of AnthropicStream's decoder that reads on needs its own part of the invariant.
LEMMA AnthropicStep ==
  ASSUME AInv, adapter = "anthropic", phase = "decode", NEW E, NEW D, NEW T, NEW reason \in Reasons,
         Pushes(E, D, T, reason), mark' \in {"none", "begun", "complete"}, rude' \in BOOLEAN,
         Sound(log', D, Polite'), log' = <<>> => log = <<>>, AnthropicInv'
  PROVE  AInv'
<1>1. TableInv'
  BY DEF Pushes, TableInv
<1> QED BY <1>1, KeepReading

\* ConcludeAfter of AnthropicStream fails, or pushes a done event if the context is not done.
LEMMA AnthropicConclude ==
  ASSUME NEW E, NEW reason \in Reasons, Anthropic!ConcludeAfter(E, reason), content' = content
  PROVE  Fails(E) \/ (~ctx /\ reason # "error" /\ Closes(E, "done", reason))
<1>1. CASE ctx \/ reason = "error"
  <2> DEFINE why == IF ctx THEN "aborted" ELSE "error"
  <2>1. why \in Labels
    BY DEF Labels, Reasons
  <2>2. log' = log \o Append(E, Terminal("error", why))
    BY <1>1, AnthropicNames DEF Anthropic!ConcludeAfter, Anthropic!FailAfter, Anthropic!Emit
  <2> HIDE DEF why
  <2> QED BY <1>1, <2>1, <2>2 DEF Anthropic!ConcludeAfter, Anthropic!FailAfter, Anthropic!Emit, Fails, Closes, Untouched
<1>2. CASE ~(ctx \/ reason = "error")
  BY <1>2, AnthropicNames DEF Anthropic!ConcludeAfter, Anthropic!FailAfter, Anthropic!Emit, Closes, Untouched
<1> QED BY <1>1, <1>2

\* The tool calls so far started empty.
CallsEmpty(L) == \A i \in 1..Len(L) : L[i].type = "start" /\ L[i].kind = "toolCall" => L[i].text = 0

\* An event that starts no tool call with arguments.
LEMMA PushCallsEmpty ==
  ASSUME NEW L \in Seq(Events), NEW e \in Events, CallsEmpty(L),
         e.type = "start" /\ e.kind = "toolCall" => e.text = 0
  PROVE  CallsEmpty(L \o <<e>>)
<1>1. L \o <<e>> = Append(L, e)
  BY ConcatOne
<1>2. /\ Len(Append(L, e)) = Len(L) + 1 /\ Append(L, e)[Len(L) + 1] = e /\ Len(L) \in Nat
      /\ \A i \in 1..Len(L) : Append(L, e)[i] = L[i]
  BY PushFacts
<1>3. \A i \in 1..(Len(L) + 1) : i \in 1..Len(L) \/ i = Len(L) + 1
  BY <1>2
<1> QED BY <1>1, <1>2, <1>3 DEF CallsEmpty

\* The block that an index stands for is there.
LEMMA AnthropicFound ==
  ASSUME slots \in Seq(Indexes), NEW i, Anthropic!FindBlock(i) # 0
  PROVE  Anthropic!FindBlock(i) \in 1..Len(slots)
<1> DEFINE found == {p \in DOMAIN slots : slots[p] = i}
<1>1. found # {} /\ Anthropic!FindBlock(i) = CHOOSE p \in found : \A q \in found : p <= q
  BY DEF Anthropic!FindBlock
<1>2. found \subseteq 1..Len(slots) /\ Len(slots) \in Nat
  OBVIOUS
<1> HIDE DEF found
<1>3. found \subseteq Nat /\ IsFiniteSet(found)
  <2>0. 1 \in Int /\ Len(slots) \in Int
    BY <1>2
  <2>1. IsFiniteSet(1..Len(slots))
    BY <2>0, FS_Interval
  <2>2. IsFiniteSet(found)
    BY <1>2, <2>1, FS_Subset
  <2>3. found \subseteq Nat
    BY <1>2
  <2> QED BY <2>2, <2>3
<1>4. \E p \in found : \A q \in found : p <= q
  BY <1>1, <1>3, LeastElement
<1> QED BY <1>1, <1>2, <1>4

\* message_start.
LEMMA AnthropicMessageStart ==
  ASSUME AInv, adapter = "anthropic", Anthropic!MessageStart
  PROVE  AInv'
<1>1. /\ phase = "decode" /\ Pushes(<<>>, content, slots, stop)
      /\ mark' = (IF mark = "complete" THEN mark ELSE "begun") /\ rude' = (rude \/ mark # "none")
  BY DEF Anthropic!MessageStart, Anthropic!Reading, Anthropic!Keep, Anthropic!Emit, Pushes
<1>2. /\ AnthropicInv /\ Sound(log, content, Polite) /\ Scalars /\ stop \in Reasons /\ log \in Seq(Events)
  BY <1>1, AnthropicFacts
<1>3. log' = log /\ content' = content /\ slots' = slots
  BY <1>1, <1>2, ConcatOne DEF Pushes
<1>4. (Polite' => Polite /\ mark = "none") /\ rude' \in BOOLEAN /\ mark' \in {"begun", "complete"} /\ (Polite'
        => mark' = "begun")
  BY <1>1, <1>2 DEF Polite, Scalars
<1>5. Sound(log', content, Polite')
  BY <1>2, <1>3, <1>4, Weaken
<1>6. AnthropicInv'
  BY <1>2, <1>3, <1>4 DEF AnthropicInv
<1> QED BY <1>1, <1>2, <1>3, <1>4, <1>5, <1>6, AnthropicStep

\* content_block_start, after which slots and content are as long again.
LEMMA AnthropicBlockStart ==
  ASSUME AInv, adapter = "anthropic", Anthropic!ContentBlockStart
  PROVE  AInv'
<1>1. PICK i \in Indexes, b \in Anthropic!NewBlocks :
        /\ phase = "decode" /\ mark' = mark
        /\ Pushes(<<Start(b, Len(content) + 1)>>, Append(content, b), Append(slots, i), stop)
        /\ rude' = (rude \/ mark # "begun" \/ Anthropic!FindBlock(i) # 0 \/ ~Anthropic!AllEnded
             \/ b = Block("toolCall", 1))
  BY AnthropicNames DEF Anthropic!ContentBlockStart, Anthropic!Reading, Anthropic!Keep, Anthropic!Emit, Pushes
<1>2. /\ AnthropicInv /\ Sound(log, content, Polite) /\ Scalars /\ stop \in Reasons /\ log \in Seq(Events)
      /\ content \in Seq(Blocks) /\ Len(content) \in Nat /\ Len(log) # 0
  BY <1>1, AnthropicFacts
<1>3. b \in Blocks /\ (b.kind = "toolCall" /\ b # Block("toolCall", 1) => b.text = 0)
  BY AnthropicNames DEF Anthropic!NewBlocks, Block, Blocks, Kinds
<1>4. (Polite' => Polite /\ mark = "begun" /\ b # Block("toolCall", 1)) /\ rude' \in BOOLEAN
        /\ mark' \in {"none", "begun", "complete"}
  BY <1>1, <1>2 DEF Polite, Scalars
<1>5. Sound(log, content, Polite')
  BY <1>2, <1>4, Weaken
<1>6. /\ log' = log \o <<Start(b, Len(content) + 1)>> /\ content' = Append(content, b) /\ slots' = Append(slots, i)
  BY <1>1 DEF Pushes
<1>7. Sound(log', content', Polite') /\ log' # <<>>
  BY <1>2, <1>3, <1>5, <1>6, StartStep
<1>8. AnthropicInv'
  <2>1. slots' \in Seq(Indexes) /\ Len(slots') = Len(content')
    BY <1>2, <1>3, <1>6 DEF AnthropicInv
  <2>2. ASSUME Polite' PROVE CallsEmpty(log')
    <3>1. /\ Start(b, Len(content) + 1) \in Events /\ Start(b, Len(content) + 1).kind = b.kind
          /\ Start(b, Len(content) + 1).text = b.text
      BY <1>2, <1>3, EventTypes
    <3>2. CallsEmpty(log) /\ (b.kind = "toolCall" => b.text = 0)
      BY <1>2, <1>3, <1>4, <2>2 DEF AnthropicInv, CallsEmpty
    <3> QED BY <1>2, <1>6, <3>1, <3>2, PushCallsEmpty
  <2> QED BY <1>1, <1>4, <2>1, <2>2 DEF AnthropicInv, CallsEmpty
<1> QED BY <1>1, <1>2, <1>4, <1>6, <1>7, <1>8, AnthropicStep

\* content_block_delta, of an index that is known.
LEMMA AnthropicBlockDelta ==
  ASSUME AInv, adapter = "anthropic", Anthropic!ContentBlockDelta
  PROVE  AInv'
<1>1. PICK p \in 1..Len(slots) :
        /\ phase = "decode" /\ mark' = mark
        /\ Pushes(<<Delta(content[p], p)>>, Grown(content, p), slots, stop)
        /\ rude' = (rude \/ Anthropic!Ended(p))
  <2>1. phase = "decode" /\ slots \in Seq(Indexes)
    BY AnthropicFacts DEF Anthropic!ContentBlockDelta, Anthropic!Reading, AnthropicInv
  <2>2. PICK i \in Indexes : /\ Anthropic!FindBlock(i) # 0
                             /\ Anthropic!Keep(<<Anthropic!Delta(content[Anthropic!FindBlock(i)], Anthropic!FindBlock(i))>>,
                                               Anthropic!Grow(Anthropic!FindBlock(i)), slots, stop)
                             /\ rude' = (rude \/ Anthropic!Ended(Anthropic!FindBlock(i)))
    BY DEF Anthropic!ContentBlockDelta
  <2>3. Anthropic!FindBlock(i) \in 1..Len(slots)
    BY <2>1, <2>2, AnthropicFound
  <2> QED BY <2>1, <2>2, <2>3, AnthropicNames
          DEF Anthropic!ContentBlockDelta, Anthropic!Keep, Anthropic!Emit, Anthropic!Grow, Grown, Pushes
<1>2. /\ AnthropicInv /\ Sound(log, content, Polite) /\ Scalars /\ stop \in Reasons /\ log \in Seq(Events)
      /\ content[p] \in Blocks /\ Len(content) \in Nat /\ p \in 1..Len(content)
  BY <1>1, AnthropicFacts DEF AnthropicInv
<1>3. (Polite' => Polite /\ ~EndedIn(log, p)) /\ rude' \in BOOLEAN /\ mark' \in {"none", "begun", "complete"}
  BY <1>1, <1>2, AnthropicEnded DEF Polite, Scalars
<1>4. Sound(log, content, Polite')
  BY <1>2, <1>3, Weaken
<1>5. log' = log \o <<Delta(content[p], p)>> /\ content' = Grown(content, p) /\ slots' = slots
  BY <1>1 DEF Pushes
<1>6. /\ Sound(log', content', Polite') /\ log' # <<>> /\ SameEnds(log', log) /\ Same(content', content)
  BY <1>2, <1>3, <1>4, <1>5, DeltaStep
<1>7. AnthropicInv'
  <2>1. ASSUME Polite' PROVE CallsEmpty(log')
    <3>1. Delta(content[p], p) \in Events /\ Delta(content[p], p).type = "delta"
      BY <1>2, EventTypes
    <3>2. CallsEmpty(log)
      BY <1>2, <1>3, <2>1 DEF AnthropicInv, CallsEmpty
    <3> QED BY <1>2, <1>5, <3>1, <3>2, PushCallsEmpty
  <2>2. Len(content') = Len(content) /\ (mark = "complete" /\ Polite' => AllClosed')
    BY <1>2, <1>3, <1>6 DEF Same, SameEnds, AnthropicInv, AllClosed
  <2>3. Polite' => mark # "none"
    BY <1>2, <1>3 DEF AnthropicInv
  <2> QED BY <1>1, <1>2, <1>5, <2>1, <2>2, <2>3 DEF AnthropicInv, CallsEmpty
<1> QED BY <1>1, <1>2, <1>3, <1>5, <1>6, <1>7, AnthropicStep

\* The arguments parsed again are those gathered.
LEMMA AnthropicSettled ==
  ASSUME AInv, adapter = "anthropic", phase = "decode", NEW p \in 1..Len(content)
  PROVE  /\ Anthropic!Settled(p) \in Blocks /\ Anthropic!Settled(p).kind = content[p].kind
         /\ Polite /\ ~EndedIn(log, p) => Anthropic!Settled(p).text = content[p].text
<1>1. /\ AnthropicInv /\ Sound(log, content, Polite) /\ log \in Seq(Events) /\ Len(log) \in Nat
      /\ content[p] \in Blocks
  BY AnthropicFacts
<1>2. Anthropic!EventsOf("delta", p) = Deltas(log, Len(log), p)
  <2>1. DOMAIN log = 1..Len(log)
    BY <1>1
  <2> QED BY <2>1 DEF Anthropic!EventsOf, Deltas
<1>3. PICK n \in Nat : n = Cardinality(Deltas(log, Len(log), p))
  BY <1>1, DeltasNat
<1>4. CASE content[p].kind # "toolCall"
  BY <1>1, <1>4 DEF Anthropic!Settled
<1>5. CASE content[p].kind = "toolCall"
  <2>0. Anthropic!Cardinality(Deltas(log, Len(log), p)) = n
    BY <1>3 DEF Anthropic!Cardinality, Cardinality
  <2>1. Anthropic!Settled(p) = Block("toolCall", n)
    BY <1>2, <1>5, <2>0, AnthropicNames DEF Anthropic!Settled
  <2>2. Block("toolCall", n) \in Blocks /\ Block("toolCall", n).kind = "toolCall" /\ Block("toolCall", n).text = n
    BY DEF Block, Blocks, Kinds
  <2>3. ASSUME Polite, ~EndedIn(log, p) PROVE content[p].text = n
    <3>1. PICK j \in 1..Len(log) : Opens(log, j, p)
      BY <1>1 DEF Sound, Loose, Started
    <3>2. log[j].type = "start" /\ log[j].kind = "toolCall"
      BY <1>1, <1>5, <3>1 DEF Opens, Sound, Loose, Named, About
    <3>3. log[j].text = 0
      BY <1>1, <2>3, <3>2 DEF AnthropicInv
    <3>4. content[p].text = log[j].text + n
      BY <1>1, <1>3, <2>3, <3>1 DEF Sound, Strict, Gathered
    <3> QED BY <3>3, <3>4
  <2> QED BY <1>5, <2>1, <2>2, <2>3
<1> QED BY <1>4, <1>5

\* content_block_stop, which may settle the arguments of a tool call.
LEMMA AnthropicBlockStop ==
  ASSUME AInv, adapter = "anthropic", Anthropic!ContentBlockStop
  PROVE  AInv'
<1>0. PICK p \in 1..Len(slots) : \E w :
        /\ phase = "decode" /\ mark' = mark /\ w = Anthropic!Settled(p)
        /\ Pushes(<<End(w, p)>>, [content EXCEPT ![p] = w], slots, stop)
        /\ rude' = (rude \/ Anthropic!Ended(p))
  <2>1. phase = "decode" /\ slots \in Seq(Indexes)
    BY AnthropicFacts DEF Anthropic!ContentBlockStop, Anthropic!Reading, AnthropicInv
  <2>0. PICK i \in Indexes : \E p :
             /\ p = Anthropic!FindBlock(i) /\ p # 0
             /\ Anthropic!Keep(<<Anthropic!End(Anthropic!Settled(p), p)>>,
                  [content EXCEPT ![p] = Anthropic!Settled(p)], slots, stop)
             /\ rude' = (rude \/ Anthropic!Ended(p))
    BY DEF Anthropic!ContentBlockStop
  <2>2. PICK p :
             /\ p = Anthropic!FindBlock(i) /\ p # 0
             /\ Anthropic!Keep(<<Anthropic!End(Anthropic!Settled(p), p)>>,
                  [content EXCEPT ![p] = Anthropic!Settled(p)], slots, stop)
             /\ rude' = (rude \/ Anthropic!Ended(p))
    BY <2>0
  <2>3. p \in 1..Len(slots)
    BY <2>1, <2>2, AnthropicFound
  <2>4. mark' = mark
    BY DEF Anthropic!ContentBlockStop
  <2> QED BY <2>1, <2>2, <2>3, <2>4, AnthropicNames DEF Anthropic!Keep, Anthropic!Emit, Pushes
<1>1. PICK w :
        /\ phase = "decode" /\ mark' = mark /\ w = Anthropic!Settled(p)
        /\ Pushes(<<End(w, p)>>, [content EXCEPT ![p] = w], slots, stop)
        /\ rude' = (rude \/ Anthropic!Ended(p))
  BY <1>0
<1>2. /\ AnthropicInv /\ Sound(log, content, Polite) /\ Scalars /\ stop \in Reasons /\ log \in Seq(Events)
      /\ Len(content) \in Nat /\ p \in 1..Len(content)
  BY <1>1, AnthropicFacts DEF AnthropicInv
<1>3. (Polite' => Polite /\ ~EndedIn(log, p)) /\ rude' \in BOOLEAN /\ mark' \in {"none", "begun", "complete"}
  BY <1>1, <1>2, AnthropicEnded DEF Polite, Scalars
<1>4. w \in Blocks /\ w.kind = content[p].kind /\ (Polite' => ~EndedIn(log, p) /\ w.text = content[p].text)
  BY <1>1, <1>2, <1>3, AnthropicSettled
<1>5. Sound(log, content, Polite')
  BY <1>2, <1>3, Weaken
<1>6. log' = log \o <<End(w, p)>> /\ content' = [content EXCEPT ![p] = w] /\ slots' = slots
  BY <1>1 DEF Pushes
<1>7. /\ Sound(log', content', Polite') /\ log' # <<>> /\ Same(content', content)
      /\ \A q : EndedIn(log', q) <=> EndedIn(log, q) \/ q = p
  <2> DEFINE M == log \o <<End(w, p)>>
             D == [content EXCEPT ![p] = w]
  <2>1. /\ Sound(M, D, Polite') /\ M # <<>> /\ Same(D, content)
        /\ \A q : EndedIn(M, q) <=> EndedIn(log, q) \/ q = p
    <3>1. /\ Sound(log, content, Polite') /\ p \in 1..Len(content) /\ w \in Blocks /\ w.kind = content[p].kind
          /\ (Polite' => ~EndedIn(log, p) /\ w.text = content[p].text)
      BY <1>2, <1>4, <1>5
    <3>2. /\ Sound(M, Replaced(content, p, w), Polite') /\ M # <<>> /\ Same(Replaced(content, p, w), content)
          /\ \A q : EndedIn(M, q) <=> EndedIn(log, q) \/ q = p
      BY ONLY <3>1, EndStep
    <3> QED BY <3>2 DEF Replaced
  <2> HIDE DEF M, D
  <2> QED BY <1>6, <2>1 DEF M, D
<1>8. AnthropicInv'
  <2>1. ASSUME Polite' PROVE CallsEmpty(log')
    <3>1. End(w, p) \in Events /\ End(w, p).type = "end"
      BY <1>2, <1>4, EventTypes
    <3>2. CallsEmpty(log)
      BY <1>2, <1>3, <2>1 DEF AnthropicInv, CallsEmpty
    <3> QED BY <1>2, <1>6, <3>1, <3>2, PushCallsEmpty
  <2>2. Len(content') = Len(content) /\ (mark = "complete" /\ Polite' => AllClosed')
    BY <1>2, <1>3, <1>7 DEF Same, AnthropicInv, AllClosed
  <2>3. Polite' => mark # "none"
    BY <1>2, <1>3 DEF AnthropicInv
  <2> QED BY <1>1, <1>2, <1>6, <2>1, <2>2, <2>3 DEF AnthropicInv, CallsEmpty
<1> QED BY <1>1, <1>2, <1>3, <1>6, <1>7, <1>8, AnthropicStep

\* message_delta.
LEMMA AnthropicMessageDelta ==
  ASSUME AInv, adapter = "anthropic", Anthropic!MessageDelta
  PROVE  AInv'
<1>1. PICK r \in DOMAIN Anthropic!StopReasonOf :
        \/ Anthropic!Fail
        \/ /\ Anthropic!StopReasonOf[r] # "nil"
           /\ Pushes(<<>>, content, slots, Anthropic!StopReasonOf[r])
           /\ rude' = (rude \/ ~Anthropic!AllEnded) /\ mark' = mark
  BY DEF Anthropic!MessageDelta, Anthropic!Keep, Anthropic!Emit, Pushes
<1>2. phase = "decode" /\ (Anthropic!StopReasonOf[r] # "nil" => Anthropic!StopReasonOf[r] \in Reasons)
  BY DEF Anthropic!MessageDelta, Anthropic!Reading, Anthropic!StopReasonOf, Reasons
<1>3. CASE Anthropic!Fail
  BY <1>2, <1>3, AnthropicFail, FailStep
<1>4. CASE ~Anthropic!Fail
  <2>1. /\ AnthropicInv /\ Sound(log, content, Polite) /\ Scalars /\ log \in Seq(Events)
    BY <1>2, AnthropicFacts
  <2>2. log' = log /\ content' = content /\ slots' = slots
    BY <1>1, <1>4, <2>1, ConcatOne DEF Pushes
  <2>3. (Polite' => Polite) /\ rude' \in BOOLEAN /\ mark' \in {"none", "begun", "complete"}
    BY <1>1, <1>4, <2>1 DEF Polite, Scalars
  <2>4. Sound(log', content, Polite')
    BY <2>1, <2>2, <2>3, Weaken
  <2>5. AnthropicInv'
    BY <1>1, <1>4, <2>1, <2>2, <2>3 DEF AnthropicInv, AllClosed
  <2> QED BY <1>1, <1>2, <1>4, <2>2, <2>3, <2>4, <2>5, AnthropicStep
<1> QED BY <1>3, <1>4

\* message_stop, politely sent when every block has ended.
LEMMA AnthropicMessageStop ==
  ASSUME AInv, adapter = "anthropic", Anthropic!MessageStop
  PROVE  AInv'
<1>1. /\ phase = "decode" /\ Pushes(<<>>, content, slots, stop)
      /\ mark' = "complete" /\ rude' = (rude \/ ~Anthropic!AllEnded \/ mark # "begun")
  BY DEF Anthropic!MessageStop, Anthropic!Reading, Anthropic!Keep, Anthropic!Emit, Pushes
<1>2. /\ AnthropicInv /\ Sound(log, content, Polite) /\ Scalars /\ stop \in Reasons /\ log \in Seq(Events)
      /\ DOMAIN content = 1..Len(content)
  BY <1>1, AnthropicFacts
<1>3. log' = log /\ content' = content /\ slots' = slots
  BY <1>1, <1>2, ConcatOne DEF Pushes
<1>4. (Polite' => Polite /\ Anthropic!AllEnded) /\ rude' \in BOOLEAN
  BY <1>1, <1>2 DEF Polite, Scalars, Anthropic!AllEnded
<1>5. Polite' => AllClosed
  BY <1>2, <1>4, AnthropicEnded DEF Anthropic!AllEnded, AllClosed
<1>6. Sound(log', content, Polite')
  BY <1>2, <1>3, <1>4, Weaken
<1>7. AnthropicInv'
  BY <1>1, <1>2, <1>3, <1>4, <1>5 DEF AnthropicInv, AllClosed
<1> QED BY <1>1, <1>2, <1>3, <1>4, <1>6, <1>7, AnthropicStep

\* The stream is over: with an answer, if its message began and stopped.
LEMMA AnthropicEndOfStream ==
  ASSUME AInv, adapter = "anthropic", Anthropic!EndOfStream
  PROVE  AInv'
<1>1. phase = "decode" /\ AnthropicInv /\ stop \in Reasons /\ mark \in {"none", "begun", "complete"}
  BY AnthropicFacts DEF Anthropic!EndOfStream, Scalars
<1>2. CASE mark = "begun"
  BY <1>1, <1>2, AnthropicFail, FailStep DEF Anthropic!EndOfStream
<1>3. CASE mark # "begun"
  <2>1. Fails(<<>>) \/ Closes(<<>>, "done", stop)
    BY <1>1, <1>3, AnthropicConclude DEF Anthropic!EndOfStream
  <2>2. Whole(log, stop)
    BY <1>1, <1>3 DEF Whole, AnthropicInv, AllClosed
  <2> QED BY <1>1, <2>1, <2>2, ConcludeStep
<1> QED BY <1>2, <1>3

\* No step of AnthropicStream breaks the invariant.
LEMMA AnthropicRun ==
  ASSUME AInv, adapter = "anthropic", Anthropic!Run
  PROVE  AInv'
<1>1. CASE Anthropic!Garbled
  BY <1>1, AnthropicFail, FailStep DEF Anthropic!Garbled, Anthropic!Reading
<1>2. CASE Anthropic!SetUp \/ Anthropic!Request
  BY <1>2, AnthropicSetUp
<1> QED BY <1>1, <1>2, AnthropicMessageStart, AnthropicBlockStart, AnthropicBlockDelta, AnthropicBlockStop,
           AnthropicMessageDelta, AnthropicMessageStop, AnthropicEndOfStream DEF Anthropic!Run, Anthropic!Frames

-----------------------------------------------------------------------------
(* Decoders that close the current block first                             *)

\* The end of a block, if there is one.
Closing(C, p) == IF p = 0 THEN <<>> ELSE <<End(C[p], p)>>

\* A block that is closed if one is open.
LEMMA CloseStep ==
  ASSUME NEW L, NEW C, NEW s, Sound(L, C, s), NEW p \in 0..Len(C), p # 0 /\ s => ~EndedIn(L, p)
  PROVE  LET M == L \o Closing(C, p)
         IN  /\ Sound(M, C, s) /\ Closing(C, p) \in Seq(Events) /\ (L # <<>> => M # <<>>)
             /\ \A q : EndedIn(M, q) <=> EndedIn(L, q) \/ (q = p /\ p # 0)
<1>1. L \in Seq(Events) /\ C \in Seq(Blocks) /\ Len(C) \in Nat
  BY SoundTypes
<1>2. CASE p = 0
  <2>1. Closing(C, p) = <<>> /\ L \o <<>> = L /\ <<>> \in Seq(Events)
    BY <1>1, <1>2 DEF Closing
  <2> QED BY <1>2, <2>1
<1>3. CASE p # 0
  <2>1. p \in 1..Len(C)
    BY <1>1, <1>3
  <2>2. C[p] \in Blocks /\ Closing(C, p) = <<End(C[p], p)>>
    BY <1>1, <1>3, <2>1, SoundTypes DEF Closing
  <2>3. End(C[p], p) \in Events
    BY <2>1, <2>2, EventTypes
  <2>4. /\ Sound(L \o <<End(C[p], p)>>, C, s) /\ L \o <<End(C[p], p)>> # <<>>
        /\ \A q : EndedIn(L \o <<End(C[p], p)>>, q) <=> EndedIn(L, q) \/ q = p
    BY <1>3, <2>1, EndAsIs
  <2>5. <<End(C[p], p)>> \in Seq(Events)
    BY <2>3
  <2> QED BY <1>3, <2>2, <2>4, <2>5
<1> QED BY <1>2, <1>3

\* A fresh block behind the one that is closed.
LEMMA CloseStartStep ==
  ASSUME NEW L, NEW C, NEW s, Sound(L, C, s), L # <<>>, NEW p \in 0..Len(C), p # 0 /\ s => ~EndedIn(L, p),
         NEW kind \in Kinds, NEW n, n = Len(C) + 1, NEW t \in Nat
  PROVE  LET M == L \o (Closing(C, p) \o <<Start(Block(kind, 0), n), Delta(Block(kind, t), n)>>)
             D == Append(C, Block(kind, 1))
         IN  /\ Sound(M, D, s) /\ M # <<>> /\ n \in Nat /\ n # 0 /\ n \in 1..n
             /\ \A q \in 1..Len(C) : EndedIn(M, q) <=> EndedIn(L, q) \/ (q = p /\ p # 0)
             /\ ~EndedIn(M, n) /\ Len(D) = n /\ D[n].kind = kind /\ \A q \in 1..Len(C) : D[q] = C[q] /\ q \in 1..n
             /\ \A q \in 1..n : q \in 1..Len(C) \/ q = n
<1> DEFINE N == L \o Closing(C, p)
           F == <<Start(Block(kind, 0), n), Delta(Block(kind, t), n)>>
           D == Append(C, Block(kind, 1))
<1>1. L \in Seq(Events) /\ C \in Seq(Blocks) /\ Len(C) \in Nat /\ n \in Nat /\ n # 0 /\ n \in 1..n
  BY SoundTypes
<1>2. /\ Sound(N, C, s) /\ Closing(C, p) \in Seq(Events) /\ N # <<>>
      /\ \A q : EndedIn(N, q) <=> EndedIn(L, q) \/ (q = p /\ p # 0)
  BY CloseStep
<1>3. Start(Block(kind, 0), n) \in Events /\ Delta(Block(kind, t), n) \in Events
  <2>1. Block(kind, 0) \in Blocks /\ Block(kind, t) \in Blocks
    BY DEF Block, Blocks
  <2> QED BY <1>1, <2>1, EventTypes
<1>4. F \in Seq(Events)
  BY <1>3
<1> HIDE DEF F, N, D
<1>5. L \o (Closing(C, p) \o F) = N \o F
  <2> DEFINE K == Closing(C, p)
  <2>1. K \in Seq(Events)
    BY <1>2
  <2> HIDE DEF K
  <2>2. L \o (K \o F) = (L \o K) \o F
    BY <1>1, <1>4, <2>1
  <2> QED BY <2>2 DEF K, N
<1>6. N \in Seq(Events) /\ Len(N) # 0
  BY <1>2, SoundTypes
<1>7. /\ Sound(N \o F, D, s) /\ N \o F # <<>> /\ SameEnds(N \o F, N) /\ ~EndedIn(N, n)
      /\ Len(D) = n /\ D[n].kind = kind /\ \A q \in 1..Len(C) : D[q] = C[q] /\ q \in 1..Len(D)
      /\ \A q \in 1..Len(D) : q \in 1..Len(C) \/ q = n
  <2>1. Sound(N, C, s) /\ (s \/ OwnStart => Len(N) # 0)
    BY <1>2, <1>6
  <2> QED BY <2>1, StartDeltaStep DEF F, D
<1> QED BY <1>1, <1>2, <1>5, <1>7 DEF SameEnds, F, N, D

\* A decoder that fails, or concludes, with some last events.
LEMMA ConcludeWith ==
  ASSUME AInv, phase = "decode", NEW E \in Seq(Events), Sound(log \o E, content, Polite),
         Fails(E) \/ (Closes(E, "done", stop) /\ Whole(log \o E, stop))
  PROVE  AInv'
<1>1. Scalars /\ stop \in Labels /\ Sound(log, content, Polite)
  BY DEF AInv, Scalars, Labels
<1>2. log \in Seq(Events)
  BY <1>1, SoundTypes
<1> QED BY <1>1, <1>2, CloseError, CloseDone

-----------------------------------------------------------------------------
(* The decoder of Google                                                   *)

\* A step of GoogleStream's decoder that reads on needs its own part of the invariant.
LEMMA GoogleStep ==
  ASSUME AInv, adapter = "google", phase = "decode", NEW E, NEW D, NEW T, NEW reason \in Reasons,
         Pushes(E, D, T, reason), mark' \in {"none", "begun", "complete"}, rude' \in BOOLEAN,
         Sound(log', D, Polite'), log' = <<>> => log = <<>>, GoogleInv'
  PROVE  AInv'
<1>1. TableInv'
  BY DEF Pushes, TableInv
<1> QED BY <1>1, KeepReading

\* ConcludeAfter of GoogleStream fails, or pushes a done event if the context is not done.
LEMMA GoogleConclude ==
  ASSUME NEW E, NEW reason \in Reasons, Google!ConcludeAfter(E, reason), content' = content
  PROVE  Fails(E) \/ (~ctx /\ reason # "error" /\ Closes(E, "done", reason))
<1>1. CASE ctx \/ reason = "error"
  <2> DEFINE why == IF ctx THEN "aborted" ELSE "error"
  <2>1. why \in Labels
    BY DEF Labels, Reasons
  <2>2. log' = log \o Append(E, Terminal("error", why))
    BY <1>1, GoogleNames DEF Google!ConcludeAfter, Google!FailAfter, Google!Emit
  <2> HIDE DEF why
  <2> QED BY <1>1, <2>1, <2>2 DEF Google!ConcludeAfter, Google!FailAfter, Google!Emit, Fails, Closes, Untouched
<1>2. CASE ~(ctx \/ reason = "error")
  BY <1>2, GoogleNames DEF Google!ConcludeAfter, Google!FailAfter, Google!Emit, Closes, Untouched
<1> QED BY <1>1, <1>2

\* The operators of GoogleStream as values.
LEMMA GoogleOperators ==
  /\ Google!Close = Closing(content, slots) /\ Google!New = Len(content) + 1
  /\ \A p : Google!Grow(p) = Grown(content, p)
  /\ Google!HasToolCall(content) <=> HasToolCall(content)
  BY GoogleNames DEF Google!Close, Closing, Google!New, Google!Grow, Grown, Google!HasToolCall, HasToolCall

\* What every step leaves to be shown.
LEMMA GoogleAfterFinish ==
  ASSUME AInv, adapter = "google", phase = "decode", Google!AfterFinish
  PROVE  /\ (Polite' => Polite /\ mark # "complete") /\ rude' \in BOOLEAN /\ mark \in {"none", "begun", "complete"}
         /\ Sound(log, content, Polite') /\ slots \in Places /\ (slots # 0 => slots \in 1..Len(content)
              /\ ~EndedIn(log, slots))
         /\ slots \in 0..Len(content)
<1>1. GoogleInv /\ Sound(log, content, Polite) /\ Scalars /\ Len(content) \in Nat
  BY GoogleFacts
<1>2. (Polite' => Polite /\ mark # "complete") /\ rude' \in BOOLEAN /\ mark \in {"none", "begun", "complete"}
  BY <1>1 DEF Google!AfterFinish, Polite, Scalars
<1>3. Sound(log, content, Polite')
  BY <1>1, <1>2, Weaken
<1> QED BY <1>1, <1>2, <1>3 DEF GoogleInv, Places, OpenAt

\* A text or thinking part, which may close the block before it.
LEMMA GoogleTextPart ==
  ASSUME AInv, adapter = "google", Google!TextPart
  PROVE  AInv'
<1>1. phase = "decode" /\ mark' = mark /\ Google!AfterFinish
  BY DEF Google!TextPart, Google!Reading
<1>2. /\ GoogleInv /\ Scalars /\ stop \in Reasons /\ log \in Seq(Events) /\ log # <<>>
      /\ content \in Seq(Blocks) /\ Len(content) \in Nat
  BY <1>1, GoogleFacts
<1>3. /\ (Polite' => Polite /\ mark # "complete") /\ rude' \in BOOLEAN /\ mark \in {"none", "begun", "complete"}
      /\ Sound(log, content, Polite') /\ slots \in Places /\ (slots # 0 => slots \in 1..Len(content)
           /\ ~EndedIn(log, slots))
      /\ slots \in 0..Len(content)
  BY <1>1, GoogleAfterFinish
<1>4. PICK kind \in Texts :
        IF slots # 0 /\ content[slots].kind = kind
        THEN Pushes(<<Delta(content[slots], slots)>>, Grown(content, slots), slots, stop)
        ELSE Pushes(Closing(content, slots) \o <<Start(Block(kind, 0), Len(content) + 1), Delta(Block(kind, 0), Len(content) + 1)>>,
                    Append(content, Block(kind, 1)), Len(content) + 1, stop)
  BY GoogleNames, GoogleOperators DEF Google!TextPart, Google!Keep, Google!Emit, Pushes, Texts
<1>5. CASE slots # 0 /\ content[slots].kind = kind
  <2>1. Pushes(<<Delta(content[slots], slots)>>, Grown(content, slots), slots, stop)
    BY <1>4, <1>5
  <2>2. log' = log \o <<Delta(content[slots], slots)>> /\ content' = Grown(content, slots) /\ slots' = slots
    BY <2>1 DEF Pushes
  <2>3. /\ Sound(log', content', Polite') /\ log' # <<>> /\ SameEnds(log', log) /\ Same(content', content)
    BY <1>3, <1>5, <2>2, DeltaStep
  <2>4. GoogleInv'
    BY <1>1, <1>2, <1>3, <2>2, <2>3 DEF GoogleInv, Places, OpenAt, Same, SameEnds
  <2> QED BY <1>1, <1>2, <1>3, <2>1, <2>2, <2>3, <2>4, GoogleStep
<1>6. CASE ~(slots # 0 /\ content[slots].kind = kind)
  <2> DEFINE n == Len(content) + 1
             E == Closing(content, slots) \o <<Start(Block(kind, 0), n), Delta(Block(kind, 0), n)>>
             D == Append(content, Block(kind, 1))
  <2>1. Pushes(E, D, n, stop)
    BY <1>4, <1>6
  <2>2. /\ Sound(log \o E, D, Polite') /\ log \o E # <<>> /\ n # 0 /\ n \in 1..n /\ n \in Nat
        /\ \A q \in 1..Len(content) : EndedIn(log \o E, q) <=> EndedIn(log, q) \/ (q = slots /\ slots # 0)
        /\ ~EndedIn(log \o E, n) /\ Len(D) = n /\ \A q \in 1..n : q \in 1..Len(content) \/ q = n
    BY <1>2, <1>3, CloseStartStep DEF Texts, Kinds
  <2> HIDE DEF n, E, D
  <2>3. log' = log \o E /\ content' = D /\ slots' = n
    BY <2>1 DEF Pushes
  <2>4. GoogleInv'
    <3>1. slots' \in Places' /\ OpenAt(slots)'
      BY <2>2, <2>3 DEF Places, OpenAt
    <3>2. \A p \in 1..Len(content') : p # slots' => EndedIn(log', p)
      BY <1>2, <2>2, <2>3 DEF GoogleInv
    <3> QED BY <1>1, <1>3, <3>1, <3>2 DEF GoogleInv
  <2> QED BY <1>1, <1>2, <1>3, <2>1, <2>2, <2>3, <2>4, GoogleStep
<1> QED BY <1>5, <1>6

\* A function call, which starts and ends in one step.
LEMMA GoogleFunctionCallPart ==
  ASSUME AInv, adapter = "google", Google!FunctionCallPart
  PROVE  AInv'
<1> DEFINE n == Len(content) + 1
           b == Block("toolCall", 1)
           F == <<Start(Block("toolCall", 0), n), Delta(b, n)>>
           E == Closing(content, slots) \o <<Start(Block("toolCall", 0), n), Delta(b, n), End(b, n)>>
           D == Append(content, b)
           N == log \o (Closing(content, slots) \o F)
<1>1. phase = "decode" /\ mark' = mark /\ Google!AfterFinish
  BY DEF Google!FunctionCallPart, Google!Reading
<1>2. /\ GoogleInv /\ Scalars /\ stop \in Reasons /\ log \in Seq(Events) /\ log # <<>>
      /\ content \in Seq(Blocks) /\ Len(content) \in Nat
  BY <1>1, GoogleFacts
<1>3. /\ (Polite' => Polite /\ mark # "complete") /\ rude' \in BOOLEAN /\ mark \in {"none", "begun", "complete"}
      /\ Sound(log, content, Polite') /\ slots \in Places /\ (slots # 0 => slots \in 1..Len(content)
           /\ ~EndedIn(log, slots))
      /\ slots \in 0..Len(content)
  BY <1>1, GoogleAfterFinish
<1>4. Pushes(E, D, 0, stop)
  BY GoogleNames, GoogleOperators DEF Google!FunctionCallPart, Google!Keep, Google!Emit, Pushes
<1>5. /\ Sound(N, D, Polite') /\ n \in Nat /\ n \in 1..n /\ Len(D) = n /\ D[n].kind = "toolCall"
      /\ \A q \in 1..Len(content) : EndedIn(N, q) <=> EndedIn(log, q) \/ (q = slots /\ slots # 0)
      /\ ~EndedIn(N, n) /\ \A q \in 1..n : q \in 1..Len(content) \/ q = n
  BY <1>2, <1>3, CloseStartStep DEF Kinds
<1>6. b \in Blocks /\ b.kind = "toolCall" /\ b.text = 1 /\ Block("toolCall", 0) \in Blocks
  BY DEF Block, Blocks, Kinds
<1>7. Start(Block("toolCall", 0), n) \in Events /\ Delta(b, n) \in Events /\ End(b, n) \in Events
  BY <1>5, <1>6, EventTypes
<1>8. D[n] = b
  BY <1>2, <1>6
<1>9. Closing(content, slots) \in Seq(Events)
  BY <1>3, CloseStep
<1>10. log \o E = N \o <<End(b, n)>>
  <2> HIDE DEF n, b
  <2>1. <<Start(Block("toolCall", 0), n), Delta(b, n), End(b, n)>> = F \o <<End(b, n)>> /\ F \in Seq(Events)
          /\ <<End(b, n)>> \in Seq(Events)
    BY <1>7
  <2> DEFINE G == <<End(b, n)>>
             K == Closing(content, slots)
  <2> HIDE DEF F, G, K
  <2>2. log \o (K \o (F \o G)) = (log \o (K \o F)) \o G
    BY <1>2, <1>9, <2>1 DEF K, G
  <2> QED BY <2>1, <2>2 DEF K, G
<1> HIDE DEF n, E, D, N, b
<1>11. /\ Sound(log \o E, D, Polite') /\ log \o E # <<>>
       /\ \A q : EndedIn(log \o E, q) <=> EndedIn(N, q) \/ q = n
  BY <1>5, <1>8, <1>10, EndAsIs
<1>12. log' = log \o E /\ content' = D /\ slots' = 0
  BY <1>4 DEF Pushes
<1>13. GoogleInv'
  <2>1. slots' \in Places' /\ OpenAt(slots)'
    BY <1>5, <1>12 DEF Places, OpenAt
  <2>2. \A p \in 1..Len(content') : p # slots' => EndedIn(log', p)
    BY <1>2, <1>5, <1>11, <1>12 DEF GoogleInv
  <2> QED BY <1>1, <1>3, <2>1, <2>2 DEF GoogleInv
<1> QED BY <1>1, <1>2, <1>3, <1>4, <1>11, <1>12, <1>13, GoogleStep

\* The finish reason, raised to toolUse if there are calls.
LEMMA GoogleFinishReason ==
  ASSUME AInv, adapter = "google", Google!FinishReason
  PROVE  AInv'
<1>1. phase = "decode" /\ mark' = "complete" /\ Google!AfterFinish
  BY DEF Google!FinishReason, Google!Reading
<1>2. GoogleInv /\ log \in Seq(Events) /\ log # <<>>
  BY <1>1, GoogleFacts
<1>3. rude' \in BOOLEAN /\ Sound(log, content, Polite')
  BY <1>1, GoogleAfterFinish
<1>4. PICK r \in DOMAIN Google!FinishReasonOf : Pushes(<<>>, content, slots, Google!Upgraded(Google!FinishReasonOf[r]))
  BY DEF Google!FinishReason, Google!Keep, Google!Emit, Pushes
<1> DEFINE why == Google!Upgraded(Google!FinishReasonOf[r])
<1>5. why \in Reasons /\ (HasToolCall(content) => why # "stop")
  BY GoogleOperators DEF Google!Upgraded, Google!FinishReasonOf, Reasons
<1> HIDE DEF why
<1>6. log' = log /\ content' = content /\ slots' = slots /\ stop' = why
  BY <1>2, <1>4, ConcatOne DEF Pushes, why
<1>7. GoogleInv'
  BY <1>2, <1>5, <1>6 DEF GoogleInv, Places, OpenAt, HasToolCall
<1> QED BY <1>1, <1>3, <1>4, <1>5, <1>6, <1>7, GoogleStep DEF why

\* The stream is over: the current block ends first.
LEMMA GoogleEndOfStream ==
  ASSUME AInv, adapter = "google", Google!EndOfStream
  PROVE  AInv'
<1> DEFINE E == Closing(content, slots)
<1>1. phase = "decode" /\ content' = content /\ Google!ConcludeAfter(E, stop)
  BY GoogleOperators DEF Google!EndOfStream
<1>2. /\ GoogleInv /\ Sound(log, content, Polite) /\ stop \in Reasons /\ Len(content) \in Nat
  BY <1>1, GoogleFacts
<1>3. slots \in 0..Len(content) /\ (slots # 0 => ~EndedIn(log, slots))
  BY <1>2 DEF GoogleInv, Places, OpenAt
<1>4. /\ Sound(log \o E, content, Polite) /\ E \in Seq(Events)
      /\ \A q : EndedIn(log \o E, q) <=> EndedIn(log, q) \/ (q = slots /\ slots # 0)
  BY <1>2, <1>3, CloseStep
<1> HIDE DEF E
<1>5. Fails(E) \/ Closes(E, "done", stop)
  BY <1>1, <1>2, GoogleConclude
<1>6. Whole(log \o E, stop)
  <2>1. \A p \in 1..Len(content) : p # 0
    OBVIOUS
  <2> QED BY <1>2, <1>4, <2>1 DEF Whole, GoogleInv
<1> QED BY <1>1, <1>4, <1>5, <1>6, ConcludeWith

\* No step of GoogleStream breaks the invariant.
LEMMA GoogleRun ==
  ASSUME AInv, adapter = "google", Google!Run \/ Google!RunVertex
  PROVE  AInv'
<1>1. CASE Google!Garbled
  BY <1>1, GoogleFail, FailStep DEF Google!Garbled, Google!Reading
<1>2. CASE Google!SetUp \/ Google!SetUpVertex \/ Google!Request
  BY <1>2, GoogleSetUp
<1> QED BY <1>1, <1>2, GoogleTextPart, GoogleFunctionCallPart, GoogleFinishReason, GoogleEndOfStream
        DEF Google!Run, Google!RunVertex, Google!Frames

-----------------------------------------------------------------------------
(* The decoder of Bedrock                                                  *)

\* A step of BedrockStream's decoder that reads on needs its own part of the invariant.
LEMMA BedrockStep ==
  ASSUME AInv, adapter = "bedrock", phase = "decode", NEW E, NEW D, NEW T, NEW reason \in Reasons,
         Pushes(E, D, T, reason), mark' \in {"none", "begun", "complete"}, rude' \in BOOLEAN,
         Sound(log', D, Polite'), log' = <<>> => log = <<>>, BedrockInv'
  PROVE  AInv'
<1>1. TableInv'
  BY DEF Pushes, TableInv
<1> QED BY <1>1, KeepReading

\* ConcludeAfter of BedrockStream fails, or pushes a done event if the context is not done.
LEMMA BedrockConclude ==
  ASSUME NEW E, NEW reason \in Reasons, Bedrock!ConcludeAfter(E, reason), content' = content
  PROVE  Fails(E) \/ (~ctx /\ reason # "error" /\ Closes(E, "done", reason))
<1>1. CASE ctx \/ reason = "error"
  <2> DEFINE why == IF ctx THEN "aborted" ELSE "error"
  <2>1. why \in Labels
    BY DEF Labels, Reasons
  <2>2. log' = log \o Append(E, Terminal("error", why))
    BY <1>1, BedrockNames DEF Bedrock!ConcludeAfter, Bedrock!FailAfter, Bedrock!Emit
  <2> HIDE DEF why
  <2> QED BY <1>1, <2>1, <2>2 DEF Bedrock!ConcludeAfter, Bedrock!FailAfter, Bedrock!Emit, Fails, Closes, Untouched
<1>2. CASE ~(ctx \/ reason = "error")
  BY <1>2, BedrockNames DEF Bedrock!ConcludeAfter, Bedrock!FailAfter, Bedrock!Emit, Closes, Untouched
<1> QED BY <1>1, <1>2

\* The operators of BedrockStream as values.
LEMMA BedrockOperators ==
  /\ Bedrock!New = Len(content) + 1
  /\ \A p : Bedrock!Grow(p) = Grown(content, p)
  BY DEF Bedrock!New, Bedrock!Grow, Grown

\* What a step with a given effect on rude leaves to be shown.
LEMMA BedrockPolite ==
  ASSUME AInv, adapter = "bedrock", phase = "decode", NEW broken, rude' = (rude \/ broken)
  PROVE  /\ (Polite' => Polite /\ ~broken) /\ rude' \in BOOLEAN /\ mark \in {"none", "begun", "complete"}
         /\ Sound(log, content, Polite')
         /\ slots \in [Indexes -> Nat] /\ \A i \in Indexes : slots[i] \in Nat /\ (slots[i] # 0
              => slots[i] \in 1..Len(content))
<1>1. BedrockInv /\ Sound(log, content, Polite) /\ Scalars /\ Len(content) \in Nat
  BY BedrockFacts
<1>2. (Polite' => Polite /\ ~broken) /\ mark \in {"none", "begun", "complete"}
  BY <1>1 DEF Polite, Scalars
<1>3. Sound(log, content, Polite')
  BY <1>1, <1>2, Weaken
<1>4. rude' \in BOOLEAN
  <2>1. CASE rude
    BY <2>1
  <2>2. CASE ~rude /\ broken
    BY <2>2
  <2>3. CASE ~rude /\ ~broken
    BY <2>3
  <2> QED BY <2>1, <2>2, <2>3
<1> QED BY <1>1, <1>2, <1>3, <1>4 DEF BedrockInv, Places

\* The start of the message is the first event.
LEMMA BedrockBegun ==
  ASSUME AInv, adapter = "bedrock", phase = "decode", Polite
  PROVE  Bedrock!Begun <=> Len(log) # 0
<1>1. /\ Sound(log, content, Polite) /\ log \in Seq(Events) /\ Len(log) \in Nat
  BY BedrockFacts
<1>2. DOMAIN log = 1..Len(log)
  BY <1>1
<1>3. Len(log) # 0 => log[1] = Begin /\ 1 \in 1..Len(log)
  BY <1>1 DEF Sound, Strict, BeginFirst
<1>4. Begin.type = "begin"
  BY DEF Begin, Event
<1>5. Len(log) = 0 => 1..Len(log) = {}
  BY <1>1
<1> QED BY <1>2, <1>3, <1>4, <1>5 DEF Bedrock!Begun

\* The table after a new block.
LEMMA BedrockNew ==
  ASSUME AInv, adapter = "bedrock", phase = "decode", NEW i \in Indexes, NEW n, n = Len(content) + 1,
         slots' = [slots EXCEPT ![i] = n], Len(content') = n, mark' = mark, Polite' => mark = "none"
  PROVE  BedrockInv'
<1>1. BedrockInv /\ Len(content) \in Nat /\ n \in Nat
  BY BedrockFacts
<1>2. \A k \in Indexes : slots[k] \in 0..n
  BY <1>1 DEF BedrockInv, Places
<1>3. slots' \in [Indexes -> Nat] /\ \A k \in Indexes : slots'[k] \in 0..n
  BY <1>1, <1>2 DEF BedrockInv
<1> QED BY <1>3 DEF BedrockInv, Places

\* messageStart, which pushes the start event.
LEMMA BedrockMessageStart ==
  ASSUME AInv, adapter = "bedrock", Bedrock!MessageStart
  PROVE  AInv'
<1>1. /\ phase = "decode" /\ mark' = mark /\ rude' = (rude \/ Bedrock!Begun)
      /\ Pushes(<<Begin>>, content, slots, stop)
  BY BedrockNames DEF Bedrock!MessageStart, Bedrock!Reading, Bedrock!Keep, Bedrock!Emit, Pushes
<1>2. /\ BedrockInv /\ Sound(log, content, Polite) /\ stop \in Reasons /\ log \in Seq(Events) /\ Len(log) \in Nat
  BY <1>1, BedrockFacts
<1>3. /\ (Polite' => Polite /\ ~Bedrock!Begun) /\ rude' \in BOOLEAN /\ mark \in {"none", "begun", "complete"}
      /\ Sound(log, content, Polite')
  BY <1>1, BedrockPolite
<1>4. Polite' \/ OwnStart => log = <<>>
  BY <1>1, <1>2, <1>3, BedrockBegun DEF OwnStart
<1>5. Begin \in Events
  BY DEF Begin, Event, Events, Labels
<1>6. log' = Append(log, Begin) /\ content' = content /\ slots' = slots
  BY <1>1, <1>2, <1>5, ConcatOne DEF Pushes
<1>7. /\ Sound(log', content, Polite') /\ Len(log') # 0
      /\ \A p : EndedIn(log', p) <=> EndedIn(log, p)
  BY <1>3, <1>4, <1>6, PushBeginSound
<1>8. BedrockInv'
  BY <1>1, <1>2, <1>3, <1>6, <1>7 DEF BedrockInv, Places, AllClosed
<1>9. log' # <<>>
  BY <1>7
<1> QED BY <1>1, <1>2, <1>3, <1>7, <1>8, <1>9, BedrockStep

\* A block that the server starts.
LEMMA BedrockBlockStart ==
  ASSUME AInv, adapter = "bedrock", phase = "decode", NEW i \in Indexes, NEW kind \in Kinds,
         Pushes(<<Start(Block(kind, 0), Len(content) + 1)>>, Append(content, Block(kind, 0)),
                [slots EXCEPT ![i] = Len(content) + 1], stop),
         NEW more, rude' = (rude \/ (Bedrock!Outside \/ more)), mark' = mark
  PROVE  AInv'
<1>1. /\ BedrockInv /\ stop \in Reasons /\ log \in Seq(Events) /\ Len(log) \in Nat
  BY BedrockFacts
<1>2. /\ (Polite' => Polite /\ ~(Bedrock!Outside \/ more)) /\ rude' \in BOOLEAN
           /\ mark \in {"none", "begun", "complete"}
      /\ Sound(log, content, Polite')
  BY BedrockPolite
<1>3. (Polite' => mark = "none" /\ Len(log) # 0) /\ ~OwnStart
  BY <1>2, BedrockBegun DEF Bedrock!Outside, OwnStart
<1>4. Block(kind, 0) \in Blocks
  BY DEF Block, Blocks
<1>5. /\ log' = log \o <<Start(Block(kind, 0), Len(content) + 1)>> /\ content' = Append(content, Block(kind, 0))
      /\ slots' = [slots EXCEPT ![i] = Len(content) + 1]
  BY DEF Pushes
<1>6. Sound(log', content', Polite') /\ log' # <<>> /\ Len(content') = Len(content) + 1
  BY <1>2, <1>3, <1>4, <1>5, StartStep
<1>7. BedrockInv'
  BY <1>3, <1>5, <1>6, BedrockNew
<1> QED BY <1>1, <1>2, <1>5, <1>6, <1>7, BedrockStep

\* contentBlockStart, of a tool call.
LEMMA BedrockContentBlockStart ==
  ASSUME AInv, adapter = "bedrock", Bedrock!ContentBlockStart
  PROVE  AInv'
<1>1. PICK i \in Indexes :
        /\ phase = "decode" /\ mark' = mark
        /\ Pushes(<<Start(Block("toolCall", 0), Len(content) + 1)>>, Append(content, Block("toolCall", 0)),
                  [slots EXCEPT ![i] = Len(content) + 1], stop)
        /\ rude' = (rude \/ Bedrock!Outside \/ slots[i] # 0)
  BY BedrockNames, BedrockOperators DEF Bedrock!ContentBlockStart, Bedrock!Reading, Bedrock!Keep, Bedrock!Emit, Pushes
<1>2. rude' = (rude \/ (Bedrock!Outside \/ slots[i] # 0))
  BY <1>1
<1>3. "toolCall" \in Kinds
  BY DEF Kinds
<1> QED BY <1>1, <1>2, <1>3, BedrockBlockStart

\* A signature or redacted thinking, which no event tells of.
LEMMA BedrockSignatureDelta ==
  ASSUME AInv, adapter = "bedrock", Bedrock!SignatureDelta
  PROVE  AInv'
<1>1. PICK i \in Indexes :
        /\ phase = "decode" /\ mark' = mark
        /\ Pushes(<<Start(Block("thinking", 0), Len(content) + 1)>>, Append(content, Block("thinking", 0)),
                  [slots EXCEPT ![i] = Len(content) + 1], stop)
        /\ rude' = (rude \/ Bedrock!Outside)
  BY BedrockNames, BedrockOperators DEF Bedrock!SignatureDelta, Bedrock!Reading, Bedrock!Keep, Bedrock!Emit, Pushes
<1>2. rude' = (rude \/ (Bedrock!Outside \/ FALSE))
  BY <1>1
<1>3. "thinking" \in Kinds
  BY DEF Kinds
<1> QED BY <1>1, <1>2, <1>3, BedrockBlockStart

\* contentBlockDelta, which starts a block that is not there, or crashes.
LEMMA BedrockContentBlockDelta ==
  ASSUME AInv, adapter = "bedrock", Bedrock!ContentBlockDelta
  PROVE  AInv'
<1>1. PICK i \in Indexes, kind \in Kinds :
        \/ /\ slots[i] = 0
           /\ Pushes(<<Start(Block(kind, 0), Len(content) + 1), Delta(Block(kind, 0), Len(content) + 1)>>,
                     Append(content, Block(kind, 1)), [slots EXCEPT ![i] = Len(content) + 1], stop)
           /\ rude' = (rude \/ Bedrock!Outside)
        \/ /\ slots[i] # 0
           /\ Pushes(<<Delta(content[slots[i]], slots[i])>>, Grown(content, slots[i]), slots, stop)
           /\ rude' = (rude \/ Bedrock!Ended(slots[i]))
        \/ /\ phase' = "crashed" /\ rude' = TRUE
           /\ UNCHANGED <<adapter, ctx, content, stop, slots, log>>
  <2>1. PICK i \in Indexes, kind \in Kinds :
          \/ /\ slots[i] = 0
             /\ Bedrock!Keep(<<Bedrock!Start(Bedrock!Block(kind, 0), Bedrock!New), Bedrock!Delta(Bedrock!Block(kind, 0), Bedrock!New)>>,
                     Append(content, Bedrock!Block(kind, 1)), [slots EXCEPT ![i] = Bedrock!New], stop)
             /\ rude' = (rude \/ Bedrock!Outside)
          \/ /\ slots[i] # 0
             /\ Bedrock!Keep(<<Bedrock!Delta(content[slots[i]], slots[i])>>, Bedrock!Grow(slots[i]), slots, stop)
             /\ rude' = (rude \/ Bedrock!Ended(slots[i]))
          \/ /\ phase' = "crashed" /\ rude' = TRUE
             /\ UNCHANGED <<adapter, ctx, content, stop, slots, log>>
    BY DEF Bedrock!ContentBlockDelta, Bedrock!DeltaKinds, Kinds
  <2>2. CASE slots[i] = 0 /\ Bedrock!Keep(<<Bedrock!Start(Bedrock!Block(kind, 0), Bedrock!New), Bedrock!Delta(Bedrock!Block(kind, 0), Bedrock!New)>>,
                     Append(content, Bedrock!Block(kind, 1)), [slots EXCEPT ![i] = Bedrock!New], stop)
    BY <2>1, <2>2, BedrockNames, BedrockOperators DEF Bedrock!Keep, Bedrock!Emit, Pushes
  <2>3. CASE slots[i] # 0 /\ Bedrock!Keep(<<Bedrock!Delta(content[slots[i]], slots[i])>>, Bedrock!Grow(slots[i]),
               slots, stop)
    BY <2>1, <2>3, BedrockNames, BedrockOperators DEF Bedrock!Keep, Bedrock!Emit, Pushes
  <2> QED BY <2>1, <2>2, <2>3
<1>2. phase = "decode" /\ mark' = mark
  BY DEF Bedrock!ContentBlockDelta, Bedrock!Reading
<1>3. /\ BedrockInv /\ Sound(log, content, Polite) /\ Scalars /\ stop \in Reasons /\ log \in Seq(Events)
           /\ Len(log) \in Nat
      /\ Len(content) \in Nat
  BY <1>2, BedrockFacts
<1>4. CASE /\ slots[i] = 0
           /\ Pushes(<<Start(Block(kind, 0), Len(content) + 1), Delta(Block(kind, 0), Len(content) + 1)>>,
                     Append(content, Block(kind, 1)), [slots EXCEPT ![i] = Len(content) + 1], stop)
           /\ rude' = (rude \/ Bedrock!Outside)
  <2> DEFINE n == Len(content) + 1
             E == <<Start(Block(kind, 0), n), Delta(Block(kind, 0), n)>>
             D == Append(content, Block(kind, 1))
  <2>1. /\ (Polite' => Polite /\ ~Bedrock!Outside) /\ rude' \in BOOLEAN /\ mark \in {"none", "begun", "complete"}
        /\ Sound(log, content, Polite')
    BY <1>2, <1>4, BedrockPolite
  <2>2. (Polite' => mark = "none" /\ Len(log) # 0) /\ ~OwnStart
    BY <1>2, <2>1, BedrockBegun DEF Bedrock!Outside, OwnStart
  <2>3. log' = log \o E /\ content' = D /\ slots' = [slots EXCEPT ![i] = n]
    BY <1>4 DEF Pushes
  <2>4. Sound(log \o E, D, Polite') /\ log \o E # <<>> /\ Len(D) = n
    BY <2>1, <2>2, StartDeltaStep
  <2> HIDE DEF E, D
  <2>5. BedrockInv'
    BY <1>2, <2>2, <2>3, <2>4, BedrockNew
  <2>6. Pushes(E, D, [slots EXCEPT ![i] = n], stop)
    BY <1>4 DEF E, D
  <2> QED BY <1>2, <1>3, <2>1, <2>3, <2>4, <2>5, <2>6, BedrockStep
<1>5. CASE /\ slots[i] # 0
           /\ Pushes(<<Delta(content[slots[i]], slots[i])>>, Grown(content, slots[i]), slots, stop)
           /\ rude' = (rude \/ Bedrock!Ended(slots[i]))
  <2>1. /\ (Polite' => Polite /\ ~Bedrock!Ended(slots[i])) /\ rude' \in BOOLEAN
             /\ mark \in {"none", "begun", "complete"}
        /\ Sound(log, content, Polite') /\ slots[i] \in 1..Len(content)
    BY <1>2, <1>5, BedrockPolite
  <2>2. Polite' => ~EndedIn(log, slots[i])
    BY <1>3, <2>1, BedrockEnded
  <2>3. log' = log \o <<Delta(content[slots[i]], slots[i])>> /\ content' = Grown(content, slots[i]) /\ slots' = slots
    BY <1>5 DEF Pushes
  <2>4. /\ Sound(log', content', Polite') /\ log' # <<>> /\ SameEnds(log', log) /\ Same(content', content)
    BY <2>1, <2>2, <2>3, DeltaStep
  <2>5. BedrockInv'
    BY <1>2, <1>3, <2>1, <2>3, <2>4 DEF BedrockInv, Places, AllClosed, Same, SameEnds
  <2> QED BY <1>2, <1>3, <1>5, <2>1, <2>3, <2>4, <2>5, BedrockStep
<1>6. CASE phase' = "crashed" /\ rude' = TRUE /\ UNCHANGED <<adapter, ctx, content, stop, slots, log>>
  <2>1. Sound(log, content, FALSE)
    BY <1>3, Weaken
  <2>2. Sound(log, content, FALSE)'
    BY <1>6, <2>1 DEF Sound, OwnStart
  <2> QED BY <1>2, <1>3, <1>6, <2>2 DEF AInv, Scalars, Early
<1> QED BY <1>1, <1>4, <1>5, <1>6

\* contentBlockStop.
LEMMA BedrockContentBlockStop ==
  ASSUME AInv, adapter = "bedrock", Bedrock!ContentBlockStop
  PROVE  AInv'
<1>1. PICK p :
        /\ phase = "decode" /\ mark' = mark /\ p \in 1..Len(content)
        /\ Pushes(<<End(content[p], p)>>, content, slots, stop)
        /\ rude' = (rude \/ Bedrock!Ended(p))
  <2>1. phase = "decode" /\ mark' = mark
    BY DEF Bedrock!ContentBlockStop, Bedrock!Reading
  <2>2. PICK i \in Indexes : /\ slots[i] # 0
                             /\ Bedrock!Keep(<<Bedrock!End(content[slots[i]], slots[i])>>, content, slots, stop)
                             /\ rude' = (rude \/ Bedrock!Ended(slots[i]))
    BY DEF Bedrock!ContentBlockStop
  <2>3. slots[i] \in 1..Len(content)
    BY <2>1, <2>2, BedrockPolite
  <2> QED BY <2>1, <2>2, <2>3, BedrockNames DEF Bedrock!Keep, Bedrock!Emit, Pushes
<1>2. /\ BedrockInv /\ stop \in Reasons /\ log \in Seq(Events)
  BY <1>1, BedrockFacts
<1>3. /\ (Polite' => Polite /\ ~Bedrock!Ended(p)) /\ rude' \in BOOLEAN /\ mark \in {"none", "begun", "complete"}
      /\ Sound(log, content, Polite')
  BY <1>1, BedrockPolite
<1>4. Polite' => ~EndedIn(log, p)
  BY <1>2, <1>3, BedrockEnded
<1>5. log' = log \o <<End(content[p], p)>> /\ content' = content /\ slots' = slots
  BY <1>1 DEF Pushes
<1>6. /\ Sound(log', content, Polite') /\ log' # <<>>
      /\ \A q : EndedIn(log', q) <=> EndedIn(log, q) \/ q = p
  BY <1>1, <1>3, <1>4, <1>5, EndAsIs
<1>7. BedrockInv'
  BY <1>1, <1>2, <1>3, <1>5, <1>6 DEF BedrockInv, Places, AllClosed
<1> QED BY <1>1, <1>2, <1>3, <1>6, <1>7, BedrockStep

\* messageStop, politely sent when every block has ended.
LEMMA BedrockMessageStop ==
  ASSUME AInv, adapter = "bedrock", Bedrock!MessageStop
  PROVE  AInv'
<1>1. PICK r \in DOMAIN Bedrock!StopReasonOf : Pushes(<<>>, content, slots, Bedrock!StopReasonOf[r])
  BY DEF Bedrock!MessageStop, Bedrock!Keep, Bedrock!Emit, Pushes
<1>2. /\ phase = "decode" /\ mark' = "complete" /\ rude' = (rude \/ (~Bedrock!AllEnded \/ ~Bedrock!Begun))
      /\ Bedrock!StopReasonOf[r] \in Reasons
  BY DEF Bedrock!MessageStop, Bedrock!Reading, Bedrock!StopReasonOf, Reasons
<1>3. /\ BedrockInv /\ log \in Seq(Events) /\ DOMAIN content = 1..Len(content)
  BY <1>2, BedrockFacts
<1>4. /\ (Polite' => Polite /\ ~(~Bedrock!AllEnded \/ ~Bedrock!Begun)) /\ rude' \in BOOLEAN
      /\ Sound(log, content, Polite')
  BY <1>2, BedrockPolite
<1>5. Polite' => AllClosed
  BY <1>3, <1>4, BedrockEnded DEF Bedrock!AllEnded, AllClosed
<1>6. log' = log /\ content' = content /\ slots' = slots
  BY <1>1, <1>3, ConcatOne DEF Pushes
<1>7. BedrockInv'
  BY <1>3, <1>5, <1>6 DEF BedrockInv, Places, AllClosed
<1> QED BY <1>1, <1>2, <1>4, <1>6, <1>7, BedrockStep

\* The stream is over.
LEMMA BedrockEndOfStream ==
  ASSUME AInv, adapter = "bedrock", Bedrock!EndOfStream
  PROVE  AInv'
<1>1. phase = "decode" /\ content' = content /\ Bedrock!ConcludeAfter(<<>>, stop)
  BY DEF Bedrock!EndOfStream
<1>2. BedrockInv /\ stop \in Reasons
  BY <1>1, BedrockFacts
<1>3. Fails(<<>>) \/ Closes(<<>>, "done", stop)
  BY <1>1, <1>2, BedrockConclude
<1>4. Whole(log, stop)
  BY <1>2 DEF Whole, BedrockInv, AllClosed
<1> QED BY <1>1, <1>3, <1>4, ConcludeStep

\* No step of BedrockStream breaks the invariant.
LEMMA BedrockRun ==
  ASSUME AInv, adapter = "bedrock", Bedrock!Run
  PROVE  AInv'
<1>1. CASE Bedrock!SetUp \/ Bedrock!Request
  BY <1>1, BedrockSetUp
<1> QED BY <1>1, BedrockMessageStart, BedrockContentBlockStart, BedrockContentBlockDelta, BedrockSignatureDelta,
           BedrockContentBlockStop, BedrockMessageStop, BedrockEndOfStream DEF Bedrock!Run, Bedrock!Frames

-----------------------------------------------------------------------------
(* All tool calls in order                                                 *)

\* An increasing enumeration has every position, and has it once.
LEMMA InOrderFacts ==
  ASSUME NEW n \in Nat, NEW S \in SUBSET (1..n), NEW calls \in InOrder(S)
  PROVE  /\ calls \in Seq(1..n)
         /\ \A k, l \in 1..Len(calls) : calls[k] = calls[l] => k = l
         /\ \A k \in 1..Len(calls) : calls[k] \in S
         /\ \A p \in S : \E k \in 1..Len(calls) : calls[k] = p
<1>1. IsFiniteSet(S)
  <2>1. 1 \in Int /\ n \in Int
    OBVIOUS
  <2>2. IsFiniteSet(1..n)
    BY <2>1, FS_Interval
  <2> QED BY <2>2, FS_Subset
<1>2. PICK m \in Nat : m = Cardinality(S)
  BY <1>1, FS_CardinalityType
<1>3. calls \in [1..m -> S] /\ \A i, j \in 1..m : i < j => calls[i] < calls[j]
  <2>1. calls \in [1..m -> S] /\ \A i, j \in DOMAIN calls : i < j => calls[i] < calls[j]
    BY <1>2 DEF InOrder
  <2> QED BY <2>1
<1>4. calls \in Seq(1..n) /\ Len(calls) = m
  <2>1. calls \in [1..m -> 1..n]
    BY <1>3
  <2> QED BY <2>1
<1>5. \A i \in 1..m : calls[i] \in S /\ calls[i] \in Nat
  <2>1. \A i \in 1..m : calls[i] \in S
    BY <1>3
  <2>2. \A x \in S : x \in Nat
    OBVIOUS
  <2> QED BY <2>1, <2>2
<1>6. ASSUME NEW k \in 1..m, NEW l \in 1..m, calls[k] = calls[l] PROVE k = l
  <2>1. calls[k] \in Nat /\ ~(calls[k] < calls[k])
    BY <1>5
  <2>2. ~(k < l) /\ ~(l < k)
    BY <1>3, <1>6, <2>1
  <2> QED BY <2>2
<1>7. calls \in Injection(1..m, S)
  BY <1>3, <1>6 DEF Injection, IsInjective
<1>8. Cardinality(1..m) = m
  <2>1. 1 \in Int /\ m \in Int
    OBVIOUS
  <2>2. Cardinality(1..m) = IF 1 > m THEN 0 ELSE m - 1 + 1
    BY <2>1, FS_Interval
  <2> QED BY <2>2
<1>9. calls \in Surjection(1..m, S)
  BY <1>1, <1>2, <1>7, <1>8, FS_Injection
<1> QED BY <1>4, <1>5, <1>6, <1>9 DEF Surjection

\* The positions of the tool calls are finitely many.
LEMMA ToolCallsFacts ==
  ASSUME content \in Seq(Blocks), NEW calls \in InOrder(ToolCalls)
  PROVE  /\ calls \in Seq(1..Len(content))
         /\ \A k, l \in 1..Len(calls) : calls[k] = calls[l] => k = l
         /\ \A k \in 1..Len(calls) : calls[k] \in 1..Len(content) /\ content[calls[k]].kind = "toolCall"
         /\ \A p \in 1..Len(content) : content[p].kind = "toolCall" => \E k \in 1..Len(calls) : calls[k] = p
<1>1. Len(content) \in Nat /\ DOMAIN content = 1..Len(content)
  OBVIOUS
<1>2. ToolCalls \in SUBSET (1..Len(content))
        /\ \A p \in 1..Len(content) : p \in ToolCalls <=> content[p].kind = "toolCall"
  BY <1>1 DEF ToolCalls
<1>3. /\ calls \in Seq(1..Len(content))
      /\ \A k, l \in 1..Len(calls) : calls[k] = calls[l] => k = l
      /\ \A k \in 1..Len(calls) : calls[k] \in ToolCalls
      /\ \A p \in ToolCalls : \E k \in 1..Len(calls) : calls[k] = p
  BY <1>1, <1>2, InOrderFacts
<1> QED BY <1>2, <1>3

\* The tool calls end last, behind what is closed before.
LEMMA CallsStep ==
  ASSUME NEW L, NEW s, Sound(L, content, s), NEW calls \in InOrder(ToolCalls),
         s => \A p \in 1..Len(content) : content[p].kind = "toolCall" => ~EndedIn(L, p)
  PROVE  /\ Sound(L \o Batch(content, calls), content, s) /\ Batch(content, calls) \in Seq(Events)
         /\ \A p \in 1..Len(content) :
               EndedIn(L \o Batch(content, calls), p) <=> EndedIn(L, p) \/ content[p].kind = "toolCall"
<1>1. L \in Seq(Events) /\ content \in Seq(Blocks) /\ Len(content) \in Nat
        /\ \A p \in 1..Len(content) : content[p] \in Blocks
  BY SoundTypes
<1>2. /\ calls \in Seq(1..Len(content))
      /\ \A k, l \in 1..Len(calls) : calls[k] = calls[l] => k = l
      /\ \A k \in 1..Len(calls) : calls[k] \in 1..Len(content) /\ content[calls[k]].kind = "toolCall"
      /\ \A p \in 1..Len(content) : content[p].kind = "toolCall" => \E k \in 1..Len(calls) : calls[k] = p
  BY <1>1, ToolCallsFacts
<1>3. s => \A k \in 1..Len(calls) : ~EndedIn(L, calls[k])
  BY <1>2
<1>4. /\ Sound(L \o Batch(content, calls), content, s)
      /\ \A p : EndedIn(L \o Batch(content, calls), p) <=> EndedIn(L, p) \/ \E k \in 1..Len(calls) : calls[k] = p
  BY <1>2, <1>3, BatchSound
<1>5. \A k \in 1..Len(calls) : End(content[calls[k]], calls[k]) \in Events
  <2>1. ASSUME NEW k \in 1..Len(calls) PROVE End(content[calls[k]], calls[k]) \in Events
    <3>1. content[calls[k]] \in Blocks /\ calls[k] \in Nat
      BY <1>1, <1>2
    <3> QED BY <3>1, EventTypes
  <2> QED BY <2>1
<1>6. Batch(content, calls) \in Seq(Events)
  <2>1. Len(calls) \in Nat
    BY <1>2
  <2> QED BY <1>5, <2>1 DEF Batch
<1> QED BY <1>2, <1>4, <1>6

-----------------------------------------------------------------------------
(* The decoder of Mistral                                                  *)

\* A step of MistralStream's decoder that reads on needs its own part of the invariant.
LEMMA MistralStep ==
  ASSUME AInv, adapter = "mistral", phase = "decode", NEW E, NEW D, NEW T, NEW reason \in Reasons,
         Pushes(E, D, T, reason), mark' \in {"none", "begun", "complete"}, rude' \in BOOLEAN,
         Sound(log', D, Polite'), log' = <<>> => log = <<>>, MistralInv'
  PROVE  AInv'
<1>1. TableInv'
  BY DEF Pushes, TableInv
<1> QED BY <1>1, KeepReading

\* ConcludeAfter of MistralStream fails, or pushes a done event if the context is not done.
LEMMA MistralConclude ==
  ASSUME NEW E, NEW reason \in Reasons, Mistral!ConcludeAfter(E, reason), content' = content
  PROVE  Fails(E) \/ (~ctx /\ reason # "error" /\ Closes(E, "done", reason))
<1>1. CASE ctx \/ reason = "error"
  <2> DEFINE why == IF ctx THEN "aborted" ELSE "error"
  <2>1. why \in Labels
    BY DEF Labels, Reasons
  <2>2. log' = log \o Append(E, Terminal("error", why))
    BY <1>1, MistralNames DEF Mistral!ConcludeAfter, Mistral!FailAfter, Mistral!Emit
  <2> HIDE DEF why
  <2> QED BY <1>1, <2>1, <2>2 DEF Mistral!ConcludeAfter, Mistral!FailAfter, Mistral!Emit, Fails, Closes, Untouched
<1>2. CASE ~(ctx \/ reason = "error")
  BY <1>2, MistralNames DEF Mistral!ConcludeAfter, Mistral!FailAfter, Mistral!Emit, Closes, Untouched
<1> QED BY <1>1, <1>2

\* The operators of MistralStream as values.
LEMMA MistralOperators ==
  /\ Mistral!Close = Closing(content, slots.current) /\ Mistral!New = Len(content) + 1
  /\ Mistral!Current = slots.current
  /\ \A p : Mistral!Grow(p) = Grown(content, p)
  /\ \A S : Mistral!InOrder(S) = InOrder(S)
  /\ Mistral!ToolCalls = ToolCalls
  /\ \A calls : Mistral!Ends(calls) = Closing(content, slots.current) \o Batch(content, calls)
<1>1. ASSUME NEW S PROVE Mistral!InOrder(S) = InOrder(S)
  <2>1. Mistral!Cardinality(S) = Cardinality(S)
    BY DEF Mistral!Cardinality, Cardinality
  <2> QED BY <2>1 DEF Mistral!InOrder, InOrder
<1>2. Mistral!Close = Closing(content, slots.current)
  BY MistralNames DEF Mistral!Close, Closing, Mistral!Current
<1>3. \A calls : Mistral!Ends(calls) = Closing(content, slots.current) \o Batch(content, calls)
  BY <1>2, MistralNames DEF Mistral!Ends, Batch
<1> QED BY <1>1, <1>2, <1>3 DEF Mistral!New, Mistral!Current, Mistral!Grow, Grown, Mistral!ToolCalls, ToolCalls

\* What every step starts from.
LEMMA MistralAfterFinish ==
  ASSUME AInv, adapter = "mistral", phase = "decode", Mistral!AfterFinish
  PROVE  /\ rude' \in BOOLEAN /\ mark \in {"none", "begun", "complete"} /\ Sound(log, content, Polite')
         /\ slots.current \in 0..Len(content) /\ (slots.current # 0 => slots.current \in 1..Len(content)
              /\ ~EndedIn(log, slots.current))
         /\ slots.current \in Nat /\ KindAt(slots.current, Texts)
<1>1. MistralInv /\ Sound(log, content, Polite) /\ Scalars /\ Len(content) \in Nat
  BY MistralFacts
<1>2. (Polite' => Polite) /\ rude' \in BOOLEAN /\ mark \in {"none", "begun", "complete"}
  BY <1>1 DEF Mistral!AfterFinish, Polite, Scalars
<1>3. Sound(log, content, Polite')
  BY <1>1, <1>2, Weaken
<1>4. slots.current \in 0..Len(content) /\ slots.current \in Nat /\ KindAt(slots.current, Texts)
  BY <1>1 DEF MistralInv, Places
<1>5. slots.current # 0 => slots.current \in 1..Len(content)
  BY <1>1, <1>4
<1> QED BY <1>1, <1>2, <1>3, <1>4, <1>5 DEF MistralInv

\* The table of calls as the content grows.
LEMMA MistralTable ==
  ASSUME AInv, adapter = "mistral", phase = "decode", NEW c \in Nat, NEW n \in Nat, Len(content) <= n,
         slots' = [slots EXCEPT !.current = c], Len(content') = n, c \in 0..n,
         \A p \in 1..Len(content) : content'[p].kind = content[p].kind,
         c # 0 => content'[c].kind \in Texts
  PROVE  /\ slots' \in [current : Nat, byKey : [Mistral!CallKeys -> Nat]] /\ slots'.current \in 0..Len(content')
              /\ (slots'.current # 0 => content'[slots'.current].kind \in Texts)
         /\ \A k \in Mistral!CallKeys : slots'.byKey[k] \in 0..Len(content') /\ (slots'.byKey[k] # 0
              => content'[slots'.byKey[k]].kind \in {"toolCall"})
<1>1. MistralInv /\ Len(content) \in Nat
  BY MistralFacts
<1>2. slots' \in [current : Nat, byKey : [Mistral!CallKeys -> Nat]] /\ slots'.current = c /\ slots'.byKey = slots.byKey
  BY <1>1 DEF MistralInv
<1>3. ASSUME NEW k \in Mistral!CallKeys
      PROVE  slots.byKey[k] \in 0..Len(content') /\ (slots.byKey[k] # 0
               => content'[slots.byKey[k]].kind \in {"toolCall"})
  <2>1. slots.byKey[k] \in 0..Len(content) /\ (slots.byKey[k] # 0 => content[slots.byKey[k]].kind \in {"toolCall"})
    BY <1>1 DEF MistralInv, Places, KindAt
  <2>2. slots.byKey[k] \in 0..n /\ (slots.byKey[k] # 0 => slots.byKey[k] \in 1..Len(content))
    BY <1>1, <2>1
  <2> QED BY <2>1, <2>2 DEF Places
<1> QED BY <1>2, <1>3 DEF Places, KindAt

\* A text or thinking item, which may end the block before it.
LEMMA MistralContentItem ==
  ASSUME AInv, adapter = "mistral", Mistral!ContentItem
  PROVE  AInv'
<1>1. phase = "decode" /\ mark' = mark /\ Mistral!AfterFinish
  BY DEF Mistral!ContentItem, Mistral!Reading
<1>2. /\ MistralInv /\ Scalars /\ stop \in Reasons /\ log \in Seq(Events) /\ log # <<>>
      /\ content \in Seq(Blocks) /\ Len(content) \in Nat
  BY <1>1, MistralFacts
<1>3. /\ rude' \in BOOLEAN /\ mark \in {"none", "begun", "complete"} /\ Sound(log, content, Polite')
      /\ slots.current \in 0..Len(content) /\ (slots.current # 0 => slots.current \in 1..Len(content)
           /\ ~EndedIn(log, slots.current))
      /\ slots.current \in Nat /\ KindAt(slots.current, Texts)
  BY <1>1, MistralAfterFinish
<1>4. PICK kind \in Texts :
        IF slots.current # 0 /\ content[slots.current].kind = kind
        THEN Pushes(<<Delta(content[slots.current], slots.current)>>, Grown(content, slots.current), slots, stop)
        ELSE Pushes(Closing(content, slots.current) \o <<Start(Block(kind, 0), Len(content) + 1), Delta(Block(kind, 0), Len(content) + 1)>>,
                    Append(content, Block(kind, 1)), [slots EXCEPT !.current = Len(content) + 1], stop)
  BY MistralNames, MistralOperators DEF Mistral!ContentItem, Mistral!Keep, Mistral!Emit, Pushes, Texts
<1>5. CASE slots.current # 0 /\ content[slots.current].kind = kind
  <2>1. Pushes(<<Delta(content[slots.current], slots.current)>>, Grown(content, slots.current), slots, stop)
    BY <1>4, <1>5
  <2>2. log' = log \o <<Delta(content[slots.current], slots.current)>> /\ content' = Grown(content, slots.current)
          /\ slots' = slots
    BY <2>1 DEF Pushes
  <2>3. /\ Sound(log', content', Polite') /\ log' # <<>> /\ SameEnds(log', log) /\ Same(content', content)
    BY <1>3, <1>5, <2>2, DeltaStep
  <2>4. MistralInv'
    <3>1. slots' = [slots EXCEPT !.current = slots.current]
      BY <1>2, <2>2 DEF MistralInv
    <3>2. slots.current # 0 => content'[slots.current].kind \in Texts
      BY <1>3, <1>5, <2>2, <2>3 DEF Same, KindAt
    <3> DEFINE c == slots.current
    <3>3. c \in Nat /\ Len(content') = Len(content) /\ c \in 0..Len(content) /\ (slots'.current # 0
            => content'[slots'.current].kind \in Texts)
      BY <1>3, <2>2, <2>3, <3>2 DEF Same
    <3>4. /\ slots' \in [current : Nat, byKey : [Mistral!CallKeys -> Nat]] /\ slots'.current \in 0..Len(content')
          /\ \A k \in Mistral!CallKeys : slots'.byKey[k] \in 0..Len(content')
      BY <1>2, <2>2, <3>3 DEF MistralInv, Places
    <3>5. ASSUME NEW k \in Mistral!CallKeys PROVE (slots'.byKey[k] # 0
                   => content'[slots'.byKey[k]].kind \in {"toolCall"})
      <4>1. slots.byKey[k] \in 0..Len(content) /\ (slots.byKey[k] # 0 => content[slots.byKey[k]].kind \in {"toolCall"})
        BY <1>2 DEF MistralInv, Places, KindAt
      <4>2. slots.byKey[k] # 0 => slots.byKey[k] \in 1..Len(content)
        BY <1>2, <4>1
      <4> QED BY <2>2, <2>3, <4>1, <4>2 DEF Same, KindAt
    <3>6. \A p \in 1..Len(content') : EndedIn(log', p) <=> p # slots'.current /\ content'[p].kind # "toolCall"
      BY <1>2, <2>2, <2>3 DEF MistralInv, Same, SameEnds
    <3> QED BY <3>3, <3>4, <3>5, <3>6 DEF MistralInv, Places, KindAt
  <2> QED BY <1>1, <1>2, <1>3, <2>1, <2>2, <2>3, <2>4, MistralStep
<1>6. CASE ~(slots.current # 0 /\ content[slots.current].kind = kind)
  <2> DEFINE n == Len(content) + 1
             E == Closing(content, slots.current) \o <<Start(Block(kind, 0), n), Delta(Block(kind, 0), n)>>
             D == Append(content, Block(kind, 1))
  <2>1. Pushes(E, D, [slots EXCEPT !.current = n], stop)
    BY <1>4, <1>6
  <2>2. /\ Sound(log \o E, D, Polite') /\ log \o E # <<>> /\ n # 0 /\ n \in 1..n /\ n \in Nat
        /\ \A q \in 1..Len(content) : EndedIn(log \o E, q) <=> EndedIn(log, q) \/ (q = slots.current
             /\ slots.current # 0)
        /\ ~EndedIn(log \o E, n) /\ Len(D) = n /\ D[n].kind = kind /\ \A q \in 1..Len(content) : D[q] = content[q]
             /\ q \in 1..n
        /\ \A q \in 1..n : q \in 1..Len(content) \/ q = n
    <3>1. kind \in Kinds
      BY DEF Texts, Kinds
    <3> QED BY <1>2, <1>3, <3>1, CloseStartStep
  <2>3. Len(content) <= n /\ n \in 0..n /\ \A q \in 1..Len(content) : q # n /\ q # 0
    BY <1>2
  <2> HIDE DEF n, E, D
  <2>4. log' = log \o E /\ content' = D /\ slots' = [slots EXCEPT !.current = n]
    BY <2>1 DEF Pushes
  <2>5. n # 0 => content'[n].kind \in Texts
    BY <2>2, <2>4 DEF KindAt
  <2>6. /\ slots' \in [current : Nat, byKey : [Mistral!CallKeys -> Nat]] /\ slots'.current \in 0..Len(content')
             /\ (slots'.current # 0 => content'[slots'.current].kind \in Texts)
        /\ \A k \in Mistral!CallKeys : slots'.byKey[k] \in 0..Len(content') /\ (slots'.byKey[k] # 0
             => content'[slots'.byKey[k]].kind \in {"toolCall"})
    BY <1>1, <2>2, <2>3, <2>4, <2>5, MistralTable
  <2>7. slots'.current = n
    BY <1>2, <2>4 DEF MistralInv
  <2>8. ASSUME NEW p \in 1..n
        PROVE  EndedIn(log \o E, p) <=> p # n /\ D[p].kind # "toolCall"
    <3>1. CASE p = n
      BY <2>2, <3>1
    <3>2. CASE p \in 1..Len(content)
      <4>1. EndedIn(log, p) <=> p # slots.current /\ content[p].kind # "toolCall"
        BY <1>2, <3>2 DEF MistralInv
      <4>2. p = slots.current => content[p].kind # "toolCall"
        BY <1>3, <2>3, <3>2 DEF KindAt, Texts
      <4> QED BY <2>2, <2>3, <3>2, <4>1, <4>2
    <3> QED BY <2>2, <3>1, <3>2
  <2>9. MistralInv'
    BY <2>2, <2>4, <2>6, <2>7, <2>8 DEF MistralInv, Places, KindAt
  <2> QED BY <1>1, <1>2, <1>3, <2>1, <2>2, <2>4, <2>9, MistralStep
<1> QED BY <1>5, <1>6

\* A delta of a tool call, which may start it.
LEMMA MistralToolCallDelta ==
  ASSUME AInv, adapter = "mistral", Mistral!ToolCallDelta
  PROVE  AInv'
<1> DEFINE n == Len(content) + 1
<1>1. phase = "decode" /\ mark' = mark /\ Mistral!AfterFinish
  BY DEF Mistral!ToolCallDelta, Mistral!Reading
<1>2. /\ MistralInv /\ Scalars /\ stop \in Reasons /\ log \in Seq(Events) /\ log # <<>>
      /\ content \in Seq(Blocks) /\ Len(content) \in Nat
  BY <1>1, MistralFacts
<1>3. /\ rude' \in BOOLEAN /\ mark \in {"none", "begun", "complete"} /\ Sound(log, content, Polite')
      /\ slots.current \in 0..Len(content) /\ (slots.current # 0 => slots.current \in 1..Len(content)
           /\ ~EndedIn(log, slots.current))
      /\ slots.current \in Nat /\ KindAt(slots.current, Texts)
  BY <1>1, MistralAfterFinish
<1>0. PICK k \in Mistral!CallKeys : \E at :
        /\ at = slots.byKey[k]
        /\ IF at = 0
           THEN Pushes(Closing(content, slots.current) \o <<Start(Block("toolCall", 0), n), Delta(Block("toolCall", 0), n)>>,
                       Append(content, Block("toolCall", 1)), [slots EXCEPT !.current = 0, !.byKey[k] = n], stop)
           ELSE Pushes(Closing(content, slots.current) \o <<Delta(content[at], at)>>, Grown(content, at),
                       [slots EXCEPT !.current = 0, !.byKey[k] = at], stop)
  BY MistralNames, MistralOperators DEF Mistral!ToolCallDelta, Mistral!Keep, Mistral!Emit, Pushes
<1>4. PICK at :
        /\ at = slots.byKey[k]
        /\ IF at = 0
           THEN Pushes(Closing(content, slots.current) \o <<Start(Block("toolCall", 0), n), Delta(Block("toolCall", 0), n)>>,
                       Append(content, Block("toolCall", 1)), [slots EXCEPT !.current = 0, !.byKey[k] = n], stop)
           ELSE Pushes(Closing(content, slots.current) \o <<Delta(content[at], at)>>, Grown(content, at),
                       [slots EXCEPT !.current = 0, !.byKey[k] = at], stop)
  BY <1>0
<1>5. \A j \in Mistral!CallKeys : /\ slots.byKey[j] \in Nat /\ slots.byKey[j] \in 0..Len(content)
                                  /\ (slots.byKey[j] # 0 => slots.byKey[j] \in 1..Len(content)
                                       /\ content[slots.byKey[j]].kind = "toolCall")
  <2>1. \A j \in Mistral!CallKeys : slots.byKey[j] \in 0..Len(content) /\ (slots.byKey[j] # 0
          => content[slots.byKey[j]].kind \in {"toolCall"})
    BY <1>2 DEF MistralInv, Places, KindAt
  <2> QED BY <1>2, <2>1
\* The table of either case.
<1>6. ASSUME NEW c \in Nat, slots' = [slots EXCEPT !.current = 0, !.byKey[k] = c], c # 0, c \in 1..Len(content'),
             content'[c].kind = "toolCall",
             \A p \in 1..Len(content) : p \in 1..Len(content') /\ content'[p].kind = content[p].kind,
             \A p \in 1..Len(content') : EndedIn(log', p) <=> p # 0 /\ content'[p].kind # "toolCall",
               Len(content') \in Nat
      PROVE  MistralInv'
  <2>1. slots' \in [current : Nat, byKey : [Mistral!CallKeys -> Nat]] /\ slots'.current = 0
        /\ \A j \in Mistral!CallKeys : slots'.byKey[j] = IF j = k THEN c ELSE slots.byKey[j]
    BY <1>2, <1>6 DEF MistralInv
  <2>2. \A j \in Mistral!CallKeys : slots'.byKey[j] \in Nat
    BY <2>1
  <2>3. ASSUME NEW j \in Mistral!CallKeys PROVE slots'.byKey[j] # 0 => slots'.byKey[j] \in 1..Len(content')
                 /\ content'[slots'.byKey[j]].kind = "toolCall"
    BY <1>5, <1>6, <2>1
  <2>4. \A j \in Mistral!CallKeys : slots'.byKey[j] \in 0..Len(content') /\ (slots'.byKey[j] # 0
          => content'[slots'.byKey[j]].kind \in {"toolCall"})
    BY <1>6, <2>2, <2>3 DEF Places, KindAt
  <2>5. slots'.current \in 0..Len(content') /\ (slots'.current # 0 => content'[slots'.current].kind \in Texts)
    BY <1>6, <2>1 DEF Places, KindAt
  <2> QED BY <1>6, <2>1, <2>4, <2>5 DEF MistralInv, Places, KindAt
<1>7. \A p \in 1..Len(content) : /\ EndedIn(log, p) <=> p # slots.current /\ content[p].kind # "toolCall"
                                 /\ p = slots.current => content[p].kind # "toolCall"
                                 /\ p # 0
  BY <1>2, <1>3 DEF MistralInv, KindAt, Texts
<1>8. CASE at = 0
  <2> DEFINE E == Closing(content, slots.current) \o <<Start(Block("toolCall", 0), n), Delta(Block("toolCall", 0), n)>>
             D == Append(content, Block("toolCall", 1))
             T == [slots EXCEPT !.current = 0, !.byKey[k] = n]
  <2>1. Pushes(E, D, T, stop)
    BY <1>4, <1>8
  <2>2. /\ Sound(log \o E, D, Polite') /\ log \o E # <<>> /\ n # 0 /\ n \in 1..n /\ n \in Nat
        /\ \A q \in 1..Len(content) : EndedIn(log \o E, q) <=> EndedIn(log, q) \/ (q = slots.current
             /\ slots.current # 0)
        /\ ~EndedIn(log \o E, n) /\ Len(D) = n /\ D[n].kind = "toolCall"
             /\ \A q \in 1..Len(content) : D[q] = content[q] /\ q \in 1..n
        /\ \A q \in 1..n : q \in 1..Len(content) \/ q = n
    BY <1>2, <1>3, CloseStartStep DEF Kinds
  <2> HIDE DEF n, E, D
  <2>3. log' = log \o E /\ content' = D /\ slots' = T
    BY <2>1 DEF Pushes
  <2>4. ASSUME NEW p \in 1..n PROVE EndedIn(log \o E, p) <=> p # 0 /\ D[p].kind # "toolCall"
    <3>1. CASE p = n
      BY <2>2, <3>1
    <3>2. CASE p \in 1..Len(content)
      BY <1>7, <2>2, <3>2
    <3> QED BY <2>2, <3>1, <3>2
  <2>5. MistralInv'
    BY <1>6, <2>2, <2>3, <2>4
  <2> QED BY <1>1, <1>2, <1>3, <2>1, <2>2, <2>3, <2>5, MistralStep
<1>9. CASE at # 0
  <2> DEFINE K == Closing(content, slots.current)
             N == log \o K
             E == K \o <<Delta(content[at], at)>>
             T == [slots EXCEPT !.current = 0, !.byKey[k] = at]
  <2>1. Pushes(E, Grown(content, at), T, stop)
    BY <1>4, <1>9
  <2>2. at \in Nat /\ at \in 1..Len(content) /\ content[at].kind = "toolCall"
    BY <1>4, <1>5, <1>9
  <2>3. /\ Sound(N, content, Polite') /\ K \in Seq(Events)
        /\ \A q : EndedIn(N, q) <=> EndedIn(log, q) \/ (q = slots.current /\ slots.current # 0)
    BY <1>3, CloseStep
  <2>4. Delta(content[at], at) \in Events
    BY <1>2, <2>2, EventTypes
  <2>5. log \o E = N \o <<Delta(content[at], at)>>
    <3>1. <<Delta(content[at], at)>> \in Seq(Events)
      BY <2>4
    <3> HIDE DEF K
    <3> QED BY <1>2, <2>3, <3>1
  <2> HIDE DEF E, N, K
  <2>6. ~EndedIn(N, at)
    BY <1>7, <2>2, <2>3
  <2>7. /\ Sound(log \o E, Grown(content, at), Polite') /\ log \o E # <<>>
        /\ SameEnds(log \o E, N) /\ Same(Grown(content, at), content)
    BY <2>2, <2>3, <2>5, <2>6, DeltaStep
  <2>8. log' = log \o E /\ content' = Grown(content, at) /\ slots' = T
    BY <2>1 DEF Pushes
  <2>9. \A p \in 1..Len(content) : EndedIn(log', p) <=> p # 0 /\ content'[p].kind # "toolCall"
    BY <1>7, <2>3, <2>7, <2>8 DEF Same, SameEnds
  <2>10. MistralInv'
    <3>1. /\ Len(content') = Len(content) /\ content'[at].kind = "toolCall"
          /\ \A p \in 1..Len(content) : p \in 1..Len(content') /\ content'[p].kind = content[p].kind
      BY <2>2, <2>7, <2>8 DEF Same
    <3> QED BY <1>2, <1>6, <1>9, <2>2, <2>8, <2>9, <3>1
  <2> QED BY <1>1, <1>2, <1>3, <2>1, <2>7, <2>8, <2>10, MistralStep
<1> QED BY <1>8, <1>9

\* The finish reason.
LEMMA MistralFinishReason ==
  ASSUME AInv, adapter = "mistral", Mistral!FinishReason
  PROVE  AInv'
<1>1. phase = "decode" /\ mark' = "complete" /\ Mistral!AfterFinish
  BY DEF Mistral!FinishReason, Mistral!Reading
<1>2. MistralInv /\ log \in Seq(Events)
  BY <1>1, MistralFacts
<1>3. rude' \in BOOLEAN /\ Sound(log, content, Polite')
  BY <1>1, MistralAfterFinish
<1>4. PICK r \in DOMAIN Mistral!FinishReasonOf : Pushes(<<>>, content, slots, Mistral!FinishReasonOf[r])
  BY DEF Mistral!FinishReason, Mistral!Keep, Mistral!Emit, Pushes
<1>5. Mistral!FinishReasonOf[r] \in Reasons
  BY DEF Mistral!FinishReasonOf, Reasons
<1>6. log' = log /\ content' = content /\ slots' = slots
  BY <1>2, <1>4, ConcatOne DEF Pushes
<1>7. MistralInv'
  BY <1>2, <1>6 DEF MistralInv, Places, KindAt
<1> QED BY <1>1, <1>3, <1>4, <1>5, <1>6, <1>7, MistralStep

\* The stream is over: the current block ends, then the tool calls in their order.
LEMMA MistralEndOfStream ==
  ASSUME AInv, adapter = "mistral", Mistral!EndOfStream
  PROVE  AInv'
<1>1. PICK calls \in InOrder(ToolCalls) :
        Mistral!ConcludeAfter(Closing(content, slots.current) \o Batch(content, calls), stop)
  BY MistralOperators DEF Mistral!EndOfStream
<1> DEFINE K == Closing(content, slots.current)
           B == Batch(content, calls)
           N == log \o K
<1>2. phase = "decode" /\ content' = content
  BY DEF Mistral!EndOfStream
<1>3. /\ MistralInv /\ Sound(log, content, Polite) /\ Scalars /\ stop \in Reasons /\ log \in Seq(Events)
      /\ Len(content) \in Nat
  BY <1>2, MistralFacts
<1>4. /\ slots.current \in 0..Len(content) /\ (slots.current # 0 => ~EndedIn(log, slots.current))
      /\ KindAt(slots.current, Texts)
  BY <1>3 DEF MistralInv, Places
<1>5. /\ Sound(N, content, Polite) /\ K \in Seq(Events)
      /\ \A q : EndedIn(N, q) <=> EndedIn(log, q) \/ (q = slots.current /\ slots.current # 0)
  BY <1>3, <1>4, CloseStep
<1>6. \A p \in 1..Len(content) : content[p].kind = "toolCall" => ~EndedIn(N, p)
  BY <1>3, <1>4, <1>5 DEF MistralInv, KindAt, Texts
<1>7. /\ Sound(N \o B, content, Polite) /\ B \in Seq(Events)
      /\ \A p \in 1..Len(content) : EndedIn(N \o B, p) <=> EndedIn(N, p) \/ content[p].kind = "toolCall"
  BY <1>5, <1>6, CallsStep
<1> HIDE DEF K, B
<1>8. log \o (K \o B) = N \o B /\ K \o B \in Seq(Events)
  BY <1>3, <1>5, <1>7
<1> HIDE DEF N
<1>9. Fails(K \o B) \/ Closes(K \o B, "done", stop)
  BY <1>1, <1>2, <1>3, MistralConclude DEF K, B
<1>10. Whole(log \o (K \o B), stop)
  <2>1. ASSUME NEW p \in 1..Len(content) PROVE EndedIn(log \o (K \o B), p)
    <3>1. p # 0
      OBVIOUS
    <3> QED BY <1>3, <1>5, <1>7, <1>8, <3>1 DEF MistralInv
  <2> QED BY <2>1 DEF Whole
<1> QED BY <1>2, <1>7, <1>8, <1>9, <1>10, ConcludeWith

\* No step of MistralStream breaks the invariant.
LEMMA MistralRun ==
  ASSUME AInv, adapter = "mistral", Mistral!Run
  PROVE  AInv'
<1>1. CASE Mistral!Garbled
  BY <1>1, MistralFail, FailStep DEF Mistral!Garbled, Mistral!Reading
<1>2. CASE Mistral!SetUp \/ Mistral!Request
  BY <1>2, MistralSetUp
<1> QED BY <1>1, <1>2, MistralContentItem, MistralToolCallDelta, MistralFinishReason, MistralEndOfStream
        DEF Mistral!Run, Mistral!Frames

-----------------------------------------------------------------------------
(* The decoder of OpenAI Completions                                       *)

\* A step of CompletionsStream's decoder that reads on needs its own part of the invariant.
LEMMA CompletionsStep ==
  ASSUME AInv, adapter = "openai-completions", phase = "decode", NEW E, NEW D, NEW T, NEW reason \in Reasons,
         Pushes(E, D, T, reason), mark' \in {"none", "begun", "complete"}, rude' \in BOOLEAN,
         Sound(log', D, Polite'), log' = <<>> => log = <<>>, CompletionsInv'
  PROVE  AInv'
<1>1. TableInv'
  BY DEF Pushes, TableInv
<1> QED BY <1>1, KeepReading

\* ConcludeAfter of CompletionsStream fails, or pushes a done event if the context is not done.
LEMMA CompletionsConclude ==
  ASSUME NEW E, NEW reason \in Reasons, Completions!ConcludeAfter(E, reason), content' = content
  PROVE  Fails(E) \/ (~ctx /\ reason # "error" /\ Closes(E, "done", reason))
<1>1. CASE ctx \/ reason = "error"
  <2> DEFINE why == IF ctx THEN "aborted" ELSE "error"
  <2>1. why \in Labels
    BY DEF Labels, Reasons
  <2>2. log' = log \o Append(E, Terminal("error", why))
    BY <1>1, CompletionsNames DEF Completions!ConcludeAfter, Completions!FailAfter, Completions!Emit
  <2> HIDE DEF why
  <2> QED BY <1>1, <2>1, <2>2 DEF Completions!ConcludeAfter, Completions!FailAfter, Completions!Emit, Fails, Closes,
               Untouched
<1>2. CASE ~(ctx \/ reason = "error")
  BY <1>2, CompletionsNames DEF Completions!ConcludeAfter, Completions!FailAfter, Completions!Emit, Closes, Untouched
<1> QED BY <1>1, <1>2

\* A block to end, if there is one.
One(p) == IF p = 0 THEN <<>> ELSE <<p>>

\* A batch that ends one block.
LEMMA BatchOne ==
  ASSUME NEW C, NEW p
  PROVE  Batch(C, One(p)) = Closing(C, p)
<1>1. CASE p = 0
  BY <1>1 DEF Batch, One, Closing
<1>2. CASE p # 0
  <2>1. Len(<<p>>) = 1 /\ <<p>>[1] = p
    OBVIOUS
  <2>2. Batch(C, <<p>>) = [k \in 1..1 |-> End(C[p], p)]
    BY <2>1 DEF Batch
  <2>3. [k \in 1..1 |-> End(C[p], p)] = <<End(C[p], p)>>
    OBVIOUS
  <2> QED BY <1>2, <2>2, <2>3 DEF One, Closing
<1> QED BY <1>1, <1>2

\* A batch is made of events.
LEMMA BatchEvents ==
  ASSUME NEW C \in Seq(Blocks), NEW order \in Seq(1..Len(C))
  PROVE  Batch(C, order) \in Seq(Events) /\ Len(Batch(C, order)) = Len(order) /\ Len(order) \in Nat
         /\ \A k \in 1..Len(order) : Batch(C, order)[k] = End(C[order[k]], order[k])
<1>1. Len(order) \in Nat /\ \A k \in 1..Len(order) : order[k] \in 1..Len(C) /\ order[k] \in Nat
  <2>1. Len(order) \in Nat /\ \A k \in 1..Len(order) : order[k] \in 1..Len(C)
    OBVIOUS
  <2>2. \A p \in 1..Len(C) : p \in Nat
    OBVIOUS
  <2> QED BY <2>1, <2>2
<1>2. \A k \in 1..Len(order) : C[order[k]] \in Blocks
  BY <1>1
<1>3. \A k \in 1..Len(order) : End(C[order[k]], order[k]) \in Events
  BY <1>1, <1>2, EventTypes
<1> QED BY <1>1, <1>3 DEF Batch

\* Two batches that end different blocks.
LEMMA BatchJoin ==
  ASSUME NEW C \in Seq(Blocks), NEW a \in Seq(1..Len(C)), NEW b \in Seq(1..Len(C))
  PROVE  Batch(C, a \o b) = Batch(C, a) \o Batch(C, b) /\ a \o b \in Seq(1..Len(C))
<1> DEFINE M == Batch(C, a \o b)
           N == Batch(C, a) \o Batch(C, b)
<1>1. a \o b \in Seq(1..Len(C)) /\ Len(a \o b) = Len(a) + Len(b) /\ Len(a) \in Nat /\ Len(b) \in Nat
  OBVIOUS
<1>2. /\ M \in Seq(Events) /\ Len(M) = Len(a) + Len(b)
      /\ \A k \in 1..(Len(a) + Len(b)) : M[k] = End(C[(a \o b)[k]], (a \o b)[k])
  BY <1>1, BatchEvents
<1>3. /\ Batch(C, a) \in Seq(Events) /\ Len(Batch(C, a)) = Len(a)
      /\ \A k \in 1..Len(a) : Batch(C, a)[k] = End(C[a[k]], a[k])
      /\ Batch(C, b) \in Seq(Events) /\ Len(Batch(C, b)) = Len(b)
      /\ \A k \in 1..Len(b) : Batch(C, b)[k] = End(C[b[k]], b[k])
  BY BatchEvents
<1>4. N \in Seq(Events) /\ Len(N) = Len(a) + Len(b)
  <2> DEFINE P == Batch(C, a)
             Q == Batch(C, b)
  <2>1. P \in Seq(Events) /\ Q \in Seq(Events) /\ Len(P) = Len(a) /\ Len(Q) = Len(b)
    BY <1>3
  <2> HIDE DEF P, Q
  <2>2. P \o Q \in Seq(Events) /\ Len(P \o Q) = Len(P) + Len(Q)
    BY <2>1, ConcatProperties
  <2> QED BY <2>1, <2>2 DEF P, Q
<1>5. ASSUME NEW k \in 1..(Len(a) + Len(b)) PROVE M[k] = N[k]
  <2>1. CASE k \in 1..Len(a)
    <3>1. (a \o b)[k] = a[k]
      BY <2>1
    <3>2. N[k] = Batch(C, a)[k]
      BY <1>3, <2>1
    <3> QED BY <1>2, <1>3, <2>1, <3>1, <3>2
  <2>2. CASE k \notin 1..Len(a)
    <3>1. k - Len(a) \in 1..Len(b) /\ k > Len(a)
      BY <1>1, <2>2
    <3>2. (a \o b)[k] = b[k - Len(a)]
      BY <3>1
    <3>3. N[k] = Batch(C, b)[k - Len(a)]
      BY <1>3, <3>1
    <3> QED BY <1>2, <1>3, <3>1, <3>2, <3>3
  <2> QED BY <2>1, <2>2
<1> HIDE DEF M, N
<1>6. M = N
  BY <1>2, <1>4, <1>5, SeqEqual
<1> QED BY <1>1, <1>6 DEF M, N

\* What every step starts from.
LEMMA CompletionsAfterFinish ==
  ASSUME AInv, adapter = "openai-completions", phase = "decode", Completions!AfterFinish
  PROVE  rude' \in BOOLEAN /\ mark \in {"none", "begun", "complete"} /\ Sound(log, content, Polite')
<1>1. Sound(log, content, Polite) /\ Scalars
  BY CompletionsFacts
<1>2. (Polite' => Polite) /\ rude' \in BOOLEAN /\ mark \in {"none", "begun", "complete"}
  BY <1>1 DEF Completions!AfterFinish, Polite, Scalars
<1> QED BY <1>1, <1>2, Weaken

\* The shared part of a delta: it extends a block or starts one.
LEMMA CompletionsExtend ==
  ASSUME AInv, adapter = "openai-completions", phase = "decode", Completions!AfterFinish,
         NEW at \in 0..Len(content), NEW kind \in Kinds, at # 0 => content[at].kind = kind, NEW T,
           Completions!Extend(at, kind, T)
  PROVE  LET here == IF at = 0 THEN Len(content) + 1 ELSE at
         IN  /\ \E E : Pushes(E, content', T, stop)
             /\ Sound(log', content', Polite') /\ log' # <<>>
             /\ here \in 1..Len(content') /\ content'[here].kind = kind /\ here \in Nat /\ here # 0
             /\ \A p \in 1..Len(content) : p \in 1..Len(content') /\ content'[p].kind = content[p].kind
             /\ \A p \in 1..Len(content') : (p \in 1..Len(content) \/ p = here) /\ ~EndedIn(log', p)
<1>1. /\ CompletionsInv /\ log \in Seq(Events) /\ log # <<>> /\ Len(log) # 0 /\ content \in Seq(Blocks)
           /\ Len(content) \in Nat
  BY CompletionsFacts
<1>2. Sound(log, content, Polite') /\ \A p \in 1..Len(content) : ~EndedIn(log, p)
  BY <1>1, CompletionsAfterFinish DEF CompletionsInv
<1>3. CASE at = 0
  <2> DEFINE n == Len(content) + 1
             E == <<Start(Block(kind, 0), n), Delta(Block(kind, 0), n)>>
             D == Append(content, Block(kind, 1))
  <2>1. Pushes(E, D, T, stop)
    BY <1>3, CompletionsNames DEF Completions!Extend, Completions!New, Completions!Keep, Completions!Emit, Pushes
  <2>2. log' = log \o E /\ content' = D
    BY <2>1 DEF Pushes
  <2>3. /\ Sound(log \o E, D, Polite') /\ log \o E # <<>> /\ SameEnds(log \o E, log) /\ ~EndedIn(log, n)
             /\ n \in 1..Len(D)
        /\ Len(D) = n /\ D[n].kind = kind /\ \A p \in 1..Len(content) : D[p] = content[p] /\ p \in 1..Len(D)
        /\ \A p \in 1..Len(D) : p \in 1..Len(content) \/ p = n
    BY <1>1, <1>2, StartDeltaStep
  <2>4. n \in Nat /\ n # 0
    BY <1>1
  <2> HIDE DEF n, E, D
  <2>5. ASSUME NEW p \in 1..Len(D) PROVE ~EndedIn(log', p)
    BY <1>2, <2>2, <2>3 DEF SameEnds
  <2> QED BY <1>3, <2>1, <2>2, <2>3, <2>4, <2>5 DEF n
<1>4. CASE at # 0
  <2>1. at \in 1..Len(content) /\ at \in Nat
    BY <1>1, <1>4
  <2>2. Pushes(<<Delta(content[at], at)>>, Grown(content, at), T, stop)
    BY <1>4, CompletionsNames DEF Completions!Extend, Completions!Grow, Grown, Completions!Keep, Completions!Emit,
         Pushes
  <2>3. log' = log \o <<Delta(content[at], at)>> /\ content' = Grown(content, at)
    BY <2>2 DEF Pushes
  <2>4. /\ Sound(log', content', Polite') /\ log' # <<>> /\ SameEnds(log', log) /\ Same(content', content)
    BY <1>2, <2>1, <2>3, DeltaStep
  <2> QED BY <1>2, <1>4, <2>1, <2>2, <2>3, <2>4 DEF Same, SameEnds
<1> QED BY <1>3, <1>4

\* The table with one more name for the block at here.
LEMMA CompletionsTable ==
  ASSUME AInv, adapter = "openai-completions", phase = "decode", NEW here \in Nat, NEW kind \in Kinds, NEW T,
         slots' = T, here \in 1..Len(content'), content'[here].kind = kind, here # 0,
         \A p \in 1..Len(content) : p \in 1..Len(content') /\ content'[p].kind = content[p].kind,
         \A p \in 1..Len(content') : (p \in 1..Len(content) \/ p = here) /\ ~EndedIn(log', p),
         T \in [text : Nat, thinking : Nat, field : {"none", "reasoning_content", "reasoning"},
                byIndex : [Indexes -> Nat], byId : [Indexes -> Nat]],
         T.text = slots.text \/ (T.text = here /\ kind = "text" /\ slots.text = 0),
         T.thinking = slots.thinking \/ (T.thinking = here /\ kind = "thinking" /\ slots.thinking = 0),
         here = T.text \/ here = T.thinking \/ kind = "toolCall",
         \A i \in Indexes : /\ T.byIndex[i] = slots.byIndex[i] \/ (T.byIndex[i] = here /\ kind = "toolCall")
                            /\ T.byId[i] = slots.byId[i] \/ (T.byId[i] = here /\ kind = "toolCall")
  PROVE  CompletionsInv'
<1> DEFINE Fine(p, k) == p # 0 => p \in 1..Len(content') /\ content'[p].kind = k
<1>1. CompletionsInv /\ Len(content) \in Nat
  BY CompletionsFacts
<1>2. \A k : \A p \in 0..Len(content) : (p # 0 => content[p].kind \in {k}) => Fine(p, k)
  <2>1. \A p \in 0..Len(content) : p # 0 => p \in 1..Len(content)
    BY <1>1
  <2> QED BY <2>1
<1>3. Fine(here, kind)
  OBVIOUS
<1> HIDE DEF Fine
<1>4. Fine(T.text, "text") /\ Fine(T.thinking, "thinking")
  BY <1>1, <1>2, <1>3 DEF CompletionsInv, Places, KindAt
<1>5. \A i \in Indexes : Fine(T.byIndex[i], "toolCall") /\ Fine(T.byId[i], "toolCall")
  BY <1>1, <1>2, <1>3 DEF CompletionsInv, Places, KindAt
<1>6. \A k : \A p \in Nat : Fine(p, k) => p \in 0..Len(content') /\ (p # 0 => content'[p].kind \in {k})
  <2>1. here \in 1..Len(content')
    OBVIOUS
  <2> QED BY <2>1 DEF Fine
<1>7. T.text \in Nat /\ T.thinking \in Nat /\ \A i \in Indexes : T.byIndex[i] \in Nat /\ T.byId[i] \in Nat
  OBVIOUS
<1>8. /\ T.text \in 0..Len(content') /\ T.thinking \in 0..Len(content')
      /\ (T.text # 0 => content'[T.text].kind \in {"text"}) /\ (T.thinking # 0
           => content'[T.thinking].kind \in {"thinking"})
      /\ \A i \in Indexes :
            /\ T.byIndex[i] \in 0..Len(content') /\ T.byId[i] \in 0..Len(content')
            /\ (T.byIndex[i] # 0 => content'[T.byIndex[i]].kind \in {"toolCall"})
            /\ (T.byId[i] # 0 => content'[T.byId[i]].kind \in {"toolCall"})
  BY <1>4, <1>5, <1>6, <1>7
<1>9. ASSUME NEW p \in 1..Len(content') PROVE p = T.text \/ p = T.thinking \/ content'[p].kind = "toolCall"
  <2>1. CASE p = here
    BY <2>1
  <2>2. CASE p \in 1..Len(content)
    <3>1. p = slots.text \/ p = slots.thinking \/ content[p].kind = "toolCall"
      BY <1>1, <2>2 DEF CompletionsInv
    <3>2. p # 0
      BY <2>2
    <3> QED BY <2>2, <3>1, <3>2
  <2> QED BY <2>1, <2>2
<1> QED BY <1>8, <1>9 DEF CompletionsInv, Places, KindAt

\* A delta of the text.
LEMMA CompletionsTextDelta ==
  ASSUME AInv, adapter = "openai-completions", Completions!TextDelta
  PROVE  AInv'
<1> DEFINE T == [slots EXCEPT !.text = Completions!Or(@, Completions!New)]
           here == IF slots.text = 0 THEN Len(content) + 1 ELSE slots.text
<1>1. phase = "decode" /\ mark' = mark /\ Completions!AfterFinish /\ Completions!Extend(slots.text, "text", T)
  BY DEF Completions!TextDelta, Completions!Reading
<1>2. CompletionsInv /\ stop \in Reasons /\ Len(content) \in Nat
  BY <1>1, CompletionsFacts
<1>3. slots.text \in 0..Len(content) /\ "text" \in Kinds /\ (slots.text # 0 => content[slots.text].kind = "text")
  BY <1>2 DEF CompletionsInv, Places, KindAt, Kinds
<1>4. T = [slots EXCEPT !.text = here]
  BY DEF Completions!Or, Completions!New
<1> HIDE DEF T
<1>5. /\ \E E : Pushes(E, content', T, stop)
      /\ Sound(log', content', Polite') /\ log' # <<>>
      /\ here \in 1..Len(content') /\ content'[here].kind = "text" /\ here \in Nat /\ here # 0
      /\ \A p \in 1..Len(content) : p \in 1..Len(content') /\ content'[p].kind = content[p].kind
      /\ \A p \in 1..Len(content') : (p \in 1..Len(content) \/ p = here) /\ ~EndedIn(log', p)
  BY <1>1, <1>3, CompletionsExtend
<1>6. here = IF slots.text = 0 THEN here ELSE slots.text
  OBVIOUS
<1> HIDE DEF here
<1>7. slots' = T
  BY <1>5 DEF Pushes
<1>8. /\ T \in [text : Nat, thinking : Nat, field : {"none", "reasoning_content", "reasoning"},
                byIndex : [Indexes -> Nat], byId : [Indexes -> Nat]]
      /\ T.text = here /\ T.thinking = slots.thinking /\ T.byIndex = slots.byIndex /\ T.byId = slots.byId
  BY <1>2, <1>4, <1>5 DEF CompletionsInv
<1>9. CompletionsInv'
  BY <1>1, <1>3, <1>5, <1>6, <1>7, <1>8, CompletionsTable
<1>10. rude' \in BOOLEAN /\ mark \in {"none", "begun", "complete"}
  BY <1>1, CompletionsAfterFinish
<1> QED BY <1>1, <1>2, <1>5, <1>9, <1>10, CompletionsStep

\* A delta of the thinking.
LEMMA CompletionsReasoningDelta ==
  ASSUME AInv, adapter = "openai-completions", Completions!ReasoningDelta
  PROVE  AInv'
<1>1. phase = "decode" /\ mark' = mark /\ Completions!AfterFinish
  BY DEF Completions!ReasoningDelta, Completions!Reading
<1>2. CompletionsInv /\ stop \in Reasons /\ Len(content) \in Nat
  BY <1>1, CompletionsFacts
<1> DEFINE here == IF slots.thinking = 0 THEN Len(content) + 1 ELSE slots.thinking
<1>3. PICK field \in {"reasoning_content", "reasoning"} :
        Completions!Extend(slots.thinking, "thinking",
          [slots EXCEPT !.thinking = Completions!Or(@, Completions!New), !.field = field])
  BY DEF Completions!ReasoningDelta
<1> DEFINE T == [slots EXCEPT !.thinking = here, !.field = field]
<1>4. T = [slots EXCEPT !.thinking = Completions!Or(@, Completions!New), !.field = field]
  BY DEF Completions!Or, Completions!New
<1>5. slots.thinking \in 0..Len(content) /\ "thinking" \in Kinds /\ (slots.thinking # 0
        => content[slots.thinking].kind = "thinking")
  BY <1>2 DEF CompletionsInv, Places, KindAt, Kinds
<1> HIDE DEF T
<1>6. Completions!Extend(slots.thinking, "thinking", T)
  BY <1>3, <1>4
<1>7. /\ \E E : Pushes(E, content', T, stop)
      /\ Sound(log', content', Polite') /\ log' # <<>>
      /\ here \in 1..Len(content') /\ content'[here].kind = "thinking" /\ here \in Nat /\ here # 0
      /\ \A p \in 1..Len(content) : p \in 1..Len(content') /\ content'[p].kind = content[p].kind
      /\ \A p \in 1..Len(content') : (p \in 1..Len(content) \/ p = here) /\ ~EndedIn(log', p)
  BY <1>1, <1>5, <1>6, CompletionsExtend
<1>8. here = IF slots.thinking = 0 THEN here ELSE slots.thinking
  OBVIOUS
<1> HIDE DEF here
<1>9. slots' = T
  BY <1>7 DEF Pushes
<1>10. /\ T \in [text : Nat, thinking : Nat, field : {"none", "reasoning_content", "reasoning"},
                byIndex : [Indexes -> Nat], byId : [Indexes -> Nat]]
       /\ T.text = slots.text /\ T.thinking = here /\ T.byIndex = slots.byIndex /\ T.byId = slots.byId
  BY <1>2, <1>7 DEF CompletionsInv, T
<1>11. CompletionsInv'
  BY <1>1, <1>5, <1>7, <1>8, <1>9, <1>10, CompletionsTable
<1>12. rude' \in BOOLEAN /\ mark \in {"none", "begun", "complete"}
  BY <1>1, CompletionsAfterFinish
<1> QED BY <1>1, <1>2, <1>7, <1>11, <1>12, CompletionsStep

\* A delta of a tool call, found by its index or by its id.
LEMMA CompletionsToolCallDelta ==
  ASSUME AInv, adapter = "openai-completions", Completions!ToolCallDelta
  PROVE  AInv'
<1>1. phase = "decode" /\ mark' = mark /\ Completions!AfterFinish
  BY DEF Completions!ToolCallDelta, Completions!Reading
<1>2. CompletionsInv /\ stop \in Reasons /\ Len(content) \in Nat
  BY <1>1, CompletionsFacts
<1>0. PICK index \in {{}} \cup {{i} : i \in Indexes}, id \in {{}} \cup {{i} : i \in Indexes} : \E at :
        /\ at = Completions!ToolBlock(index, id)
        /\ Completions!Extend(at, "toolCall",
             [slots EXCEPT !.byIndex = Completions!Named(@, index, Completions!Or(at, Completions!New)),
                                                            !.byId = Completions!Named(@, id, Completions!Or(at,
                                                              Completions!New))])
  BY DEF Completions!ToolCallDelta
<1>3. PICK at :
        /\ at = Completions!ToolBlock(index, id)
        /\ Completions!Extend(at, "toolCall",
             [slots EXCEPT !.byIndex = Completions!Named(@, index, Completions!Or(at, Completions!New)),
                                                            !.byId = Completions!Named(@, id, Completions!Or(at,
                                                              Completions!New))])
  BY <1>0
<1> DEFINE here == IF at = 0 THEN Len(content) + 1 ELSE at
           Names(table, names) == [i \in Indexes |-> IF i \in names THEN here ELSE table[i]]
           T == [slots EXCEPT !.byIndex = Names(slots.byIndex, index), !.byId = Names(slots.byId, id)]
<1>4. T = [slots EXCEPT !.byIndex = Completions!Named(@, index, Completions!Or(at, Completions!New)),
                        !.byId = Completions!Named(@, id, Completions!Or(at, Completions!New))]
  <2>1. here = Completions!Or(at, Completions!New)
    BY DEF Completions!Or, Completions!New
  <2> HIDE DEF here
  <2> QED BY <1>2, <2>1 DEF Completions!Named, CompletionsInv
<1>5. at \in 0..Len(content) /\ "toolCall" \in Kinds /\ (at # 0 => content[at].kind = "toolCall")
  <2> DEFINE Good(p) == p \in 0..Len(content) /\ (p # 0 => content[p].kind = "toolCall")
  <2>1. \A i \in Indexes : Good(slots.byIndex[i]) /\ Good(slots.byId[i])
    BY <1>2 DEF CompletionsInv, Places, KindAt
  <2>2. Good(0)
    BY <1>2
  <2> HIDE DEF Good
  <2>3. Good(IF index = {} THEN 0 ELSE slots.byIndex[CHOOSE i \in index : TRUE])
    <3>1. CASE index = {}
      BY <2>2, <3>1
    <3>2. CASE index # {}
      <4>1. (CHOOSE i \in index : TRUE) \in Indexes
        BY <3>2
      <4> QED BY <2>1, <3>2, <4>1
    <3> QED BY <3>1, <3>2
  <2>4. Good(IF id = {} THEN 0 ELSE slots.byId[CHOOSE i \in id : TRUE])
    <3>1. CASE id = {}
      BY <2>2, <3>1
    <3>2. CASE id # {}
      <4>1. (CHOOSE i \in id : TRUE) \in Indexes
        BY <3>2
      <4> QED BY <2>1, <3>2, <4>1
    <3> QED BY <3>1, <3>2
  <2>5. Good(at)
    BY <1>3, <2>3, <2>4 DEF Completions!ToolBlock, Completions!Or
  <2> QED BY <2>5 DEF Good, Kinds
<1> HIDE DEF T
<1>6. Completions!Extend(at, "toolCall", T)
  BY <1>3, <1>4
<1>7. /\ \E E : Pushes(E, content', T, stop)
      /\ Sound(log', content', Polite') /\ log' # <<>>
      /\ here \in 1..Len(content') /\ content'[here].kind = "toolCall" /\ here \in Nat /\ here # 0
      /\ \A p \in 1..Len(content) : p \in 1..Len(content') /\ content'[p].kind = content[p].kind
      /\ \A p \in 1..Len(content') : (p \in 1..Len(content) \/ p = here) /\ ~EndedIn(log', p)
  BY <1>1, <1>5, <1>6, CompletionsExtend
<1> HIDE DEF here
<1>8. slots' = T
  BY <1>7 DEF Pushes
<1>9. Names(slots.byIndex, index) \in [Indexes -> Nat] /\ Names(slots.byId, id) \in [Indexes -> Nat]
  BY <1>2, <1>7 DEF CompletionsInv
<1>10. /\ T \in [text : Nat, thinking : Nat, field : {"none", "reasoning_content", "reasoning"},
                byIndex : [Indexes -> Nat], byId : [Indexes -> Nat]]
       /\ T.text = slots.text /\ T.thinking = slots.thinking /\ T.byIndex = Names(slots.byIndex, index)
            /\ T.byId = Names(slots.byId, id)
  BY <1>2, <1>9 DEF CompletionsInv, T
<1>11. CompletionsInv'
  <2>1. \A i \in Indexes : /\ T.byIndex[i] = slots.byIndex[i] \/ T.byIndex[i] = here
                           /\ T.byId[i] = slots.byId[i] \/ T.byId[i] = here
    BY <1>10
  <2>2. "toolCall" \in Kinds
    BY <1>5
  <2> HIDE DEF Names
  <2> QED BY <1>1, <1>5, <1>7, <1>8, <1>10, <2>1, <2>2, CompletionsTable
<1>12. rude' \in BOOLEAN /\ mark \in {"none", "begun", "complete"}
  BY <1>1, CompletionsAfterFinish
<1> QED BY <1>1, <1>2, <1>7, <1>11, <1>12, CompletionsStep

\* The finish reason.
LEMMA CompletionsFinishReason ==
  ASSUME AInv, adapter = "openai-completions", Completions!FinishReason
  PROVE  AInv'
<1>1. phase = "decode" /\ mark' = "complete" /\ Completions!AfterFinish
  BY DEF Completions!FinishReason, Completions!Reading
<1>2. CompletionsInv /\ log \in Seq(Events)
  BY <1>1, CompletionsFacts
<1>3. rude' \in BOOLEAN /\ Sound(log, content, Polite')
  BY <1>1, CompletionsAfterFinish
<1>4. PICK r \in DOMAIN Completions!FinishReasonOf : Pushes(<<>>, content, slots, Completions!FinishReasonOf[r])
  BY DEF Completions!FinishReason, Completions!Keep, Completions!Emit, Pushes
<1>5. Completions!FinishReasonOf[r] \in Reasons
  BY DEF Completions!FinishReasonOf, Reasons
<1>6. log' = log /\ content' = content /\ slots' = slots
  BY <1>2, <1>4, ConcatOne DEF Pushes
<1>7. CompletionsInv'
  BY <1>2, <1>6 DEF CompletionsInv, Places, KindAt
<1> QED BY <1>1, <1>3, <1>4, <1>5, <1>6, <1>7, CompletionsStep

\* The blocks that end with the answer, one after the other.
LEMMA CompletionsEnds ==
  ASSUME AInv, adapter = "openai-completions", phase = "decode", NEW calls \in InOrder(ToolCalls)
  PROVE  LET E == Completions!Ends(calls)
         IN  /\ E \in Seq(Events) /\ Sound(log \o E, content, Polite)
             /\ \A p \in 1..Len(content) : EndedIn(log \o E, p)
<1> DEFINE text == slots.text
           thinking == slots.thinking
           K == Closing(content, text)
           J == Closing(content, thinking)
           B == Batch(content, calls)
           N == log \o K
           M == N \o J
<1>1. /\ CompletionsInv /\ Sound(log, content, Polite) /\ log \in Seq(Events)
      /\ content \in Seq(Blocks) /\ Len(content) \in Nat
  BY CompletionsFacts
<1>2. /\ text \in 0..Len(content) /\ thinking \in 0..Len(content)
      /\ (text # 0 => content[text].kind = "text") /\ (thinking # 0 => content[thinking].kind = "thinking")
      /\ \A p \in 1..Len(content) : (p = text \/ p = thinking \/ content[p].kind = "toolCall") /\ ~EndedIn(log, p)
           /\ p # 0
      /\ \A p \in 0..Len(content) : p # 0 => p \in 1..Len(content)
  <2>1. \A p \in 1..Len(content) : p # 0
    BY <1>1
  <2>2. \A p \in 0..Len(content) : p # 0 => p \in 1..Len(content)
    BY <1>1
  <2> QED BY <1>1, <2>1, <2>2 DEF CompletionsInv, Places, KindAt
<1> HIDE DEF text, thinking
<1>3. /\ Sound(N, content, Polite) /\ K \in Seq(Events)
      /\ \A q : EndedIn(N, q) <=> EndedIn(log, q) \/ (q = text /\ text # 0)
  BY <1>1, <1>2, CloseStep
<1>4. thinking # 0 => ~EndedIn(N, thinking)
  BY <1>2, <1>3
<1> HIDE DEF N
<1>5. /\ Sound(M, content, Polite) /\ J \in Seq(Events)
      /\ \A q : EndedIn(M, q) <=> EndedIn(N, q) \/ (q = thinking /\ thinking # 0)
  BY <1>2, <1>3, <1>4, CloseStep
<1>6. \A p \in 1..Len(content) : content[p].kind = "toolCall" => ~EndedIn(M, p)
  BY <1>2, <1>3, <1>5
<1> HIDE DEF M
<1>7. /\ Sound(M \o B, content, Polite) /\ B \in Seq(Events)
      /\ \A p \in 1..Len(content) : EndedIn(M \o B, p) <=> EndedIn(M, p) \/ content[p].kind = "toolCall"
  BY <1>5, <1>6, CallsStep
<1>8. Completions!Ends(calls) = (K \o J) \o B
  <2>1. One(text) \in Seq(1..Len(content)) /\ One(thinking) \in Seq(1..Len(content))
    <3>1. ASSUME NEW p \in 0..Len(content) PROVE One(p) \in Seq(1..Len(content))
      <4>1. CASE p = 0
        BY <4>1 DEF One
      <4>2. CASE p # 0
        <5>1. p \in 1..Len(content)
          BY <1>2, <4>2
        <5> QED BY <4>2, <5>1 DEF One
      <4> QED BY <4>1, <4>2
    <3> QED BY <1>2, <3>1
  <2>2. calls \in Seq(1..Len(content))
    BY <1>1, ToolCallsFacts
  <2>3. Completions!Single(text) = One(text) /\ Completions!Single(thinking) = One(thinking)
    BY DEF Completions!Single, One
  <2>4. Completions!Ends(calls) = Batch(content, One(text) \o One(thinking) \o calls)
    BY <2>3, CompletionsNames DEF Completions!Ends, Batch, text, thinking
  <2>5. /\ Batch(content, One(text) \o One(thinking)) = Batch(content, One(text)) \o Batch(content, One(thinking))
        /\ One(text) \o One(thinking) \in Seq(1..Len(content))
    BY <1>1, <2>1, BatchJoin
  <2>6. Batch(content, One(text) \o One(thinking) \o calls) = Batch(content,
          One(text) \o One(thinking)) \o Batch(content, calls)
    BY <1>1, <2>2, <2>5, BatchJoin
  <2>7. Batch(content, One(text)) = K /\ Batch(content, One(thinking)) = J
    BY BatchOne
  <2> QED BY <2>4, <2>5, <2>6, <2>7
<1> HIDE DEF K, J, B
<1>9. log \o ((K \o J) \o B) = M \o B /\ (K \o J) \o B \in Seq(Events)
  <2>1. log \o ((K \o J) \o B) = ((log \o K) \o J) \o B
    BY <1>1, <1>3, <1>5, <1>7
  <2> QED BY <1>3, <1>5, <1>7, <2>1 DEF M, N
<1>10. \A p \in 1..Len(content) : EndedIn(M \o B, p)
  BY <1>2, <1>3, <1>5, <1>7
<1> QED BY <1>7, <1>8, <1>9, <1>10

\* The stream is over: text, thinking and tool calls all end now.
LEMMA CompletionsEndOfStream ==
  ASSUME AInv, adapter = "openai-completions", Completions!EndOfStream
  PROVE  AInv'
<1>0. \A S : Completions!InOrder(S) = InOrder(S)
  <2>1. ASSUME NEW S PROVE Completions!InOrder(S) = InOrder(S)
    <3>1. Completions!Cardinality(S) = Cardinality(S)
      BY DEF Completions!Cardinality, Cardinality
    <3> QED BY <3>1 DEF Completions!InOrder, InOrder
  <2> QED BY <2>1
<1>1. Completions!ToolCalls = ToolCalls
  BY DEF Completions!ToolCalls, ToolCalls
<1>2. PICK calls \in InOrder(ToolCalls) :
        IF mark # "complete" THEN Completions!FailAfter(Completions!Ends(calls)) ELSE Completions!ConcludeAfter(Completions!Ends(calls), stop)
  BY <1>0, <1>1 DEF Completions!EndOfStream
<1> DEFINE E == Completions!Ends(calls)
<1>3. phase = "decode" /\ content' = content
  BY DEF Completions!EndOfStream
<1>4. stop \in Reasons
  BY <1>3, CompletionsFacts
<1>5. E \in Seq(Events) /\ Sound(log \o E, content, Polite) /\ \A p \in 1..Len(content) : EndedIn(log \o E, p)
  BY <1>3, CompletionsEnds
<1> HIDE DEF E
<1>6. CASE mark # "complete"
  <2> DEFINE why == IF ctx THEN "aborted" ELSE "error"
  <2>1. why \in Labels
    BY DEF Labels, Reasons
  <2>2. Completions!FailAfter(E)
    BY <1>2, <1>6 DEF E
  <2>3. log' = log \o Append(E, Terminal("error", why))
    BY <2>2, CompletionsNames DEF Completions!FailAfter, Completions!Emit
  <2> HIDE DEF why
  <2>4. Fails(E)
    BY <1>3, <2>1, <2>2, <2>3 DEF Completions!FailAfter, Fails, Closes, Untouched
  <2>5. Fails(E) \/ (Closes(E, "done", stop) /\ Whole(log \o E, stop))
    BY <2>4
  <2>6. E \in Seq(Events) /\ Sound(log \o E, content, Polite) /\ phase = "decode"
    BY <1>3, <1>5
  <2> QED BY <2>5, <2>6, ConcludeWith
<1>7. CASE mark = "complete"
  <2>1. Fails(E) \/ Closes(E, "done", stop)
    BY <1>2, <1>3, <1>4, <1>7, CompletionsConclude DEF E
  <2>2. Whole(log \o E, stop)
    BY <1>5, <1>7 DEF Whole
  <2> QED BY <1>3, <1>5, <2>1, <2>2, ConcludeWith
<1> QED BY <1>6, <1>7

\* No step of CompletionsStream breaks the invariant.
LEMMA CompletionsRun ==
  ASSUME AInv, adapter = "openai-completions", Completions!Run
  PROVE  AInv'
<1>1. CASE Completions!SetUp \/ Completions!Request
  BY <1>1, CompletionsSetUp
<1> QED BY <1>1, CompletionsTextDelta, CompletionsReasoningDelta, CompletionsToolCallDelta, CompletionsFinishReason,
           CompletionsEndOfStream DEF Completions!Run, Completions!Frames

-----------------------------------------------------------------------------
(* The decoder of OpenAI Responses                                         *)

\* A step of ResponsesStream's decoder that reads on needs its own part of the invariant.
LEMMA ResponsesStep ==
  ASSUME AInv, adapter = "openai-responses", phase = "decode", NEW E, NEW D, NEW T, NEW reason \in Reasons,
         Pushes(E, D, T, reason), mark' \in {"none", "begun", "complete"}, rude' \in BOOLEAN,
         Sound(log', D, Polite'), log' = <<>> => log = <<>>, ResponsesInv'
  PROVE  AInv'
<1>1. TableInv'
  BY DEF Pushes, TableInv
<1> QED BY <1>1, KeepReading

\* ConcludeAfter of ResponsesStream fails, or pushes a done event if the context is not done.
LEMMA ResponsesConclude ==
  ASSUME NEW E, NEW reason \in Reasons, Responses!ConcludeAfter(E, reason), content' = content
  PROVE  Fails(E) \/ (~ctx /\ reason # "error" /\ Closes(E, "done", reason))
<1>1. CASE ctx \/ reason = "error"
  <2> DEFINE why == IF ctx THEN "aborted" ELSE "error"
  <2>1. why \in Labels
    BY DEF Labels, Reasons
  <2>2. log' = log \o Append(E, Terminal("error", why))
    BY <1>1, ResponsesNames DEF Responses!ConcludeAfter, Responses!FailAfter, Responses!Emit
  <2> HIDE DEF why
  <2> QED BY <1>1, <2>1, <2>2 DEF Responses!ConcludeAfter, Responses!FailAfter, Responses!Emit, Fails, Closes, Untouched
<1>2. CASE ~(ctx \/ reason = "error")
  BY <1>2, ResponsesNames DEF Responses!ConcludeAfter, Responses!FailAfter, Responses!Emit, Closes, Untouched
<1> QED BY <1>1, <1>2

\* A block that holds a text.
Hold(C, p, n) == [C EXCEPT ![p].text = n]

\* A block that holds a text.
LEMMA HoldFacts ==
  ASSUME NEW C \in Seq(Blocks), NEW p \in 1..Len(C), NEW n \in Nat
  PROVE  /\ SameKinds(Hold(C, p, n), C)
         /\ \A q \in 1..Len(C) : Hold(C, p, n)[q].text = IF q = p THEN n ELSE C[q].text
         /\ n = C[p].text => Hold(C, p, n) = C
<1>0. \A q \in 1..Len(C) : C[q] \in Blocks
  OBVIOUS
<1>1. \A q \in 1..Len(C) : C[q] \in Blocks /\ C[q].kind \in Kinds /\ C[q].text \in Nat
  BY <1>0 DEF Blocks
<1>2. Hold(C, p, n) = [q \in 1..Len(C) |-> IF q = p THEN [C[q] EXCEPT !.text = n] ELSE C[q]]
  BY DEF Hold
<1>3. \A q \in 1..Len(C) : /\ [C[q] EXCEPT !.text = n] \in Blocks /\ [C[q] EXCEPT !.text = n].kind = C[q].kind
                           /\ [C[q] EXCEPT !.text = n].text = n
  BY <1>1 DEF Blocks
<1>4. /\ Len(Hold(C, p, n)) = Len(C) /\ DOMAIN Hold(C, p, n) = 1..Len(C)
      /\ \A q \in 1..Len(C) : /\ Hold(C, p, n)[q] \in Blocks /\ Hold(C, p, n)[q].kind = C[q].kind
                              /\ Hold(C, p, n)[q].text = IF q = p THEN n ELSE C[q].text
  BY <1>1, <1>2, <1>3
<1>5. Hold(C, p, n) \in Seq(Blocks)
  BY <1>2, <1>4
<1>6. ASSUME n = C[p].text PROVE Hold(C, p, n) = C
  <2>1. [C[p] EXCEPT !.text = n] = C[p]
    BY <1>1, <1>6 DEF Blocks
  <2>2. [q \in 1..Len(C) |-> IF q = p THEN [C[q] EXCEPT !.text = n] ELSE C[q]] = [q \in 1..Len(C) |-> C[q]]
    BY <2>1
  <2> QED BY <1>2, <2>2
<1> QED BY <1>4, <1>5, <1>6 DEF SameKinds

\* A delta that leaves the block with a given text.
LEMMA HoldStep ==
  ASSUME NEW L, NEW C, NEW s, Sound(L, C, s), NEW p \in 1..Len(C), NEW n \in Nat,
         s => ~EndedIn(L, p) /\ n = C[p].text + 1
  PROVE  /\ Sound(L \o <<Delta(C[p], p)>>, Hold(C, p, n), s) /\ L \o <<Delta(C[p], p)>> # <<>>
         /\ SameEnds(L \o <<Delta(C[p], p)>>, L)
<1>1. L \in Seq(Events) /\ C \in Seq(Blocks) /\ Len(C) \in Nat /\ C[p] \in Blocks
  BY SoundTypes
<1>2. Delta(C[p], p) \in Events
  BY <1>1, EventTypes
<1>3. L \o <<Delta(C[p], p)>> = Append(L, Delta(C[p], p)) /\ Append(L, Delta(C[p], p)) # <<>>
  BY <1>1, <1>2, ConcatOne
<1>4. /\ SameKinds(Hold(C, p, n), C)
      /\ \A q \in 1..Len(C) : Hold(C, p, n)[q].text = IF q = p THEN n ELSE C[q].text
  BY <1>1, HoldFacts
<1>5. s => \A q \in 1..Len(C) : Hold(C, p, n)[q].text = IF q = p THEN C[q].text + 1 ELSE C[q].text
  BY <1>4
<1>6. /\ Sound(Append(L, Delta(C[p], p)), Hold(C, p, n), s)
      /\ \A q : EndedIn(Append(L, Delta(C[p], p)), q) <=> EndedIn(L, q)
  BY <1>1, <1>4, <1>5, PushDeltaSound
<1> QED BY <1>3, <1>6 DEF SameEnds

\* The slots as a block they track is extended.
LEMMA TracksOn ==
  ASSUME NEW T, NEW U, NEW L, NEW M, NEW C, NEW D, SlotsFit(T, C), Tracks(T, L, C), SameEnds(M, L), Same(D, C),
         \A i \in Indexes : U[i].at = T[i].at /\ (Used(U, i) <=> Used(T, i)),
         \A i \in Indexes : Used(T, i) /\ D[T[i].at].kind = "toolCall" => U[i].args = D[T[i].at].text
  PROVE  Tracks(U, M, D)
  BY DEF SlotsFit, Tracks, SameEnds, Same

\* A slot with new arguments.
PutArgs(T, i, n) == [T EXCEPT ![i].args = n]

\* A slot with new arguments.
LEMMA SlotsOn ==
  ASSUME NEW T, NEW C, NEW D, NEW i \in Indexes, NEW n \in Nat, SlotsFit(T, C), Used(T, i), Len(D) = Len(C),
         NEW U, U = PutArgs(T, i, n)
  PROVE  /\ SlotsFit(U, D)
         /\ \A j \in Indexes : U[j].at = T[j].at /\ (Used(U, j) <=> Used(T, j))
              /\ U[j].args = IF j = i THEN n ELSE T[j].args
<1> DEFINE S == [at : Nat, args : Nat]
<1>1. T \in [Indexes -> S] /\ T[i] # Responses!Free
  BY DEF SlotsFit, Used
<1>2. \A j \in Indexes : T[j] \in S
  BY <1>1
<1>3. U = [j \in Indexes |-> IF j = i THEN [T[j] EXCEPT !.args = n] ELSE T[j]]
  BY <1>1 DEF PutArgs
<1>4. \A j \in Indexes : [T[j] EXCEPT !.args = n] \in S /\ [T[j] EXCEPT !.args = n].at = T[j].at
        /\ [T[j] EXCEPT !.args = n].args = n
  BY <1>2
<1>5. U \in [Indexes -> S] /\ \A j \in Indexes : U[j].at = T[j].at /\ U[j].args = (IF j = i THEN n ELSE T[j].args)
        /\ (j # i => U[j] = T[j])
  BY <1>1, <1>3, <1>4
<1>6. T[i].at # 0
  <2>1. T[i].at \in 1..Len(C)
    BY DEF SlotsFit
  <2> QED BY <2>1
<1>7. Responses!Free.at = 0
  BY DEF Responses!Free, Responses!Slot
<1>8. \A j \in Indexes : Used(U, j) <=> Used(T, j)
  <2>1. U[i] # Responses!Free
    BY <1>5, <1>6, <1>7
  <2> QED BY <1>1, <1>5, <2>1 DEF Used
<1>9. SlotsFit(U, D)
  BY <1>5, <1>8 DEF SlotsFit
<1> QED BY <1>5, <1>8, <1>9

\* The operators of ResponsesStream as values.
LEMMA ResponsesOperators ==
  /\ \A i, kind : Responses!Streaming(i, kind) <=> Used(slots, i) /\ content[slots[i].at].kind = kind
  /\ \A i, n : Responses!Holding(i, n) = Hold(content, slots[i].at, n)
  /\ \A p : Responses!Grow(p) = Grown(content, p)
  /\ Responses!HasToolCall(content) <=> HasToolCall(content)
  BY DEF Responses!Streaming, Used, Responses!Holding, Hold, Responses!Grow, Grown, Responses!HasToolCall, HasToolCall

\* What a step with a given effect on rude leaves to be shown.
LEMMA ResponsesPolite ==
  ASSUME AInv, adapter = "openai-responses", phase = "decode", NEW broken, rude' = (rude \/ broken)
  PROVE  /\ (Polite' => Polite /\ ~broken) /\ rude' \in BOOLEAN /\ mark \in {"none", "begun", "complete"}
         /\ Sound(log, content, Polite') /\ SlotsFit(slots, content) /\ (Polite' => Tracks(slots, log, content))
         /\ (Polite' /\ mark = "complete" => \A i \in Indexes : ~Used(slots, i))
         /\ \A i \in Indexes : slots[i].args \in Nat /\ (Used(slots, i) => slots[i].at \in 1..Len(content))
<1>1. ResponsesInv /\ Sound(log, content, Polite) /\ Scalars
  BY ResponsesFacts
<1>2. (Polite' => Polite /\ ~broken) /\ mark \in {"none", "begun", "complete"}
  BY <1>1 DEF Polite, Scalars
<1>3. Sound(log, content, Polite')
  BY <1>1, <1>2, Weaken
<1>4. rude' \in BOOLEAN
  <2>1. CASE rude
    BY <2>1
  <2>2. CASE ~rude /\ broken
    BY <2>2
  <2>3. CASE ~rude /\ ~broken
    BY <2>3
  <2> QED BY <2>1, <2>2, <2>3
<1>5. \A i \in Indexes : slots[i].args \in Nat /\ (Used(slots, i) => slots[i].at \in 1..Len(content))
  BY <1>1 DEF ResponsesInv, SlotsFit
<1> QED BY <1>1, <1>2, <1>3, <1>4, <1>5 DEF ResponsesInv

\* response.output_item.added, into a slot that may be taken.
LEMMA ResponsesItemAdded ==
  ASSUME AInv, adapter = "openai-responses", Responses!OutputItemAdded
  PROVE  AInv'
<1> DEFINE n == Len(content) + 1
<1>1. PICK i \in Indexes, kind \in Responses!ItemKinds, args \in 0..1 :
        /\ Pushes(<<Start(Block(kind, 0), n)>>, Append(content, Block(kind, 0)),
             [slots EXCEPT ![i] = Responses!Slot(n, args)], stop)
        /\ rude' = (rude \/ slots[i] # Responses!Free \/ args # 0 \/ mark # "none")
  <2>1. PICK i \in Indexes, kind \in Responses!ItemKinds, args \in 0..1 :
        /\ Responses!Keep(<<Responses!Start(Responses!Block(kind, 0), n)>>, Append(content, Responses!Block(kind, 0)),
                          Responses!Created(i, kind, args), stop)
        /\ rude' = (rude \/ slots[i] # Responses!Free \/ args # 0 \/ mark # "none")
    BY DEF Responses!OutputItemAdded
  <2> QED BY <2>1, ResponsesNames DEF Responses!Created, Responses!Keep, Responses!Emit, Pushes
<1>2. phase = "decode" /\ mark' = mark /\ rude' = (rude \/ (Used(slots, i) \/ args # 0 \/ mark # "none"))
  BY <1>1 DEF Responses!OutputItemAdded, Responses!Reading, Used
<1>3. /\ stop \in Reasons /\ log \in Seq(Events) /\ log # <<>> /\ Len(log) # 0 /\ Len(content) \in Nat
           /\ content \in Seq(Blocks)
  BY <1>2, ResponsesFacts
<1>4. /\ (Polite' => Polite /\ ~(Used(slots, i) \/ args # 0 \/ mark # "none")) /\ rude' \in BOOLEAN
           /\ mark \in {"none", "begun", "complete"}
      /\ Sound(log, content, Polite') /\ SlotsFit(slots, content) /\ (Polite' => Tracks(slots, log, content))
      /\ \A j \in Indexes : Used(slots, j) => slots[j].at \in 1..Len(content)
  BY <1>2, ResponsesPolite
<1> DEFINE b == Block(kind, 0)
           E == <<Start(b, n)>>
           D == Append(content, b)
           U == [slots EXCEPT ![i] = Responses!Slot(n, args)]
<1>5. b \in Blocks /\ b.text = 0
  BY DEF Block, Blocks, Responses!ItemKinds, Kinds
<1>6. log' = log \o E /\ content' = D /\ slots' = U
  BY <1>1 DEF Pushes
<1>7. /\ Sound(log \o E, D, Polite') /\ log \o E # <<>> /\ SameEnds(log \o E, log) /\ ~EndedIn(log, n)
           /\ n \in 1..Len(D)
      /\ Len(D) = n /\ D[n] = b /\ \A p \in 1..Len(content) : D[p] = content[p] /\ p \in 1..Len(D)
      /\ \A p \in 1..Len(D) : p \in 1..Len(content) \/ p = n
  BY <1>3, <1>4, <1>5, StartStep
<1>8. n \in Nat /\ args \in Nat /\ \A p \in 1..Len(content) : p # n
  BY <1>3
<1>9. /\ U \in [Indexes -> [at : Nat, args : Nat]]
      /\ U[i].at = n /\ U[i].args = args /\ \A j \in Indexes : j # i => U[j] = slots[j]
  BY <1>4, <1>8 DEF SlotsFit, Responses!Slot
<1> HIDE DEF n, b, E, D, U
<1>10. SlotsFit(U, D)
  <2>1. ASSUME NEW j \in Indexes, Used(U, j) PROVE U[j].at \in 1..Len(D)
    <3>1. CASE j = i
      BY <1>7, <1>9, <3>1
    <3>2. CASE j # i
      BY <1>4, <1>7, <1>9, <2>1, <3>2 DEF Used
    <3> QED BY <3>1, <3>2
  <2> QED BY <1>9, <2>1 DEF SlotsFit
<1>11. ASSUME Polite' PROVE Tracks(U, log \o E, D)
  <2>1. ~Used(slots, i) /\ args = 0 /\ Tracks(slots, log, content)
    BY <1>4, <1>11
  <2>2. ASSUME NEW j \in Indexes, Used(U, j)
        PROVE  /\ ~EndedIn(log \o E, U[j].at)
               /\ D[U[j].at].kind = "toolCall" => U[j].args = D[U[j].at].text
               /\ \A k \in Indexes : Used(U, k) /\ U[k].at = U[j].at => j = k
    <3>1. CASE j = i
      <4>1. ASSUME NEW k \in Indexes, Used(U, k), U[k].at = n, k # i PROVE FALSE
        <5>1. Used(slots, k) /\ slots[k].at = n
          BY <1>9, <4>1 DEF Used
        <5> QED BY <1>4, <1>8, <5>1
      <4> QED BY <1>5, <1>7, <1>9, <2>1, <3>1, <4>1 DEF SameEnds
    <3>2. CASE j # i
      <4>1. U[j] = slots[j] /\ Used(slots, j) /\ slots[j].at \in 1..Len(content)
        BY <1>4, <1>9, <2>2, <3>2 DEF Used
      <4>2. ~EndedIn(log \o E, U[j].at) /\ (D[U[j].at].kind = "toolCall" => U[j].args = D[U[j].at].text)
        BY <1>7, <2>1, <4>1 DEF Tracks, SameEnds
      <4>3. ASSUME NEW k \in Indexes, Used(U, k), U[k].at = U[j].at PROVE j = k
        <5>1. k # i
          BY <1>8, <1>9, <4>1, <4>3
        <5> QED BY <1>9, <2>1, <4>1, <4>3, <5>1 DEF Tracks, Used
      <4> QED BY <4>2, <4>3
    <3> QED BY <3>1, <3>2
  <2>3. ASSUME NEW p \in 1..Len(D) PROVE EndedIn(log \o E, p) \/ \E j \in Indexes : Used(U, j) /\ U[j].at = p
    <3>1. CASE p = n
      <4>1. Responses!Free.at = 0 /\ n # 0
        BY <1>3 DEF Responses!Free, Responses!Slot, n
      <4> QED BY <1>9, <3>1, <4>1 DEF Used
    <3>2. CASE p \in 1..Len(content)
      <4>1. CASE EndedIn(log, p)
        BY <1>7, <4>1 DEF SameEnds
      <4>2. CASE ~EndedIn(log, p)
        <5>1. PICK j \in Indexes : Used(slots, j) /\ slots[j].at = p
          BY <2>1, <3>2, <4>2 DEF Tracks
        <5>2. j # i
          BY <2>1, <5>1
        <5> QED BY <1>9, <5>1, <5>2 DEF Used
      <4> QED BY <4>1, <4>2
    <3> QED BY <1>7, <3>1, <3>2
  <2> QED BY <2>2, <2>3 DEF Tracks
<1>12. ResponsesInv'
  BY <1>2, <1>4, <1>6, <1>10, <1>11 DEF ResponsesInv
<1>13. Pushes(E, D, U, stop)
  BY <1>1 DEF E, D, U, b, n
<1> QED BY <1>2, <1>3, <1>4, <1>6, <1>7, <1>12, <1>13, ResponsesStep

\* A delta of a text or a summary.
LEMMA ResponsesTextDelta ==
  ASSUME AInv, adapter = "openai-responses", Responses!TextDelta
  PROVE  AInv'
<1>1. PICK i \in Indexes :
        /\ Used(slots, i) /\ content[slots[i].at].kind # "toolCall"
        /\ Pushes(<<Delta(content[slots[i].at], slots[i].at)>>, Grown(content, slots[i].at), slots, stop)
  <2>1. PICK i \in Indexes, kind \in Responses!ItemKinds \ {"toolCall"} :
          /\ Responses!Streaming(i, kind)
          /\ Responses!Keep(<<Responses!Delta(content[slots[i].at], slots[i].at)>>, Responses!Grow(slots[i].at),
               slots, stop)
    BY DEF Responses!TextDelta
  <2> QED BY <2>1, ResponsesNames, ResponsesOperators DEF Responses!Keep, Responses!Emit, Pushes
<1>2. phase = "decode" /\ mark' = mark /\ rude' = (rude \/ FALSE)
  <2>1. rude \in BOOLEAN
    BY DEF AInv, Scalars
  <2> QED BY <2>1 DEF Responses!TextDelta, Responses!Reading
<1>3. stop \in Reasons /\ content \in Seq(Blocks) /\ Len(content) \in Nat
  BY <1>2, ResponsesFacts
<1>4. /\ (Polite' => Polite) /\ rude' \in BOOLEAN /\ mark \in {"none", "begun", "complete"}
      /\ Sound(log, content, Polite') /\ SlotsFit(slots, content) /\ (Polite' => Tracks(slots, log, content))
      /\ (Polite' /\ mark = "complete" => \A k \in Indexes : ~Used(slots, k))
      /\ slots[i].at \in 1..Len(content)
  BY <1>1, <1>2, ResponsesPolite
<1> DEFINE p == slots[i].at
<1>5. Polite' => ~EndedIn(log, p)
  BY <1>1, <1>4 DEF Tracks
<1>6. log' = log \o <<Delta(content[p], p)>> /\ content' = Grown(content, p) /\ slots' = slots
  BY <1>1 DEF Pushes
<1>7. /\ Sound(log', content', Polite') /\ log' # <<>> /\ SameEnds(log', log) /\ Same(content', content)
  BY <1>4, <1>5, <1>6, DeltaStep
<1>8. \A q \in 1..Len(content) : q # p => content'[q].text = content[q].text
  BY <1>3, <1>4, <1>6, GrowFacts
<1>9. SlotsFit(slots', content')
  BY <1>4, <1>6, <1>7 DEF SlotsFit, Same
<1>10. ASSUME Polite' PROVE Tracks(slots', log', content')
  <2>1. Tracks(slots, log, content)
    BY <1>4, <1>10
  <2>2. ASSUME NEW j \in Indexes, Used(slots, j), content'[slots[j].at].kind = "toolCall"
        PROVE  slots[j].args = content'[slots[j].at].text
    <3>1. slots[j].at \in 1..Len(content)
      BY <1>4, <2>2 DEF SlotsFit
    <3>2. content[slots[j].at].kind = "toolCall" /\ slots[j].at # p
      BY <1>1, <1>7, <2>2, <3>1 DEF Same
    <3> QED BY <1>8, <2>1, <2>2, <3>1, <3>2 DEF Tracks
  <2> QED BY <1>4, <1>6, <1>7, <2>1, <2>2, TracksOn
<1>11. ResponsesInv'
  BY <1>1, <1>2, <1>4, <1>9, <1>10 DEF ResponsesInv
<1> DEFINE D == Grown(content, p)
           E == <<Delta(content[p], p)>>
<1>12. Pushes(E, D, slots, stop)
  BY <1>1
<1>13. Sound(log', D, Polite')
  BY <1>6, <1>7
<1>14. mark' \in {"none", "begun", "complete"} /\ (log' = <<>> => log = <<>>)
  BY <1>2, <1>4, <1>7
<1> HIDE DEF D, E, p
<1> QED BY <1>2, <1>3, <1>4, <1>11, <1>12, <1>13, <1>14, ResponsesStep

\* Arguments that the slot and the block then hold alike.
LEMMA ResponsesArguments ==
  ASSUME AInv, adapter = "openai-responses", phase = "decode", mark' = mark, NEW broken, rude' = (rude \/ broken),
         NEW i \in Indexes, Used(slots, i), content[slots[i].at].kind = "toolCall", NEW n \in Nat, NEW E,
         Pushes(E, Hold(content, slots[i].at, n), [slots EXCEPT ![i].args = n], stop),
         Polite' => ~broken,
         \/ E = <<>> /\ (broken \/ n = slots[i].args)
         \/ E = <<Delta(content[slots[i].at], slots[i].at)>> /\ n = slots[i].args + 1
  PROVE  AInv'
<1> DEFINE p == slots[i].at
           D == Hold(content, p, n)
           U == [slots EXCEPT ![i].args = n]
<1>1. stop \in Reasons /\ log \in Seq(Events) /\ log # <<>> /\ content \in Seq(Blocks) /\ Len(content) \in Nat
  BY ResponsesFacts
<1>2. /\ (Polite' => Polite /\ ~broken) /\ rude' \in BOOLEAN /\ mark \in {"none", "begun", "complete"}
      /\ Sound(log, content, Polite') /\ SlotsFit(slots, content) /\ (Polite' => Tracks(slots, log, content))
      /\ (Polite' /\ mark = "complete" => \A k \in Indexes : ~Used(slots, k))
      /\ p \in 1..Len(content)
  BY ResponsesPolite
<1>3. Polite' => ~EndedIn(log, p) /\ slots[i].args = content[p].text
  BY <1>2 DEF Tracks
<1>4. log' = log \o E /\ content' = D /\ slots' = U
  BY DEF Pushes
<1>5. /\ SameKinds(D, content)
      /\ \A q \in 1..Len(content) : D[q].text = IF q = p THEN n ELSE content[q].text
      /\ n = content[p].text => D = content
  BY <1>1, <1>2, HoldFacts
<1>6. Sound(log', D, Polite') /\ log' # <<>> /\ SameEnds(log', log)
  <2>1. CASE E = <<>> /\ (broken \/ n = slots[i].args)
    <3>1. log' = log
      BY <1>1, <1>4, <2>1, ConcatOne
    <3>2. Polite' => D = content
      BY <1>2, <1>3, <1>5, <2>1
    <3>3. Sound(log, D, Polite')
      BY <1>2, <1>5, <3>2, RetextSound
    <3> QED BY <1>1, <3>1, <3>3 DEF SameEnds
  <2>2. CASE E = <<Delta(content[p], p)>> /\ n = slots[i].args + 1
    <3>1. Polite' => ~EndedIn(log, p) /\ n = content[p].text + 1
      BY <1>3, <2>2
    <3>2. log' = log \o <<Delta(content[p], p)>>
      BY <1>4, <2>2
    <3> HIDE DEF p
    <3> QED BY <1>2, <3>1, <3>2, HoldStep DEF D
  <2> QED BY <2>1, <2>2
<1> HIDE DEF D
<1>7. Same(D, content) /\ Len(D) = Len(content)
  BY <1>5 DEF SameKinds, Same
<1>8. /\ SlotsFit(U, D)
      /\ \A j \in Indexes : U[j].at = slots[j].at /\ (Used(U, j) <=> Used(slots, j))
           /\ U[j].args = IF j = i THEN n ELSE slots[j].args
  <2>1. SlotsFit(slots, content) /\ Used(slots, i) /\ Len(D) = Len(content)
    BY <1>2, <1>7
  <2>2. n \in Nat /\ i \in Indexes /\ U = PutArgs(slots, i, n)
    BY DEF PutArgs
  <2> HIDE DEF U
  <2> QED BY ONLY <2>1, <2>2, SlotsOn, SMTT(60)
<1> HIDE DEF U
<1>9. ASSUME Polite' PROVE Tracks(U, log', D)
  <2>1. Tracks(slots, log, content)
    BY <1>2, <1>9
  <2>2. ASSUME NEW j \in Indexes, Used(slots, j), D[slots[j].at].kind = "toolCall"
        PROVE  U[j].args = D[slots[j].at].text
    <3>1. slots[j].at \in 1..Len(content)
      BY <1>2, <2>2 DEF SlotsFit
    <3>2. content[slots[j].at].kind = "toolCall"
      BY <1>7, <2>2, <3>1 DEF Same
    <3>3. CASE j = i
      BY <1>2, <1>5, <1>8, <3>3
    <3>4. CASE j # i
      <4>1. slots[j].at # p
        BY <2>1, <2>2, <3>4 DEF Tracks
      <4> QED BY <1>5, <1>8, <2>1, <2>2, <3>1, <3>2, <3>4, <4>1 DEF Tracks
    <3> QED BY <3>3, <3>4
  <2> QED BY <1>2, <1>6, <1>7, <1>8, <2>1, <2>2, TracksOn
<1>10. ResponsesInv'
  BY <1>2, <1>4, <1>8, <1>9 DEF ResponsesInv
<1>11. Pushes(E, D, U, stop)
  BY DEF D, U
<1> QED BY <1>1, <1>2, <1>6, <1>10, <1>11, ResponsesStep

\* response.function_call_arguments.delta.
LEMMA ResponsesArgumentsDelta ==
  ASSUME AInv, adapter = "openai-responses", Responses!ArgumentsDelta
  PROVE  AInv'
<1>1. phase = "decode" /\ mark' = mark /\ rude' = (rude \/ FALSE)
  <2>1. rude \in BOOLEAN
    BY DEF AInv, Scalars
  <2> QED BY <2>1 DEF Responses!ArgumentsDelta, Responses!Reading
<1>2. PICK i \in Indexes :
        /\ Used(slots, i) /\ content[slots[i].at].kind = "toolCall"
        /\ Pushes(<<Delta(content[slots[i].at], slots[i].at)>>, Hold(content, slots[i].at, slots[i].args + 1),
                  [slots EXCEPT ![i].args = slots[i].args + 1], stop)
  BY ResponsesNames, ResponsesOperators
     DEF Responses!ArgumentsDelta, Responses!WithArgs, Responses!Keep, Responses!Emit, Pushes
<1>3. slots[i].args \in Nat
  BY <1>1, ResponsesPolite
<1>4. slots[i].args + 1 \in Nat
  BY <1>3
<1> QED BY <1>1, <1>2, <1>4, ResponsesArguments

\* response.function_call_arguments.done: what is missing becomes a delta.
LEMMA ResponsesArgumentsDone ==
  ASSUME AInv, adapter = "openai-responses", Responses!ArgumentsDone
  PROVE  AInv'
<1>1. phase = "decode" /\ mark' = mark /\ rude \in BOOLEAN
  BY DEF Responses!ArgumentsDone, Responses!Reading, AInv, Scalars
<1>2. PICK i \in Indexes :
        /\ Used(slots, i) /\ content[slots[i].at].kind = "toolCall"
        /\ \/ Pushes(<<>>, Hold(content, slots[i].at, slots[i].args), slots, stop) /\ rude' = rude
           \/ /\ Pushes(<<Delta(content[slots[i].at], slots[i].at)>>, Hold(content, slots[i].at, slots[i].args + 1),
                        [slots EXCEPT ![i].args = slots[i].args + 1], stop)
              /\ rude' = rude
           \/ Pushes(<<>>, Hold(content, slots[i].at, 1), [slots EXCEPT ![i].args = 1], stop) /\ rude' = TRUE
  BY ResponsesNames, ResponsesOperators
     DEF Responses!ArgumentsDone, Responses!WithArgs, Responses!Keep, Responses!Emit, Pushes
<1>3. slots \in [Indexes -> [at : Nat, args : Nat]] /\ slots[i].args \in Nat /\ slots[i].args + 1 \in Nat
        /\ slots[i] \in [at : Nat, args : Nat]
  <2>1. ResponsesInv
    BY <1>1, ResponsesFacts
  <2> QED BY <2>1 DEF ResponsesInv, SlotsFit
<1>4. CASE Pushes(<<>>, Hold(content, slots[i].at, slots[i].args), slots, stop) /\ rude' = rude
  <2>1. slots = [slots EXCEPT ![i].args = slots[i].args]
    BY <1>3
  <2>2. rude' = (rude \/ FALSE)
    BY <1>1, <1>4
  <2>3. Pushes(<<>>, Hold(content, slots[i].at, slots[i].args), [slots EXCEPT ![i].args = slots[i].args], stop)
    BY <1>4, <2>1
  <2> QED BY <1>1, <1>2, <1>3, <2>2, <2>3, ResponsesArguments
<1>5. CASE /\ Pushes(<<Delta(content[slots[i].at], slots[i].at)>>, Hold(content, slots[i].at, slots[i].args + 1),
                     [slots EXCEPT ![i].args = slots[i].args + 1], stop)
           /\ rude' = rude
  <2>1. rude' = (rude \/ FALSE)
    BY <1>1, <1>5
  <2> QED BY <1>1, <1>2, <1>3, <1>5, <2>1, ResponsesArguments
<1>6. CASE Pushes(<<>>, Hold(content, slots[i].at, 1), [slots EXCEPT ![i].args = 1], stop) /\ rude' = TRUE
  <2>1. rude' = (rude \/ TRUE) /\ ~Polite'
    BY <1>6 DEF Polite
  <2> QED BY <1>1, <1>2, <1>6, <2>1, ResponsesArguments
<1> QED BY <1>2, <1>4, <1>5, <1>6

\* response.output_item.done, which frees the slot.
LEMMA ResponsesItemDone ==
  ASSUME AInv, adapter = "openai-responses", Responses!OutputItemDone
  PROVE  AInv'
<1>1. phase = "decode" /\ mark' = mark
  BY DEF Responses!OutputItemDone, Responses!Reading
<1>2. PICK i \in Indexes, n \in Nat :
        /\ slots[i] # Responses!Free /\ n \in 0..(Responses!Held(i) + 1)
        /\ LET p == slots[i].at
               whole == Responses!Block(content[p].kind, n)
           IN  /\ Responses!Keep(<<Responses!End(whole, p)>>, [content EXCEPT ![p] = whole],
                                 Responses!Without(slots, i), stop)
               /\ rude' = (rude \/ (whole.kind # "reasoning" /\ n # Responses!Held(i)))
  BY DEF Responses!OutputItemDone
<1> DEFINE p == slots[i].at
           w == Block(content[p].kind, n)
           broken == content[p].kind # "reasoning" /\ n # Responses!Held(i)
<1>15. Used(slots, i)
  BY <1>2 DEF Used
<1>16. Pushes(<<End(w, p)>>, [content EXCEPT ![p] = w], [slots EXCEPT ![i] = Responses!Free], stop)
  <2>1. Responses!Keep(<<Responses!End(w, p)>>, [content EXCEPT ![p] = w], Responses!Without(slots, i), stop)
    BY <1>2, ResponsesNames
  <2> QED BY <2>1, ResponsesNames DEF Responses!Without, Responses!Keep, Responses!Emit, Pushes
<1>3. /\ stop \in Reasons /\ Len(content) \in Nat /\ \A q \in 1..Len(content) : content[q].kind \in Kinds
           /\ content[q].text \in Nat
  BY <1>1, ResponsesFacts
<1>18. rude' = (rude \/ broken)
  BY <1>2 DEF Responses!Block
<1> HIDE DEF broken
<1>4. /\ (Polite' => Polite /\ ~broken) /\ rude' \in BOOLEAN /\ mark \in {"none", "begun", "complete"}
      /\ Sound(log, content, Polite') /\ SlotsFit(slots, content) /\ (Polite' => Tracks(slots, log, content))
      /\ (Polite' /\ mark = "complete" => \A k \in Indexes : ~Used(slots, k))
      /\ p \in 1..Len(content) /\ slots[i].args \in Nat
  BY <1>1, <1>15, <1>18, ResponsesPolite
<1>5. Polite' => ~EndedIn(log, p) /\ (content[p].kind = "toolCall" => slots[i].args = content[p].text)
  BY <1>4, <1>15 DEF Tracks
<1>6. /\ w \in Blocks /\ w.kind = content[p].kind
      /\ (Polite' => ~EndedIn(log, p) /\ (w.kind # "reasoning" => w.text = content[p].text))
  <2>1. Responses!Held(i) \in Nat /\ content[p].kind \in Kinds
    BY <1>3, <1>4 DEF Responses!Held
  <2>2. n \in Nat
    BY <1>2, <2>1
  <2>3. Polite' /\ content[p].kind # "reasoning" => n = content[p].text
    BY <1>4, <1>5 DEF broken, Responses!Held
  <2> QED BY <1>5, <2>1, <2>2, <2>3 DEF Block, Blocks
<1> HIDE DEF w
<1> DEFINE M == log \o <<End(w, p)>>
           D == [content EXCEPT ![p] = w]
           U == [slots EXCEPT ![i] = Responses!Free]
<1>7. log' = M /\ content' = D /\ slots' = U
  BY <1>16 DEF Pushes
<1>8. /\ Sound(M, D, Polite') /\ M # <<>> /\ Same(D, content)
      /\ \A q : EndedIn(M, q) <=> EndedIn(log, q) \/ q = p
  <2>1. /\ Sound(log, content, Polite') /\ p \in 1..Len(content) /\ w \in Blocks /\ w.kind = content[p].kind
        /\ (Polite' => ~EndedIn(log, p) /\ (w.kind # "reasoning" => w.text = content[p].text))
    BY <1>4, <1>6
  <2>2. /\ Sound(M, Replaced(content, p, w), Polite') /\ M # <<>> /\ Same(Replaced(content, p, w), content)
        /\ \A q : EndedIn(M, q) <=> EndedIn(log, q) \/ q = p
    <3> HIDE DEF p
    <3> QED BY ONLY <2>1, EndStep
  <2> QED BY <2>2 DEF Replaced
<1>17. Len(D) = Len(content) /\ \A q \in 1..Len(content) : q # p => D[q] = content[q]
  <2>1. content \in Seq(Blocks)
    BY <1>1, ResponsesFacts
  <2> HIDE DEF w
  <2> QED BY <2>1
<1> HIDE DEF M, D
<1>9. U \in [Indexes -> [at : Nat, args : Nat]] /\ U[i] = Responses!Free /\ \A j \in Indexes : j # i => U[j] = slots[j]
  <2>1. Responses!Free \in [at : Nat, args : Nat]
    BY DEF Responses!Free, Responses!Slot
  <2> QED BY <1>4, <2>1 DEF SlotsFit
<1> HIDE DEF U
<1>10. \A j \in Indexes : Used(U, j) => j # i /\ Used(slots, j) /\ U[j] = slots[j]
  BY <1>9 DEF Used
<1>11. SlotsFit(U, D)
  BY <1>4, <1>8, <1>9, <1>10 DEF SlotsFit, Same
<1>12. ASSUME Polite' PROVE Tracks(U, M, D)
  <2>1. Tracks(slots, log, content)
    BY <1>4, <1>12
  <2>2. ASSUME NEW j \in Indexes, Used(U, j)
        PROVE  /\ ~EndedIn(M, U[j].at)
               /\ D[U[j].at].kind = "toolCall" => U[j].args = D[U[j].at].text
               /\ \A k \in Indexes : Used(U, k) /\ U[k].at = U[j].at => j = k
    <3>1. U[j] = slots[j] /\ Used(slots, j) /\ j # i
      BY <1>10, <2>2
    <3>2. slots[j].at # p
      BY <1>15, <2>1, <3>1 DEF Tracks
    <3>3. \A k \in Indexes : Used(U, k) /\ U[k].at = U[j].at => j = k
      BY <1>10, <2>1, <3>1 DEF Tracks
    <3>4. D[U[j].at] = content[slots[j].at]
      BY <1>4, <1>17, <3>1, <3>2 DEF SlotsFit
    <3> QED BY <1>8, <2>1, <3>1, <3>2, <3>3, <3>4 DEF Tracks
  <2>3. ASSUME NEW q \in 1..Len(D) PROVE EndedIn(M, q) \/ \E j \in Indexes : Used(U, j) /\ U[j].at = q
    <3>1. CASE EndedIn(log, q) \/ q = p
      BY <1>8, <3>1
    <3>2. CASE ~EndedIn(log, q) /\ q # p
      <4>1. PICK j \in Indexes : Used(slots, j) /\ slots[j].at = q
        BY <1>17, <2>1, <3>2 DEF Tracks
      <4>2. j # i
        BY <3>2, <4>1
      <4> QED BY <1>9, <4>1, <4>2 DEF Used
    <3> QED BY <3>1, <3>2
  <2> QED BY <2>2, <2>3 DEF Tracks
<1>13. ResponsesInv'
  <2>1. Polite' => mark # "complete"
    BY <1>4, <1>15
  <2> QED BY <1>1, <1>7, <1>11, <1>12, <2>1 DEF ResponsesInv
<1>14. Pushes(<<End(w, p)>>, D, U, stop)
  BY <1>16 DEF D, U
<1> QED BY <1>1, <1>3, <1>4, <1>7, <1>8, <1>13, <1>14, ResponsesStep

\* response.output_item.done for an item that was never added.
LEMMA ResponsesUnannounced ==
  ASSUME AInv, adapter = "openai-responses", Responses!UnannouncedItemDone
  PROVE  AInv'
<1> DEFINE n == Len(content) + 1
<1>1. phase = "decode" /\ mark' = mark /\ rude' = (rude \/ TRUE) /\ ~Polite'
  BY DEF Responses!UnannouncedItemDone, Responses!Reading, Polite
<1>2. PICK i \in Indexes, kind \in Responses!ItemKinds, t \in 0..1 :
        Pushes(<<Start(Block(kind, 0), n), End(Block(kind, t), n)>>, Append(content, Block(kind, t)), slots, stop)
  BY ResponsesNames DEF Responses!UnannouncedItemDone, Responses!Keep, Responses!Emit, Pushes
<1>3. /\ stop \in Reasons /\ log \in Seq(Events) /\ Len(content) \in Nat /\ content \in Seq(Blocks) /\ Sound(log,
           content, Polite)
  BY <1>1, ResponsesFacts
<1>4. /\ rude' \in BOOLEAN /\ mark \in {"none", "begun", "complete"} /\ SlotsFit(slots, content)
  BY <1>1, ResponsesPolite
<1> DEFINE b == Block(kind, 0)
           w == Block(kind, t)
           A == Append(content, b)
           D == Append(content, w)
           N == log \o <<Start(b, n)>>
           E == <<Start(b, n), End(w, n)>>
<1>5. b \in Blocks /\ w \in Blocks /\ w.kind = kind /\ b.kind = kind /\ n \in Nat /\ n \in 1..n
  BY <1>3 DEF Block, Blocks, Responses!ItemKinds, Kinds
<1> HIDE DEF b, w
<1>6. Sound(log, content, Polite')
  BY <1>1, <1>3, Weaken
<1>7. Sound(N, A, Polite') /\ n \in 1..Len(A) /\ Len(A) = n /\ A[n] = b
  <2>1. b \in Blocks /\ (Polite' \/ OwnStart => Len(log) # 0)
    BY <1>1, <1>3, <1>5, ResponsesFacts
  <2> QED BY ONLY <1>6, <2>1, StartStep
<1>8. log \o E = N \o <<End(w, n)>>
  <2>1. Start(b, n) \in Events /\ End(w, n) \in Events
    BY <1>5, EventTypes
  <2>2. log \o E = Append(Append(log, Start(b, n)), End(w, n)) /\ N = Append(log, Start(b, n))
    BY <1>3, <2>1, ConcatTwo, ConcatOne
  <2>3. Append(log, Start(b, n)) \in Seq(Events)
    BY <1>3, <2>1
  <2> QED BY <2>1, <2>2, <2>3, ConcatOne
<1>9. [A EXCEPT ![n] = w] = D /\ Len(D) = n
  <2>1. A \in Seq(Blocks) /\ Len(A) = n /\ D \in Seq(Blocks) /\ Len(D) = n
    BY <1>3, <1>5
  <2>2. \A q \in 1..n : A[q] = (IF q = n THEN b ELSE content[q]) /\ D[q] = (IF q = n THEN w ELSE content[q])
    BY <1>3, <1>5
  <2> HIDE DEF A, D
  <2>3. A = [q \in 1..n |-> A[q]] /\ D = [q \in 1..n |-> D[q]]
    BY <2>1
  <2>4. [A EXCEPT ![n] = w] = [q \in 1..n |-> IF q = n THEN w ELSE A[q]]
    BY <2>3
  <2>5. \A q \in 1..n : (IF q = n THEN w ELSE A[q]) = D[q]
    BY <2>2
  <2> QED BY <2>1, <2>3, <2>4, <2>5
<1>10. Sound(log \o E, D, Polite') /\ log \o E # <<>>
  <2>1. w.kind = A[n].kind
    BY <1>5, <1>7
  <2> DEFINE M == N \o <<End(w, n)>>
             F == [A EXCEPT ![n] = w]
  <2> HIDE DEF N, A
  <2>2. /\ Sound(N, A, Polite') /\ n \in 1..Len(A) /\ w \in Blocks /\ w.kind = A[n].kind
        /\ (Polite' => ~EndedIn(N, n) /\ (w.kind # "reasoning" => w.text = A[n].text))
    BY <1>1, <1>5, <1>7, <2>1
  <2>4. Sound(M, Replaced(A, n, w), Polite') /\ M # <<>>
    <3> HIDE DEF n
    <3> QED BY ONLY <2>2, EndStep
  <2>3. Sound(M, F, Polite') /\ M # <<>>
    BY <2>4 DEF Replaced
  <2> HIDE DEF D, E, M, F
  <2> QED BY <1>8, <1>9, <2>3 DEF M, F
<1> HIDE DEF E, D
<1>11. log' = log \o E /\ content' = D /\ slots' = slots
  BY <1>2 DEF Pushes, E, D, b, w
<1>12. ResponsesInv'
  <2>1. \A p \in 1..Len(content) : p \in 1..n
    BY <1>3
  <2>2. SlotsFit(slots, D)
    BY <1>4, <1>9, <2>1 DEF SlotsFit
  <2> QED BY <1>1, <1>11, <2>2 DEF ResponsesInv
<1>13. Sound(log', D, Polite')
  BY <1>10, <1>11
<1>14. Pushes(E, D, slots, stop)
  BY <1>2 DEF E, D, b, w
<1> QED BY <1>1, <1>3, <1>4, <1>10, <1>11, <1>12, <1>13, <1>14, ResponsesStep

\* response.completed, politely sent when every slot is free.
LEMMA ResponsesCompleted ==
  ASSUME AInv, adapter = "openai-responses", Responses!ResponseCompleted
  PROVE  AInv'
<1>1. /\ phase = "decode" /\ mark' = "complete"
      /\ rude' = (rude \/ (mark # "none" \/ \E i \in Indexes : Used(slots, i)))
  BY DEF Responses!ResponseCompleted, Responses!Reading, Used
<1>2. PICK status \in DOMAIN Responses!StatusReason : Pushes(<<>>, content, slots,
             Responses!Upgraded(Responses!StatusReason[status]))
  BY DEF Responses!ResponseCompleted, Responses!Keep, Responses!Emit, Pushes
<1> DEFINE why == Responses!Upgraded(Responses!StatusReason[status])
<1>3. why \in Reasons /\ (HasToolCall(content) => why # "stop")
  BY ResponsesOperators DEF Responses!Upgraded, Responses!StatusReason, Reasons
<1> HIDE DEF why
<1>4. log \in Seq(Events)
  BY <1>1, ResponsesFacts
<1>5. /\ (Polite' => Polite /\ ~(mark # "none" \/ \E i \in Indexes : Used(slots, i))) /\ rude' \in BOOLEAN
      /\ Sound(log, content, Polite') /\ SlotsFit(slots, content) /\ (Polite' => Tracks(slots, log, content))
  BY <1>1, ResponsesPolite
<1>6. log' = log /\ content' = content /\ slots' = slots /\ stop' = why
  BY <1>2, <1>4, ConcatOne DEF Pushes, why
<1>7. ResponsesInv'
  BY <1>3, <1>5, <1>6 DEF ResponsesInv, HasToolCall
<1> QED BY <1>1, <1>2, <1>3, <1>5, <1>6, <1>7, ResponsesStep DEF why

\* The stream is over: with an answer, if it was completed.
LEMMA ResponsesEndOfStream ==
  ASSUME AInv, adapter = "openai-responses", Responses!EndOfStream
  PROVE  AInv'
<1>1. phase = "decode" /\ ResponsesInv /\ stop \in Reasons
  BY ResponsesFacts DEF Responses!EndOfStream
<1>2. CASE mark # "complete"
  BY <1>1, <1>2, ResponsesFail, FailStep DEF Responses!EndOfStream
<1>3. CASE mark = "complete"
  <2>1. Fails(<<>>) \/ Closes(<<>>, "done", stop)
    BY <1>1, <1>3, ResponsesConclude DEF Responses!EndOfStream
  <2>2. Whole(log, stop)
    BY <1>1, <1>3 DEF Whole, ResponsesInv, Tracks
  <2> QED BY <1>1, <2>1, <2>2, ConcludeStep
<1> QED BY <1>2, <1>3

\* No step of ResponsesStream breaks the invariant.
LEMMA ResponsesRun ==
  ASSUME AInv, adapter = "openai-responses", Responses!Run \/ Responses!RunAzure
  PROVE  AInv'
<1>1. CASE Responses!ResponseFailed
  BY <1>1, ResponsesFail, FailStep DEF Responses!ResponseFailed, Responses!Reading
<1>2. CASE Responses!SetUp \/ Responses!SetUpAzure \/ Responses!Request
  BY <1>2, ResponsesSetUp
<1> QED BY <1>1, <1>2, ResponsesItemAdded, ResponsesTextDelta, ResponsesArgumentsDelta, ResponsesArgumentsDone,
           ResponsesItemDone, ResponsesUnannounced, ResponsesCompleted, ResponsesEndOfStream
        DEF Responses!Run, Responses!RunAzure, Responses!Frames

-----------------------------------------------------------------------------
(* The replay of the faux provider                                         *)

\* The events and blocks of FauxStream are those of AdapterStream.
LEMMA FauxNames ==
  /\ \A b, p : /\ Faux!Start(b, p) = Start(b, p) /\ Faux!Delta(b, p) = Delta(b, p)
               /\ Faux!End(b, p) = End(b, p)
  /\ Faux!Begin = Begin
  /\ \A type, reason : Faux!Terminal(type, reason) = Terminal(type, reason)
  /\ \A kind, text : Faux!Block(kind, text) = Block(kind, text)
  BY DEF Faux!Start, Faux!Delta, Faux!End, Faux!Event, Faux!Begin, Faux!Terminal, Faux!Block,
     Start, Delta, End, Event, Begin, Terminal, Block

\* The message of this call, and how far it got.
LEMMA FauxFacts ==
  ASSUME AInv, adapter = "faux", phase \notin {"closed", "crashed"}
  PROVE  /\ FauxInv /\ Sound(log, content, Polite) /\ Scalars /\ stop \in Reasons /\ ~rude /\ Polite
         /\ log \in Seq(Events) /\ content \in Seq(Blocks) /\ Len(content) \in Nat /\ Len(log) \in Nat
         /\ slots.message.content \in Seq(Blocks) /\ Len(slots.message.content) \in Nat
         /\ slots.message.stop \in Labels /\ slots.done \in Nat /\ slots.sent \in Nat
<1>1. Sound(log, content, Polite) /\ FauxInv /\ Scalars
  BY DEF AInv, TableInv
<1>2. stop \in Reasons
  BY <1>1 DEF Scalars
<1>3. ~rude /\ Polite
  BY <1>1 DEF FauxInv, Polite
<1>4. /\ slots.message \in [content : Seq(Blocks), stop : Reasons \cup {"aborted"}]
      /\ slots.done \in Nat /\ slots.sent \in Nat
  <2> DEFINE Said == [kind : Kinds \ {"reasoning"}, text : Nat]
  <2>1. Said \subseteq Blocks
    BY DEF Blocks
  <2>2. /\ slots.message \in [content : Seq(Said), stop : Reasons \cup {"aborted"}]
        /\ slots.done \in Nat /\ slots.sent \in Nat
    BY <1>1 DEF FauxInv
  <2> HIDE DEF Said
  <2>3. slots.message.content \in Seq(Blocks)
    BY <2>1, <2>2
  <2> QED BY <2>2, <2>3
<1>5. slots.message.content \in Seq(Blocks) /\ slots.message.stop \in Reasons \cup {"aborted"}
  BY <1>4
<1>6. slots.message.stop \in Labels
  BY <1>5 DEF Labels
<1>7. Len(slots.message.content) \in Nat
  BY <1>5
<1> QED BY <1>1, <1>2, <1>3, <1>4, <1>5, <1>6, <1>7, SoundTypes

\* A replay ends with what an error event says.
LEMMA FauxError ==
  ASSUME AInv, adapter = "faux", phase \notin {"closed", "crashed"}, NEW reason \in Labels,
         log' = log \o <<Terminal("error", reason)>>, phase' = "closed", Untouched
  PROVE  AInv'
<1>1. Append(<<>>, Terminal("error", reason)) = <<Terminal("error", reason)>>
  OBVIOUS
<1>2. Fails(<<>>)
  BY <1>1 DEF Fails, Closes
<1> QED BY <1>2, FailStep

\* FauxFail and Abort.
LEMMA FauxFailed ==
  ASSUME AInv, adapter = "faux", phase \notin {"closed", "crashed"}, Faux!FauxFail \/ Faux!Abort
  PROVE  AInv'
<1>1. "error" \in Labels /\ "aborted" \in Labels
  BY DEF Labels, Reasons
<1>2. \/ log' = log \o <<Terminal("error", "error")>>
      \/ log' = log \o <<Terminal("error", "aborted")>>
  BY FauxNames DEF Faux!FauxFail, Faux!Abort, Faux!Emit
<1>3. phase' = "closed" /\ Untouched
  BY DEF Faux!FauxFail, Faux!Abort, Untouched
<1> QED BY <1>1, <1>2, <1>3, FauxError

\* Respond takes the next canned message, or fails.
LEMMA FauxRespond ==
  ASSUME AInv, adapter = "faux", Faux!Respond
  PROVE  AInv'
<1>1. CASE Faux!FauxFail
  BY <1>1, FauxFailed DEF Faux!Respond
<1>2. CASE ~Faux!FauxFail
  <2>1. PICK m \in Canned : /\ slots' = Faux!At(m, 0, 0) /\ phase' = "request" /\ phase = "setup"
                            /\ UNCHANGED <<adapter, ctx, content, stop, mark, log, rude>>
    BY <1>2 DEF Faux!Respond
  <2>2. m \in [content : Seq([kind : Kinds \ {"reasoning"}, text : Nat]), stop : Reasons \cup {"aborted"}]
    BY CannedAssumption
  <2>3. FauxInv /\ Sound(log, content, Polite) /\ Scalars /\ log = <<>> /\ content = <<>> /\ ~rude /\ mark = "none"
    BY <2>1, FauxFacts DEF AInv, Early
  <2>4. /\ log' = log /\ content' = content /\ rude' = rude /\ mark' = mark /\ phase' = "request" /\ adapter' = adapter
        /\ stop' = stop /\ ctx' = ctx
    BY <2>1
  <2>5. Sound(log, content, Polite)'
    BY <2>3, <2>4 DEF Polite, Sound, OwnStart
  <2>6. Scalars' /\ Early'
    BY <2>3, <2>4 DEF Scalars, Early
  <2>7. FauxInv'
    <3>1. slots' = [message |-> m, done |-> 0, sent |-> 0]
      BY <2>1 DEF Faux!At
    <3>2. /\ slots'.message = m /\ slots'.done = 0 /\ slots'.sent = 0
          /\ slots' \in [message : [content : Seq([kind : Kinds \ {"reasoning"}, text : Nat]), stop : Reasons \cup {"aborted"}],
                         done : Nat, sent : Nat]
      BY <2>2, <3>1
    <3>3. m.content \in Seq([kind : Kinds \ {"reasoning"}, text : Nat])
      BY <2>2
    <3>4. Len(m.content) \in Nat /\ Len(content) = 0
      BY <2>3, <3>3
    <3> QED BY <2>2, <2>3, <2>4, <3>2, <3>4 DEF FauxInv
  <2> QED BY <2>4, <2>5, <2>6, <2>7 DEF AInv, TableInv
<1> QED BY <1>1, <1>2

\* Open pushes the start event, unless the context is done.
LEMMA FauxOpen ==
  ASSUME AInv, adapter = "faux", Faux!Open
  PROVE  AInv'
<1>1. CASE Faux!Abort
  BY <1>1, FauxFailed DEF Faux!Open
<1>2. CASE ~Faux!Abort
  <2>1. phase = "request" /\ Passes("decode", <<Begin>>)
    BY <1>2, FauxNames DEF Faux!Open, Faux!Emit, Passes, Untouched
  <2> QED BY <2>1, PassDecode
<1> QED BY <1>1, <1>2

\* A step of the replay that goes on.
LEMMA FauxStep ==
  ASSUME AInv, adapter = "faux", phase = "decode", NEW E, NEW D, NEW T, Pushes(E, D, T, stop),
         UNCHANGED <<mark, rude>>, Sound(log', D, Polite), log' # <<>>, FauxInv'
  PROVE  AInv'
<1>1. stop \in Reasons /\ Scalars
  BY FauxFacts
<1>2. mark' \in {"none", "begun", "complete"} /\ rude' \in BOOLEAN /\ Polite' = Polite
  BY <1>1 DEF Scalars, Polite
<1>3. TableInv'
  BY DEF Pushes, TableInv
<1> QED BY <1>1, <1>2, <1>3, KeepReading

\* StartBlock.
LEMMA FauxStartBlock ==
  ASSUME AInv, adapter = "faux", Faux!StartBlock
  PROVE  AInv'
<1>1. phase = "decode" /\ slots.done < Len(slots.message.content) /\ ~(Len(content) > slots.done)
  BY DEF Faux!StartBlock, Faux!More, Faux!InBlock
<1>2. CASE Faux!Abort
  BY <1>1, <1>2, FauxFailed
<1>3. CASE ~Faux!Abort
  <2> DEFINE n == slots.done + 1
             b == Block(slots.message.content[n].kind, 0)
             D == Append(content, b)
             E == <<Start(b, n)>>
  <2>1. Pushes(E, D, slots, stop) /\ UNCHANGED <<mark, rude>>
    BY <1>3, FauxNames DEF Faux!StartBlock, Faux!Current, Faux!here, Faux!Keep, Faux!Emit, Pushes
  <2>2. /\ FauxInv /\ Sound(log, content, Polite) /\ ~rude /\ Polite /\ Len(content) \in Nat
        /\ slots.message.content \in Seq(Blocks) /\ Len(slots.message.content) \in Nat /\ slots.done \in Nat
        /\ log \in Seq(Events) /\ log # <<>> /\ Len(log) # 0 /\ content \in Seq(Blocks)
    BY <1>1, FauxFacts DEF AInv, Early
  <2>3. Len(content) = slots.done /\ slots.sent = 0 /\ n = Len(content) + 1 /\ n \in 1..Len(slots.message.content)
    BY <1>1, <2>2 DEF FauxInv
  <2>4. slots.message.content[n].kind \in Kinds
    <3>1. slots.message.content[n] \in Blocks
      BY <2>2, <2>3
    <3> QED BY <3>1 DEF Blocks
  <2>5. b \in Blocks
    BY <2>4 DEF Block, Blocks
  <2>6. /\ Sound(log \o E, D, Polite) /\ log \o E # <<>> /\ SameEnds(log \o E, log) /\ ~EndedIn(log, n)
        /\ Len(D) = n /\ D[n] = b /\ \A p \in 1..Len(D) : p \in 1..Len(content) \/ p = n
    <3> HIDE DEF b, n
    <3>1. Sound(log, content, Polite) /\ b \in Blocks /\ (Polite \/ OwnStart => Len(log) # 0)
      BY <2>2, <2>5
    <3>2. /\ Sound(log \o <<Start(b, Len(content) + 1)>>, D, Polite) /\ log \o <<Start(b, Len(content) + 1)>> # <<>>
          /\ SameEnds(log \o <<Start(b, Len(content) + 1)>>, log) /\ ~EndedIn(log, Len(content) + 1)
          /\ Len(D) = Len(content) + 1 /\ D[Len(content) + 1] = b
          /\ \A p \in 1..Len(D) : p \in 1..Len(content) \/ p = Len(content) + 1
      BY ONLY <3>1, StartStep
    <3> HIDE DEF D
    <3> QED BY <2>3, <3>2
  <2> HIDE DEF D, E
  <2>7. log' = log \o E /\ content' = D /\ slots' = slots /\ rude' = rude
    BY <2>1 DEF Pushes
  <2>8. \A p \in 1..Len(D) : EndedIn(log \o E, p) <=> p <= slots.done
    <3>1. \A p \in 1..Len(content) : EndedIn(log, p) <=> p <= slots.done
      BY <2>2 DEF FauxInv
    <3>2. ~(n <= slots.done)
      BY <2>2
    <3> HIDE DEF n
    <3> QED BY <2>6, <3>1, <3>2 DEF SameEnds
  <2>9. slots.done <= n /\ n <= slots.done + 1 /\ n <= Len(slots.message.content) /\ n # slots.done
    BY <2>2, <2>3
  <2>10. D[slots.done + 1] = Block(slots.message.content[slots.done + 1].kind, slots.sent)
    BY <2>3, <2>6
  <2>11. FauxInv'
    <3> HIDE DEF n, b
    <3> QED BY <2>2, <2>6, <2>7, <2>8, <2>9, <2>10 DEF FauxInv
  <2> QED BY <1>1, <2>1, <2>6, <2>7, <2>11, FauxStep
<1> QED BY <1>2, <1>3

\* The block that is under way.
LEMMA FauxCurrent ==
  ASSUME AInv, adapter = "faux", Faux!InBlock
  PROVE  LET n == slots.done + 1
             whole == slots.message.content[n]
         IN  /\ phase = "decode" /\ n \in 1..Len(content) /\ Len(content) = n /\ n <= Len(slots.message.content)
             /\ whole \in Blocks /\ whole.kind \in Kinds /\ whole.text \in Nat
             /\ content[n] = Block(whole.kind, slots.sent) /\ ~EndedIn(log, n)
             /\ FauxInv /\ Sound(log, content, Polite) /\ ~rude /\ Polite
             /\ slots.done \in Nat /\ slots.sent \in Nat /\ content \in Seq(Blocks) /\ log # <<>>
             /\ slots \in [message : [content : Seq([kind : Kinds \ {"reasoning"}, text : Nat]), stop : Reasons \cup {"aborted"}],
                           done : Nat, sent : Nat]
<1> DEFINE n == slots.done + 1
           whole == slots.message.content[n]
<1>1. phase = "decode" /\ slots.done < Len(slots.message.content) /\ Len(content) > slots.done
  BY DEF Faux!More, Faux!InBlock
<1>2. /\ FauxInv /\ Sound(log, content, Polite) /\ ~rude /\ Polite /\ Len(content) \in Nat
      /\ slots.message.content \in Seq(Blocks) /\ Len(slots.message.content) \in Nat /\ slots.done \in Nat
           /\ slots.sent \in Nat
      /\ content \in Seq(Blocks) /\ log # <<>>
  BY <1>1, FauxFacts DEF AInv, Early
<1>3. Len(content) = n /\ n \in 1..Len(content) /\ n <= Len(slots.message.content) /\ ~(n <= slots.done)
        /\ n \in 1..Len(slots.message.content)
  BY <1>1, <1>2 DEF FauxInv
<1>4. whole \in Blocks
  BY <1>2, <1>3
<1>5. whole.kind \in Kinds /\ whole.text \in Nat
  BY <1>4 DEF Blocks
<1>6. content[n] = Block(whole.kind, slots.sent)
  BY <1>2, <1>3 DEF FauxInv
<1>7. ~EndedIn(log, n)
  BY <1>2, <1>3 DEF FauxInv
<1>8. slots \in [message : [content : Seq([kind : Kinds \ {"reasoning"}, text : Nat]), stop : Reasons \cup {"aborted"}],
                 done : Nat, sent : Nat]
  BY <1>2 DEF FauxInv
<1> QED BY <1>1, <1>2, <1>3, <1>4, <1>5, <1>6, <1>7, <1>8

\* SendChunk.
LEMMA FauxSendChunk ==
  ASSUME AInv, adapter = "faux", Faux!SendChunk
  PROVE  AInv'
<1> DEFINE n == slots.done + 1
           whole == slots.message.content[n]
<1>1. Faux!InBlock
  BY DEF Faux!SendChunk
<1>2. /\ phase = "decode" /\ n \in 1..Len(content) /\ Len(content) = n /\ n <= Len(slots.message.content)
      /\ whole \in Blocks /\ whole.kind \in Kinds /\ whole.text \in Nat
      /\ content[n] = Block(whole.kind, slots.sent) /\ ~EndedIn(log, n)
      /\ FauxInv /\ Sound(log, content, Polite) /\ ~rude /\ Polite
      /\ slots.done \in Nat /\ slots.sent \in Nat /\ content \in Seq(Blocks) /\ log # <<>>
      /\ slots \in [message : [content : Seq([kind : Kinds \ {"reasoning"}, text : Nat]), stop : Reasons \cup {"aborted"}],
                    done : Nat, sent : Nat]
  BY <1>1, FauxCurrent
<1>3. CASE Faux!Abort
  BY <1>2, <1>3, FauxFailed
<1>4. CASE ~Faux!Abort
  <2> DEFINE D == Grown(content, n)
             E == <<Delta(content[n], n)>>
             T == [slots EXCEPT !.sent = @ + 1]
  <2>1. Pushes(E, D, T, stop) /\ UNCHANGED <<mark, rude>>
    BY <1>4, FauxNames DEF Faux!SendChunk, Faux!here, Faux!Grow, Grown, Faux!Keep, Faux!Emit, Pushes
  <2>2. log' = log \o E /\ content' = D /\ slots' = T /\ rude' = rude
    BY <2>1 DEF Pushes
  <2>3. /\ T.message = slots.message /\ T.done = slots.done /\ T.sent = slots.sent + 1 /\ slots.sent + 1 \in Nat
        /\ T \in [message : [content : Seq([kind : Kinds \ {"reasoning"}, text : Nat]), stop : Reasons \cup {"aborted"}],
                  done : Nat, sent : Nat]
    BY <1>2
  <2>4. /\ Sound(log \o E, D, Polite) /\ log \o E # <<>> /\ SameEnds(log \o E, log) /\ Same(D, content)
    <3> HIDE DEF n
    <3> QED BY <1>2, DeltaStep
  <2>5. D[n] \in Blocks /\ D[n].kind = whole.kind /\ D[n].text = slots.sent + 1
    <3>1. /\ D[n] \in Blocks /\ D[n].kind = content[n].kind
          /\ D[n].text = content[n].text + 1
      <4> HIDE DEF n
      <4> QED BY <1>2, GrowFacts
    <3>2. content[n].kind = whole.kind /\ content[n].text = slots.sent
      <4> HIDE DEF n, whole
      <4> QED BY <1>2 DEF Block
    <3> HIDE DEF D, n, whole
    <3> QED BY <3>1, <3>2
  <2>6. D[n] = Block(whole.kind, slots.sent + 1)
    <3> HIDE DEF D, n, whole
    <3> QED BY <2>5 DEF Block, Blocks
  <2> HIDE DEF D, E, T
  <2>7. Len(D) = Len(content)
    BY <2>4 DEF Same
  <2>8. \A p \in 1..Len(D) : EndedIn(log \o E, p) <=> p <= slots.done
    BY <1>2, <2>4, <2>7 DEF SameEnds, FauxInv
  <2>9. Len(content) # slots.done
    BY <1>2
  <2>10. FauxInv'
    BY <1>2, <2>2, <2>3, <2>6, <2>7, <2>8, <2>9 DEF FauxInv
  <2> QED BY <1>2, <2>1, <2>2, <2>4, <2>10, FauxStep
<1> QED BY <1>3, <1>4

\* EndBlock: what was sent is what the canned message has.
LEMMA FauxEndBlock ==
  ASSUME AInv, adapter = "faux", Faux!EndBlock
  PROVE  AInv'
<1> DEFINE n == slots.done + 1
           whole == slots.message.content[n]
<1>1. Faux!InBlock /\ slots.sent = whole.text
  BY DEF Faux!EndBlock, Faux!Current
<1>2. /\ phase = "decode" /\ n \in 1..Len(content) /\ Len(content) = n /\ n <= Len(slots.message.content)
      /\ whole \in Blocks /\ whole.kind \in Kinds /\ whole.text \in Nat
      /\ content[n] = Block(whole.kind, slots.sent) /\ ~EndedIn(log, n)
      /\ FauxInv /\ Sound(log, content, Polite) /\ ~rude /\ Polite
      /\ slots.done \in Nat /\ slots.sent \in Nat /\ content \in Seq(Blocks) /\ log # <<>>
      /\ slots \in [message : [content : Seq([kind : Kinds \ {"reasoning"}, text : Nat]), stop : Reasons \cup {"aborted"}],
                    done : Nat, sent : Nat]
  BY <1>1, FauxCurrent
<1>3. content[n] = whole
  <2> HIDE DEF n, whole
  <2> QED BY <1>1, <1>2 DEF Block, Blocks
<1>4. [content EXCEPT ![n] = whole] = content
  <2> HIDE DEF n, whole
  <2> QED BY <1>2, <1>3
<1> DEFINE E == <<End(content[n], n)>>
           T == [message |-> slots.message, done |-> n, sent |-> 0]
<1>5. Pushes(E, content, T, stop) /\ UNCHANGED <<mark, rude>>
  <2>1. /\ log' = log \o <<End(whole, n)>> /\ content' = [content EXCEPT ![n] = whole] /\ slots' = T /\ stop' = stop
        /\ UNCHANGED <<adapter, phase, ctx>> /\ UNCHANGED <<mark, rude>>
    BY FauxNames DEF Faux!EndBlock, Faux!here, Faux!Current, Faux!At, Faux!Keep, Faux!Emit
  <2> HIDE DEF n, whole, T
  <2> QED BY <1>3, <1>4, <2>1 DEF Pushes
<1>6. log' = log \o E /\ content' = content /\ slots' = T /\ rude' = rude
  BY <1>5 DEF Pushes
<1>7. /\ T.message = slots.message /\ T.done = n /\ T.sent = 0 /\ n \in Nat
      /\ T \in [message : [content : Seq([kind : Kinds \ {"reasoning"}, text : Nat]), stop : Reasons \cup {"aborted"}],
                done : Nat, sent : Nat]
  BY <1>2
<1>8. /\ Sound(log \o E, content, Polite) /\ log \o E # <<>>
      /\ \A q : EndedIn(log \o E, q) <=> EndedIn(log, q) \/ q = n
  <2> HIDE DEF n
  <2>1. Sound(log, content, Polite) /\ n \in 1..Len(content) /\ (Polite => ~EndedIn(log, n))
    BY <1>2
  <2> QED BY <2>1, EndAsIs
<1> HIDE DEF E, T
<1>9. \A p \in 1..Len(content) : EndedIn(log \o E, p) <=> p <= n
  <2>1. \A p \in 1..Len(content) : EndedIn(log, p) <=> p <= slots.done
    BY <1>2 DEF FauxInv
  <2>2. slots.done \in Nat /\ n = slots.done + 1 /\ Len(content) = n
    BY <1>2
  <2> HIDE DEF n
  <2> QED BY <1>8, <2>1, <2>2
<1>10. Len(content) = n /\ n <= n + 1 /\ Len(content) # n + 1
  BY <1>2
<1>11. FauxInv'
  <2> HIDE DEF n
  <2> QED BY <1>2, <1>6, <1>7, <1>9, <1>10 DEF FauxInv
<1> QED BY <1>2, <1>5, <1>6, <1>8, <1>11, FauxStep

\* Finish: every block of the message has ended.
LEMMA FauxFinish ==
  ASSUME AInv, adapter = "faux", Faux!Finish
  PROVE  AInv'
<1> DEFINE reason == slots.message.stop
<1>1. phase = "decode" /\ slots.done = Len(slots.message.content) /\ phase' = "closed" /\ Untouched
  BY DEF Faux!Finish, Untouched
<1>2. /\ FauxInv /\ Sound(log, content, Polite) /\ Scalars /\ reason \in Labels /\ log \in Seq(Events)
      /\ Len(content) \in Nat /\ Len(slots.message.content) \in Nat
  BY <1>1, FauxFacts
<1>3. log' = log \o <<IF reason \in {"error", "aborted"} THEN Terminal("error", reason) ELSE Terminal("done", reason)>>
  BY FauxNames DEF Faux!Finish, Faux!Emit
<1> HIDE DEF reason
<1>4. CASE reason \in {"error", "aborted"}
  BY <1>1, <1>2, <1>3, <1>4, FauxError
<1>5. CASE reason \notin {"error", "aborted"}
  <2>1. Append(<<>>, Terminal("done", reason)) = <<Terminal("done", reason)>>
    OBVIOUS
  <2>2. Closes(<<>>, "done", reason)
    BY <1>1, <1>3, <1>5, <2>1 DEF Closes
  <2>3. Whole(log, reason)
    BY <1>1, <1>2 DEF FauxInv, Whole
  <2>4. log \o <<>> = log /\ <<>> \in Seq(Events)
    BY <1>2, SoundTypes
  <2> QED BY <1>1, <1>2, <2>2, <2>3, <2>4, CloseDone
<1> QED BY <1>4, <1>5

\* No step of FauxStream breaks the invariant.
LEMMA FauxRun ==
  ASSUME AInv, adapter = "faux", Faux!Run
  PROVE  AInv'
  BY FauxRespond, FauxOpen, FauxStartBlock, FauxSendChunk, FauxEndBlock, FauxFinish DEF Faux!Run

-----------------------------------------------------------------------------
(* All of them                                                             *)

\* Nothing is sound.
LEMMA SoundEmpty ==
  ASSUME NEW s
  PROVE  Sound(<<>>, <<>>, s)
<1>1. <<>> \in Seq(Events) /\ <<>> \in Seq(Blocks) /\ Len(<<>>) = 0 /\ \A i \in 1..0 : FALSE
  OBVIOUS
<1> QED BY <1>1 DEF Sound, Open, Loose, Named, Started, Strict, BeginFirst, EndsLast, EndsWhole, Gathered

\* The table each adapter starts with.
LEMMA InitTable ==
  ASSUME content = <<>>, log = <<>>, mark = "none", ~rude, NEW table, slots = table,
         \/ adapter = "anthropic" /\ table = <<>>
         \/ adapter = "openai-responses" /\ table = [i \in Indexes |-> Responses!Free]
         \/ adapter = "openai-completions" /\ table = Completions!NoBlocks
         \/ adapter = "google" /\ table = 0
         \/ adapter = "mistral" /\ table = [current |-> 0, byKey |-> [k \in Mistral!CallKeys |-> 0]]
         \/ adapter = "bedrock" /\ table = [i \in Indexes |-> 0]
         \/ adapter = "faux" /\ table = Faux!At(Faux!Nothing, 0, 0)
  PROVE  TableInv
<1>1. Len(content) = 0 /\ Len(log) = 0 /\ \A p \in 1..0 : FALSE
  OBVIOUS
<1>2. \A p : ~EndedIn(log, p)
  BY <1>1 DEF EndedIn
<1>3. CASE adapter = "anthropic" /\ table = <<>>
  <2>1. slots \in Seq(Indexes) /\ Len(slots) = Len(content)
    BY <1>1, <1>3
  <2>2. \A i \in 1..Len(log) : FALSE
    BY <1>1
  <2> QED BY <1>1, <1>3, <2>1, <2>2 DEF TableInv, AnthropicInv, AllClosed
<1>4. CASE adapter = "openai-responses" /\ table = [i \in Indexes |-> Responses!Free]
  <2>1. Responses!Free \in [at : Nat, args : Nat]
    BY DEF Responses!Free, Responses!Slot
  <2>2. slots \in [Indexes -> [at : Nat, args : Nat]] /\ \A i \in Indexes : ~Used(slots, i)
    BY <1>4, <2>1 DEF Used
  <2>3. SlotsFit(slots, content) /\ Tracks(slots, log, content)
    BY <1>1, <2>2 DEF SlotsFit, Tracks
  <2> QED BY <1>4, <2>3 DEF TableInv, ResponsesInv
<1>5. CASE adapter = "openai-completions" /\ table = Completions!NoBlocks
  <2>1. /\ slots \in [text : Nat, thinking : Nat, field : {"none", "reasoning_content", "reasoning"},
                      byIndex : [Indexes -> Nat], byId : [Indexes -> Nat]]
        /\ slots.text = 0 /\ slots.thinking = 0 /\ \A i \in Indexes : slots.byIndex[i] = 0 /\ slots.byId[i] = 0
    BY <1>5 DEF Completions!NoBlocks
  <2> QED BY <1>1, <1>5, <2>1 DEF TableInv, CompletionsInv, Places, KindAt
<1>6. CASE adapter = "google" /\ table = 0
  BY <1>1, <1>6 DEF TableInv, GoogleInv, Places, OpenAt
<1>7. CASE adapter = "mistral" /\ table = [current |-> 0, byKey |-> [k \in Mistral!CallKeys |-> 0]]
  <2>1. /\ slots \in [current : Nat, byKey : [Mistral!CallKeys -> Nat]]
        /\ slots.current = 0 /\ \A k \in Mistral!CallKeys : slots.byKey[k] = 0
    BY <1>7
  <2> QED BY <1>1, <1>7, <2>1 DEF TableInv, MistralInv, Places, KindAt
<1>8. CASE adapter = "bedrock" /\ table = [i \in Indexes |-> 0]
  <2>1. slots \in [Indexes -> Nat] /\ \A i \in Indexes : slots[i] = 0
    BY <1>8
  <2> QED BY <1>1, <1>8, <2>1 DEF TableInv, BedrockInv, Places, AllClosed
<1>9. CASE adapter = "faux" /\ table = Faux!At(Faux!Nothing, 0, 0)
  <2>1. slots = [message |-> [content |-> <<>>, stop |-> "stop"], done |-> 0, sent |-> 0]
    BY <1>9 DEF Faux!At, Faux!Nothing
  <2>2. [content |-> <<>>, stop |-> "stop"] \in [content : Seq([kind : Kinds \ {"reasoning"}, text : Nat]), stop : Reasons \cup {"aborted"}]
    BY DEF Reasons
  <2>3. /\ slots.message = [content |-> <<>>, stop |-> "stop"] /\ slots.done = 0 /\ slots.sent = 0
        /\ slots \in [message : [content : Seq([kind : Kinds \ {"reasoning"}, text : Nat]), stop : Reasons \cup {"aborted"}],
                      done : Nat, sent : Nat]
    BY <2>1, <2>2
  <2>4. slots.message.content = <<>> /\ Len(slots.message.content) = 0
    BY <2>3
  <2> QED BY <1>1, <1>9, <2>2, <2>3, <2>4 DEF TableInv, FauxInv
<1> QED BY <1>3, <1>4, <1>5, <1>6, <1>7, <1>8, <1>9

\* The invariant holds when a request begins.
LEMMA InitAInv == Init => AInv
<1> SUFFICES ASSUME Init PROVE AInv
  OBVIOUS
<1>1. PICK table :
        /\ phase = "setup" /\ ctx = FALSE /\ content = <<>> /\ stop = "stop" /\ slots = table
        /\ mark = "none" /\ log = <<>> /\ rude = FALSE
        /\ \/ adapter = "anthropic" /\ table = <<>>
           \/ adapter = "openai-responses" /\ table = [i \in Indexes |-> Responses!Free]
           \/ adapter = "openai-completions" /\ table = Completions!NoBlocks
           \/ adapter = "google" /\ table = 0
           \/ adapter = "mistral" /\ table = [current |-> 0, byKey |-> [k \in Mistral!CallKeys |-> 0]]
           \/ adapter = "bedrock" /\ table = [i \in Indexes |-> 0]
           \/ adapter = "faux" /\ table = Faux!At(Faux!Nothing, 0, 0)
  BY DEF Init, Anthropic!Init, Anthropic!InitWith, Responses!Init, Responses!InitWith, Completions!Init,
     Completions!InitWith, Google!Init, Google!InitWith, Mistral!Init, Mistral!InitWith, Bedrock!Init,
     Bedrock!InitWith, Faux!Init, Faux!InitWith
<1>2. TableInv
  BY <1>1, InitTable
<1>3. Sound(log, content, Polite)
  BY <1>1, SoundEmpty
<1>4. Scalars /\ Early
  BY <1>1 DEF Scalars, Early, Reasons
<1> QED BY <1>1, <1>2, <1>3, <1>4 DEF AInv

\* Only the context changes, or nothing.
LEMMA ContextStep ==
  ASSUME AInv, UNCHANGED <<adapter, phase, content, stop, slots, mark, log, rude>>, ctx' \in BOOLEAN
  PROVE  AInv'
<1>1. Scalars' /\ Early'
  BY DEF AInv, Scalars, Early
<1>2. Polite' = Polite /\ log' = log /\ content' = content /\ phase' = phase /\ rude' = rude
  BY DEF Polite
<1>3. phase \notin {"closed", "crashed"} => TableInv'
  BY DEF AInv, TableInv, AnthropicInv, ResponsesInv, CompletionsInv, GoogleInv, MistralInv, BedrockInv, FauxInv,
     Polite, Places, KindAt, OpenAt, AllClosed
<1>7. \A L, C, s : Sound(L, C, s)' <=> Sound(L, C, s)
  BY DEF Sound, OwnStart
<1>4. phase = "closed" => Over' /\ DoneIsComplete' /\ DoneOpened'
  BY <1>7 DEF AInv, Over, DoneIsComplete, DoneOpened, OwnStart, Finished, Polite, Ended, EventsOf
<1>5. phase \notin {"closed", "crashed"} => Sound(log, content, Polite)'
  BY <1>2, <1>7 DEF AInv
<1>6. phase = "crashed" => rude' /\ Sound(log, content, FALSE)'
  <2>1. phase = "crashed" => rude /\ Sound(log, content, FALSE)
    BY DEF AInv
  <2>2. log' = log /\ content' = content /\ rude' = rude
    OBVIOUS
  <2> QED BY ONLY <1>7, <2>1, <2>2
<1> HIDE DEF Scalars
<1> QED BY <1>1, <1>2, <1>3, <1>4, <1>5, <1>6 DEF AInv

\* The body breaks off.
LEMMA BrokenStep ==
  ASSUME AInv, Broken
  PROVE  AInv'
<1> DEFINE reason == IF ctx THEN "aborted" ELSE "error"
<1>1. reason \in Labels
  BY DEF Labels, Reasons
<1>2. log' = log \o Append(<<>>, Terminal("error", reason)) /\ phase = "decode"
  BY DEF Broken, BodyBreaks, Fail, FailAfter, Emit
<1> HIDE DEF reason
<1>3. Fails(<<>>)
  BY <1>1, <1>2 DEF Broken, BodyBreaks, Fail, FailAfter, Fails, Closes, Untouched
<1> QED BY <1>2, <1>3, FailStep

\* No step breaks the invariant.
LEMMA NextAInv == AInv /\ [Next]_vars => AInv'
<1> SUFFICES ASSUME AInv, [Next]_vars PROVE AInv'
  OBVIOUS
<1>1. ctx \in BOOLEAN
  BY DEF AInv, Scalars
<1>2. CASE Runs
  BY <1>2, AnthropicRun, ResponsesRun, CompletionsRun, GoogleRun, MistralRun, BedrockRun DEF Runs
<1>3. CASE Broken
  BY <1>3, BrokenStep
<1>4. CASE Replay
  BY <1>4, FauxRun DEF Replay
<1>5. CASE Cancel
  BY <1>5, ContextStep DEF Cancel
<1>6. CASE UNCHANGED vars
  BY <1>1, <1>6, ContextStep DEF vars
<1> QED BY <1>2, <1>3, <1>4, <1>5, <1>6 DEF Next

\* The events up to a terminal one are sound in every state.
LEMMA AlwaysTailed ==
  ASSUME AInv
  PROVE  \E M : log \in Seq(Events) /\ Tailed(log, M) /\ Sound(M, content, Polite)
<1>1. CASE phase = "closed"
  <2>1. PICK n \in 0..Len(log) : Tailed(log, SubSeq(log, 1, n)) /\ Sound(SubSeq(log, 1, n), content, Polite)
    BY <1>1 DEF AInv, Over
  <2>2. log \in Seq(Events)
    BY <2>1 DEF Tailed
  <2> QED BY <2>1, <2>2
<1>2. CASE phase # "closed"
  <2>1. Sound(log, content, Polite)
    <3>1. CASE phase = "crashed"
      BY <3>1, Weaken DEF AInv, Polite
    <3> QED BY <1>2, <3>1 DEF AInv
  <2>2. log \in Seq(Events)
    BY <2>1, SoundTypes
  <2> QED BY <2>1, <2>2, TailedNone
<1> QED BY <1>1, <1>2

\* A done event is only there when the run is over.
LEMMA AlwaysDone ==
  ASSUME AInv
  PROVE  DoneIsComplete /\ DoneOpened
<1>1. CASE phase = "closed"
  BY <1>1 DEF AInv
<1>2. CASE phase # "closed"
  <2>1. PICK s : Sound(log, content, s)
    BY <1>2 DEF AInv
  <2>2. Open(log) /\ Len(log) \in Nat /\ log \in Seq(Events)
    BY <2>1, SoundTypes DEF Sound
  <2>3. ~Finished
    <3>1. log # <<>> => Len(log) \in 1..Len(log)
      BY <2>2
    <3> QED BY <2>2, <3>1 DEF Open, Finished
  <2> QED BY <2>3 DEF DoneIsComplete, DoneOpened
<1> QED BY <1>1, <1>2

\* For any server, indexes, canned messages and any moment of a cancellation, every
\* adapter keeps to the event protocol of src/ai/events.go: its decoder, its conclusion
\* and its failures together. The start event is there against any server but for
\* Bedrock, which leaves it to the server.
THEOREM ProtocolHolds == Spec => []ProtocolKept
<1>1. AInv => ProtocolKept
  BY AlwaysTailed, AlwaysDone, SoundProtocol
<1> QED BY <1>1, InitAInv, NextAInv, PTL DEF Spec

\* No adapter says done of an answer that is not whole: blocks that did not end, an
\* end mark that is missing, tool calls that pass for an ordinary stop.
THEOREM DoneHolds == Spec => []DoneIsComplete
<1>1. AInv => DoneIsComplete
  BY AlwaysDone
<1> QED BY <1>1, InitAInv, NextAInv, PTL DEF Spec

\* The end of every block carries its start and all deltas in between, whatever was
\* interleaved with them: accumulating the deltas gives what the end events give, but
\* for reasoning, which Responses puts together anew at its end.
THEOREM EndsHold == Spec => []EndCarriesDeltas
<1>1. AInv => EndCarriesDeltas
  BY AlwaysTailed, SoundCarries
<1> QED BY <1>1, InitAInv, NextAInv, PTL DEF Spec
=============================================================================
