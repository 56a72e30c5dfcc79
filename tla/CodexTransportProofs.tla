------------------------ MODULE CodexTransportProofs ------------------------
(***************************************************************************)
(* Proofs about the Codex transport, for any finite set of requests and    *)
(* any number of frames: the one answer that a request gives, and the      *)
(* memory of the session that the requests share.                          *)
(***************************************************************************)
EXTENDS CodexTransport, FiniteSetTheorems, SequenceTheorems, TLAPS

-----------------------------------------------------------------------------
(* The answer                                                              *)

Pcs == {"check", "dial", "decode", "failed", "fall back", "sse", "sse decode", "closed"}
Kinds == {"none", "data", "terminal", "garbled terminal"}
Terminal == {"done", "error", "aborted"}
Events == [type : {"start", "delta"} \cup Terminal, from : Nat]

Flow ==
    /\ pc \in [Requests -> Pcs] /\ ctx \in [Requests -> BOOLEAN] /\ sse \in [Requests -> BOOLEAN]
    /\ conn \in [Requests -> Nat] /\ frames \in [Requests -> Nat]

Pipes ==
    /\ pump \in [Requests -> {"none", "read", "write", "gone"}]
    /\ pipe \in [Requests -> {"open", "transport", "eof", "api", "limit"}]
    /\ frame \in [Requests -> [pump : Kinds, decoder : Kinds]]

Flags ==
    /\ started \in [Requests -> BOOLEAN] /\ retried \in [Requests -> BOOLEAN]
    /\ mark \in [Requests -> {"none", "stop", "error"}]

Memory == fallback \in BOOLEAN /\ stats \in [requests : Nat, failures : Nat, fallbacks : Nat]

TransportTypes == Flow /\ Pipes /\ Flags /\ Memory /\ log \in [Requests -> Seq(Events)]

\* The pump lives while its request decodes, closes the pipe when it goes, and has
\* started the answer once it forwarded a frame.
Piped(r) ==
    /\ pump[r] \in {"read", "write"} => pc[r] = "decode"
    /\ pc[r] = "decode" => pump[r] # "none" /\ (pump[r] = "gone" <=> pipe[r] # "open")
    /\ pump[r] = "write" => frame[r].pump # "none" /\ started[r]
    /\ pc[r] = "decode" /\ frame[r].decoder # "none" => started[r]
    /\ pc[r] = "decode" /\ frame[r].decoder \notin {"none", "data"} => pipe[r] = "eof"
    /\ started[r] => pc[r] \in {"decode", "failed", "closed"}
    /\ pipe[r] = "eof" => started[r]
    /\ pc[r] = "failed" => pipe[r] # "open"
    /\ pc[r] \in {"fall back"} => pipe[r] = "transport"

\* The terminal event is decoded after the pump went.
Marked(r) ==
    /\ mark[r] # "none" =>
          \/ pc[r] = "sse decode"
          \/ pc[r] = "decode" /\ pipe[r] = "eof"
          \/ pc[r] = "closed"

\* One answer starts with a start event of the connection that the request is at.
Begun(r) ==
    /\ pc[r] # "closed" /\ (started[r] \/ pc[r] = "sse decode") =>
          log[r] # <<>> /\ log[r][1] = [type |-> "start", from |-> conn[r]]
    /\ pc[r] # "closed" /\ ~started[r] /\ pc[r] # "sse decode" => log[r] = <<>>

Told(r) ==
    /\ \A i \in DOMAIN log[r] :
          /\ log[r][i].type = "start" => i = 1
          /\ log[r][i].type \in {"delta", "done"} => log[r][1] = [type |-> "start", from |-> log[r][i].from]
          /\ log[r][i].type \in Terminal => i = Len(log[r]) /\ pc[r] = "closed"
          /\ log[r][i].type = "done" => mark[r] = "stop"
    /\ pc[r] = "closed" => Len(log[r]) > 0 /\ log[r][Len(log[r])].type \in Terminal


\* A request dials once, and once more when it retried.
Dials(r) ==
    /\ pc[r] = "check" => conn[r] = 0 /\ ~retried[r] /\ pipe[r] = "open" /\ pump[r] = "none"
    /\ pc[r] = "dial" => conn[r] = (IF retried[r] THEN 1 ELSE 0)
    /\ pc[r] = "dial" /\ ~retried[r] => pipe[r] = "open" /\ pump[r] = "none"
    /\ pc[r] = "dial" /\ retried[r] => pipe[r] = "limit"
    /\ pc[r] \in {"decode", "failed", "fall back"} => conn[r] = (IF retried[r] THEN 2 ELSE 1)
    /\ pc[r] = "sse decode" => conn[r] = HTTP
    /\ (pc[r] = "sse" \/ conn[r] = HTTP) /\ pipe[r] = "open" => pump[r] = "none" /\ ~retried[r]
    /\ pc[r] \in {"dial", "decode", "failed", "fall back"} => ~sse[r]

Local(r) == Piped(r) /\ Marked(r) /\ Begun(r) /\ Told(r) /\ Dials(r)

-----------------------------------------------------------------------------
(* The memory                                                              *)

Moved == {r \in Requests : ~sse[r] /\ (pc[r] = "sse" \/ conn[r] = HTTP)}
Late == {r \in Moved : pipe[r] = "open"}
Cut == {r \in Requests : pc[r] = "closed" /\ started[r] /\ pipe[r] \in {"transport", "eof"} /\ mark[r] = "none"}
Leaving == {r \in Requests : pc[r] = "fall back"}
Fallen == (Moved \ Late) \cup Leaving
Broken == Fallen \cup Cut
Dialed == {r \in Requests : pipe[r] # "open" \/ pump[r] # "none"}
Twice == {r \in Requests : retried[r] /\ pc[r] # "dial"}

Accounts ==
    /\ stats.fallbacks = Cardinality(Moved)
    /\ stats.failures >= Cardinality(Fallen)
    /\ stats.failures <= Cardinality(Broken)
    /\ fallback <=> stats.failures > 0
    /\ stats.requests <= Cardinality(Dialed) + Cardinality(Twice)

TInv == TransportTypes /\ (\A r \in Requests : Local(r)) /\ Accounts
-----------------------------------------------------------------------------
(* What a request tells its reader                                         *)

Orderly(s) ==
    \A i \in DOMAIN s :
        /\ s[i].type = "start" => i = 1
        /\ s[i].type \in {"delta", "done"} => s[1] = [type |-> "start", from |-> s[i].from]

Clean(s) == Orderly(s) /\ \A i \in DOMAIN s : s[i].type \notin Terminal

Follows(s, e) ==
    /\ e.type = "start" => s = <<>>
    /\ e.type \in {"delta", "done"} => s # <<>> /\ s[1] = [type |-> "start", from |-> e.from]

\* An event that may follow what was told so far.
LEMMA Appended ==
    ASSUME NEW s \in Seq(Events), NEW e \in Events, NEW t, t = Append(s, e), Clean(s), Follows(s, e)
    PROVE  /\ t \in Seq(Events) /\ t # <<>> /\ Len(t) > 0 /\ t[Len(t)] = e
           /\ t[1] = IF s = <<>> THEN e ELSE s[1]
           /\ Orderly(t)
           /\ \A i \in DOMAIN t : t[i].type \in Terminal => i = Len(t) /\ t[i] = e
<1> USE DEF Clean, Orderly, Follows
<1>1. /\ t \in Seq(Events) /\ t # <<>> /\ Len(t) = Len(s) + 1
      /\ \A i \in 1..Len(s) : t[i] = s[i]
      /\ t[Len(s) + 1] = e
  BY AppendProperties
<1>2. DOMAIN s = 1..Len(s) /\ DOMAIN t = 1..Len(t) /\ Len(s) \in Nat
  BY <1>1
<1>3. s = <<>> <=> Len(s) = 0
  BY EmptySeq
<1>4. t[1] = IF s = <<>> THEN e ELSE s[1]
  BY <1>1, <1>2, <1>3
<1>5. ASSUME NEW i \in DOMAIN t
      PROVE  /\ t[i].type = "start" => i = 1
             /\ t[i].type \in {"delta", "done"} => t[1] = [type |-> "start", from |-> t[i].from]
             /\ t[i].type \in Terminal => i = Len(t) /\ t[i] = e
  <2>1. CASE i \in 1..Len(s)
    <3>1. t[i] = s[i] /\ s # <<>>
      BY <1>1, <1>2, <1>3, <2>1
    <3>2. QED
      BY <1>2, <1>4, <2>1, <3>1
  <2>2. CASE i = Len(s) + 1
    <3>1. t[i] = e /\ i = Len(t)
      BY <1>1, <2>2
    <3>2. e.type = "start" => i = 1
      BY <1>3, <2>2
    <3>3. e.type \in {"delta", "done"} => t[1] = [type |-> "start", from |-> e.from]
      BY <1>4
    <3>4. QED
      BY <3>1, <3>2, <3>3
  <2>3. QED
    BY <1>1, <1>2, <2>1, <2>2
<1>6. Len(t) > 0 /\ t[Len(t)] = e
  BY <1>1, <1>2
<1>7. QED
  BY <1>1, <1>4, <1>5, <1>6

\* One event more in one log.
LEMMA LogGrows ==
    ASSUME TransportTypes, NEW r \in Requests, NEW e \in Events, log' = [log EXCEPT ![r] = Append(@, e)]
    PROVE  /\ log[r] \in Seq(Events)
           /\ log' \in [Requests -> Seq(Events)]
           /\ \A q \in Requests \ {r} : log'[q] = log[q]
           /\ log'[r] = Append(log[r], e)
<1>1. log[r] \in Seq(Events) /\ Append(log[r], e) \in Seq(Events)
  BY DEF TransportTypes
<1>2. QED
  BY <1>1 DEF TransportTypes

\* What a request told before it ends.
LEMMA ToldSoFar ==
    ASSUME NEW r \in Requests, Told(r), pc[r] # "closed"
    PROVE  Clean(log[r])
  BY DEF Told, Clean, Orderly

\* A failure or the end of the answer is the last event.
LEMMA Terminated ==
    ASSUME TransportTypes, NEW r \in Requests, Begun(r), Told(r), pc[r] # "closed", pc'[r] = "closed",
           NEW type \in Terminal, log' = Pushed(r, type),
           type = "done" => mark'[r] = "stop" /\ (started[r] \/ pc[r] = "sse decode")
    PROVE  /\ Begun(r)' /\ Told(r)'
           /\ log' \in [Requests -> Seq(Events)]
           /\ \A q \in Requests \ {r} : log'[q] = log[q]
<1> DEFINE e == [type |-> type, from |-> conn[r]]
<1>1. e \in Events /\ log' = [log EXCEPT ![r] = Append(@, e)]
  BY DEF Pushed, Events, TransportTypes, Flow
<1>2. e.type = type /\ e.from = conn[r] /\ e.type # "start" /\ e.type # "delta"
  BY DEF Terminal
<1> HIDE DEF e
<1>3. /\ log' \in [Requests -> Seq(Events)] /\ log[r] \in Seq(Events)
      /\ \A q \in Requests \ {r} : log'[q] = log[q]
      /\ log'[r] = Append(log[r], e)
  BY <1>1, LogGrows
<1>4. e.type = "done" => log[r] # <<>> /\ log[r][1] = [type |-> "start", from |-> e.from]
  BY <1>2 DEF Begun
<1>5. /\ Len(log'[r]) > 0 /\ log'[r][Len(log'[r])] = e
      /\ Orderly(log'[r])
      /\ \A i \in DOMAIN log'[r] : log'[r][i].type \in Terminal => i = Len(log'[r]) /\ log'[r][i] = e
  <2>1. Clean(log[r]) /\ Follows(log[r], e)
    BY <1>2, <1>4, ToldSoFar DEF Follows
  <2>2. QED
    BY <1>1, <1>3, <2>1, Appended
<1>6. \A i \in DOMAIN log'[r] : log'[r][i].type = "done" => mark'[r] = "stop"
  BY <1>2, <1>5 DEF Terminal
<1>7. Told(r)'
  BY <1>2, <1>5, <1>6 DEF Told, Orderly
<1>8. Begun(r)'
  BY DEF Begun
<1>9. QED
  BY <1>3, <1>7, <1>8

\* An event between the start and the end.
LEMMA Continued ==
    ASSUME TransportTypes, NEW r \in Requests, Begun(r), Told(r), pc[r] # "closed", pc'[r] = pc[r],
           started'[r] = started[r], started[r] \/ pc[r] = "sse decode", conn'[r] = conn[r], log' = Pushed(r, "delta")
    PROVE  /\ Begun(r)' /\ Told(r)'
           /\ log' \in [Requests -> Seq(Events)]
           /\ \A q \in Requests \ {r} : log'[q] = log[q]
<1> DEFINE e == [type |-> "delta", from |-> conn[r]]
<1>1. e \in Events /\ log' = [log EXCEPT ![r] = Append(@, e)]
  BY DEF Pushed, Events, TransportTypes, Flow
<1>2. e.type = "delta" /\ e.from = conn[r]
  OBVIOUS
<1> HIDE DEF e
<1>3. /\ log' \in [Requests -> Seq(Events)] /\ log[r] \in Seq(Events)
      /\ \A q \in Requests \ {r} : log'[q] = log[q]
      /\ log'[r] = Append(log[r], e)
  BY <1>1, LogGrows
<1>4. log[r] # <<>> /\ log[r][1] = [type |-> "start", from |-> e.from]
  BY <1>2 DEF Begun
<1>5. /\ log'[r] # <<>> /\ log'[r][1] = IF log[r] = <<>> THEN e ELSE log[r][1]
      /\ Orderly(log'[r])
      /\ \A i \in DOMAIN log'[r] : log'[r][i].type \in Terminal => i = Len(log'[r]) /\ log'[r][i] = e
  <2>1. Clean(log[r]) /\ Follows(log[r], e)
    BY <1>2, <1>4, ToldSoFar DEF Follows
  <2>2. QED
    BY <1>1, <1>3, <2>1, Appended
<1>6. \A i \in DOMAIN log'[r] : log'[r][i].type \notin Terminal
  BY <1>2, <1>5 DEF Terminal
<1>7. Told(r)'
  BY <1>5, <1>6 DEF Told, Orderly, Terminal
<1>8. Begun(r)'
  BY <1>2, <1>4, <1>5 DEF Begun
<1>9. QED
  BY <1>3, <1>7, <1>8

\* The start event of the connection that brings the answer.
LEMMA Opened ==
    ASSUME TransportTypes, NEW r \in Requests, Begun(r), Told(r), pc[r] \notin {"closed", "sse decode"}, ~started[r],
           pc'[r] # "closed", started'[r] \/ pc'[r] = "sse decode",
           NEW from \in Nat, conn'[r] = from, log' = [log EXCEPT ![r] = Append(@, [type |-> "start", from |-> from])]
    PROVE  /\ Begun(r)' /\ Told(r)'
           /\ log' \in [Requests -> Seq(Events)]
           /\ \A q \in Requests \ {r} : log'[q] = log[q]
<1> DEFINE e == [type |-> "start", from |-> from]
<1>1. e \in Events /\ log' = [log EXCEPT ![r] = Append(@, e)]
  BY DEF Events
<1>2. e.type = "start" /\ e = [type |-> "start", from |-> conn'[r]]
  OBVIOUS
<1> HIDE DEF e
<1>3. /\ log' \in [Requests -> Seq(Events)] /\ log[r] \in Seq(Events)
      /\ \A q \in Requests \ {r} : log'[q] = log[q]
      /\ log'[r] = Append(log[r], e)
  BY <1>1, LogGrows
<1>4. log[r] = <<>>
  BY DEF Begun
<1>5. /\ log'[r] # <<>> /\ log'[r][1] = IF log[r] = <<>> THEN e ELSE log[r][1]
      /\ Orderly(log'[r])
      /\ \A i \in DOMAIN log'[r] : log'[r][i].type \in Terminal => i = Len(log'[r]) /\ log'[r][i] = e
  <2>1. Clean(log[r]) /\ Follows(log[r], e)
    BY <1>2, <1>4, ToldSoFar DEF Follows
  <2>2. QED
    BY <1>1, <1>3, <2>1, Appended
<1>6. \A i \in DOMAIN log'[r] : log'[r][i].type \notin Terminal
  BY <1>2, <1>5 DEF Terminal
<1>7. Told(r)'
  BY <1>5, <1>6 DEF Told, Orderly, Terminal
<1>8. Begun(r)'
  BY <1>2, <1>4, <1>5 DEF Begun
<1>9. QED
  BY <1>3, <1>7, <1>8

\* Steps that tell the reader nothing.
LEMMA Silent ==
    ASSUME TransportTypes, NEW r \in Requests, Begun(r), Told(r), pc[r] # "closed", pc'[r] # "closed",
           UNCHANGED log,
           (started[r] \/ pc[r] = "sse decode") <=> (started'[r] \/ pc'[r] = "sse decode"),
           conn'[r] = conn[r] \/ ~(started[r] \/ pc[r] = "sse decode")
    PROVE  /\ Begun(r)' /\ Told(r)'
           /\ log' \in [Requests -> Seq(Events)]
           /\ \A q \in Requests \ {r} : log'[q] = log[q]
<1>1. Begun(r)'
  BY DEF Begun
<1>2. Told(r)'
  BY ToldSoFar DEF Told, Terminal, Clean, Orderly
<1>3. QED
  BY <1>1, <1>2 DEF TransportTypes

\* A request that fails tells so last.
LEMMA Failing ==
    ASSUME TransportTypes, NEW r \in Requests, Begun(r), Told(r), pc[r] # "closed", Fail(r)
    PROVE  /\ Begun(r)' /\ Told(r)'
           /\ log' \in [Requests -> Seq(Events)]
           /\ \A q \in Requests \ {r} : log'[q] = log[q]
           /\ pc' = [pc EXCEPT ![r] = "closed"]
<1>1. pc' = [pc EXCEPT ![r] = "closed"] /\ pc'[r] = "closed"
  BY DEF Fail, Goto, TransportTypes, Flow, Flags
<1>2. CASE ctx[r]
  <2>1. log' = Pushed(r, "aborted")
    BY <1>2 DEF Fail
  <2>2. QED
    BY <1>1, <2>1, Terminated DEF Terminal
<1>3. CASE ~ctx[r]
  <2>1. log' = Pushed(r, "error")
    BY <1>3 DEF Fail
  <2>2. QED
    BY <1>1, <2>1, Terminated DEF Terminal
<1>4. QED
  BY <1>2, <1>3

\* A request that finishes is done, or fails.
LEMMA Finishing ==
    ASSUME TransportTypes, NEW r \in Requests, Begun(r), Told(r), pc[r] # "closed", Finish(r),
           started[r] \/ pc[r] = "sse decode", mark[r] # "none", UNCHANGED mark
    PROVE  /\ Begun(r)' /\ Told(r)'
           /\ log' \in [Requests -> Seq(Events)]
           /\ \A q \in Requests \ {r} : log'[q] = log[q]
           /\ pc' = [pc EXCEPT ![r] = "closed"]
<1>1. CASE ctx[r] \/ mark[r] = "error"
  BY <1>1, Failing DEF Finish
<1>2. CASE ~(ctx[r] \/ mark[r] = "error")
  <2>1. pc' = [pc EXCEPT ![r] = "closed"] /\ pc'[r] = "closed" /\ log' = Pushed(r, "done") /\ mark'[r] = "stop"
    BY <1>2 DEF Finish, Goto, TransportTypes, Flow, Flags
  <2>2. QED
    BY <2>1, Terminated DEF Terminal
<1>3. QED
  BY <1>1, <1>2

\* What the session records are counts.
LEMMA MemoryTyped ==
    ASSUME Memory, RecordRequest \/ RecordSSEFallback \/ RecordFailure \/ UNCHANGED memory
    PROVE  Memory'
<1>1. stats.requests + 1 \in Nat /\ stats.fallbacks + 1 \in Nat /\ stats.failures + 1 \in Nat
  BY DEF Memory
<1>2. CASE RecordRequest
  BY <1>1, <1>2 DEF Memory, RecordRequest
<1>3. CASE RecordSSEFallback
  BY <1>1, <1>3 DEF Memory, RecordSSEFallback
<1>4. CASE RecordFailure
  BY <1>1, <1>4 DEF Memory, RecordFailure
<1>5. QED
  BY <1>2, <1>3, <1>4 DEF Memory, memory

-----------------------------------------------------------------------------
(* The steps of a request                                                  *)

\* What a step of one request leaves alone.
Others(r) ==
    \A q \in Requests \ {r} :
        /\ pc'[q] = pc[q] /\ sse'[q] = sse[q] /\ conn'[q] = conn[q]
        /\ pump'[q] = pump[q] /\ frame'[q] = frame[q] /\ pipe'[q] = pipe[q]
        /\ started'[q] = started[q] /\ retried'[q] = retried[q] /\ mark'[q] = mark[q]
        /\ log'[q] = log[q]

\* The request is set up, or fails.
LEMMA SetUpKeeps ==
    ASSUME TInv, NEW r \in Requests, SetUp(r)
    PROVE  TransportTypes' /\ Local(r)' /\ Others(r)
<1>1. TransportTypes /\ Piped(r) /\ Marked(r) /\ Begun(r) /\ Told(r) /\ Dials(r)
  BY DEF TInv, Local
<1> DEFINE Reported == Begun(r)' /\ Told(r)' /\ log' \in [Requests -> Seq(Events)]
                       /\ \A q \in Requests \ {r} : log'[q] = log[q]
<1>2. Reported
  <2>1. CASE Fail(r)
    BY <1>1, <2>1, Failing DEF SetUp
  <2>2. CASE ~Fail(r)
    BY <1>1, <2>2, Silent DEF SetUp, Goto, Piped, TransportTypes, Flow, Flags
  <2>3. QED
    BY <2>1, <2>2
<1>3. TransportTypes'
  <2>1. Flow'
    <3>1. conn[r] + 1 \in Nat /\ frames[r] + 1 \in Nat /\ HTTP \in Nat /\ 0 \in Nat
      BY <1>1 DEF TransportTypes, Flow, HTTP
    <3>2. QED
      BY <1>1, <3>1 DEF TransportTypes, Flow, Pcs, SetUp, Goto, Fail
  <2>2. Pipes'
    BY <1>1 DEF TransportTypes, Pipes, Kinds, SetUp, Goto, Fail
  <2>3. Flags'
    BY <1>1 DEF TransportTypes, Flags, SetUp, Goto, Fail
  <2>4. Memory'
    BY <1>1, MemoryTyped DEF TransportTypes, SetUp, memory
  <2>5. QED
    BY <1>2, <2>1, <2>2, <2>3, <2>4 DEF TransportTypes
<1>4. Others(r)
  BY <1>1, <1>2 DEF Others, TransportTypes, Flow, Pipes, Flags, SetUp, Goto, Fail
<1>5. Piped(r)' /\ Marked(r)'
  BY <1>1 DEF Piped, Marked, TransportTypes, Flow, Pipes, Flags, Kinds, SetUp, Goto, Fail
<1>6. Dials(r)'
  BY <1>1 DEF Dials, Piped, TransportTypes, Flow, Pipes, Flags, HTTP, SetUp, Goto, Fail
<1>7. QED
  BY <1>2, <1>3, <1>4, <1>5, <1>6 DEF Local

\* A dial fails.
LEMMA DialFailsKeeps ==
    ASSUME TInv, NEW r \in Requests, DialFails(r)
    PROVE  TransportTypes' /\ Local(r)' /\ Others(r)
<1>1. TransportTypes /\ Piped(r) /\ Marked(r) /\ Begun(r) /\ Told(r) /\ Dials(r)
  BY DEF TInv, Local
<1> DEFINE Reported == Begun(r)' /\ Told(r)' /\ log' \in [Requests -> Seq(Events)]
                       /\ \A q \in Requests \ {r} : log'[q] = log[q]
<1>2. Reported
  BY <1>1, Silent DEF DialFails, Goto, Piped, TransportTypes, Flow, Flags
<1>3. TransportTypes'
  <2>1. Flow'
    <3>1. conn[r] + 1 \in Nat /\ frames[r] + 1 \in Nat /\ HTTP \in Nat /\ 0 \in Nat
      BY <1>1 DEF TransportTypes, Flow, HTTP
    <3>2. QED
      BY <1>1, <3>1 DEF TransportTypes, Flow, Pcs, DialFails, Goto
  <2>2. Pipes'
    BY <1>1 DEF TransportTypes, Pipes, Kinds, DialFails, Goto
  <2>3. Flags'
    BY <1>1 DEF TransportTypes, Flags, DialFails, Goto
  <2>4. Memory'
    BY <1>1, MemoryTyped DEF TransportTypes, DialFails, memory
  <2>5. QED
    BY <1>2, <2>1, <2>2, <2>3, <2>4 DEF TransportTypes
<1>4. Others(r)
  BY <1>1, <1>2 DEF Others, TransportTypes, Flow, Pipes, Flags, DialFails, Goto
<1>5. Piped(r)' /\ Marked(r)'
  BY <1>1 DEF Piped, Marked, TransportTypes, Flow, Pipes, Flags, Kinds, DialFails, Goto
<1>6. Dials(r)'
  BY <1>1 DEF Dials, Piped, TransportTypes, Flow, Pipes, Flags, HTTP, DialFails, Goto
<1>7. QED
  BY <1>2, <1>3, <1>4, <1>5, <1>6 DEF Local

\* A dial succeeds.
LEMMA DialKeeps ==
    ASSUME TInv, NEW r \in Requests, Dial(r)
    PROVE  TransportTypes' /\ Local(r)' /\ Others(r)
<1>1. TransportTypes /\ Piped(r) /\ Marked(r) /\ Begun(r) /\ Told(r) /\ Dials(r)
  BY DEF TInv, Local
<1> DEFINE Reported == Begun(r)' /\ Told(r)' /\ log' \in [Requests -> Seq(Events)]
                       /\ \A q \in Requests \ {r} : log'[q] = log[q]
<1>2. Reported
  BY <1>1, Silent DEF Dial, Goto, Piped, TransportTypes, Flow, Flags
<1>3. TransportTypes'
  <2>1. Flow'
    <3>1. conn[r] + 1 \in Nat /\ frames[r] + 1 \in Nat /\ HTTP \in Nat /\ 0 \in Nat
      BY <1>1 DEF TransportTypes, Flow, HTTP
    <3>2. QED
      BY <1>1, <3>1 DEF TransportTypes, Flow, Pcs, Dial, Goto, NoFrame
  <2>2. Pipes'
    BY <1>1 DEF TransportTypes, Pipes, Kinds, Dial, Goto, NoFrame
  <2>3. Flags'
    BY <1>1 DEF TransportTypes, Flags, Dial, Goto, NoFrame
  <2>4. Memory'
    BY <1>1, MemoryTyped DEF TransportTypes, Dial, memory
  <2>5. QED
    BY <1>2, <2>1, <2>2, <2>3, <2>4 DEF TransportTypes
<1>4. Others(r)
  BY <1>1, <1>2 DEF Others, TransportTypes, Flow, Pipes, Flags, Dial, Goto, NoFrame
<1>5. Piped(r)' /\ Marked(r)'
  BY <1>1 DEF Piped, Marked, TransportTypes, Flow, Pipes, Flags, Kinds, Dial, Goto, NoFrame
<1>6. Dials(r)'
  <2>1. /\ pc'[r] = "decode" /\ pc[r] = "dial" /\ conn'[r] = conn[r] + 1 /\ retried'[r] = retried[r]
        /\ sse'[r] = sse[r]
    BY <1>1 DEF Dial, Goto, TransportTypes, Flow
  <2>2. conn[r] = (IF retried[r] THEN 1 ELSE 0) /\ ~sse[r]
    BY <1>1, <2>1 DEF Dials
  <2>3. QED
    BY <2>1, <2>2 DEF Dials, HTTP
<1>7. QED
  BY <1>2, <1>3, <1>4, <1>5, <1>6 DEF Local

\* The pump's read fails.
LEMMA ReadFailsKeeps ==
    ASSUME TInv, NEW r \in Requests, ReadFails(r)
    PROVE  TransportTypes' /\ Local(r)' /\ Others(r)
<1>1. TransportTypes /\ Piped(r) /\ Marked(r) /\ Begun(r) /\ Told(r) /\ Dials(r)
  BY DEF TInv, Local
<1> DEFINE Reported == Begun(r)' /\ Told(r)' /\ log' \in [Requests -> Seq(Events)]
                       /\ \A q \in Requests \ {r} : log'[q] = log[q]
<1>2. Reported
  BY <1>1, Silent DEF ReadFails, Goto, Piped, TransportTypes, Flow, Flags
<1>3. TransportTypes'
  <2>1. Flow'
    <3>1. conn[r] + 1 \in Nat /\ frames[r] + 1 \in Nat /\ HTTP \in Nat /\ 0 \in Nat
      BY <1>1 DEF TransportTypes, Flow, HTTP
    <3>2. QED
      BY <1>1, <3>1 DEF TransportTypes, Flow, Pcs, ReadFails, Goto, ClosePipe
  <2>2. Pipes'
    BY <1>1 DEF TransportTypes, Pipes, Kinds, ReadFails, Goto, ClosePipe
  <2>3. Flags'
    BY <1>1 DEF TransportTypes, Flags, ReadFails, Goto, ClosePipe
  <2>4. Memory'
    BY <1>1, MemoryTyped DEF TransportTypes, ReadFails, memory
  <2>5. QED
    BY <1>2, <2>1, <2>2, <2>3, <2>4 DEF TransportTypes
<1>4. Others(r)
  BY <1>1, <1>2 DEF Others, TransportTypes, Flow, Pipes, Flags, ReadFails, Goto, ClosePipe
<1>5. Piped(r)' /\ Marked(r)'
  BY <1>1 DEF Piped, Marked, TransportTypes, Flow, Pipes, Flags, Kinds, ReadFails, Goto, ClosePipe
<1>6. Dials(r)'
  BY <1>1 DEF Dials, Piped, TransportTypes, Flow, Pipes, Flags, HTTP, ReadFails, Goto, ClosePipe
<1>7. QED
  BY <1>2, <1>3, <1>4, <1>5, <1>6 DEF Local

\* The decoder takes a frame.
LEMMA WriteKeeps ==
    ASSUME TInv, NEW r \in Requests, Write(r)
    PROVE  TransportTypes' /\ Local(r)' /\ Others(r)
<1>1. TransportTypes /\ Piped(r) /\ Marked(r) /\ Begun(r) /\ Told(r) /\ Dials(r)
  BY DEF TInv, Local
<1> DEFINE Reported == Begun(r)' /\ Told(r)' /\ log' \in [Requests -> Seq(Events)]
                       /\ \A q \in Requests \ {r} : log'[q] = log[q]
<1>2. Reported
  BY <1>1, Silent DEF Write, Goto, Piped, TransportTypes, Flow, Flags
<1>3. TransportTypes'
  <2>1. Flow'
    <3>1. conn[r] + 1 \in Nat /\ frames[r] + 1 \in Nat /\ HTTP \in Nat /\ 0 \in Nat
      BY <1>1 DEF TransportTypes, Flow, HTTP
    <3>2. QED
      BY <1>1, <3>1 DEF TransportTypes, Flow, Pcs, Write, Goto, ClosePipe
  <2>2. Pipes'
    BY <1>1 DEF TransportTypes, Pipes, Kinds, Write, Goto, ClosePipe
  <2>3. Flags'
    BY <1>1 DEF TransportTypes, Flags, Write, Goto, ClosePipe
  <2>4. Memory'
    BY <1>1, MemoryTyped DEF TransportTypes, Write, memory
  <2>5. QED
    BY <1>2, <2>1, <2>2, <2>3, <2>4 DEF TransportTypes
<1>4. Others(r)
  BY <1>1, <1>2 DEF Others, TransportTypes, Flow, Pipes, Flags, Write, Goto, ClosePipe
<1>5. Piped(r)' /\ Marked(r)'
  <2>1. /\ pc[r] = "decode" /\ pc'[r] = "decode" /\ pump[r] = "write" /\ pipe[r] = "open" /\ started[r]
        /\ started'[r] = started[r] /\ mark'[r] = mark[r]
    BY <1>1 DEF Write, Piped, TransportTypes, Pipes
  <2>2. frame'[r] = [pump |-> "none", decoder |-> frame[r].pump] /\ frame[r].pump # "none" /\ mark[r] = "none"
    BY <1>1, <2>1 DEF Write, TransportTypes, Pipes, Piped, Marked
  <2>3. CASE frame[r].pump = "data"
    <3>1. pump'[r] = "read" /\ pipe'[r] = "open"
      BY <1>1, <2>1, <2>3 DEF Write, TransportTypes, Pipes
    <3>2. QED
      BY <2>1, <2>2, <2>3, <3>1 DEF Piped, Marked
  <2>4. CASE frame[r].pump # "data"
    <3>1. pump'[r] = "gone" /\ pipe'[r] = "eof"
      BY <1>1, <2>1, <2>4 DEF Write, ClosePipe, TransportTypes, Pipes
    <3>2. QED
      BY <2>1, <2>2, <3>1 DEF Piped, Marked
  <2>5. QED
    BY <2>3, <2>4
<1>6. Dials(r)'
  BY <1>1 DEF Dials, Piped, TransportTypes, Flow, Pipes, Flags, HTTP, Write, Goto, ClosePipe
<1>7. QED
  BY <1>2, <1>3, <1>4, <1>5, <1>6 DEF Local

\* The request falls back.
LEMMA FallBackKeeps ==
    ASSUME TInv, NEW r \in Requests, FallBack(r)
    PROVE  TransportTypes' /\ Local(r)' /\ Others(r)
<1>1. TransportTypes /\ Piped(r) /\ Marked(r) /\ Begun(r) /\ Told(r) /\ Dials(r)
  BY DEF TInv, Local
<1> DEFINE Reported == Begun(r)' /\ Told(r)' /\ log' \in [Requests -> Seq(Events)]
                       /\ \A q \in Requests \ {r} : log'[q] = log[q]
<1>2. Reported
  BY <1>1, Silent DEF FallBack, Goto, Piped, TransportTypes, Flow, Flags
<1>3. TransportTypes'
  <2>1. Flow'
    <3>1. conn[r] + 1 \in Nat /\ frames[r] + 1 \in Nat /\ HTTP \in Nat /\ 0 \in Nat
      BY <1>1 DEF TransportTypes, Flow, HTTP
    <3>2. QED
      BY <1>1, <3>1 DEF TransportTypes, Flow, Pcs, FallBack, Goto
  <2>2. Pipes'
    BY <1>1 DEF TransportTypes, Pipes, Kinds, FallBack, Goto
  <2>3. Flags'
    BY <1>1 DEF TransportTypes, Flags, FallBack, Goto
  <2>4. Memory'
    BY <1>1, MemoryTyped DEF TransportTypes, FallBack, memory
  <2>5. QED
    BY <1>2, <2>1, <2>2, <2>3, <2>4 DEF TransportTypes
<1>4. Others(r)
  BY <1>1, <1>2 DEF Others, TransportTypes, Flow, Pipes, Flags, FallBack, Goto
<1>5. Piped(r)' /\ Marked(r)'
  BY <1>1 DEF Piped, Marked, TransportTypes, Flow, Pipes, Flags, Kinds, FallBack, Goto
<1>6. Dials(r)'
  BY <1>1 DEF Dials, Piped, TransportTypes, Flow, Pipes, Flags, HTTP, FallBack, Goto
<1>7. QED
  BY <1>2, <1>3, <1>4, <1>5, <1>6 DEF Local

\* A message is forwarded, or ends the connection.
LEMMA ClassifyKeeps ==
    ASSUME TInv, NEW r \in Requests, Classify(r)
    PROVE  TransportTypes' /\ Local(r)' /\ Others(r)
<1>1. TransportTypes /\ Piped(r) /\ Marked(r) /\ Begun(r) /\ Told(r) /\ Dials(r)
  BY DEF TInv, Local
<1> DEFINE Reported == Begun(r)' /\ Told(r)' /\ log' \in [Requests -> Seq(Events)]
                       /\ \A q \in Requests \ {r} : log'[q] = log[q]
<1>2. Reported
  <2>1. CASE UNCHANGED <<started, log>>
    BY <1>1, <2>1, Silent DEF Classify, Piped
  <2>2. CASE started[r] /\ UNCHANGED log /\ started' = [started EXCEPT ![r] = TRUE]
    BY <1>1, <2>2, Silent DEF Classify, Piped, TransportTypes, Flow, Flags
  <2>3. CASE ~started[r] /\ log' = Pushed(r, "start") /\ started' = [started EXCEPT ![r] = TRUE]
    <3>1. /\ pc[r] = "decode" /\ pc'[r] = "decode" /\ started'[r] = TRUE
          /\ conn[r] \in Nat /\ conn'[r] = conn[r]
      BY <1>1, <2>3 DEF Classify, Piped, TransportTypes, Flow, Flags
    <3>2. QED
      BY <1>1, <2>3, <3>1, Opened DEF Pushed
  <2>4. QED
    BY <2>1, <2>2, <2>3 DEF Classify
<1>3. TransportTypes'
  <2>1. Flow'
    <3>1. conn[r] + 1 \in Nat /\ frames[r] + 1 \in Nat /\ HTTP \in Nat /\ 0 \in Nat
      BY <1>1 DEF TransportTypes, Flow, HTTP
    <3>2. QED
      BY <1>1, <3>1 DEF TransportTypes, Flow, Pcs, Classify, Goto, ClosePipe
  <2>2. Pipes'
    <3>1. CASE \E how \in {"api", "limit"} : ClosePipe(r, how) /\ UNCHANGED frame
      BY <1>1, <3>1 DEF TransportTypes, Pipes, ClosePipe
    <3>2. CASE /\ \E kind \in {"data", "terminal", "garbled terminal"} : frame' = [frame EXCEPT ![r].pump = kind]
               /\ pump' = [pump EXCEPT ![r] = "write"] /\ UNCHANGED pipe
      <4>1. PICK kind \in Kinds : frame' = [frame EXCEPT ![r].pump = kind]
        BY <3>2 DEF Kinds
      <4>2. [frame[r] EXCEPT !.pump = kind] \in [pump : Kinds, decoder : Kinds]
        BY <1>1 DEF TransportTypes, Pipes
      <4>3. frame' \in [Requests -> [pump : Kinds, decoder : Kinds]]
        BY <1>1, <4>1, <4>2 DEF TransportTypes, Pipes
      <4>4. QED
        BY <1>1, <3>2, <4>3 DEF TransportTypes, Pipes
    <3>3. QED
      BY <3>1, <3>2 DEF Classify
  <2>3. Flags'
    BY <1>1 DEF TransportTypes, Flags, Classify, Goto, ClosePipe
  <2>4. Memory'
    BY <1>1, MemoryTyped DEF TransportTypes, Classify, memory
  <2>5. QED
    BY <1>2, <2>1, <2>2, <2>3, <2>4 DEF TransportTypes
<1>4. Others(r)
  BY <1>1, <1>2 DEF Others, TransportTypes, Flow, Pipes, Flags, Classify, Goto, ClosePipe
<1>5. Piped(r)' /\ Marked(r)'
  <2>1. pc'[r] = "decode" /\ pc[r] = "decode" /\ pipe[r] = "open" /\ pump[r] = "read" /\ mark'[r] = mark[r]
    BY <1>1 DEF Classify, Piped, TransportTypes, Pipes
  <2>2. frame[r].decoder \in {"none", "data"} /\ mark[r] = "none"
    BY <1>1, <2>1 DEF Piped, Marked
  <2>3. CASE \E how \in {"api", "limit"} : ClosePipe(r, how) /\ UNCHANGED <<frame, started>>
    <3>1. pump'[r] = "gone" /\ pipe'[r] \in {"api", "limit"} /\ frame'[r] = frame[r] /\ started'[r] = started[r]
      BY <1>1, <2>3 DEF ClosePipe, TransportTypes, Pipes
    <3>2. QED
      BY <1>1, <2>1, <2>2, <3>1 DEF Piped, Marked
  <2>4. CASE /\ \E kind \in {"data", "terminal", "garbled terminal"} : frame' = [frame EXCEPT ![r].pump = kind]
             /\ pump' = [pump EXCEPT ![r] = "write"] /\ started' = [started EXCEPT ![r] = TRUE] /\ UNCHANGED pipe
    <3>1. PICK kind \in Kinds \ {"none"} : frame' = [frame EXCEPT ![r].pump = kind]
      BY <2>4 DEF Kinds
    <3>2. frame'[r] = [frame[r] EXCEPT !.pump = kind] /\ frame[r] \in [pump : Kinds, decoder : Kinds]
      BY <1>1, <3>1 DEF TransportTypes, Pipes
    <3>3. frame'[r].pump = kind /\ frame'[r].decoder = frame[r].decoder
      BY <3>2
    <3>4. pump'[r] = "write" /\ pipe'[r] = "open" /\ started'[r] = TRUE
      BY <1>1, <2>1, <2>4 DEF TransportTypes, Pipes, Flags
    <3>5. QED
      BY <1>1, <2>1, <2>2, <3>1, <3>3, <3>4 DEF Piped, Marked
  <2>5. QED
    BY <2>3, <2>4 DEF Classify
<1>6. Dials(r)'
  BY <1>1 DEF Dials, Piped, TransportTypes, Flow, Pipes, Flags, HTTP, Classify, Goto, ClosePipe
<1>7. QED
  BY <1>2, <1>3, <1>4, <1>5, <1>6 DEF Local

\* A frame is decoded.
LEMMA DecodeKeeps ==
    ASSUME TInv, NEW r \in Requests, Decode(r)
    PROVE  TransportTypes' /\ Local(r)' /\ Others(r)
<1>1. TransportTypes /\ Piped(r) /\ Marked(r) /\ Begun(r) /\ Told(r) /\ Dials(r)
  BY DEF TInv, Local
<1> DEFINE Reported == Begun(r)' /\ Told(r)' /\ log' \in [Requests -> Seq(Events)]
                       /\ \A q \in Requests \ {r} : log'[q] = log[q]
<1>2. Reported
  <2>1. CASE UNCHANGED log
    BY <1>1, <2>1, Silent DEF Decode
  <2>2. CASE log' = Pushed(r, "delta")
    BY <1>1, <2>2, Continued DEF Decode, Piped
  <2>3. QED
    BY <2>1, <2>2, Zenon DEF Decode
<1>3. TransportTypes'
  <2>1. Flow'
    <3>1. conn[r] + 1 \in Nat /\ frames[r] + 1 \in Nat /\ HTTP \in Nat /\ 0 \in Nat
      BY <1>1 DEF TransportTypes, Flow, HTTP
    <3>2. QED
      BY <1>1, <3>1 DEF TransportTypes, Flow, Pcs, Decode, Goto
  <2>2. Pipes'
    BY <1>1 DEF TransportTypes, Pipes, Kinds, Decode, Goto
  <2>3. Flags'
    BY <1>1 DEF TransportTypes, Flags, Decode, Goto
  <2>4. Memory'
    BY <1>1, MemoryTyped DEF TransportTypes, Decode, memory
  <2>5. QED
    BY <1>2, <2>1, <2>2, <2>3, <2>4 DEF TransportTypes
<1>4. Others(r)
  BY <1>1, <1>2 DEF Others, TransportTypes, Flow, Pipes, Flags, Decode, Goto
<1>5. Piped(r)' /\ Marked(r)'
  BY <1>1 DEF Piped, Marked, TransportTypes, Flow, Pipes, Flags, Kinds, Decode, Goto
<1>6. Dials(r)'
  BY <1>1 DEF Dials, Piped, TransportTypes, Flow, Pipes, Flags, HTTP, Decode, Goto
<1>7. QED
  BY <1>2, <1>3, <1>4, <1>5, <1>6 DEF Local

\* The decoder is done.
LEMMA DecodeEndsKeeps ==
    ASSUME TInv, NEW r \in Requests, DecodeEnds(r)
    PROVE  TransportTypes' /\ Local(r)' /\ Others(r)
<1>1. TransportTypes /\ Piped(r) /\ Marked(r) /\ Begun(r) /\ Told(r) /\ Dials(r)
  BY DEF TInv, Local
<1> DEFINE Reported == Begun(r)' /\ Told(r)' /\ log' \in [Requests -> Seq(Events)]
                       /\ \A q \in Requests \ {r} : log'[q] = log[q]
<1>2. Reported
  <2>1. CASE pipe[r] = "eof" /\ mark[r] # "none"
    BY <1>1, <2>1, Finishing DEF DecodeEnds, Piped
  <2>2. CASE ~(pipe[r] = "eof" /\ mark[r] # "none")
    BY <1>1, <2>2, Silent DEF DecodeEnds, Goto, TransportTypes, Flow, Flags
  <2>3. QED
    BY <2>1, <2>2
<1>3. TransportTypes'
  <2>1. Flow'
    <3>1. conn[r] + 1 \in Nat /\ frames[r] + 1 \in Nat /\ HTTP \in Nat /\ 0 \in Nat
      BY <1>1 DEF TransportTypes, Flow, HTTP
    <3>2. QED
      BY <1>1, <3>1 DEF TransportTypes, Flow, Pcs, DecodeEnds, Goto, Finish, Fail
  <2>2. Pipes'
    BY <1>1 DEF TransportTypes, Pipes, Kinds, DecodeEnds, Goto, Finish, Fail
  <2>3. Flags'
    BY <1>1 DEF TransportTypes, Flags, DecodeEnds, Goto, Finish, Fail
  <2>4. Memory'
    BY <1>1, MemoryTyped DEF TransportTypes, DecodeEnds, memory
  <2>5. QED
    BY <1>2, <2>1, <2>2, <2>3, <2>4 DEF TransportTypes
<1>4. Others(r)
  BY <1>1, <1>2 DEF Others, TransportTypes, Flow, Pipes, Flags, DecodeEnds, Goto, Finish, Fail
<1>5. Piped(r)' /\ Marked(r)'
  BY <1>1 DEF Piped, Marked, TransportTypes, Flow, Pipes, Flags, Kinds, DecodeEnds, Goto,
     Finish, Fail
<1>6. Dials(r)'
  BY <1>1 DEF Dials, Piped, TransportTypes, Flow, Pipes, Flags, HTTP, DecodeEnds, Goto, Finish, Fail
<1>7. QED
  BY <1>2, <1>3, <1>4, <1>5, <1>6 DEF Local

\* A failed connection is retried, falls back or is final.
LEMMA DecideKeeps ==
    ASSUME TInv, NEW r \in Requests, Decide(r)
    PROVE  TransportTypes' /\ Local(r)' /\ Others(r)
<1>1. TransportTypes /\ Piped(r) /\ Marked(r) /\ Begun(r) /\ Told(r) /\ Dials(r)
  BY DEF TInv, Local
<1> DEFINE Reported == Begun(r)' /\ Told(r)' /\ log' \in [Requests -> Seq(Events)]
                       /\ \A q \in Requests \ {r} : log'[q] = log[q]
<1>2. Reported
  <2>1. CASE Fail(r)
    BY <1>1, <2>1, Failing DEF Decide
  <2>2. CASE UNCHANGED log /\ ~started[r] /\ (Goto(r, "dial") \/ Goto(r, "fall back"))
    BY <1>1, <2>2, Silent DEF Decide, Goto, TransportTypes, Flow, Flags
  <2>3. QED
    BY <2>1, <2>2 DEF Decide
<1>3. TransportTypes'
  <2>1. Flow'
    <3>1. conn[r] + 1 \in Nat /\ frames[r] + 1 \in Nat /\ HTTP \in Nat /\ 0 \in Nat
      BY <1>1 DEF TransportTypes, Flow, HTTP
    <3>2. QED
      BY <1>1, <3>1 DEF TransportTypes, Flow, Pcs, Decide, Goto, Fail
  <2>2. Pipes'
    BY <1>1 DEF TransportTypes, Pipes, Kinds, Decide, Goto, Fail
  <2>3. Flags'
    BY <1>1 DEF TransportTypes, Flags, Decide, Goto, Fail
  <2>4. Memory'
    BY <1>1, MemoryTyped DEF TransportTypes, Decide, memory
  <2>5. QED
    BY <1>2, <2>1, <2>2, <2>3, <2>4 DEF TransportTypes
<1>4. Others(r)
  BY <1>1, <1>2 DEF Others, TransportTypes, Flow, Pipes, Flags, Decide, Goto, Fail
<1>5. Piped(r)' /\ Marked(r)'
  BY <1>1 DEF Piped, Marked, TransportTypes, Flow, Pipes, Flags, Kinds, Decide, Goto, Fail
<1>6. Dials(r)'
  BY <1>1 DEF Dials, Piped, TransportTypes, Flow, Pipes, Flags, HTTP, Decide, Goto, Fail
<1>7. QED
  BY <1>2, <1>3, <1>4, <1>5, <1>6 DEF Local

\* The HTTP request fails, or its answer begins.
LEMMA SendKeeps ==
    ASSUME TInv, NEW r \in Requests, SendSSE(r)
    PROVE  TransportTypes' /\ Local(r)' /\ Others(r)
<1>1. TransportTypes /\ Piped(r) /\ Marked(r) /\ Begun(r) /\ Told(r) /\ Dials(r)
  BY DEF TInv, Local
<1> DEFINE Reported == Begun(r)' /\ Told(r)' /\ log' \in [Requests -> Seq(Events)]
                       /\ \A q \in Requests \ {r} : log'[q] = log[q]
<1>2. Reported
  <2>1. CASE Fail(r)
    BY <1>1, <2>1, Failing DEF SendSSE
  <2>2. CASE Goto(r, "sse decode") /\ log' = [log EXCEPT ![r] = Append(@, [type |-> "start", from |-> HTTP])]
    <3>1. /\ pc[r] = "sse" /\ pc'[r] = "sse decode" /\ ~started[r]
          /\ conn'[r] = HTTP /\ HTTP \in Nat
      BY <1>1, <2>2 DEF SendSSE, Goto, Piped, TransportTypes, Flow, Flags, HTTP
    <3>2. QED
      BY <1>1, <2>2, <3>1, Opened
  <2>3. QED
    BY <2>1, <2>2 DEF SendSSE
<1>3. TransportTypes'
  <2>1. Flow'
    <3>1. conn[r] + 1 \in Nat /\ frames[r] + 1 \in Nat /\ HTTP \in Nat /\ 0 \in Nat
      BY <1>1 DEF TransportTypes, Flow, HTTP
    <3>2. QED
      BY <1>1, <3>1 DEF TransportTypes, Flow, Pcs, SendSSE, Goto, Fail
  <2>2. Pipes'
    BY <1>1 DEF TransportTypes, Pipes, Kinds, SendSSE, Goto, Fail
  <2>3. Flags'
    BY <1>1 DEF TransportTypes, Flags, SendSSE, Goto, Fail
  <2>4. Memory'
    BY <1>1, MemoryTyped DEF TransportTypes, SendSSE, memory
  <2>5. QED
    BY <1>2, <2>1, <2>2, <2>3, <2>4 DEF TransportTypes
<1>4. Others(r)
  BY <1>1, <1>2 DEF Others, TransportTypes, Flow, Pipes, Flags, SendSSE, Goto, Fail
<1>5. Piped(r)' /\ Marked(r)'
  BY <1>1 DEF Piped, Marked, TransportTypes, Flow, Pipes, Flags, Kinds, SendSSE, Goto, Fail
<1>6. Dials(r)'
  BY <1>1 DEF Dials, Piped, TransportTypes, Flow, Pipes, Flags, HTTP, SendSSE, Goto, Fail
<1>7. QED
  BY <1>2, <1>3, <1>4, <1>5, <1>6 DEF Local

\* An event of the HTTP answer.
LEMMA DecodeSSEKeeps ==
    ASSUME TInv, NEW r \in Requests, DecodeSSE(r)
    PROVE  TransportTypes' /\ Local(r)' /\ Others(r)
<1>1. TransportTypes /\ Piped(r) /\ Marked(r) /\ Begun(r) /\ Told(r) /\ Dials(r)
  BY DEF TInv, Local
<1> DEFINE Reported == Begun(r)' /\ Told(r)' /\ log' \in [Requests -> Seq(Events)]
                       /\ \A q \in Requests \ {r} : log'[q] = log[q]
<1>2. Reported
  <2>1. CASE UNCHANGED log
    BY <1>1, <2>1, Silent DEF DecodeSSE
  <2>2. CASE log' = Pushed(r, "delta")
    BY <1>1, <2>2, Continued DEF DecodeSSE
  <2>3. QED
    BY <2>1, <2>2 DEF DecodeSSE
<1>3. TransportTypes'
  <2>1. Flow'
    <3>1. conn[r] + 1 \in Nat /\ frames[r] + 1 \in Nat /\ HTTP \in Nat /\ 0 \in Nat
      BY <1>1 DEF TransportTypes, Flow, HTTP
    <3>2. QED
      BY <1>1, <3>1 DEF TransportTypes, Flow, Pcs, DecodeSSE, Goto
  <2>2. Pipes'
    BY <1>1 DEF TransportTypes, Pipes, Kinds, DecodeSSE, Goto
  <2>3. Flags'
    BY <1>1 DEF TransportTypes, Flags, DecodeSSE, Goto
  <2>4. Memory'
    BY <1>1, MemoryTyped DEF TransportTypes, DecodeSSE, memory
  <2>5. QED
    BY <1>2, <2>1, <2>2, <2>3, <2>4 DEF TransportTypes
<1>4. Others(r)
  BY <1>1, <1>2 DEF Others, TransportTypes, Flow, Pipes, Flags, DecodeSSE, Goto
<1>5. Piped(r)' /\ Marked(r)'
  BY <1>1 DEF Piped, Marked, TransportTypes, Flow, Pipes, Flags, Kinds, DecodeSSE, Goto
<1>6. Dials(r)'
  BY <1>1 DEF Dials, Piped, TransportTypes, Flow, Pipes, Flags, HTTP, DecodeSSE, Goto
<1>7. QED
  BY <1>2, <1>3, <1>4, <1>5, <1>6 DEF Local

\* The HTTP answer ends.
LEMMA SSEEndsKeeps ==
    ASSUME TInv, NEW r \in Requests, SSEEnds(r)
    PROVE  TransportTypes' /\ Local(r)' /\ Others(r)
<1>1. TransportTypes /\ Piped(r) /\ Marked(r) /\ Begun(r) /\ Told(r) /\ Dials(r)
  BY DEF TInv, Local
<1> DEFINE Reported == Begun(r)' /\ Told(r)' /\ log' \in [Requests -> Seq(Events)]
                       /\ \A q \in Requests \ {r} : log'[q] = log[q]
<1>2. Reported
  <2>1. CASE Fail(r)
    BY <1>1, <2>1, Failing DEF SSEEnds
  <2>2. CASE mark[r] # "none" /\ Finish(r)
    BY <1>1, <2>2, Finishing DEF SSEEnds
  <2>3. QED
    BY <2>1, <2>2 DEF SSEEnds
<1>3. TransportTypes'
  <2>1. Flow'
    <3>1. conn[r] + 1 \in Nat /\ frames[r] + 1 \in Nat /\ HTTP \in Nat /\ 0 \in Nat
      BY <1>1 DEF TransportTypes, Flow, HTTP
    <3>2. QED
      BY <1>1, <3>1 DEF TransportTypes, Flow, Pcs, SSEEnds, Goto, Finish, Fail
  <2>2. Pipes'
    BY <1>1 DEF TransportTypes, Pipes, Kinds, SSEEnds, Goto, Finish, Fail
  <2>3. Flags'
    BY <1>1 DEF TransportTypes, Flags, SSEEnds, Goto, Finish, Fail
  <2>4. Memory'
    BY <1>1, MemoryTyped DEF TransportTypes, SSEEnds, memory
  <2>5. QED
    BY <1>2, <2>1, <2>2, <2>3, <2>4 DEF TransportTypes
<1>4. Others(r)
  BY <1>1, <1>2 DEF Others, TransportTypes, Flow, Pipes, Flags, SSEEnds, Goto, Finish, Fail
<1>5. Piped(r)' /\ Marked(r)'
  BY <1>1 DEF Piped, Marked, TransportTypes, Flow, Pipes, Flags, Kinds, SSEEnds, Goto, Finish, Fail
<1>6. Dials(r)'
  BY <1>1 DEF Dials, Piped, TransportTypes, Flow, Pipes, Flags, HTTP, SSEEnds, Goto, Finish, Fail
<1>7. QED
  BY <1>2, <1>3, <1>4, <1>5, <1>6 DEF Local

\* The caller gives up.
LEMMA CancelKeeps ==
    ASSUME TInv, NEW r \in Requests, Cancel(r)
    PROVE  TransportTypes' /\ Local(r)' /\ Others(r)
<1>1. TransportTypes /\ Piped(r) /\ Marked(r) /\ Begun(r) /\ Told(r) /\ Dials(r)
  BY DEF TInv, Local
<1> DEFINE Reported == Begun(r)' /\ Told(r)' /\ log' \in [Requests -> Seq(Events)]
                       /\ \A q \in Requests \ {r} : log'[q] = log[q]
<1>2. Reported
  BY <1>1, Silent DEF Cancel
<1>3. TransportTypes'
  <2>1. Flow'
    <3>1. conn[r] + 1 \in Nat /\ frames[r] + 1 \in Nat /\ HTTP \in Nat /\ 0 \in Nat
      BY <1>1 DEF TransportTypes, Flow, HTTP
    <3>2. QED
      BY <1>1, <3>1 DEF TransportTypes, Flow, Pcs, Cancel, Goto
  <2>2. Pipes'
    BY <1>1 DEF TransportTypes, Pipes, Kinds, Cancel, Goto
  <2>3. Flags'
    BY <1>1 DEF TransportTypes, Flags, Cancel, Goto
  <2>4. Memory'
    BY <1>1, MemoryTyped DEF TransportTypes, Cancel, memory
  <2>5. QED
    BY <1>2, <2>1, <2>2, <2>3, <2>4 DEF TransportTypes
<1>4. Others(r)
  BY <1>1, <1>2 DEF Others, TransportTypes, Flow, Pipes, Flags, Cancel, Goto
<1>5. Piped(r)' /\ Marked(r)'
  BY <1>1 DEF Piped, Marked, TransportTypes, Flow, Pipes, Flags, Kinds, Cancel, Goto
<1>6. Dials(r)'
  BY <1>1 DEF Dials, Piped, TransportTypes, Flow, Pipes, Flags, HTTP, Cancel, Goto
<1>7. QED
  BY <1>2, <1>3, <1>4, <1>5, <1>6 DEF Local

-----------------------------------------------------------------------------
(* The accounts                                                            *)

\* One element more counts for one.
LEMMA OneMore ==
    ASSUME NEW R, IsFiniteSet(R), NEW r \in R, NEW S \in SUBSET R, NEW T \in SUBSET R,
           \A q \in R \ {r} : q \in S <=> q \in T
    PROVE  /\ Cardinality(S) \in Nat /\ Cardinality(T) \in Nat
           /\ (r \in S <=> r \in T) => Cardinality(T) = Cardinality(S)
           /\ r \notin S /\ r \in T => Cardinality(T) = Cardinality(S) + 1
<1>1. IsFiniteSet(S) /\ IsFiniteSet(T)
  BY FS_Subset
<1>2. Cardinality(S) \in Nat /\ Cardinality(T) \in Nat
  BY <1>1, FS_CardinalityType
<1>3. ASSUME r \in S <=> r \in T PROVE T = S
  BY <1>3
<1>4. ASSUME r \notin S, r \in T PROVE Cardinality(T) = Cardinality(S) + 1
  <2>1. T = S \cup {r}
    BY <1>4
  <2>2. QED
    BY <1>1, <1>4, <2>1, FS_AddElement
<1>5. QED
  BY <1>2, <1>3, <1>4

\* The sets that are counted, and how a step of one request changes their sizes.
Counts(S, T, r) ==
    /\ Cardinality(S) \in Nat /\ Cardinality(T) \in Nat
    /\ (r \in S <=> r \in T) => Cardinality(T) = Cardinality(S)
    /\ r \notin S /\ r \in T => Cardinality(T) = Cardinality(S) + 1

\* Every set that is counted loses or gains at most the request that steps.
LEMMA Counted ==
    ASSUME NEW r \in Requests, Others(r)
    PROVE  /\ Counts(Moved, Moved', r) /\ Counts(Fallen, Fallen', r) /\ Counts(Broken, Broken', r)
           /\ Counts(Dialed, Dialed', r) /\ Counts(Twice, Twice', r)
<1>1. IsFiniteSet(Requests)
  BY CodexAssumption
<1>2. Counts(Moved, Moved', r)
  <2>1. \A q \in Requests \ {r} : q \in Moved <=> q \in Moved'
    BY DEF Others, Moved
  <2>2. Moved \in SUBSET Requests /\ Moved' \in SUBSET Requests
    BY DEF Moved
  <2>3. QED
    BY <1>1, <2>1, <2>2, OneMore DEF Counts
<1>3. Counts(Fallen, Fallen', r)
  <2>1. \A q \in Requests \ {r} : q \in Fallen <=> q \in Fallen'
    BY DEF Others, Moved, Late, Leaving, Fallen
  <2>2. Fallen \in SUBSET Requests /\ Fallen' \in SUBSET Requests
    BY DEF Moved, Leaving, Fallen
  <2>3. QED
    BY <1>1, <2>1, <2>2, OneMore DEF Counts
<1>4. Counts(Broken, Broken', r)
  <2>1. \A q \in Requests \ {r} : q \in Broken <=> q \in Broken'
    BY DEF Others, Moved, Late, Leaving, Fallen, Cut, Broken
  <2>2. Broken \in SUBSET Requests /\ Broken' \in SUBSET Requests
    BY DEF Moved, Leaving, Fallen, Cut, Broken
  <2>3. QED
    BY <1>1, <2>1, <2>2, OneMore DEF Counts
<1>5. Counts(Dialed, Dialed', r)
  <2>1. \A q \in Requests \ {r} : q \in Dialed <=> q \in Dialed'
    BY DEF Others, Dialed
  <2>2. Dialed \in SUBSET Requests /\ Dialed' \in SUBSET Requests
    BY DEF Dialed
  <2>3. QED
    BY <1>1, <2>1, <2>2, OneMore DEF Counts
<1>6. Counts(Twice, Twice', r)
  <2>1. \A q \in Requests \ {r} : q \in Twice <=> q \in Twice'
    BY DEF Others, Twice
  <2>2. Twice \in SUBSET Requests /\ Twice' \in SUBSET Requests
    BY DEF Twice
  <2>3. QED
    BY <1>1, <2>1, <2>2, OneMore DEF Counts
<1>7. QED
  BY <1>2, <1>3, <1>4, <1>5, <1>6

Same(S, T, r) == r \in S <=> r \in T
Kept(S, T, r) == r \in S => r \in T

\* The dials are accounted for while no set loses a request.
LEMMA DialsCounted ==
    ASSUME NEW r \in Requests, Others(r), stats.requests \in Nat,
           Kept(Dialed, Dialed', r), Kept(Twice, Twice', r),
           stats.requests <= Cardinality(Dialed) + Cardinality(Twice),
           NEW n \in Nat,
           \/ n = stats.requests
           \/ n = stats.requests + 1 /\ ~(Same(Dialed, Dialed', r) /\ Same(Twice, Twice', r))
    PROVE  n <= Cardinality(Dialed') + Cardinality(Twice')
<1>1. \A x, d, t, e, u \in Nat : x <= d + t =>
          /\ e \in {d, d + 1} /\ u \in {t, t + 1} => x <= e + u
          /\ e = d + 1 /\ u \in {t, t + 1} => x + 1 <= e + u
          /\ e \in {d, d + 1} /\ u = t + 1 => x + 1 <= e + u
  OBVIOUS
<1>2. Counts(Dialed, Dialed', r) /\ Counts(Twice, Twice', r)
  BY Counted
<1>3. /\ Cardinality(Dialed) \in Nat /\ Cardinality(Dialed') \in Nat
      /\ Cardinality(Twice) \in Nat /\ Cardinality(Twice') \in Nat
      /\ Cardinality(Dialed') \in {Cardinality(Dialed), Cardinality(Dialed) + 1}
      /\ Cardinality(Twice') \in {Cardinality(Twice), Cardinality(Twice) + 1}
      /\ ~Same(Dialed, Dialed', r) => Cardinality(Dialed') = Cardinality(Dialed) + 1
      /\ ~Same(Twice, Twice', r) => Cardinality(Twice') = Cardinality(Twice) + 1
  BY <1>2, Zenon DEF Counts, Kept, Same
<1>4. QED
  BY <1>1, <1>3

\* A failure is accounted for by the request that falls back or is cut off.
LEMMA FailuresCounted ==
    ASSUME NEW r \in Requests, Others(r), stats.failures \in Nat,
           stats.failures >= Cardinality(Fallen), stats.failures <= Cardinality(Broken),
           Kept(Fallen, Fallen', r), Kept(Broken, Broken', r),
           NEW n \in Nat,
           \/ n = stats.failures /\ Same(Fallen, Fallen', r)
           \/ n = stats.failures + 1 /\ ~Same(Broken, Broken', r)
    PROVE  n >= Cardinality(Fallen') /\ n <= Cardinality(Broken')
<1>1. \A x, a, b, c, d \in Nat : x >= a /\ x <= b =>
          /\ c = a /\ d \in {b, b + 1} => x >= c /\ x <= d
          /\ c \in {a, a + 1} /\ d = b + 1 => x + 1 >= c /\ x + 1 <= d
  OBVIOUS
<1>2. Counts(Fallen, Fallen', r) /\ Counts(Broken, Broken', r)
  BY Counted
<1>3. /\ Cardinality(Fallen) \in Nat /\ Cardinality(Fallen') \in Nat
      /\ Cardinality(Broken) \in Nat /\ Cardinality(Broken') \in Nat
      /\ Cardinality(Fallen') \in {Cardinality(Fallen), Cardinality(Fallen) + 1}
      /\ Cardinality(Broken') \in {Cardinality(Broken), Cardinality(Broken) + 1}
      /\ Same(Fallen, Fallen', r) => Cardinality(Fallen') = Cardinality(Fallen)
      /\ ~Same(Broken, Broken', r) => Cardinality(Broken') = Cardinality(Broken) + 1
  BY <1>2, Zenon DEF Counts, Kept, Same
<1>4. QED
  BY <1>1, <1>3

\* Who is counted where.
LEMMA Members ==
    ASSUME NEW r \in Requests
    PROVE  /\ r \in Moved <=> ~sse[r] /\ (pc[r] = "sse" \/ conn[r] = HTTP)
           /\ r \in Fallen <=> (r \in Moved /\ pipe[r] # "open") \/ pc[r] = "fall back"
           /\ r \in Broken <=>
                r \in Fallen \/ (pc[r] = "closed" /\ started[r] /\ pipe[r] \in {"transport", "eof"} /\ mark[r] = "none")
           /\ r \in Dialed <=> pipe[r] # "open" \/ pump[r] # "none"
           /\ r \in Twice <=> retried[r] /\ pc[r] # "dial"
  BY DEF Moved, Late, Leaving, Fallen, Cut, Broken, Dialed, Twice

\* And after a step.
LEMMA MembersNext ==
    ASSUME NEW r \in Requests
    PROVE  /\ r \in Moved' <=> ~sse'[r] /\ (pc'[r] = "sse" \/ conn'[r] = HTTP)
           /\ r \in Fallen' <=> (r \in Moved' /\ pipe'[r] # "open") \/ pc'[r] = "fall back"
           /\ r \in Broken' <=>
                r \in Fallen' \/ (pc'[r] = "closed" /\ started'[r] /\ pipe'[r] \in {"transport", "eof"} /\ mark'[r] = "none")
           /\ r \in Dialed' <=> pipe'[r] # "open" \/ pump'[r] # "none"
           /\ r \in Twice' <=> retried'[r] /\ pc'[r] # "dial"
  BY DEF Moved, Late, Leaving, Fallen, Cut, Broken, Dialed, Twice, HTTP

Aside(r) ==
    /\ Same(Moved, Moved', r) /\ Same(Fallen, Fallen', r)
    /\ Kept(Broken, Broken', r) /\ Kept(Dialed, Dialed', r) /\ Kept(Twice, Twice', r)

\* A step that records nothing.
LEMMA NothingRecorded ==
    ASSUME Memory, Accounts, NEW r \in Requests, Others(r), UNCHANGED memory, Aside(r)
    PROVE  Accounts'
<1>1. stats' = stats /\ fallback' = fallback /\ stats.requests \in Nat /\ stats.failures \in Nat
  BY DEF memory, Memory
<1>2. Kept(Fallen, Fallen', r)
  BY DEF Aside, Same, Kept
<1>3. Cardinality(Moved') = Cardinality(Moved)
  BY Counted DEF Counts, Aside, Same
<1>4. stats.requests <= Cardinality(Dialed') + Cardinality(Twice')
  BY <1>1, DialsCounted DEF Accounts, Aside
<1>5. stats.failures >= Cardinality(Fallen') /\ stats.failures <= Cardinality(Broken')
  BY <1>1, <1>2, FailuresCounted DEF Accounts, Aside
<1>6. QED
  BY <1>1, <1>3, <1>4, <1>5 DEF Accounts

\* A request that dials is one more dialled, or dialled twice.
LEMMA RequestRecorded ==
    ASSUME Memory, Accounts, NEW r \in Requests, Others(r), RecordRequest, Aside(r),
           ~(Same(Dialed, Dialed', r) /\ Same(Twice, Twice', r))
    PROVE  Accounts'
<1>1. /\ stats.requests \in Nat /\ stats.failures \in Nat /\ fallback' = fallback
      /\ stats'.requests = stats.requests + 1 /\ stats'.failures = stats.failures
      /\ stats'.fallbacks = stats.fallbacks
  BY DEF RecordRequest, Memory
<1>2. Kept(Fallen, Fallen', r)
  BY DEF Aside, Same, Kept
<1>3. Cardinality(Moved') = Cardinality(Moved)
  BY Counted DEF Counts, Aside, Same
<1>4. stats.requests + 1 <= Cardinality(Dialed') + Cardinality(Twice')
  <2>1. stats.requests + 1 \in Nat
    BY <1>1
  <2>2. QED
    BY <1>1, <2>1, DialsCounted DEF Accounts, Aside
<1>5. stats.failures >= Cardinality(Fallen') /\ stats.failures <= Cardinality(Broken')
  BY <1>1, <1>2, FailuresCounted DEF Accounts, Aside
<1>6. QED
  BY <1>1, <1>3, <1>4, <1>5 DEF Accounts

\* A request that goes to HTTP against its wish is one more moved.
LEMMA FallbackRecorded ==
    ASSUME Memory, Accounts, NEW r \in Requests, Others(r), RecordSSEFallback, stats.failures > 0,
           r \notin Moved, r \in Moved', Same(Fallen, Fallen', r),
           Kept(Broken, Broken', r), Kept(Dialed, Dialed', r), Kept(Twice, Twice', r)
    PROVE  Accounts'
<1>1. /\ stats.requests \in Nat /\ stats.failures \in Nat /\ stats.fallbacks \in Nat /\ fallback' = TRUE
      /\ stats'.requests = stats.requests /\ stats'.failures = stats.failures
      /\ stats'.fallbacks = stats.fallbacks + 1
  BY DEF RecordSSEFallback, Memory
<1>2. Kept(Fallen, Fallen', r)
  BY DEF Same, Kept
<1>3. Cardinality(Moved') = Cardinality(Moved) + 1
  BY Counted DEF Counts
<1>4. stats.requests <= Cardinality(Dialed') + Cardinality(Twice')
  BY <1>1, DialsCounted DEF Accounts
<1>5. stats.failures >= Cardinality(Fallen') /\ stats.failures <= Cardinality(Broken')
  BY <1>1, <1>2, FailuresCounted DEF Accounts
<1>6. QED
  BY <1>1, <1>3, <1>4, <1>5 DEF Accounts

\* A transport failure is one more request that falls back or is cut off.
LEMMA FailureRecorded ==
    ASSUME Memory, Accounts, NEW r \in Requests, Others(r), RecordFailure,
           Same(Moved, Moved', r), Kept(Fallen, Fallen', r), r \notin Broken, r \in Broken',
           Kept(Dialed, Dialed', r), Kept(Twice, Twice', r)
    PROVE  Accounts'
<1>1. /\ stats.requests \in Nat /\ stats.failures \in Nat /\ fallback' = TRUE
      /\ stats'.requests = stats.requests /\ stats'.failures = stats.failures + 1
      /\ stats'.fallbacks = stats.fallbacks
  BY DEF RecordFailure, Memory
<1>2. Kept(Broken, Broken', r) /\ ~Same(Broken, Broken', r)
  BY DEF Same, Kept
<1>3. Cardinality(Moved') = Cardinality(Moved)
  BY Counted DEF Counts, Same
<1>4. stats.requests <= Cardinality(Dialed') + Cardinality(Twice')
  BY <1>1, DialsCounted DEF Accounts
<1>5. stats.failures + 1 >= Cardinality(Fallen') /\ stats.failures + 1 <= Cardinality(Broken')
  <2>1. stats.failures + 1 \in Nat
    BY <1>1
  <2>2. QED
    BY <1>1, <1>2, <2>1, FailuresCounted DEF Accounts
<1>6. stats'.failures > 0
  BY <1>1
<1>7. QED
  BY <1>1, <1>3, <1>4, <1>5, <1>6 DEF Accounts

\* A request that finds the session fallen back is moved at once.
LEMMA SetUpCounts ==
    ASSUME TInv, NEW r \in Requests, SetUp(r), Others(r)
    PROVE  Accounts'
<1>1. TransportTypes /\ Piped(r) /\ Marked(r) /\ Dials(r) /\ Memory /\ Accounts
  BY DEF TInv, Local, TransportTypes
<1>2. pc[r] = "check" /\ conn[r] = 0 /\ pipe[r] = "open" /\ pump[r] = "none" /\ ~retried[r] /\ ~started[r]
  BY <1>1 DEF SetUp, Dials, Piped, TransportTypes, Flags
<1>3. /\ conn'[r] = 0 /\ pipe'[r] = "open" /\ pump'[r] = "none" /\ ~retried'[r] /\ ~started'[r]
      /\ sse'[r] = sse[r] /\ mark'[r] = mark[r]
  BY <1>2 DEF SetUp
<1>4. CASE pc'[r] # "sse" \/ sse[r]
  <2>1. pc'[r] # "fall back" /\ UNCHANGED memory
    BY <1>1, <1>4 DEF SetUp, Fail, TransportTypes, Flow, Pipes, Flags, Goto
  <2>2. Aside(r)
    BY <1>2, <1>3, <1>4, <2>1, Members, MembersNext DEF Aside, Same, Kept, HTTP
  <2>3. QED
    BY <1>1, <2>1, <2>2, NothingRecorded
<1>5. CASE pc'[r] = "sse" /\ ~sse[r]
  <2>1. RecordSSEFallback /\ fallback
    BY <1>1, <1>5 DEF SetUp, Fail, TransportTypes, Flow, Pipes, Flags, Goto
  <2>2. /\ r \notin Moved /\ r \in Moved' /\ Same(Fallen, Fallen', r)
        /\ Kept(Broken, Broken', r) /\ Kept(Dialed, Dialed', r) /\ Kept(Twice, Twice', r)
    <3>1. conn[r] # HTTP
      BY <1>2 DEF HTTP
    <3>2. QED
      BY <1>2, <1>3, <1>5, <3>1, Members, MembersNext DEF Same, Kept
  <2>3. stats.failures > 0
    BY <1>1, <2>1 DEF Accounts
  <2>4. QED
    BY <1>1, <2>1, <2>2, <2>3, FallbackRecorded
<1>6. QED
  BY <1>4, <1>5

\* A dial that fails is recorded, or was not tried.
LEMMA DialFailsCounts ==
    ASSUME TInv, NEW r \in Requests, DialFails(r), Others(r)
    PROVE  Accounts'
<1>1. TransportTypes /\ Piped(r) /\ Marked(r) /\ Dials(r) /\ Memory /\ Accounts
  BY DEF TInv, Local, TransportTypes
<1>2. /\ pc[r] = "dial" /\ conn[r] = (IF retried[r] THEN 1 ELSE 0) /\ ~sse[r] /\ ~started[r]
      /\ ~retried[r] => pipe[r] = "open" /\ pump[r] = "none"
      /\ retried[r] => pipe[r] = "limit"
  BY <1>1 DEF DialFails, Dials, Piped, TransportTypes, Flags
<1>3. /\ pc'[r] \in {"decode", "failed"} /\ conn'[r] = conn[r] + 1 /\ retried'[r] = retried[r] /\ sse'[r] = sse[r]
      /\ pipe'[r] # "open" \/ pump'[r] # "none"
  BY <1>1 DEF DialFails, TransportTypes, Flow, Pipes, Flags, Goto
<1>4. conn'[r] # HTTP /\ conn[r] # HTTP
  BY <1>2, <1>3 DEF HTTP
<1>5. Aside(r) /\ ~(Same(Dialed, Dialed', r) /\ Same(Twice, Twice', r))
  BY <1>2, <1>3, <1>4, Members, MembersNext DEF Aside, Same, Kept
<1>6. QED
  BY <1>1, <1>5, NothingRecorded, RequestRecorded DEF DialFails

\* A dial is recorded.
LEMMA DialCounts ==
    ASSUME TInv, NEW r \in Requests, Dial(r), Others(r)
    PROVE  Accounts'
<1>1. TransportTypes /\ Piped(r) /\ Marked(r) /\ Dials(r) /\ Memory /\ Accounts
  BY DEF TInv, Local, TransportTypes
<1>2. /\ pc[r] = "dial" /\ conn[r] = (IF retried[r] THEN 1 ELSE 0) /\ ~sse[r] /\ ~started[r]
      /\ ~retried[r] => pipe[r] = "open" /\ pump[r] = "none"
      /\ retried[r] => pipe[r] = "limit"
  BY <1>1 DEF Dial, Dials, Piped, TransportTypes, Flags
<1>3. /\ pc'[r] \in {"decode", "failed"} /\ conn'[r] = conn[r] + 1 /\ retried'[r] = retried[r] /\ sse'[r] = sse[r]
      /\ pipe'[r] # "open" \/ pump'[r] # "none"
  BY <1>1 DEF Dial, TransportTypes, Flow, Pipes, Flags, Goto
<1>4. conn'[r] # HTTP /\ conn[r] # HTTP
  BY <1>2, <1>3 DEF HTTP
<1>5. Aside(r) /\ ~(Same(Dialed, Dialed', r) /\ Same(Twice, Twice', r))
  BY <1>2, <1>3, <1>4, Members, MembersNext DEF Aside, Same, Kept
<1>6. QED
  BY <1>1, <1>5, RequestRecorded DEF Dial

\* The pump records nothing.
LEMMA ReadFailsCounts ==
    ASSUME TInv, NEW r \in Requests, ReadFails(r), Others(r)
    PROVE  Accounts'
<1>1. TransportTypes /\ Piped(r) /\ Marked(r) /\ Dials(r) /\ Memory /\ Accounts
  BY DEF TInv, Local, TransportTypes
<1>2. pc[r] = "decode" /\ conn[r] \in {1, 2} /\ ~sse[r] /\ pump[r] # "none"
  BY <1>1 DEF ReadFails, Piped, Dials
<1>3. /\ pc'[r] = "decode" /\ conn'[r] = conn[r] /\ sse'[r] = sse[r] /\ retried'[r] = retried[r]
      /\ pump'[r] # "none"
  BY <1>1, <1>2 DEF ReadFails, ClosePipe, TransportTypes, Pipes
<1>4. conn[r] # HTTP
  BY <1>2 DEF HTTP
<1>5. Aside(r)
  BY <1>2, <1>3, <1>4, Members, MembersNext DEF Aside, Same, Kept
<1>6. QED
  BY <1>1, <1>5, NothingRecorded DEF ReadFails

\* Nor does it when it classifies a message,
LEMMA ClassifyCounts ==
    ASSUME TInv, NEW r \in Requests, Classify(r), Others(r)
    PROVE  Accounts'
<1>1. TransportTypes /\ Piped(r) /\ Marked(r) /\ Dials(r) /\ Memory /\ Accounts
  BY DEF TInv, Local, TransportTypes
<1>2. pc[r] = "decode" /\ conn[r] \in {1, 2} /\ ~sse[r] /\ pump[r] # "none"
  BY <1>1 DEF Classify, Piped, Dials
<1>3. /\ pc'[r] = "decode" /\ conn'[r] = conn[r] /\ sse'[r] = sse[r] /\ retried'[r] = retried[r]
      /\ pump'[r] # "none"
  BY <1>1, <1>2 DEF Classify, ClosePipe, TransportTypes, Pipes
<1>4. conn[r] # HTTP
  BY <1>2 DEF HTTP
<1>5. Aside(r)
  BY <1>2, <1>3, <1>4, Members, MembersNext DEF Aside, Same, Kept
<1>6. QED
  BY <1>1, <1>5, NothingRecorded DEF Classify

\* or hands it on.
LEMMA WriteCounts ==
    ASSUME TInv, NEW r \in Requests, Write(r), Others(r)
    PROVE  Accounts'
<1>1. TransportTypes /\ Piped(r) /\ Marked(r) /\ Dials(r) /\ Memory /\ Accounts
  BY DEF TInv, Local, TransportTypes
<1>2. pc[r] = "decode" /\ conn[r] \in {1, 2} /\ ~sse[r] /\ pump[r] # "none"
  BY <1>1 DEF Write, Piped, Dials
<1>3. /\ pc'[r] = "decode" /\ conn'[r] = conn[r] /\ sse'[r] = sse[r] /\ retried'[r] = retried[r]
      /\ pump'[r] # "none"
  BY <1>1, <1>2 DEF Write, ClosePipe, TransportTypes, Pipes
<1>4. conn[r] # HTTP
  BY <1>2 DEF HTTP
<1>5. Aside(r)
  BY <1>2, <1>3, <1>4, Members, MembersNext DEF Aside, Same, Kept
<1>6. QED
  BY <1>1, <1>5, NothingRecorded DEF Write

\* The decoder records nothing,
LEMMA DecodeCounts ==
    ASSUME TInv, NEW r \in Requests, Decode(r), Others(r)
    PROVE  Accounts'
<1>1. TransportTypes /\ Piped(r) /\ Marked(r) /\ Dials(r) /\ Memory /\ Accounts
  BY DEF TInv, Local, TransportTypes
<1>2. Aside(r)
  BY <1>1, Members, MembersNext DEF Aside, Same, Kept, HTTP, Piped, Marked, Dials,
     TransportTypes, Flow, Pipes, Flags, Goto, Decode
<1>3. QED
  BY <1>1, <1>2, NothingRecorded DEF Decode

\* nor does the end of its answer,
LEMMA DecodeEndsCounts ==
    ASSUME TInv, NEW r \in Requests, DecodeEnds(r), Others(r)
    PROVE  Accounts'
<1>1. TransportTypes /\ Piped(r) /\ Marked(r) /\ Dials(r) /\ Memory /\ Accounts
  BY DEF TInv, Local, TransportTypes
<1>2. Aside(r)
  BY <1>1, Members, MembersNext DEF Aside, Same, Kept, HTTP, Piped, Marked, Dials,
     TransportTypes, Flow, Pipes, Flags, Goto, DecodeEnds, Finish, Fail
<1>3. QED
  BY <1>1, <1>2, NothingRecorded DEF DecodeEnds

\* the HTTP request,
LEMMA SendCounts ==
    ASSUME TInv, NEW r \in Requests, SendSSE(r), Others(r)
    PROVE  Accounts'
<1>1. TransportTypes /\ Piped(r) /\ Marked(r) /\ Dials(r) /\ Memory /\ Accounts
  BY DEF TInv, Local, TransportTypes
<1>2. Aside(r)
  BY <1>1, Members, MembersNext DEF Aside, Same, Kept, HTTP, Piped, Marked, Dials,
     TransportTypes, Flow, Pipes, Flags, Goto, SendSSE, Fail
<1>3. QED
  BY <1>1, <1>2, NothingRecorded DEF SendSSE

\* its answer,
LEMMA DecodeSSECounts ==
    ASSUME TInv, NEW r \in Requests, DecodeSSE(r), Others(r)
    PROVE  Accounts'
<1>1. TransportTypes /\ Piped(r) /\ Marked(r) /\ Dials(r) /\ Memory /\ Accounts
  BY DEF TInv, Local, TransportTypes
<1>2. Aside(r)
  BY <1>1, Members, MembersNext DEF Aside, Same, Kept, HTTP, Piped, Marked, Dials,
     TransportTypes, Flow, Pipes, Flags, Goto, DecodeSSE
<1>3. QED
  BY <1>1, <1>2, NothingRecorded DEF DecodeSSE

\* the end of that,
LEMMA SSEEndsCounts ==
    ASSUME TInv, NEW r \in Requests, SSEEnds(r), Others(r)
    PROVE  Accounts'
<1>1. TransportTypes /\ Piped(r) /\ Marked(r) /\ Dials(r) /\ Memory /\ Accounts
  BY DEF TInv, Local, TransportTypes
<1>2. Aside(r)
  BY <1>1, Members, MembersNext DEF Aside, Same, Kept, HTTP, Piped, Marked, Dials,
     TransportTypes, Flow, Pipes, Flags, Goto, SSEEnds, Finish, Fail
<1>3. QED
  BY <1>1, <1>2, NothingRecorded DEF SSEEnds

\* or the caller.
LEMMA CancelCounts ==
    ASSUME TInv, NEW r \in Requests, Cancel(r), Others(r)
    PROVE  Accounts'
<1>1. TransportTypes /\ Piped(r) /\ Marked(r) /\ Dials(r) /\ Memory /\ Accounts
  BY DEF TInv, Local, TransportTypes
<1>2. Aside(r)
  BY <1>1, Members, MembersNext DEF Aside, Same, Kept, HTTP, Piped, Marked, Dials,
     TransportTypes, Flow, Pipes, Flags, Goto, Cancel
<1>3. QED
  BY <1>1, <1>2, NothingRecorded DEF Cancel

\* A transport failure is recorded with the request it moves or cuts off.
LEMMA DecideCounts ==
    ASSUME TInv, NEW r \in Requests, Decide(r), Others(r)
    PROVE  Accounts'
<1>1. TransportTypes /\ Piped(r) /\ Marked(r) /\ Dials(r) /\ Memory /\ Accounts
  BY DEF TInv, Local, TransportTypes
<1>2. /\ pc[r] = "failed" /\ conn[r] \in {1, 2} /\ ~sse[r] /\ pipe[r] # "open" /\ mark[r] = "none"
  BY <1>1 DEF Decide, Dials, Piped, Marked, TransportTypes, Flow, Pipes, Flags, Goto
<1>3. /\ conn'[r] = conn[r] /\ sse'[r] = sse[r] /\ pipe'[r] = pipe[r] /\ pump'[r] = pump[r]
      /\ started'[r] = started[r] /\ mark'[r] = mark[r]
  BY DEF Decide
<1>4. conn[r] # HTTP
  BY <1>2 DEF HTTP
<1>5. CASE Goto(r, "dial") /\ UNCHANGED memory /\ ~retried[r]
  <2>1. pc'[r] = "dial"
    BY <1>1, <1>5 DEF TransportTypes, Flow, Pipes, Flags, Goto
  <2>2. Aside(r)
    BY <1>2, <1>3, <1>4, <1>5, <2>1, Members, MembersNext DEF Aside, Same, Kept
  <2>3. QED
    BY <1>1, <1>5, <2>2, NothingRecorded
<1>6. CASE Fail(r) /\ UNCHANGED <<retried, memory>>
  <2>1. pc'[r] = "closed"
    BY <1>1, <1>6 DEF Fail, TransportTypes, Flow, Pipes, Flags, Goto
  <2>2. Aside(r)
    BY <1>2, <1>3, <1>4, <1>6, <2>1, Members, MembersNext DEF Aside, Same, Kept
  <2>3. QED
    BY <1>1, <1>6, <2>2, NothingRecorded
<1>7. CASE pipe[r] \in {"transport", "eof"} /\ RecordFailure /\ UNCHANGED retried
           /\ IF started[r] THEN Fail(r) ELSE Goto(r, "fall back")
  <2>1. pc'[r] = IF started[r] THEN "closed" ELSE "fall back"
    BY <1>1, <1>7 DEF Fail, TransportTypes, Flow, Pipes, Flags, Goto
  <2>2. /\ Same(Moved, Moved', r) /\ Kept(Fallen, Fallen', r) /\ r \notin Broken /\ r \in Broken'
        /\ Kept(Dialed, Dialed', r) /\ Kept(Twice, Twice', r)
    BY <1>2, <1>3, <1>4, <1>7, <2>1, Members, MembersNext DEF Same, Kept
  <2>3. QED
    BY <1>1, <1>7, <2>2, FailureRecorded
<1>8. QED
  BY <1>5, <1>6, <1>7 DEF Decide

\* A request that falls back is moved, after its failure was recorded.
LEMMA FallBackCounts ==
    ASSUME TInv, NEW r \in Requests, FallBack(r), Others(r)
    PROVE  Accounts'
<1>1. TransportTypes /\ Piped(r) /\ Marked(r) /\ Dials(r) /\ Memory /\ Accounts
  BY DEF TInv, Local, TransportTypes
<1>2. pc[r] = "fall back" /\ conn[r] \in {1, 2} /\ ~sse[r] /\ pipe[r] # "open" /\ ~started[r]
  BY <1>1 DEF FallBack, Dials, Piped, TransportTypes, Flow, Pipes, Flags, Goto
<1>3. /\ conn'[r] = conn[r] /\ sse'[r] = sse[r] /\ pipe'[r] = pipe[r] /\ pump'[r] = pump[r]
      /\ started'[r] = started[r] /\ retried'[r] = retried[r] /\ pc'[r] = "sse"
  BY <1>1 DEF FallBack, TransportTypes, Flow, Pipes, Flags, Goto
<1>4. conn[r] # HTTP
  <2>1. conn[r] = 1 \/ conn[r] = 2
    BY <1>2
  <2>2. QED
    BY <2>1 DEF HTTP
<1>5. /\ r \notin Moved /\ r \in Moved' /\ r \in Fallen /\ Same(Fallen, Fallen', r)
      /\ Kept(Broken, Broken', r) /\ Kept(Dialed, Dialed', r) /\ Kept(Twice, Twice', r)
  BY <1>2, <1>3, <1>4, Members, MembersNext DEF Same, Kept
<1>6. stats.failures > 0
  <2>1. IsFiniteSet(Fallen) /\ Cardinality(Fallen) \in Nat
    <3>1. Fallen \in SUBSET Requests
      BY DEF Fallen, Moved, Leaving
    <3>2. QED
      BY <3>1, CodexAssumption, FS_Subset, FS_CardinalityType
  <2>2. Cardinality(Fallen) # 0
    BY <1>5, <2>1, FS_EmptySet
  <2>3. \A x, a \in Nat : x >= a /\ a # 0 => x > 0
    OBVIOUS
  <2>4. stats.failures \in Nat /\ stats.failures >= Cardinality(Fallen)
    BY <1>1 DEF Memory, Accounts
  <2>5. QED
    BY <2>1, <2>2, <2>3, <2>4
<1>7. QED
  BY <1>1, <1>5, <1>6, FallbackRecorded DEF FallBack

-----------------------------------------------------------------------------
(* The theorems                                                            *)

\* A session starts with no request and no record.
LEMMA TransportInit == Init => TInv
<1> SUFFICES ASSUME Init PROVE TInv
  OBVIOUS
<1>1. TransportTypes
  <2>1. Flow /\ Pipes
    BY DEF Init, NoFrame, Flow, Pipes, Pcs, Kinds
  <2>2. Flags /\ Memory
    BY DEF Init, Flags, Memory
  <2>3. log \in [Requests -> Seq(Events)]
    BY EmptySeq DEF Init
  <2>4. QED
    BY <2>1, <2>2, <2>3 DEF TransportTypes
<1>2. ASSUME NEW r \in Requests PROVE Local(r)
  <2>1. /\ pc[r] = "check" /\ conn[r] = 0 /\ pump[r] = "none" /\ frame[r] = NoFrame /\ pipe[r] = "open"
        /\ ~started[r] /\ ~retried[r] /\ mark[r] = "none" /\ log[r] = <<>>
    BY DEF Init
  <2>2. Piped(r) /\ Marked(r)
    BY <2>1 DEF Piped, Marked
  <2>3. Begun(r) /\ Told(r)
    BY <2>1 DEF Begun, Told
  <2>4. Dials(r)
    BY <2>1 DEF Dials, HTTP
  <2>5. QED
    BY <2>2, <2>3, <2>4 DEF Local
<1>3. Accounts
  <2>1. Moved = {} /\ Fallen = {} /\ Broken = {} /\ Dialed = {} /\ Twice = {}
    <3>1. \A r \in Requests : /\ pc[r] = "check" /\ conn[r] # HTTP /\ pump[r] = "none" /\ pipe[r] = "open"
                              /\ ~started[r] /\ ~retried[r]
      BY DEF Init, HTTP
    <3>2. \A r \in Requests : r \notin Moved /\ r \notin Fallen /\ r \notin Broken /\ r \notin Dialed /\ r \notin Twice
      BY <3>1, Members
    <3>3. /\ Moved \in SUBSET Requests /\ Fallen \in SUBSET Requests /\ Broken \in SUBSET Requests
          /\ Dialed \in SUBSET Requests /\ Twice \in SUBSET Requests
      BY DEF Moved, Leaving, Fallen, Cut, Broken, Dialed, Twice
    <3>4. QED
      BY <3>2, <3>3
  <2>2. stats = [requests |-> 0, failures |-> 0, fallbacks |-> 0] /\ fallback = FALSE
    BY DEF Init
  <2>3. QED
    BY <2>1, <2>2, FS_EmptySet DEF Accounts
<1>4. QED
  BY <1>1, <1>2, <1>3 DEF TInv

\* A step of one request keeps what it and the session promise.
LEMMA RequestStep ==
    ASSUME TInv, NEW r \in Requests,
           \/ SetUp(r) \/ DialFails(r) \/ Dial(r) \/ ReadFails(r) \/ Classify(r) \/ Write(r)
           \/ Decode(r) \/ DecodeEnds(r) \/ Decide(r) \/ FallBack(r)
           \/ SendSSE(r) \/ DecodeSSE(r) \/ SSEEnds(r) \/ Cancel(r)
    PROVE  TInv'
<1>1. TransportTypes' /\ Local(r)' /\ Others(r) /\ Accounts'
  <2>1. CASE SetUp(r)
    BY <2>1, SetUpKeeps, SetUpCounts
  <2>2. CASE DialFails(r)
    BY <2>2, DialFailsKeeps, DialFailsCounts
  <2>3. CASE Dial(r)
    BY <2>3, DialKeeps, DialCounts
  <2>4. CASE ReadFails(r)
    BY <2>4, ReadFailsKeeps, ReadFailsCounts
  <2>5. CASE Classify(r)
    BY <2>5, ClassifyKeeps, ClassifyCounts
  <2>6. CASE Write(r)
    BY <2>6, WriteKeeps, WriteCounts
  <2>7. CASE Decode(r)
    BY <2>7, DecodeKeeps, DecodeCounts
  <2>8. CASE DecodeEnds(r)
    BY <2>8, DecodeEndsKeeps, DecodeEndsCounts
  <2>9. CASE Decide(r)
    BY <2>9, DecideKeeps, DecideCounts
  <2>10. CASE FallBack(r)
    BY <2>10, FallBackKeeps, FallBackCounts
  <2>11. CASE SendSSE(r)
    BY <2>11, SendKeeps, SendCounts
  <2>12. CASE DecodeSSE(r)
    BY <2>12, DecodeSSEKeeps, DecodeSSECounts
  <2>13. CASE SSEEnds(r)
    BY <2>13, SSEEndsKeeps, SSEEndsCounts
  <2>14. CASE Cancel(r)
    BY <2>14, CancelKeeps, CancelCounts
  <2>15. QED
    BY <2>1, <2>2, <2>3, <2>4, <2>5, <2>6, <2>7, <2>8, <2>9, <2>10, <2>11, <2>12, <2>13, <2>14
<1>2. ASSUME NEW q \in Requests \ {r} PROVE Local(q)'
  <2>1. Local(q)
    BY DEF TInv
  <2>2. /\ pc'[q] = pc[q] /\ sse'[q] = sse[q] /\ conn'[q] = conn[q]
        /\ pump'[q] = pump[q] /\ frame'[q] = frame[q] /\ pipe'[q] = pipe[q]
        /\ started'[q] = started[q] /\ retried'[q] = retried[q] /\ mark'[q] = mark[q]
        /\ log'[q] = log[q]
    BY <1>1 DEF Others
  <2>3. Piped(q)' /\ Marked(q)'
    BY <2>1, <2>2 DEF Local, Piped, Marked
  <2>4. Begun(q)' /\ Told(q)'
    BY <2>1, <2>2 DEF Local, Begun, Told
  <2>5. Dials(q)'
    BY <2>1, <2>2 DEF Local, Dials, HTTP
  <2>6. QED
    BY <2>3, <2>4, <2>5 DEF Local
<1>3. QED
  BY <1>1, <1>2 DEF TInv

\* TInv is inductive.
LEMMA TransportStep == TInv /\ [Next]_vars => TInv'
<1> SUFFICES ASSUME TInv, [Next]_vars PROVE TInv'
  OBVIOUS
<1>1. CASE Next
  BY <1>1, RequestStep DEF Next
<1>2. CASE UNCHANGED vars
  <2>1. UNCHANGED <<pc, ctx, sse, conn, pump, frame, pipe, started, retried, mark, frames, log, fallback, stats>>
    BY <1>2 DEF vars, request, memory
  <2>2. TransportTypes'
    BY <2>1 DEF TInv, TransportTypes, Flow, Pipes, Flags, Memory
  <2>3. ASSUME NEW r \in Requests PROVE Local(r)'
    <3>1. Local(r)
      BY DEF TInv
    <3>2. Piped(r)' /\ Marked(r)' /\ Dials(r)'
      BY <2>1, <3>1 DEF Local, Piped, Marked, Dials, HTTP
    <3>3. Begun(r)' /\ Told(r)'
      BY <2>1, <3>1 DEF Local, Begun, Told
    <3>4. QED
      BY <3>2, <3>3 DEF Local
  <2>4. Accounts'
    <3>1. Moved' = Moved /\ Fallen' = Fallen /\ Broken' = Broken /\ Dialed' = Dialed /\ Twice' = Twice
      BY <2>1 DEF Moved, Late, Leaving, Fallen, Cut, Broken, Dialed, Twice
    <3>2. QED
      BY <2>1, <3>1 DEF TInv, Accounts
  <2>5. QED
    BY <2>2, <2>3, <2>4 DEF TInv
<1>3. QED
  BY <1>1, <1>2

\* TInv is an invariant.
THEOREM TransportInvariant == Spec => []TInv
<1>1. QED
  BY TransportInit, TransportStep, PTL DEF Spec

\* For any finite set of requests and any number of frames, the reader of a request sees one
\* answer, from one connection, whatever reconnects and falls back (run, pump, decoder).
THEOREM OneAnswerEach == Spec => []OneAnswer
<1>1. TInv => OneAnswer
  <2> SUFFICES ASSUME TInv, NEW r \in Requests
               PROVE  /\ Cardinality(Types(r, {"start"})) <= 1
                      /\ \A i \in Types(r, {"delta", "done"}) : log[r][1] = [type |-> "start", from |-> log[r][i].from]
                      /\ \A i \in Types(r, {"done", "error", "aborted"}) : i = Len(log[r])
                      /\ pc[r] = "closed" => pump[r] \in {"none", "gone"} /\ Types(r, {"done", "error", "aborted"}) # {}
                      /\ Types(r, {"done"}) # {} => mark[r] = "stop"
    BY DEF OneAnswer
  <2>1. Told(r) /\ Piped(r) /\ log[r] \in Seq(Events) /\ pump[r] \in {"none", "read", "write", "gone"}
    BY DEF TInv, Local, TransportTypes, Pipes
  <2>2. Cardinality(Types(r, {"start"})) <= 1
    <3>1. Types(r, {"start"}) \in SUBSET {1}
      BY <2>1 DEF Types, Told
    <3>2. IsFiniteSet({1}) /\ Cardinality({1}) = 1
      BY FS_Singleton
    <3>3. QED
      BY <3>1, <3>2, FS_Subset
  <2>3. \A i \in Types(r, {"delta", "done"}) : log[r][1] = [type |-> "start", from |-> log[r][i].from]
    BY <2>1 DEF Types, Told
  <2>4. \A i \in Types(r, {"done", "error", "aborted"}) : i = Len(log[r])
    BY <2>1 DEF Types, Told, Terminal
  <2>5. ASSUME pc[r] = "closed"
        PROVE  pump[r] \in {"none", "gone"} /\ Types(r, {"done", "error", "aborted"}) # {}
    <3>1. pump[r] \in {"none", "gone"}
      BY <2>1, <2>5 DEF Piped
    <3>2. Len(log[r]) \in DOMAIN log[r] /\ log[r][Len(log[r])].type \in Terminal
      <4>1. \A s \in Seq(Events) : Len(s) > 0 => Len(s) \in DOMAIN s
        OBVIOUS
      <4>2. QED
        BY <2>1, <2>5, <4>1 DEF Told
    <3>3. QED
      BY <3>1, <3>2 DEF Types, Terminal
  <2>6. Types(r, {"done"}) # {} => mark[r] = "stop"
    BY <2>1 DEF Types, Told
  <2>7. QED
    BY <2>2, <2>3, <2>4, <2>5, <2>6
<1>2. QED
  BY <1>1, TransportInvariant, PTL

\* For any finite set of requests and any number of frames, the counters that concurrent
\* requests share account for every fallback and failure (codexWSStats, codexWSFallback).
THEOREM MemoryHolds == Spec => []MemoryAccounts
<1>1. TInv => MemoryAccounts
  <2> SUFFICES ASSUME TInv PROVE MemoryAccounts
    OBVIOUS
  <2>1. Accounts /\ stats.requests \in Nat
    BY DEF TInv, TransportTypes, Memory
  <2>2. Dialed \in SUBSET (Requests \ Late) /\ Twice \in SUBSET (Requests \ Late)
    <3>1. ASSUME NEW r \in Late PROVE pump[r] = "none" /\ pipe[r] = "open" /\ ~retried[r]
      BY DEF Late, Moved, TInv, Local, Dials
    <3>2. QED
      BY <3>1 DEF Dialed, Twice
  <2>3. IsFiniteSet(Requests \ Late)
    <3>1. Requests \ Late \in SUBSET Requests
      OBVIOUS
    <3>2. QED
      BY <3>1, CodexAssumption, FS_Subset
  <2>4. /\ Cardinality(Dialed) <= Cardinality(Requests \ Late) /\ Cardinality(Twice) <= Cardinality(Requests \ Late)
        /\ Cardinality(Requests \ Late) \in Nat /\ Cardinality(Dialed) \in Nat /\ Cardinality(Twice) \in Nat
    BY <2>2, <2>3, FS_Subset, FS_CardinalityType
  <2>5. stats.requests <= 2 * Cardinality(Requests \ Late)
    <3>1. \A x, d, t, n \in Nat : x <= d + t /\ d <= n /\ t <= n => x <= 2 * n
      OBVIOUS
    <3>2. QED
      BY <2>1, <2>4, <3>1 DEF Accounts
  <2>6. QED
    BY <2>1, <2>5 DEF MemoryAccounts, Accounts, Moved, Late, Leaving, Fallen, Cut, Broken
<1>2. QED
  BY <1>1, TransportInvariant, PTL

=============================================================================
