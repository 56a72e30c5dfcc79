---------------------------- MODULE CodexTransport ----------------------------
(***************************************************************************)
(* The Codex adapter (src/ai/apis/codex): requests that try a WebSocket    *)
(* first and fall back to HTTP with SSE, and the memory of the sessions    *)
(* that fell back, which the requests of a process share.  A WebSocket     *)
(* answer passes through two goroutines: the pump reads, classifies and    *)
(* forwards messages into a pipe, the decoder reads the other end.         *)
(* The decoder itself is that of ResponsesStream; here a frame is one      *)
(* event, marked with the connection that brought it.                      *)
(***************************************************************************)
EXTENDS Naturals, Sequences, FiniteSets

CONSTANTS Requests,   \* of one session
          Impatient,  \* those with an idle timeout, Opts.Timeout > 0
          MaxFrames   \* frames that one connection brings at most

\* The requests of a process are finitely many.
ASSUME CodexAssumption == IsFiniteSet(Requests) /\ MaxFrames \in Nat

HTTP == 3

VARIABLES pc, ctx, sse,     \* of each request; sse: Opts.Transport is "sse"
          conn,             \* the connection the request is at: 1 or 2 dials, or HTTP
          pump,             \* none | read | holding a frame | gone
          frame,            \* the frame the pump holds, and the one the decoder has in its buffer
          pipe,             \* open, or how the pump closed it
          started, retried,
          mark,             \* the terminal event was decoded, and the stop reason it gave
          frames,           \* messages this connection brought
          log,              \* events pushed
          fallback, stats   \* codexWSFallback and codexWSStats of the session

request == <<pc, ctx, sse, conn, pump, frame, pipe, started, retried, mark, frames, log>>
memory == <<fallback, stats>>
vars == <<request, memory>>

NoFrame == [pump |-> "none", decoder |-> "none"]

Init ==
    /\ pc = [r \in Requests |-> "check"]
    /\ ctx = [r \in Requests |-> FALSE]
    /\ sse \in [Requests -> BOOLEAN]
    /\ conn = [r \in Requests |-> 0]
    /\ pump = [r \in Requests |-> "none"]
    /\ frame = [r \in Requests |-> NoFrame]
    /\ pipe = [r \in Requests |-> "open"]
    /\ started = [r \in Requests |-> FALSE]
    /\ retried = [r \in Requests |-> FALSE]
    /\ mark = [r \in Requests |-> "none"]
    /\ frames = [r \in Requests |-> 0]
    /\ log = [r \in Requests |-> <<>>]
    /\ fallback = FALSE
    /\ stats = [requests |-> 0, failures |-> 0, fallbacks |-> 0]

Goto(r, l) == pc' = [pc EXCEPT ![r] = l]
Pushed(r, type) == [log EXCEPT ![r] = Append(@, [type |-> type, from |-> conn[r]])]
Fail(r) == Goto(r, "closed") /\ log' = Pushed(r, IF ctx[r] THEN "aborted" ELSE "error")

-----------------------------------------------------------------------------
(* The memory of the session, every operation under codexWSMu              *)

RecordRequest == stats' = [stats EXCEPT !.requests = @ + 1] /\ UNCHANGED fallback
RecordSSEFallback == stats' = [stats EXCEPT !.fallbacks = @ + 1] /\ fallback' = TRUE
RecordFailure == stats' = [stats EXCEPT !.failures = @ + 1] /\ fallback' = TRUE

-----------------------------------------------------------------------------
(* run, up to the connection                                               *)

\* No key, a token without an account, a payload hook that fails or a payload that
\* does not marshal fail the request before any transport.
SetUp(r) ==
    /\ pc[r] = "check"
    /\ \/ Fail(r) /\ UNCHANGED memory
       \/ /\ Goto(r, IF sse[r] \/ fallback THEN "sse" ELSE "dial")
          /\ IF ~sse[r] /\ fallback THEN RecordSSEFallback ELSE UNCHANGED memory
          /\ UNCHANGED log
    /\ UNCHANGED <<ctx, sse, conn, pump, frame, pipe, started, retried, mark, frames>>

\* processCodexWebSocketStream gives up before the pump runs: the URL, the dial (which
\* the timeout ends at the latest) or the write fails, or the payload is no JSON object.
DialFails(r) ==
    /\ pc[r] = "dial"
    /\ Goto(r, "failed")
    /\ conn' = [conn EXCEPT ![r] = @ + 1]
    /\ pipe' = [pipe EXCEPT ![r] = "transport"]
    /\ RecordRequest \/ UNCHANGED memory
    /\ UNCHANGED <<ctx, sse, pump, frame, started, retried, mark, frames, log>>

Dial(r) ==
    /\ pc[r] = "dial"
    /\ Goto(r, "decode")
    /\ conn' = [conn EXCEPT ![r] = @ + 1]
    /\ pump' = [pump EXCEPT ![r] = "read"]
    /\ pipe' = [pipe EXCEPT ![r] = "open"]
    /\ frame' = [frame EXCEPT ![r] = NoFrame]
    /\ started' = [started EXCEPT ![r] = FALSE]
    /\ frames' = [frames EXCEPT ![r] = 0]
    /\ RecordRequest
    /\ UNCHANGED <<ctx, sse, retried, mark, log>>

-----------------------------------------------------------------------------
(* pumpCodexWebSocketMessages                                              *)

ClosePipe(r, how) == pump' = [pump EXCEPT ![r] = "gone"] /\ pipe' = [pipe EXCEPT ![r] = how]


\* conn.Read fails: the context, the idle timeout or the connection.
ReadFails(r) ==
    /\ pump[r] = "read"
    /\ ClosePipe(r, "transport")
    /\ UNCHANGED <<pc, ctx, sse, conn, frame, started, retried, mark, frames, log, memory>>

\* error and response.failed, with or without the connection limit's code, and what
\* is no JSON close the pipe; everything else is forwarded, and the first message that
\* is pushes the start event.
Classify(r) ==
    /\ pump[r] = "read" /\ frames[r] < MaxFrames
    /\ \/ /\ \E how \in {"api", "limit"} : ClosePipe(r, how)
          /\ UNCHANGED <<frame, started, log>>
       \/ /\ \E kind \in {"data", "terminal", "garbled terminal"} : frame' = [frame EXCEPT ![r].pump = kind]
          /\ pump' = [pump EXCEPT ![r] = "write"]
          /\ started' = [started EXCEPT ![r] = TRUE]
          /\ log' = IF started[r] THEN log ELSE Pushed(r, "start")
          /\ UNCHANGED pipe
    /\ frames' = [frames EXCEPT ![r] = @ + 1]
    /\ UNCHANGED <<pc, ctx, sse, conn, retried, mark, memory>>

\* pw.Write returns when the decoder took the frame; a terminal one is the last.
Write(r) ==
    /\ pump[r] = "write" /\ frame[r].decoder = "none"
    /\ frame' = [frame EXCEPT ![r] = [pump |-> "none", decoder |-> frame[r].pump]]
    /\ IF frame[r].pump = "data"
       THEN pump' = [pump EXCEPT ![r] = "read"] /\ UNCHANGED pipe
       ELSE ClosePipe(r, "eof")
    /\ UNCHANGED <<pc, ctx, sse, conn, started, retried, mark, frames, log, memory>>

-----------------------------------------------------------------------------
(* The decoder, and what becomes of the request                            *)

\* A frame in the decoder's buffer.  A terminal event whose fields do not parse is
\* skipped like any other.
Decode(r) ==
    /\ pc[r] = "decode" /\ frame[r].decoder # "none"
    /\ CASE frame[r].decoder = "data" -> log' = Pushed(r, "delta") /\ UNCHANGED mark
         [] frame[r].decoder = "terminal" -> (\E reason \in {"stop", "error"} : mark' = [mark EXCEPT ![r] = reason]) /\ UNCHANGED log
         [] OTHER -> UNCHANGED <<mark, log>>
    /\ frame' = [frame EXCEPT ![r].decoder = "none"]
    /\ UNCHANGED <<pc, ctx, sse, conn, pump, pipe, started, retried, frames, memory>>

\* finishCodexStream
Finish(r) ==
    IF ctx[r] \/ mark[r] = "error" THEN Fail(r) ELSE Goto(r, "closed") /\ log' = Pushed(r, "done")

\* The pipe is drained and closed.
DecodeEnds(r) ==
    /\ pc[r] = "decode" /\ frame[r].decoder = "none" /\ pipe[r] # "open"
    /\ IF pipe[r] = "eof" /\ mark[r] # "none" THEN Finish(r) ELSE Goto(r, "failed") /\ UNCHANGED log
    /\ UNCHANGED <<ctx, sse, conn, pump, frame, pipe, started, retried, mark, frames, memory>>

\* Mutated Decide: every transport failure falls back, even after output started.
DecideAlwaysFallsBack(r) ==
    /\ pc[r] = "failed"
    /\ \/ /\ ~ctx[r] /\ ~started[r] /\ pipe[r] = "limit" /\ ~retried[r]
          /\ retried' = [retried EXCEPT ![r] = TRUE]
          /\ Goto(r, "dial") /\ UNCHANGED <<log, memory>>
       \/ /\ ctx[r] \/ pipe[r] = "api" \/ (pipe[r] = "limit" /\ (started[r] \/ retried[r]))
          /\ Fail(r) /\ UNCHANGED <<retried, memory>>
       \/ /\ ~ctx[r] /\ pipe[r] \in {"transport", "eof"}
          /\ stats' = [stats EXCEPT !.failures = @ + 1, !.fallbacks = @ + 1]
          /\ fallback' = TRUE
          /\ Goto(r, "sse") /\ UNCHANGED <<log, retried>>
    /\ UNCHANGED <<ctx, sse, conn, pump, frame, pipe, started, mark, frames>>

\* attemptCodexWebSocket's one retry, then the decision of the fallback: an error of
\* the API or the protocol and a done context are final, and so is a transport failure
\* once output started; any other transport failure falls back, whatever caused it.
Decide(r) ==
    /\ pc[r] = "failed"
    /\ \/ /\ ~ctx[r] /\ ~started[r] /\ pipe[r] = "limit" /\ ~retried[r]
          /\ retried' = [retried EXCEPT ![r] = TRUE]
          /\ Goto(r, "dial") /\ UNCHANGED <<log, memory>>
       \/ /\ ctx[r] \/ pipe[r] = "api" \/ (pipe[r] = "limit" /\ (started[r] \/ retried[r]))
          /\ Fail(r) /\ UNCHANGED <<retried, memory>>
       \/ /\ ~ctx[r] /\ pipe[r] \in {"transport", "eof"}
          /\ RecordFailure
          /\ IF started[r] THEN Fail(r) ELSE Goto(r, "fall back") /\ UNCHANGED log
          /\ UNCHANGED retried
    /\ UNCHANGED <<ctx, sse, conn, pump, frame, pipe, started, mark, frames>>

\* Mutated FallBack: the fallback is not counted.
FallBackUncounted(r) ==
    /\ pc[r] = "fall back"
    /\ Goto(r, "sse")
    /\ UNCHANGED <<ctx, sse, conn, pump, frame, pipe, started, retried, mark, frames, log, memory>>

\* Another request may come between the record of the failure and this one.
FallBack(r) ==
    /\ pc[r] = "fall back"
    /\ Goto(r, "sse")
    /\ RecordSSEFallback
    /\ UNCHANGED <<ctx, sse, conn, pump, frame, pipe, started, retried, mark, frames, log>>

\* doRequestWithRetry (HttpRetry) fails, or its response is decoded.
SendSSE(r) ==
    /\ pc[r] = "sse"
    /\ conn' = [conn EXCEPT ![r] = HTTP]
    /\ \/ Fail(r)
       \/ /\ Goto(r, "sse decode")
          /\ log' = [log EXCEPT ![r] = Append(@, [type |-> "start", from |-> HTTP])]
    /\ frames' = [frames EXCEPT ![r] = 0]
    /\ UNCHANGED <<ctx, sse, pump, frame, pipe, started, retried, mark, memory>>

\* The answer's events; its end, with the terminal event or without; or a broken body.
DecodeSSE(r) ==
    /\ pc[r] = "sse decode" /\ frames[r] < MaxFrames
    /\ \/ log' = Pushed(r, "delta") /\ UNCHANGED mark
       \/ (\E reason \in {"stop", "error"} : mark' = [mark EXCEPT ![r] = reason]) /\ UNCHANGED log
    /\ frames' = [frames EXCEPT ![r] = @ + 1]
    /\ UNCHANGED <<pc, ctx, sse, conn, pump, frame, pipe, started, retried, memory>>

SSEEnds(r) ==
    /\ pc[r] = "sse decode"
    /\ Fail(r) \/ (mark[r] # "none" /\ Finish(r))
    /\ UNCHANGED <<ctx, sse, conn, pump, frame, pipe, started, retried, mark, frames, memory>>

Cancel(r) ==
    /\ pc[r] # "closed" /\ ~ctx[r]
    /\ ctx' = [ctx EXCEPT ![r] = TRUE]
    /\ UNCHANGED <<pc, sse, conn, pump, frame, pipe, started, retried, mark, frames, log, memory>>

Next ==
    \E r \in Requests :
        \/ SetUp(r) \/ DialFails(r) \/ Dial(r) \/ ReadFails(r) \/ Classify(r) \/ Write(r)
        \/ Decode(r) \/ DecodeEnds(r) \/ Decide(r) \/ FallBack(r)
        \/ SendSSE(r) \/ DecodeSSE(r) \/ SSEEnds(r) \/ Cancel(r)

\* Both goroutines run.  The dial has a timeout; conn.Read and the HTTP exchange end
\* with the context, conn.Read with the idle timeout too, and for nothing else.
Spec ==
    /\ Init /\ [][Next]_vars
    /\ \A r \in Requests :
          /\ WF_vars(SetUp(r) \/ DialFails(r) \/ Write(r) \/ Decode(r) \/ DecodeEnds(r) \/ Decide(r) \/ FallBack(r))
          /\ WF_vars((ctx[r] \/ r \in Impatient) /\ ReadFails(r))
          /\ WF_vars(ctx[r] /\ (SendSSE(r) \/ SSEEnds(r)))

-----------------------------------------------------------------------------
(* Properties                                                              *)

Last(r) == log[r][Len(log[r])]
Types(r, S) == {i \in DOMAIN log[r] : log[r][i].type \in S}

\* However often a request reconnects or falls back, its reader sees one answer: one
\* start event, before every other event but a failure; all events between it and the
\* end from the connection that started; one terminal event, the last; done only if the
\* terminal event of that answer was decoded; and no pump left behind.
OneAnswer ==
    \A r \in Requests :
        /\ Cardinality(Types(r, {"start"})) <= 1
        /\ \A i \in Types(r, {"delta", "done"}) : log[r][1] = [type |-> "start", from |-> log[r][i].from]
        /\ \A i \in Types(r, {"done", "error", "aborted"}) : i = Len(log[r])
        /\ pc[r] = "closed" => pump[r] \in {"none", "gone"} /\ Types(r, {"done", "error", "aborted"}) # {}
        /\ Types(r, {"done"}) # {} => mark[r] = "stop"

\* The memory that concurrent requests share loses nothing: the session counts one
\* fallback for every request that went to HTTP against its wish (also one that found
\* the session fallen back already), one failure for every transport failure, and it is
\* fallen back for good from the first of them on.  A request dials at most twice.
MemoryAccounts ==
    LET moved == {r \in Requests : ~sse[r] /\ (pc[r] = "sse" \/ conn[r] = HTTP)}
        late == {r \in moved : pipe[r] = "open"}
        cut == {r \in Requests : pc[r] = "closed" /\ started[r] /\ pipe[r] \in {"transport", "eof"} /\ mark[r] = "none"}
        leaving == {r \in Requests : pc[r] = "fall back"}
    IN  /\ stats.fallbacks = Cardinality(moved)
        /\ stats.failures >= Cardinality((moved \ late) \cup leaving)
        /\ stats.failures <= Cardinality((moved \ late) \cup leaving \cup cut)
        /\ fallback <=> stats.failures > 0
        /\ stats.requests <= 2 * Cardinality(Requests \ late)

\* A cancelled request ends, whichever transport it is at, and one with an idle timeout
\* leaves a silent WebSocket.
RequestsEnd ==
    \A r \in Requests :
        /\ ctx[r] ~> (pc[r] = "closed")
        /\ r \in Impatient => <>(pc[r] \in {"closed", "sse", "sse decode"})
=============================================================================
