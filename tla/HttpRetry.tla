------------------------------ MODULE HttpRetry ------------------------------
(***************************************************************************)
(* httpretry.Do (src/ai/apis/internal/httpretry/httpretry.go): one call,   *)
(* its attempts, the header timeout of each and the context of the caller. *)
(* The network may answer, fail or stay silent.  Delays are abstracted to  *)
(* "a while": how long a sleep lasts decides nothing but when it ends.     *)
(***************************************************************************)
EXTENDS Naturals, Sequences

CONSTANT MaxRetries   \* Opts.MaxRetries, or the adapter's default

ASSUME RetriesAssumption == MaxRetries \in Nat

VARIABLES pc,
          attempt,
          timed,      \* Opts.Timeout > 0
          timer,      \* the AfterFunc timer of this attempt
          cancelled,  \* the caller's context is done
          answer,     \* the response of this attempt
          bodies,     \* the attempts whose response body is open
          failures,   \* what each attempt that failed was told
          outcome,    \* what Do returned
          undrained   \* history: the attempts whose body Do closed before its end

httpVars == <<pc, attempt, timed, timer, cancelled, answer, bodies, failures, outcome, undrained>>

-----------------------------------------------------------------------------
(* What the network may say                                                *)

\* A status is 2xx, one of the five that always retry, or another; a text names
\* an account limit, a transient failure, or neither.  A body that stalls is one
\* the server never finishes.
Response == [status : {"ok", "transient", "other"}, text : {"limit", "transient", "plain"}, stalls : BOOLEAN]
NoAnswer == [status |-> "none", text |-> "plain", stalls |-> FALSE]
Transport == [status |-> "transport", text |-> "plain"]
HeaderTimeout == [status |-> "timeout", text |-> "plain"]
Refusal == [status : {"transient", "other"}, text : {"limit", "transient", "plain"}]
Failure == Refusal \cup {Transport, HeaderTimeout}

\* Limits are terminal at any status.
IsRetryable(f) ==
    /\ f.text # "limit"
    /\ \/ f.status = "transient"
       \/ f.text = "transient"

HttpInit ==
    /\ pc = "top"
    /\ attempt = 0
    /\ timed \in BOOLEAN
    /\ timer = "off"
    /\ cancelled = FALSE
    /\ answer = NoAnswer
    /\ bodies = {}
    /\ failures = <<>>
    /\ outcome = "none"
    /\ undrained = {}

Return(o) == pc' = "returned" /\ outcome' = o
Proceed(l) == pc' = l /\ UNCHANGED outcome

-----------------------------------------------------------------------------
(* The loop                                                                *)

\* Mutated Attempt: the header timeout covers the first attempt only.
AttemptTimedOnce ==
    /\ pc = "top"
    /\ \/ cancelled /\ Return("aborted") /\ UNCHANGED timer
       \/ ~cancelled /\ attempt = 0 /\ Return("invalid") /\ UNCHANGED timer
       \/ /\ ~cancelled
          /\ timer' = IF timed /\ attempt = 0 THEN "armed" ELSE "off"
          /\ Proceed("send")
    /\ UNCHANGED <<attempt, timed, cancelled, answer, bodies, failures, undrained>>

\* A URL that makes no request is found out at the first attempt.
Attempt ==
    /\ pc = "top"
    /\ \/ cancelled /\ Return("aborted") /\ UNCHANGED timer
       \/ ~cancelled /\ attempt = 0 /\ Return("invalid") /\ UNCHANGED timer
       \/ /\ ~cancelled
          /\ timer' = IF timed THEN "armed" ELSE "off"
          /\ Proceed("send")
    /\ UNCHANGED <<attempt, timed, cancelled, answer, bodies, failures, undrained>>

\* client.Do returns a response, even when its context is done by now.
Respond ==
    /\ pc = "send"
    /\ answer' \in Response
    /\ bodies' = bodies \cup {attempt}
    /\ Proceed("stop")
    /\ UNCHANGED <<attempt, timed, timer, cancelled, failures, undrained>>

\* client.Do returns an error, which is the timeout's if only the timer ended
\* timeoutCtx.
TransportFails ==
    /\ pc = "send"
    /\ failures' = Append(failures, IF timer = "fired" /\ ~cancelled THEN HeaderTimeout ELSE Transport)
    /\ timer' = "off"
    /\ Proceed("failed")
    /\ UNCHANGED <<attempt, timed, cancelled, answer, bodies, undrained>>

\* timer.Stop() when the response is there: too late if the timer fired.
StopTimer ==
    /\ pc = "stop"
    /\ timer' = IF timer = "armed" THEN "off" ELSE timer
    /\ Proceed("callback")
    /\ UNCHANGED <<attempt, timed, cancelled, answer, bodies, failures, undrained>>

AfterTransportFailure ==
    /\ pc = "failed"
    /\ \/ cancelled /\ Return("aborted")
       \/ ~cancelled /\ attempt < MaxRetries /\ Proceed("sleep")
       \/ ~cancelled /\ attempt >= MaxRetries /\ Return("failed")
    /\ UNCHANGED <<attempt, timed, timer, cancelled, answer, bodies, failures, undrained>>

\* Mutated OnResponse: a refused response is dropped without closing it.
OnResponseLeaks ==
    /\ pc = "callback"
    /\ \/ Return("callback")
       \/ answer.status = "ok" /\ Return("response")
       \/ answer.status # "ok" /\ Proceed("read")
    /\ UNCHANGED <<attempt, timed, timer, cancelled, answer, bodies, failures, undrained>>

\* Opts.OnResponse may refuse the response, which is closed unread; a 2xx is returned unread.
OnResponse ==
    /\ pc = "callback"
    /\ \/ Return("callback") /\ bodies' = bodies \ {attempt} /\ undrained' = undrained \cup {attempt}
       \/ answer.status = "ok" /\ Return("response") /\ UNCHANGED <<bodies, undrained>>
       \/ answer.status # "ok" /\ Proceed("read") /\ UNCHANGED <<bodies, undrained>>
    /\ UNCHANGED <<attempt, timed, timer, cancelled, answer, failures>>

\* The error body is read to its end, or to where the limit of its length, a broken
\* connection or a context cut it off: io.ReadAll's error is dropped, the text is cut.
ReadErrorBody ==
    /\ pc = "read"
    /\ \E text \in {answer.text, "plain"}, whole \in BOOLEAN :
          /\ answer.stalls => text = "plain" /\ ~whole /\ (cancelled \/ timer = "fired")
          /\ whole => text = answer.text
          /\ failures' = Append(failures, [status |-> answer.status, text |-> text])
          /\ undrained' = IF whole THEN undrained ELSE undrained \cup {attempt}
    /\ bodies' = bodies \ {attempt}
    /\ Proceed("refused")
    /\ UNCHANGED <<attempt, timed, timer, cancelled, answer>>

\* Mutated AfterRefusal: one retry too many.
AfterRefusalOffByOne ==
    /\ pc = "refused"
    /\ IF attempt <= MaxRetries /\ IsRetryable(failures[Len(failures)])
       THEN Proceed("sleep")
       ELSE Return("failed")
    /\ UNCHANGED <<attempt, timed, timer, cancelled, answer, bodies, failures, undrained>>

AfterRefusal ==
    /\ pc = "refused"
    /\ IF attempt < MaxRetries /\ IsRetryable(failures[Len(failures)])
       THEN Proceed("sleep")
       ELSE Return("failed")
    /\ UNCHANGED <<attempt, timed, timer, cancelled, answer, bodies, failures, undrained>>

\* The delay is over, or the context is done first; when both are, either.
Sleep ==
    /\ pc = "sleep"
    /\ \/ cancelled /\ Return("aborted") /\ UNCHANGED attempt
       \/ attempt' = attempt + 1 /\ Proceed("top")
    /\ UNCHANGED <<timed, timer, cancelled, answer, bodies, failures, undrained>>

Loop == Attempt \/ StopTimer \/ AfterTransportFailure \/ OnResponse \/ AfterRefusal \/ Sleep

-----------------------------------------------------------------------------
(* The clock and the caller                                                *)

\* The AfterFunc timer cancels timeoutCtx.
TimerFires ==
    /\ timer = "armed"
    /\ timer' = "fired"
    /\ UNCHANGED <<pc, attempt, timed, cancelled, answer, bodies, failures, outcome, undrained>>

CancelCall ==
    /\ pc # "returned" /\ ~cancelled
    /\ cancelled' = TRUE
    /\ UNCHANGED <<pc, attempt, timed, timer, answer, bodies, failures, outcome, undrained>>

HttpNext == Loop \/ Respond \/ TransportFails \/ ReadErrorBody \/ TimerFires \/ CancelCall

\* Timers fire, callbacks return, and client.Do and reads end once their context is
\* done or, for a read, when the body does.  Nothing obliges the network to answer.
Cut == cancelled \/ timer = "fired"
HttpSpec ==
    /\ HttpInit /\ [][HttpNext]_httpVars
    /\ WF_httpVars(Loop) /\ WF_httpVars(TimerFires) /\ WF_httpVars(ReadErrorBody)
    /\ WF_httpVars(Cut /\ TransportFails)

-----------------------------------------------------------------------------
(* Properties                                                              *)

\* Every variable has its type.
TypeOK ==
    /\ pc \in {"top", "send", "stop", "failed", "callback", "read", "refused", "sleep", "returned"}
    /\ attempt \in 0..MaxRetries
    /\ timed \in BOOLEAN /\ cancelled \in BOOLEAN
    /\ timer \in {"off", "armed", "fired"}
    /\ answer \in Response \cup {NoAnswer}
    /\ bodies \subseteq 0..MaxRetries
    /\ failures \in Seq(Failure)
    /\ outcome \in {"none", "invalid", "aborted", "failed", "callback", "response"}
    /\ undrained \subseteq 0..MaxRetries

Transient(f) == f \in {Transport, HeaderTimeout} \/ IsRetryable(f)

\* The comment on Do: transient failures are retried up to the cap and nothing else
\* is.  No attempt follows an account limit that was read or a terminal refusal, Do
\* gives up only on such a failure or when the cap is spent, it makes no more than
\* MaxRetries + 1 attempts, and it blames the caller only for the caller's context.
RetriesJustified ==
    /\ Len(failures) \in {attempt, attempt + 1} /\ attempt <= MaxRetries
    /\ \A i \in 1..attempt : Transient(failures[i])
    /\ outcome = "failed" =>
          /\ Len(failures) = attempt + 1
          /\ Transient(failures[attempt + 1]) => attempt = MaxRetries
    /\ outcome = "aborted" => cancelled

\* Every response body is closed: at any time only the current attempt's may be open,
\* and when Do returned, it is open exactly if it was handed to the caller (the comment
\* on Do, but for the draining, which is BodiesDrained).
BodiesSettled ==
    /\ bodies \subseteq {attempt}
    /\ pc = "returned" => (bodies # {} <=> outcome = "response")

\* The comment on Do: "On failure every response body has already been drained".
BodiesDrained == pc = "returned" /\ outcome # "response" => undrained = {}

\* A cancelled call returns, and so does a call with a header timeout however silent
\* the network is at any of its attempts, unless the body of a refusal never ends:
\* the timer is stopped before that body is read.
CallReturns ==
    /\ cancelled ~> (pc = "returned")
    /\ timed ~> (pc = "returned" \/ (pc = "read" /\ answer.stalls))
=============================================================================
