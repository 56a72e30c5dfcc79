---------------------------- MODULE EventStream ----------------------------
(***************************************************************************)
(* ai.Stream (src/ai/stream.go), thread by thread.                         *)
(*                                                                         *)
(* Any number of producers call Push and End.  Each p in Pumps stands for  *)
(* one call of Events: the goroutine that feeds the channel (pump[p]), the *)
(* goroutine that turns a done context into a Broadcast (watcher[p]), and  *)
(* the caller ranging over the channel (consumer[p]).  Each w in Callers   *)
(* is one call of Result.  A context is named by the call it was given to. *)
(*                                                                         *)
(* s.mu is explicit (mu) because what the code must get right is what      *)
(* happens between the ctx.Err() check of next and its cond.Wait().        *)
(* Critical sections no other thread can look into are single steps.       *)
(***************************************************************************)
EXTENDS StreamEvents, FiniteSets

CONSTANTS Pumps,       \* calls of Events
          Callers,     \* calls of Result
          Cancellable, \* calls whose context is not context.Background()
          MaxCalls     \* bound on the calls of Push and End

ASSUME CallsAssumption ==
    /\ Cancellable \subseteq Pumps \cup Callers
    /\ MaxCalls \in Nat
    /\ "free" \notin Pumps

VARIABLES queue, done, result, resultCh,  \* the fields of Stream
          mu,                             \* the pump that holds s.mu, or Free
          cancelled,                      \* the contexts that are done
          pump, watcher, consumer,        \* where each thread is
          hand,                           \* the event next returned, if any
          caller, answer,                 \* where each Result call is; its return
          calls,                          \* calls of Push and End so far
          log, seen                       \* history: accepted; received

stream  == <<queue, done, result, resultCh>>
readers == <<caller, answer>>
history == <<calls, log>>
vars == <<stream, mu, cancelled, pump, watcher, consumer, hand, seen, readers,
          history>>

Free == "free"
Pending == [msg |-> NoMessage, err |-> "pending"]
InSeq(ev, s) == \E i \in DOMAIN s : s[i] = ev

Init ==
    /\ queue = <<>> /\ done = FALSE /\ result = NoMessage /\ resultCh = "open"
    /\ mu = Free
    /\ cancelled = {}
    /\ pump = [p \in Pumps |-> "off"]
    /\ watcher = [p \in Pumps |-> "off"]
    /\ consumer = [p \in Pumps |-> "off"]
    /\ hand = [p \in Pumps |-> <<>>]
    /\ caller = [w \in Callers |-> "off"]
    /\ answer = [w \in Callers |-> Pending]
    /\ calls = 0
    /\ log = <<>>
    /\ seen = [p \in Pumps |-> <<>>]

\* cond.Broadcast(): every pump asleep in cond.Wait() goes back for s.mu.
Broadcast ==
    pump' = [p \in Pumps |-> IF pump[p] = "wait" THEN "lock" ELSE pump[p]]

\* close(ch): closing a closed channel panics.
Close(ch) == IF ch = "open" THEN "closed" ELSE "panic"

-----------------------------------------------------------------------------
(* Producers                                                               *)

\* Mutated Push: a call after completion is not dropped.
PushAfterDone(ev) ==
    /\ mu = Free
    /\ calls' = calls + 1
    /\ IF IsTerminalEvent(ev)
       THEN done' = TRUE /\ result' = EventResult(ev) /\ resultCh' = "closed"
       ELSE UNCHANGED <<done, result, resultCh>>
    /\ queue' = Append(queue, ev)
    /\ log' = Append(log, ev)
    /\ Broadcast
    /\ UNCHANGED <<mu, cancelled, watcher, consumer, hand, seen, readers>>

\* Push(ev): dropped after completion; a terminal event completes the stream.
Push(ev) ==
    /\ mu = Free
    /\ calls' = calls + 1
    /\ IF done
       THEN UNCHANGED <<stream, pump, log>>
       ELSE /\ IF IsTerminalEvent(ev)
               THEN done' = TRUE /\ result' = EventResult(ev) /\ resultCh' = Close(resultCh)
               ELSE UNCHANGED <<done, result, resultCh>>
            /\ queue' = Append(queue, ev)
            /\ log' = Append(log, ev)
            /\ Broadcast
    /\ UNCHANGED <<mu, cancelled, watcher, consumer, hand, seen, readers>>

\* Mutated End, one mistake each: it does not look at done; it discards the
\* queue; it does not close resultCh.
EndWith(m, open, q, ch) ==
    /\ mu = Free
    /\ calls' = calls + 1
    /\ IF open
       THEN done' = TRUE /\ result' = m /\ resultCh' = ch /\ queue' = q /\ Broadcast
       ELSE UNCHANGED <<stream, pump>>
    /\ UNCHANGED <<mu, cancelled, watcher, consumer, hand, seen, readers, log>>

EndTwice(m)    == EndWith(m, TRUE, queue, Close(resultCh))
EndDiscards(m) == EndWith(m, ~done, <<>>, Close(resultCh))
EndUnclosed(m) == EndWith(m, ~done, queue, resultCh)

\* End(m): completes the stream with no event; m is nil or the final message.
End(m) ==
    /\ mu = Free
    /\ calls' = calls + 1
    /\ IF done
       THEN UNCHANGED <<stream, pump>>
       ELSE /\ done' = TRUE
            /\ result' = m
            /\ resultCh' = Close(resultCh)
            /\ UNCHANGED queue
            /\ Broadcast
    /\ UNCHANGED <<mu, cancelled, watcher, consumer, hand, seen, readers, log>>

Produce ==
    /\ calls < MaxCalls
    /\ \/ \E k \in Kinds : Push([kind |-> k, msg |-> calls + 1])
       \/ \E m \in {NoMessage, calls + 1} : End(m)

-----------------------------------------------------------------------------
(* Events: the pump                                                        *)

Goto(p, pc) == pump' = [pump EXCEPT ![p] = pc]

\* Events(ctx) starts both goroutines and returns the channel.
Events(p) ==
    /\ pump[p] = "off"
    /\ Goto(p, "lock")
    /\ watcher' = [watcher EXCEPT ![p] = "select"]
    /\ consumer' = [consumer EXCEPT ![p] = "range"]
    /\ UNCHANGED <<stream, mu, cancelled, hand, seen, readers, history>>

\* next takes s.mu, on entry or waking up inside cond.Wait.
NextLock(p) ==
    /\ pump[p] = "lock"
    /\ mu = Free
    /\ mu' = p
    /\ Goto(p, "check")
    /\ UNCHANGED <<stream, cancelled, watcher, consumer, hand, seen, readers, history>>

\* ctx.Err(): a done context ends the pump, otherwise next looks at the queue.
NextCheck(p) ==
    /\ pump[p] = "check"
    /\ IF p \in cancelled
       THEN mu' = Free /\ Goto(p, "stop")
       ELSE Goto(p, "look") /\ UNCHANGED mu
    /\ UNCHANGED <<stream, cancelled, watcher, consumer, hand, seen, readers, history>>

\* Mutated NextPop: the newest event first.
PopNewest(p) ==
    /\ pump[p] = "look"
    /\ queue # <<>>
    /\ hand' = [hand EXCEPT ![p] = <<queue[Len(queue)]>>]
    /\ queue' = SubSeq(queue, 1, Len(queue) - 1)
    /\ mu' = Free
    /\ Goto(p, "send")
    /\ UNCHANGED <<done, result, resultCh, cancelled, watcher, consumer, seen,
                   readers, history>>

NextPop(p) ==
    /\ pump[p] = "look"
    /\ queue # <<>>
    /\ hand' = [hand EXCEPT ![p] = <<Head(queue)>>]
    /\ queue' = Tail(queue)
    /\ mu' = Free
    /\ Goto(p, "send")
    /\ UNCHANGED <<done, result, resultCh, cancelled, watcher, consumer, seen,
                   readers, history>>

NextDrained(p) ==
    /\ pump[p] = "look"
    /\ queue = <<>>
    /\ done
    /\ mu' = Free
    /\ Goto(p, "stop")
    /\ UNCHANGED <<stream, cancelled, watcher, consumer, hand, seen, readers, history>>

\* cond.Wait() joins the wait list and releases s.mu in one step.
NextWait(p) ==
    /\ pump[p] = "look"
    /\ queue = <<>>
    /\ ~done
    /\ mu' = Free
    /\ Goto(p, "wait")
    /\ UNCHANGED <<stream, cancelled, watcher, consumer, hand, seen, readers, history>>

\* ch <- ev: the channel is unbuffered, so the consumer must be ranging.
Send(p) ==
    /\ pump[p] = "send"
    /\ consumer[p] = "range"
    /\ seen' = [seen EXCEPT ![p] = @ \o hand[p]]
    /\ hand' = [hand EXCEPT ![p] = <<>>]
    /\ Goto(p, "lock")
    /\ UNCHANGED <<stream, mu, cancelled, watcher, consumer, readers, history>>

\* <-ctx.Done() instead: the popped event is gone.
Abandon(p) ==
    /\ pump[p] = "send"
    /\ p \in cancelled
    /\ hand' = [hand EXCEPT ![p] = <<>>]
    /\ Goto(p, "stop")
    /\ UNCHANGED <<stream, mu, cancelled, watcher, consumer, seen, readers, history>>

\* The deferred close(stop), then the deferred close(ch).
CloseStop(p) ==
    /\ pump[p] = "stop"
    /\ Goto(p, "stopped")
    /\ UNCHANGED <<stream, mu, cancelled, watcher, consumer, hand, seen, readers, history>>

CloseChannel(p) ==
    /\ pump[p] = "stopped"
    /\ Goto(p, "closed")
    /\ UNCHANGED <<stream, mu, cancelled, watcher, consumer, hand, seen, readers, history>>

Pump(p) ==
    \/ NextLock(p) \/ NextCheck(p) \/ NextPop(p) \/ NextDrained(p) \/ NextWait(p)
    \/ Abandon(p) \/ CloseStop(p) \/ CloseChannel(p)

-----------------------------------------------------------------------------
(* Events: the watcher, wakeOnCancel                                       *)

WatchCancel(p) ==
    /\ watcher[p] = "select"
    /\ p \in cancelled
    /\ watcher' = [watcher EXCEPT ![p] = "lock"]
    /\ UNCHANGED <<stream, mu, cancelled, pump, consumer, hand, seen, readers, history>>

\* Mutated WatchStop: the watcher waits for ctx.Done() alone.
WatchForever(p) == FALSE /\ UNCHANGED vars

WatchStop(p) ==
    /\ watcher[p] = "select"
    /\ pump[p] \in {"stopped", "closed"}
    /\ watcher' = [watcher EXCEPT ![p] = "gone"]
    /\ UNCHANGED <<stream, mu, cancelled, pump, consumer, hand, seen, readers, history>>

\* Mutated WatchBroadcast: the Broadcast is issued without s.mu.
BroadcastUnlocked(p) ==
    /\ watcher[p] = "lock"
    /\ Broadcast
    /\ watcher' = [watcher EXCEPT ![p] = "gone"]
    /\ UNCHANGED <<stream, mu, cancelled, consumer, hand, seen, readers, history>>

\* The Broadcast is issued under s.mu.
WatchBroadcast(p) ==
    /\ watcher[p] = "lock"
    /\ mu = Free
    /\ Broadcast
    /\ watcher' = [watcher EXCEPT ![p] = "gone"]
    /\ UNCHANGED <<stream, mu, cancelled, consumer, hand, seen, readers, history>>

Watcher(p) == WatchCancel(p) \/ WatchStop(p) \/ WatchBroadcast(p)

-----------------------------------------------------------------------------
(* The callers                                                             *)

\* The consumer's range loop ends when the channel is closed.
RangeEnds(p) ==
    /\ consumer[p] = "range"
    /\ pump[p] = "closed"
    /\ consumer' = [consumer EXCEPT ![p] = "finished"]
    /\ UNCHANGED <<stream, mu, cancelled, pump, watcher, hand, seen, readers, history>>

\* A consumer may stop ranging early; it then owes its context a cancel.
LeaveEarly(p) ==
    /\ consumer[p] = "range"
    /\ p \in Cancellable
    /\ consumer' = [consumer EXCEPT ![p] = "left"]
    /\ UNCHANGED <<stream, mu, cancelled, pump, watcher, hand, seen, readers, history>>

Cancel(c) ==
    /\ c \in Cancellable \ cancelled
    /\ cancelled' = cancelled \cup {c}
    /\ UNCHANGED <<stream, mu, pump, watcher, consumer, hand, seen, readers, history>>

CancelOwed(p) == consumer[p] = "left" /\ Cancel(p)

-----------------------------------------------------------------------------
(* Result                                                                  *)

Return(w, msg, err) ==
    /\ caller' = [caller EXCEPT ![w] = "returned"]
    /\ answer' = [answer EXCEPT ![w] = [msg |-> msg, err |-> err]]

Result(w) ==
    /\ caller[w] = "off"
    /\ caller' = [caller EXCEPT ![w] = "select"]
    /\ UNCHANGED <<stream, mu, cancelled, pump, watcher, consumer, hand, seen, answer,
                   history>>

\* Mutated ResultReady: the result is read without waiting for resultCh.
ResultTooSoon(w) ==
    /\ caller[w] = "select"
    /\ caller' = [caller EXCEPT ![w] = "read"]
    /\ UNCHANGED <<stream, mu, cancelled, pump, watcher, consumer, hand, seen, answer,
                   history>>

\* select takes either ready case: <-s.resultCh or <-ctx.Done().
ResultReady(w) ==
    /\ caller[w] = "select"
    /\ resultCh = "closed"
    /\ caller' = [caller EXCEPT ![w] = "read"]
    /\ UNCHANGED <<stream, mu, cancelled, pump, watcher, consumer, hand, seen, answer,
                   history>>

ResultCancelled(w) ==
    /\ caller[w] = "select"
    /\ w \in cancelled
    /\ Return(w, NoMessage, "ctx")
    /\ UNCHANGED <<stream, mu, cancelled, pump, watcher, consumer, hand, seen, history>>

ResultRead(w) ==
    /\ caller[w] = "read"
    /\ mu = Free
    /\ IF result = NoMessage
       THEN Return(w, NoMessage, "ended")
       ELSE Return(w, result, "nil")
    /\ UNCHANGED <<stream, mu, cancelled, pump, watcher, consumer, hand, seen, history>>

-----------------------------------------------------------------------------
PumpStep(p) == Pump(p) \/ Send(p) \/ Watcher(p) \/ RangeEnds(p)
CallerStep(w) == ResultReady(w) \/ ResultCancelled(w) \/ ResultRead(w)

Next ==
    \/ Produce
    \/ \E p \in Pumps : Events(p) \/ PumpStep(p) \/ LeaveEarly(p)
    \/ \E c \in Cancellable : Cancel(c)
    \/ \E w \in Callers : Result(w) \/ CallerStep(w)

\* The Go scheduler runs every goroutine that can run; nothing obliges a
\* caller to call, or a producer to finish.  A consumer that ranges goes on
\* receiving, and one that left cancels, as the comment on Events demands.
Fairness ==
    /\ \A p \in Pumps :
          /\ WF_vars(Pump(p))
          /\ WF_vars(Send(p))
          /\ WF_vars(Watcher(p))
          /\ WF_vars(RangeEnds(p))
          /\ WF_vars(CancelOwed(p))
    /\ \A w \in Callers : WF_vars(CallerStep(w))

SafeSpec == Init /\ [][Next]_vars
Spec == SafeSpec /\ Fairness

-----------------------------------------------------------------------------
(* Properties                                                              *)

\* Every variable has its type; resultCh is closed at most once (closing it
\* again panics).
TypeOK ==
    /\ queue \in Seq(Event) /\ done \in BOOLEAN /\ result \in Nat
    /\ resultCh \in {"open", "closed"}
    /\ mu \in Pumps \cup {Free}
    /\ cancelled \subseteq Cancellable
    /\ pump \in [Pumps -> {"off", "lock", "check", "look", "wait", "send",
                           "stop", "stopped", "closed"}]
    /\ watcher \in [Pumps -> {"off", "select", "lock", "gone"}]
    /\ consumer \in [Pumps -> {"off", "range", "left", "finished"}]
    /\ hand \in [Pumps -> Seq(Event)]
    /\ caller \in [Callers -> {"off", "select", "read", "returned"}]
    /\ answer \in [Callers -> [msg : Nat, err : {"pending", "nil", "ended", "ctx"}]]
    /\ calls \in 0..MaxCalls
    /\ log \in Seq(Event)
    /\ seen \in [Pumps -> Seq(Event)]

\* Nobody sleeps through the reason to wake up: while a pump is in cond.Wait()
\* there is nothing to pop, the stream is open, and if its context is done its
\* watcher is still there to broadcast (the comment on wakeOnCancel).
NoLostWakeup ==
    \A p \in Pumps : pump[p] = "wait" =>
        /\ queue = <<>>
        /\ ~done
        /\ p \in cancelled => watcher[p] \in {"select", "lock"}

\* The stream terminates once: only the last accepted event can be terminal,
\* it terminates the stream, and its message is the final result (Push, End).
SingleTermination ==
    /\ \A i \in DOMAIN log : IsTerminalEvent(log[i]) =>
          i = Len(log) /\ done /\ result = log[i].msg
    /\ ~done => result = NoMessage
    /\ done <=> resultCh = "closed"

\* Accepted events that are not queued, in a pump's hand, or received.
Lost ==
    {ev \in {log[i] : i \in DOMAIN log} :
        /\ ~InSeq(ev, queue)
        /\ \A p \in Pumps : ~InSeq(ev, hand[p]) /\ ~InSeq(ev, seen[p])}

\* The pumps whose context is done and that came to an end.
GaveUp == {p \in cancelled \cap Pumps : pump[p] \in {"stop", "stopped", "closed"}}

\* An accepted event is queued, in a pump's hand, received, or was the one
\* event that a cancelled pump was trying to send: so a stream taken over from
\* cancelled consumers is short of at most one event for each of them.
LossBound == Cardinality(Lost) <= Cardinality(GaveUp)

\* What Result returned agrees with the final result for good: a message is the
\* final one, "ended" means that there is none, and only a caller whose context
\* is done gets the context's error.  When it may get that is CancelledFirst.
AnswersAgree ==
    \A w \in Callers :
        /\ answer[w].err = "nil" => done /\ answer[w].msg = result /\ result # NoMessage
        /\ answer[w].err = "ended" => done /\ result = NoMessage
        /\ answer[w].err = "ctx" => w \in cancelled

\* The comment on Result: the context's error comes "only ... when ctx is cancelled
\* before the stream terminates".  Whose context is done later gets the result.
CancelledFirst ==
    \A w \in Callers :
        [](done /\ w \notin cancelled => [](answer[w].err # "ctx"))

\* No thread outlives its reason to run: a done context ends the pump, asleep
\* or not, even if nobody ranges; a terminated stream closes every channel, as
\* long as its consumer keeps ranging or leaves and cancels; the watcher never
\* outlives its pump.
ThreadsEnd ==
    \A p \in Pumps :
        /\ (pump[p] # "off" /\ (done \/ p \in cancelled)) ~> (pump[p] = "closed")
        /\ (pump[p] = "closed") ~> (watcher[p] = "gone")

\* Result returns once the stream is terminated or its context is done.
ResultReturns ==
    \A w \in Callers :
        (caller[w] # "off" /\ (done \/ w \in cancelled)) ~> (caller[w] = "returned")

Contract == INSTANCE StreamContract WITH
    Consumers <- Pumps,
    Messages <- 1..MaxCalls,
    closed <- done,
    opened <- {p \in Pumps : pump[p] # "off"},
    finished <- {p \in Pumps : pump[p] = "closed"}

\* The threads of the stream implement what the stream promises.
ImplementsContract == Contract!Spec

=============================================================================
