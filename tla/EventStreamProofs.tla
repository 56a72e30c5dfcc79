------------------------- MODULE EventStreamProofs -------------------------
(***************************************************************************)
(* Proofs about EventStream, for any number of pumps, callers and producer *)
(* calls.  The inductive invariant says who may be where: a pump inside    *)
(* next holds s.mu; the pumps asleep have nothing to wake up for; and a    *)
(* watcher that is gone leaves its pump at a point from which it can only  *)
(* come to an end.                                                         *)
(*                                                                         *)
(* CInv adds what the threads hand out and answer: the queue is the end of *)
(* the log, what left it is in order, and nothing is handed out twice.     *)
(* From it follow AnswersAgree, LossBound and that the stream implements   *)
(* StreamContract.                                                         *)
(***************************************************************************)
EXTENDS EventStream, FiniteSetTheorems, SequenceTheorems, TLAPS

\* s.mu is held by the one pump that is inside next.
Mutex == \A p \in Pumps : pump[p] \in {"check", "look"} <=> mu = p

\* Push, End and the broadcasts leave nobody asleep with work to do.
Asleep == \A p \in Pumps : pump[p] = "wait" => queue = <<>> /\ ~done

\* A watcher starts with its pump and goes only after it, or when the context
\* is done and the pump has yet to check it, or is past checking.
Watched ==
    \A p \in Pumps :
        /\ pump[p] = "off" <=> watcher[p] = "off"
        /\ watcher[p] = "lock" => p \in cancelled
        /\ watcher[p] = "gone" =>
              \/ pump[p] \in {"stopped", "closed"}
              \/ p \in cancelled /\ pump[p] \notin {"look", "wait"}

\* The stream terminates once (SingleTermination, and no terminal event before).
Terminated ==
    /\ SingleTermination
    /\ ~done => \A i \in DOMAIN log : ~IsTerminalEvent(log[i])

IInv == TypeOK /\ Mutex /\ Asleep /\ Watched /\ Terminated
-----------------------------------------------------------------------------
(* Type correctness                                                        *)

LEMMA CloseOnce ==
    ASSUME TypeOK, Terminated, ~done
    PROVE  Close(resultCh) = "closed"
BY DEF TypeOK, Terminated, SingleTermination, Close

LEMMA BroadcastType ==
    ASSUME TypeOK, Broadcast
    PROVE  pump' \in [Pumps -> {"off", "lock", "check", "look", "wait", "send",
                               "stop", "stopped", "closed"}]
BY DEF TypeOK, Broadcast

LEMMA PushType ==
    ASSUME TypeOK, Terminated, calls < MaxCalls,
           NEW k \in Kinds, Push([kind |-> k, msg |-> calls + 1])
    PROVE  TypeOK'
<1> DEFINE ev == [kind |-> k, msg |-> calls + 1]
<1>1. ev \in Event /\ EventResult(ev) \in Nat /\ calls' \in 0..MaxCalls
  BY CallsAssumption DEF TypeOK, Push, Event, Message, NoMessage, EventResult, IsTerminalEvent
<1>2. CASE done
  BY <1>1, <1>2 DEF TypeOK, Push, stream, readers
<1>3. CASE ~done
  <2>1. Close(resultCh) = "closed"
    BY <1>3, CloseOnce
  <2>2. /\ done' \in BOOLEAN /\ result' \in Nat /\ resultCh' \in {"open", "closed"}
        /\ queue' = Append(queue, ev) /\ log' = Append(log, ev) /\ Broadcast
    BY <1>1, <1>3, <2>1 DEF TypeOK, Push
  <2>3. queue' \in Seq(Event) /\ log' \in Seq(Event)
    BY <1>1, <2>2 DEF TypeOK
  <2>4. QED
    BY <1>1, <2>2, <2>3, BroadcastType DEF TypeOK, Push, readers
<1>4. QED
  BY <1>2, <1>3

LEMMA EndType ==
    ASSUME TypeOK, Terminated, calls < MaxCalls,
           NEW m \in {NoMessage, calls + 1}, End(m)
    PROVE  TypeOK'
<1>1. m \in Nat /\ calls' \in 0..MaxCalls
  BY CallsAssumption DEF TypeOK, End, NoMessage
<1>2. CASE done
  BY <1>1, <1>2 DEF TypeOK, End, stream, readers
<1>3. CASE ~done
  <2>1. Close(resultCh) = "closed"
    BY <1>3, CloseOnce
  <2>2. QED
    BY <1>1, <1>3, <2>1, BroadcastType DEF TypeOK, End, readers
<1>4. QED
  BY <1>2, <1>3

LEMMA PumpType ==
    ASSUME TypeOK, NEW p \in Pumps, Events(p) \/ PumpStep(p) \/ LeaveEarly(p)
    PROVE  TypeOK'
<1> USE DEF TypeOK, Goto, stream, readers, history
<1>1. CASE Events(p)
  BY <1>1 DEF Events
<1>2. CASE NextLock(p)
  BY <1>2 DEF NextLock
<1>3. CASE NextCheck(p)
  BY <1>3 DEF NextCheck
<1>4. CASE NextPop(p)
  <2>1. Head(queue) \in Event /\ Tail(queue) \in Seq(Event)
    BY <1>4 DEF NextPop
  <2>2. <<Head(queue)>> \in Seq(Event)
    BY <2>1
  <2>3. QED
    BY <1>4, <2>1, <2>2 DEF NextPop
<1>5. CASE NextDrained(p)
  BY <1>5 DEF NextDrained
<1>6. CASE NextWait(p)
  BY <1>6 DEF NextWait
<1>7. CASE Abandon(p)
  BY <1>7 DEF Abandon
<1>8. CASE CloseStop(p)
  BY <1>8 DEF CloseStop
<1>9. CASE CloseChannel(p)
  BY <1>9 DEF CloseChannel
<1>10. CASE Send(p)
  <2>1. seen[p] \o hand[p] \in Seq(Event)
    OBVIOUS
  <2>2. QED
    BY <1>10, <2>1 DEF Send
<1>11. CASE WatchCancel(p)
  BY <1>11 DEF WatchCancel
<1>12. CASE WatchStop(p)
  BY <1>12 DEF WatchStop
<1>13. CASE WatchBroadcast(p)
  BY <1>13, BroadcastType DEF WatchBroadcast
<1>14. CASE RangeEnds(p)
  BY <1>14 DEF RangeEnds
<1>15. CASE LeaveEarly(p)
  BY <1>15 DEF LeaveEarly
<1>16. QED
  BY <1>1, <1>2, <1>3, <1>4, <1>5, <1>6, <1>7, <1>8, <1>9, <1>10, <1>11, <1>12, <1>13,
     <1>14, <1>15 DEF PumpStep, Pump, Watcher

LEMMA CallerType ==
    ASSUME TypeOK, NEW w \in Callers, Result(w) \/ CallerStep(w)
    PROVE  TypeOK'
<1> USE DEF TypeOK, Return, stream, readers, history, NoMessage
<1>1. CASE Result(w)
  BY <1>1 DEF Result
<1>2. CASE ResultReady(w)
  BY <1>2 DEF ResultReady
<1>3. CASE ResultCancelled(w)
  BY <1>3 DEF ResultCancelled
<1>4. CASE ResultRead(w)
  <2>1. PICK msg \in Nat, err \in {"nil", "ended"} : Return(w, msg, err)
    <3>1. CASE result = NoMessage
      BY <1>4, <3>1 DEF ResultRead
    <3>2. CASE result # NoMessage
      BY <1>4, <3>2 DEF ResultRead
    <3>3. QED
      BY <3>1, <3>2
  <2>2. [msg |-> msg, err |-> err] \in [msg : Nat, err : {"pending", "nil", "ended", "ctx"}]
    OBVIOUS
  <2>3. QED
    BY <1>4, <2>1, <2>2 DEF ResultRead
<1>5. QED
  BY <1>1, <1>2, <1>3, <1>4 DEF CallerStep

LEMMA TypeInductive == TypeOK /\ Terminated /\ [Next]_vars => TypeOK'
<1> SUFFICES ASSUME TypeOK, Terminated, [Next]_vars
             PROVE  TypeOK'
  OBVIOUS
<1>1. CASE Produce
  BY <1>1, PushType, EndType DEF Produce
<1>2. ASSUME NEW p \in Pumps, Events(p) \/ PumpStep(p) \/ LeaveEarly(p)
      PROVE  TypeOK'
  BY <1>2, PumpType
<1>3. ASSUME NEW c \in Cancellable, Cancel(c)
      PROVE  TypeOK'
  BY <1>3 DEF TypeOK, Cancel, stream, readers, history
<1>4. ASSUME NEW w \in Callers, Result(w) \/ CallerStep(w)
      PROVE  TypeOK'
  BY <1>4, CallerType
<1>5. CASE UNCHANGED vars
  BY <1>5 DEF TypeOK, vars, stream, readers, history
<1>6. QED
  BY <1>1, <1>2, <1>3, <1>4, <1>5 DEF Next

-----------------------------------------------------------------------------
(* Who holds s.mu, who sleeps and who watches                              *)

Threads == Mutex /\ Asleep /\ Watched

LEMMA BroadcastWakes ==
    ASSUME Broadcast, NEW p \in Pumps
    PROVE  /\ pump[p] = "wait" => pump'[p] = "lock"
           /\ pump[p] # "wait" => pump'[p] = pump[p]
BY DEF Broadcast

\* A broadcast while s.mu is free wakes the sleepers and disturbs nobody else.
LEMMA BroadcastThreads ==
    ASSUME TypeOK, Threads, Broadcast, mu = Free, mu' = mu, cancelled' = cancelled,
           NEW p \in Pumps
    PROVE  /\ pump'[p] \in {"check", "look"} <=> mu' = p
           /\ pump'[p] # "wait"
           /\ pump'[p] = "off" <=> pump[p] = "off"
           /\ pump'[p] \in {"stopped", "closed"} <=> pump[p] \in {"stopped", "closed"}
           /\ pump'[p] # "look"
<1>1. pump[p] \notin {"check", "look"} /\ mu' # p
  BY CallsAssumption DEF Threads, Mutex, Free
<1>2. QED
  BY <1>1, BroadcastWakes

LEMMA ProducerThreads ==
    ASSUME TypeOK, Threads, Produce
    PROVE  Threads'
<1>1. mu = Free /\ mu' = mu /\ watcher' = watcher /\ cancelled' = cancelled
  BY DEF Produce, Push, End
<1>2. CASE done
  <2>1. UNCHANGED <<pump, queue, done>>
    BY <1>2 DEF Produce, Push, End, stream
  <2>2. QED
    BY <1>1, <2>1 DEF Threads, Mutex, Asleep, Watched
<1>3. CASE ~done
  <2>1. Broadcast
    BY <1>3 DEF Produce, Push, End
  <2>2. Mutex' /\ Asleep'
    BY <1>1, <2>1, BroadcastThreads DEF Mutex, Asleep
  <2>3. Watched'
    BY <1>1, <2>1, BroadcastThreads DEF Threads, Watched
  <2>4. QED
    BY <2>2, <2>3 DEF Threads
<1>4. QED
  BY <1>2, <1>3

LEMMA WatcherThreads ==
    ASSUME TypeOK, Threads, NEW p \in Pumps, WatchBroadcast(p)
    PROVE  Threads'
<1>1. /\ mu = Free /\ mu' = mu /\ cancelled' = cancelled /\ Broadcast
      /\ watcher' = [watcher EXCEPT ![p] = "gone"] /\ watcher[p] = "lock"
  BY DEF WatchBroadcast
<1>2. Mutex' /\ Asleep'
  BY <1>1, BroadcastThreads DEF Mutex, Asleep
<1>3. p \in cancelled /\ pump[p] # "off"
  BY <1>1 DEF Threads, Watched
<1>4. \A q \in Pumps : watcher'[q] = IF q = p THEN "gone" ELSE watcher[q]
  BY <1>1 DEF TypeOK
<1>5. Watched'
  BY <1>1, <1>3, <1>4, BroadcastThreads DEF Threads, Watched
<1>6. QED
  BY <1>2, <1>5 DEF Threads

LEMMA PumpThreads ==
    ASSUME TypeOK, Threads, NEW p \in Pumps, Events(p) \/ PumpStep(p) \/ LeaveEarly(p)
    PROVE  Threads'
<1> USE CallsAssumption
    DEF TypeOK, Threads, Mutex, Asleep, Watched, Goto, Free, stream, readers, history
<1>1. CASE Events(p)
  BY <1>1 DEF Events
<1>2. CASE NextLock(p)
  BY <1>2 DEF NextLock
<1>3. CASE NextCheck(p)
  <2>1. CASE p \in cancelled
    <3>1. /\ pump' = [pump EXCEPT ![p] = "stop"] /\ mu = p /\ mu' = Free
          /\ UNCHANGED <<watcher, cancelled, queue, done>>
      BY <1>3, <2>1 DEF NextCheck
    <3>2. Mutex' /\ Asleep'
      BY <3>1
    <3>3. Watched'
      BY <1>3, <2>1, <3>1 DEF NextCheck
    <3>4. QED
      BY <3>2, <3>3
  <2>2. CASE p \notin cancelled
    BY <1>3, <2>2 DEF NextCheck
  <2>3. QED
    BY <2>1, <2>2
<1>4. CASE NextPop(p)
  BY <1>4 DEF NextPop
<1>5. CASE NextDrained(p)
  BY <1>5 DEF NextDrained
<1>6. CASE NextWait(p)
  BY <1>6 DEF NextWait
<1>7. CASE Abandon(p)
  BY <1>7 DEF Abandon
<1>8. CASE CloseStop(p)
  BY <1>8 DEF CloseStop
<1>9. CASE CloseChannel(p)
  BY <1>9 DEF CloseChannel
<1>10. CASE Send(p)
  BY <1>10 DEF Send
<1>11. CASE WatchCancel(p)
  BY <1>11 DEF WatchCancel
<1>12. CASE WatchStop(p)
  BY <1>12 DEF WatchStop
<1>13. CASE WatchBroadcast(p)
  BY <1>13, WatcherThreads
<1>14. CASE RangeEnds(p)
  BY <1>14 DEF RangeEnds
<1>15. CASE LeaveEarly(p)
  BY <1>15 DEF LeaveEarly
<1>16. QED
  BY <1>1, <1>2, <1>3, <1>4, <1>5, <1>6, <1>7, <1>8, <1>9, <1>10, <1>11, <1>12, <1>13,
     <1>14, <1>15 DEF PumpStep, Pump, Watcher

LEMMA CallerThreads ==
    ASSUME TypeOK, Threads, NEW w \in Callers, Result(w) \/ CallerStep(w)
    PROVE  Threads'
<1>1. UNCHANGED <<mu, pump, watcher, cancelled, queue, done>>
  BY DEF CallerStep, Result, ResultReady, ResultCancelled, ResultRead, stream
<1>2. QED
  BY <1>1 DEF Threads, Mutex, Asleep, Watched

LEMMA ThreadsInductive == TypeOK /\ Threads /\ [Next]_vars => Threads'
<1> SUFFICES ASSUME TypeOK, Threads, [Next]_vars
             PROVE  Threads'
  OBVIOUS
<1>1. CASE Produce
  BY <1>1, ProducerThreads
<1>2. ASSUME NEW p \in Pumps, Events(p) \/ PumpStep(p) \/ LeaveEarly(p)
      PROVE  Threads'
  BY <1>2, PumpThreads
<1>3. ASSUME NEW c \in Cancellable, Cancel(c)
      PROVE  Threads'
  BY <1>3 DEF Threads, Mutex, Asleep, Watched, Cancel, stream, readers, history
<1>4. ASSUME NEW w \in Callers, Result(w) \/ CallerStep(w)
      PROVE  Threads'
  BY <1>4, CallerThreads
<1>5. CASE UNCHANGED vars
  BY <1>5 DEF Threads, Mutex, Asleep, Watched, vars, stream
<1>6. QED
  BY <1>1, <1>2, <1>3, <1>4, <1>5 DEF Next

-----------------------------------------------------------------------------
(* Termination                                                             *)

LEMMA ProducerTerminates ==
    ASSUME TypeOK, Terminated, Produce
    PROVE  Terminated'
<1> USE DEF TypeOK, Terminated, SingleTermination, stream
<1>1. CASE done
  BY <1>1 DEF Produce, Push, End
<1>2. ASSUME ~done, NEW k \in Kinds, Push([kind |-> k, msg |-> calls + 1])
      PROVE  Terminated'
  <2> DEFINE ev == [kind |-> k, msg |-> calls + 1]
  <2>1. Close(resultCh) = "closed"
    BY <1>2, CloseOnce
  <2>2. log' = Append(log, ev) /\ Len(log') = Len(log) + 1
    BY <1>2 DEF Push
  <2>3. \A i \in DOMAIN log' : IF i = Len(log) + 1 THEN log'[i] = ev
                                 ELSE i \in DOMAIN log /\ log'[i] = log[i]
    BY <2>2
  <2>4. \A i \in DOMAIN log' : i # Len(log) + 1 => ~IsTerminalEvent(log'[i])
    BY <1>2, <2>3
  <2>5. CASE IsTerminalEvent(ev)
    <3>1. done' = TRUE /\ result' = calls + 1 /\ resultCh' = "closed"
      BY <1>2, <2>1, <2>5 DEF Push, EventResult
    <3>2. QED
      BY <2>2, <2>3, <2>4, <3>1
  <2>6. CASE ~IsTerminalEvent(ev)
    <3>1. UNCHANGED <<done, result, resultCh>>
      BY <1>2, <2>6 DEF Push
    <3>2. QED
      BY <1>2, <2>3, <2>4, <2>6, <3>1
  <2>7. QED
    BY <2>5, <2>6
<1>3. ASSUME ~done, NEW m \in {NoMessage, calls + 1}, End(m)
      PROVE  Terminated'
  <2>1. Close(resultCh) = "closed"
    BY <1>3, CloseOnce
  <2>2. done' = TRUE /\ resultCh' = "closed" /\ log' = log
    BY <1>3, <2>1 DEF End
  <2>3. QED
    BY <1>3, <2>2
<1>4. QED
  BY <1>1, <1>2, <1>3 DEF Produce

LEMMA TerminatedInductive == TypeOK /\ Terminated /\ [Next]_vars => Terminated'
<1> SUFFICES ASSUME TypeOK, Terminated, [Next]_vars
             PROVE  Terminated'
  OBVIOUS
<1>1. CASE Produce
  BY <1>1, ProducerTerminates
<1>2. CASE UNCHANGED <<log, done, result, resultCh>>
  BY <1>2 DEF Terminated, SingleTermination
<1>3. ASSUME NEW p \in Pumps, Events(p) \/ PumpStep(p) \/ LeaveEarly(p)
      PROVE  UNCHANGED <<log, done, result, resultCh>>
  BY <1>3 DEF Events, PumpStep, Pump, NextLock, NextCheck, NextPop, NextDrained, NextWait,
     Abandon, CloseStop, CloseChannel, Send, Watcher, WatchCancel, WatchStop, WatchBroadcast,
     RangeEnds, LeaveEarly, stream, history
<1>4. ASSUME NEW c \in Cancellable, Cancel(c)
      PROVE  UNCHANGED <<log, done, result, resultCh>>
  BY <1>4 DEF Cancel, stream, history
<1>5. ASSUME NEW w \in Callers, Result(w) \/ CallerStep(w)
      PROVE  UNCHANGED <<log, done, result, resultCh>>
  BY <1>5 DEF CallerStep, Result, ResultReady, ResultCancelled, ResultRead, stream, history
<1>6. CASE UNCHANGED vars
  BY <1>2, <1>6 DEF vars, stream, history
<1>7. QED
  BY <1>1, <1>2, <1>3, <1>4, <1>5, <1>6 DEF Next

-----------------------------------------------------------------------------
(* The theorems                                                            *)

LEMMA InitInv == Init => IInv
<1> SUFFICES ASSUME Init PROVE IInv
  OBVIOUS
<1>1. TypeOK
  <2>1. <<>> \in Seq(Event) /\ Pending \in [msg : Nat, err : {"pending", "nil", "ended", "ctx"}]
    BY DEF Pending, NoMessage
  <2>2. /\ answer \in [Callers -> [msg : Nat, err : {"pending", "nil", "ended", "ctx"}]]
        /\ caller \in [Callers -> {"off", "select", "read", "returned"}]
    BY <2>1 DEF Init
  <2>3. hand \in [Pumps -> Seq(Event)] /\ seen \in [Pumps -> Seq(Event)]
    BY <2>1 DEF Init
  <2>4. /\ pump \in [Pumps -> {"off", "lock", "check", "look", "wait", "send",
                             "stop", "stopped", "closed"}]
        /\ watcher \in [Pumps -> {"off", "select", "lock", "gone"}]
        /\ consumer \in [Pumps -> {"off", "range", "left", "finished"}]
    BY DEF Init
  <2>5. result \in Nat /\ calls \in 0..MaxCalls
    BY CallsAssumption DEF Init, NoMessage
  <2>6. QED
    BY <2>1, <2>2, <2>3, <2>4, <2>5 DEF Init, TypeOK
<1>2. Mutex
  BY CallsAssumption DEF Init, Mutex, Free
<1>3. Asleep /\ Watched /\ Terminated
  BY DEF Init, Asleep, Watched, Terminated, SingleTermination
<1>4. QED
  BY <1>1, <1>2, <1>3 DEF IInv

THEOREM Invariance == SafeSpec => []IInv
<1>1. IInv /\ [Next]_vars => IInv'
  BY TypeInductive, ThreadsInductive, TerminatedInductive DEF IInv, Threads
<1>2. QED
  BY InitInv, <1>1, PTL DEF SafeSpec

\* The variables of the stream keep their types, and resultCh is never closed
\* twice, which would panic (Push, End).
THEOREM TypeCorrect == SafeSpec => []TypeOK
<1>1. IInv => TypeOK
  BY DEF IInv
<1>2. QED
  BY Invariance, <1>1, PTL

\* No pump of Events sleeps through an event, the end of the stream or the end
\* of its context, for any number of consumers and producers.
THEOREM NoWakeupIsLost == SafeSpec => []NoLostWakeup
<1>1. IInv => NoLostWakeup
  BY DEF IInv, TypeOK, Asleep, Watched, NoLostWakeup
<1>2. QED
  BY Invariance, <1>1, PTL

\* At most one event terminates a stream, it is the last one accepted, and the
\* final result is its message.
THEOREM TerminatesOnce == SafeSpec => []SingleTermination
<1>1. IInv => SingleTermination
  BY DEF IInv, Terminated
<1>2. QED
  BY Invariance, <1>1, PTL

-----------------------------------------------------------------------------
(* What the threads hand out and answer                                    *)

\* Producers number their events, and calls counts them.
Ordered ==
    /\ \A i, j \in DOMAIN log : i < j => log[i].msg < log[j].msg
    /\ \A i \in DOMAIN log : log[i].msg <= calls

\* The queue is what is left of the log: popped events have left it.
popped == Len(log) - Len(queue)

Queued ==
    /\ popped \in Nat
    /\ \A i \in DOMAIN queue : queue[i] = log[popped + i]

\* An event that left the queue.
Taken(ev) == \E i \in 1..popped : log[i] = ev

\* A pump has an event in its hand exactly while it sends.
Handing ==
    \A p \in Pumps :
        /\ pump[p] = "send" => Len(hand[p]) = 1
        /\ pump[p] # "send" => hand[p] = <<>>
        /\ pump[p] = "off" => seen[p] = <<>>

\* What is in a hand left the queue, later than what the same consumer
\* received, and nobody else has it.
Handed ==
    \A p \in Pumps :
        /\ \A i \in DOMAIN seen[p] : Taken(seen[p][i])
        /\ pump[p] = "send" =>
              /\ Taken(hand[p][1])
              /\ \A i \in DOMAIN seen[p] : seen[p][i].msg < hand[p][1].msg
              /\ \A q \in Pumps : ~InSeq(hand[p][1], seen[q])
              /\ \A q \in Pumps \ {p} : pump[q] = "send" => hand[q][1] # hand[p][1]

\* A consumer that is alone and does not give up gets the log from its start.
Gapless ==
    \A p \in Pumps :
        (\A q \in Pumps \ {p} : pump[q] = "off") /\ p \notin cancelled =>
            /\ Len(seen[p]) + Len(hand[p]) = popped
            /\ \A i \in DOMAIN seen[p] : seen[p][i] = log[i]
            /\ pump[p] = "send" => hand[p][1] = log[popped]

\* A pump comes to its end for a reason.
Ended ==
    \A p \in Pumps :
        pump[p] \in {"stop", "stopped", "closed"} => p \in cancelled \/ (done /\ queue = <<>>)

\* A Result call answers once, after the stream terminated or its context.
Answering ==
    \A w \in Callers :
        /\ caller[w] # "returned" => answer[w] = Pending
        /\ caller[w] = "read" => done

CInv ==
    /\ IInv /\ Ordered /\ Queued
    /\ Handing /\ Handed /\ Gapless
    /\ Ended /\ Answering /\ AnswersAgree


-----------------------------------------------------------------------------
(* What a step does to the events                                          *)

\* Nothing is accepted or handed on.
Still ==
    /\ UNCHANGED <<queue, log, hand, seen>> /\ calls' \in Nat /\ calls' >= calls
    /\ cancelled \subseteq cancelled'
    /\ \A q \in Pumps : /\ pump'[q] = "send" <=> pump[q] = "send"
                        /\ pump'[q] = "off" => pump[q] = "off"

Accepted(ev) ==
    /\ ~done /\ ev \in Event /\ ev.msg = calls + 1 /\ calls' = calls + 1
    /\ log' = Append(log, ev) /\ queue' = Append(queue, ev)
    /\ UNCHANGED <<hand, seen, cancelled>>
    /\ \A q \in Pumps : /\ pump'[q] = "send" <=> pump[q] = "send"
                        /\ pump'[q] = "off" <=> pump[q] = "off"

\* A step leaves the events where they are, accepts one, or is one of three steps
\* of a pump.
LEMMA FlowSteps ==
    ASSUME TypeOK, [Next]_vars
    PROVE  \/ Still
           \/ \E ev \in Event : Accepted(ev)
           \/ \E p \in Pumps : NextPop(p) \/ Send(p) \/ Abandon(p)
<1> USE DEF Still, stream, readers, history
<1>0. calls \in Nat /\ calls + 1 \in Nat /\ calls + 1 >= calls /\ calls >= calls
  BY CallsAssumption DEF TypeOK
<1>1. ASSUME NEW k \in Kinds, Push([kind |-> k, msg |-> calls + 1])
      PROVE  Still \/ \E ev \in Event : Accepted(ev)
  <2> DEFINE ev == [kind |-> k, msg |-> calls + 1]
  <2>1. ev \in Event /\ ev.msg = calls + 1
    BY <1>0 DEF Event, Message, NoMessage
  <2>2. CASE done
    BY <1>0, <1>1, <2>2 DEF Push
  <2>3. CASE ~done
    <3>1. Accepted(ev)
      <4>1. Broadcast
        BY <1>1, <2>3 DEF Push
      <4>2. \A q \in Pumps : /\ pump'[q] = "send" <=> pump[q] = "send"
                             /\ pump'[q] = "off" <=> pump[q] = "off"
        BY <4>1, BroadcastWakes
      <4>3. QED
        BY <1>1, <2>1, <2>3, <4>2 DEF Push, Accepted
    <3>2. QED
      BY <2>1, <3>1
  <2>4. QED
    BY <2>2, <2>3
<1>2. ASSUME NEW m \in {NoMessage, calls + 1}, End(m) PROVE Still
  <2>1. CASE done
    BY <1>0, <1>2, <2>1 DEF End
  <2>2. CASE ~done
    <3>1. Broadcast /\ calls' = calls + 1 /\ UNCHANGED <<queue, log, hand, seen, cancelled>>
      BY <1>2, <2>2 DEF End
    <3>2. QED
      BY <1>0, <3>1, BroadcastWakes
  <2>3. QED
    BY <2>1, <2>2
<1>3. ASSUME NEW p \in Pumps, Events(p) \/ PumpStep(p) \/ LeaveEarly(p),
             ~(NextPop(p) \/ Send(p) \/ Abandon(p))
      PROVE  Still
  <2> USE <1>0 DEF TypeOK, Goto
  <2>1. CASE Events(p)
    BY <2>1 DEF Events
  <2>2. CASE NextLock(p)
    BY <2>2 DEF NextLock
  <2>3. CASE NextCheck(p)
    BY <2>3 DEF NextCheck
  <2>4. CASE NextDrained(p)
    BY <2>4 DEF NextDrained
  <2>5. CASE NextWait(p)
    BY <2>5 DEF NextWait
  <2>6. CASE CloseStop(p)
    BY <2>6 DEF CloseStop
  <2>7. CASE CloseChannel(p)
    BY <2>7 DEF CloseChannel
  <2>8. CASE WatchCancel(p) \/ WatchStop(p)
    BY <2>8 DEF WatchCancel, WatchStop
  <2>9. CASE WatchBroadcast(p)
    BY <2>9, BroadcastWakes DEF WatchBroadcast
  <2>10. CASE RangeEnds(p) \/ LeaveEarly(p)
    BY <2>10 DEF RangeEnds, LeaveEarly
  <2>11. QED
    BY <1>3, <2>1, <2>2, <2>3, <2>4, <2>5, <2>6, <2>7, <2>8, <2>9, <2>10
       DEF PumpStep, Pump, Watcher
<1>4. ASSUME NEW c \in Cancellable, Cancel(c) PROVE Still
  BY <1>0, <1>4 DEF Cancel
<1>5. ASSUME NEW w \in Callers, Result(w) \/ CallerStep(w) PROVE Still
  BY <1>0, <1>5 DEF CallerStep, Result, ResultReady, ResultCancelled, ResultRead
<1>6. CASE UNCHANGED vars
  BY <1>0, <1>6 DEF vars
<1>7. CASE Produce
  BY <1>1, <1>2, <1>7 DEF Produce
<1>8. QED
  BY <1>3, <1>4, <1>5, <1>6, <1>7 DEF Next

\* The end of a sequence after an event is sent.
LEMMA SendAppends ==
    ASSUME NEW s \in Seq(Event), NEW h \in Seq(Event), Len(h) = 1
    PROVE  /\ s \o h \in Seq(Event) /\ Len(s \o h) = Len(s) + 1
           /\ \A i \in 1..Len(s) : (s \o h)[i] = s[i]
           /\ (s \o h)[Len(s) + 1] = h[1]
           /\ DOMAIN (s \o h) = 1..(Len(s) + 1)
<1>1. /\ s \o h \in Seq(Event) /\ Len(s \o h) = Len(s) + 1
      /\ \A i \in 1..Len(s) + 1 : (s \o h)[i] = IF i <= Len(s) THEN s[i] ELSE h[i - Len(s)]
  BY ConcatProperties
<1>2. Len(s) \in Nat
  OBVIOUS
<1>3. \A i \in 1..Len(s) : (s \o h)[i] = s[i]
  BY <1>1, <1>2
<1>4. (s \o h)[Len(s) + 1] = h[1]
  BY <1>1, <1>2
<1>5. QED
  BY <1>1, <1>3, <1>4

\* What a pump does when it pops, sends or abandons an event.
LEMMA PumpFlow ==
    ASSUME TypeOK, Handing, NEW p \in Pumps
    PROVE  /\ NextPop(p) =>
                 /\ queue # <<>> /\ queue' = Tail(queue)
                 /\ UNCHANGED <<log, seen, calls, cancelled, done>>
                 /\ pump[p] = "look" /\ pump'[p] = "send"
                 /\ Len(hand'[p]) = 1 /\ hand'[p][1] = queue[1]
                 /\ \A q \in Pumps \ {p} : hand'[q] = hand[q] /\ pump'[q] = pump[q]
           /\ Send(p) =>
                 /\ UNCHANGED <<queue, log, calls, cancelled, done>>
                 /\ pump[p] = "send" /\ pump'[p] = "lock" /\ hand'[p] = <<>>
                 /\ Len(seen'[p]) = Len(seen[p]) + 1 /\ DOMAIN seen'[p] = 1..(Len(seen[p]) + 1)
                 /\ \A i \in DOMAIN seen[p] : seen'[p][i] = seen[p][i]
                 /\ seen'[p][Len(seen[p]) + 1] = hand[p][1]
                 /\ \A q \in Pumps \ {p} :
                       hand'[q] = hand[q] /\ pump'[q] = pump[q] /\ seen'[q] = seen[q]
           /\ Abandon(p) =>
                 /\ UNCHANGED <<queue, log, seen, calls, cancelled, done>>
                 /\ pump[p] = "send" /\ p \in cancelled /\ pump'[p] = "stop" /\ hand'[p] = <<>>
                 /\ \A q \in Pumps \ {p} : hand'[q] = hand[q] /\ pump'[q] = pump[q]
<1> USE DEF TypeOK, Handing, Goto, stream, history
<1>1. CASE NextPop(p)
  <2>1. Head(queue) = queue[1] /\ Len(<<Head(queue)>>) = 1 /\ <<Head(queue)>>[1] = queue[1]
    BY <1>1 DEF NextPop
  <2>2. QED
    BY <1>1, <2>1 DEF NextPop, Abandon, Send
<1>2. CASE Send(p)
  <2>1. hand[p] \in Seq(Event) /\ seen[p] \in Seq(Event) /\ Len(hand[p]) = 1
    BY <1>2 DEF Send
  <2>2. seen'[p] = seen[p] \o hand[p] /\ DOMAIN seen[p] = 1..Len(seen[p])
    BY <1>2, <2>1 DEF Send
  <2>3. /\ Len(seen'[p]) = Len(seen[p]) + 1 /\ DOMAIN seen'[p] = 1..(Len(seen[p]) + 1)
        /\ \A i \in DOMAIN seen[p] : seen'[p][i] = seen[p][i]
        /\ seen'[p][Len(seen[p]) + 1] = hand[p][1]
    BY <2>1, <2>2, SendAppends
  <2>4. QED
    BY <1>2, <2>3 DEF Send, NextPop, Abandon
<1>3. CASE Abandon(p)
  BY <1>3 DEF Abandon, Send, NextPop
<1>4. QED
  BY <1>1, <1>2, <1>3

-----------------------------------------------------------------------------
(* What was accepted, and what is left of it                               *)

\* Every accepted event carries a number.
LEMMA LogMessages ==
    ASSUME TypeOK
    PROVE  \A i \in DOMAIN log : log[i] \in Event /\ log[i].msg \in Nat
<1>1. \A i \in DOMAIN log : log[i] \in Event
  BY DEF TypeOK
<1>2. \A ev \in Event : ev.msg \in Nat
  BY DEF Event, Message
<1>3. QED
  BY <1>1, <1>2

\* Accepted events are numbered upwards.
LEMMA OrderedInductive ==
    ASSUME TypeOK, Handing, Ordered, [Next]_vars
    PROVE  Ordered'
<1>1. CASE Still
  <2>1. log' = log /\ calls' >= calls /\ calls \in Nat /\ calls' \in Nat
    BY <1>1, CallsAssumption DEF Still, TypeOK
  <2>2. \A i \in DOMAIN log : log[i].msg \in Nat
    BY LogMessages
  <2>3. ASSUME NEW i \in DOMAIN log PROVE log[i].msg <= calls'
    BY <2>1, <2>2 DEF Ordered
  <2>4. QED
    BY <2>1, <2>3 DEF Ordered
<1>2. ASSUME NEW ev \in Event, Accepted(ev) PROVE Ordered'
  <2>1. log' = Append(log, ev) /\ ev.msg = calls + 1 /\ calls' = calls + 1 /\ calls \in Nat
    BY <1>2, CallsAssumption DEF Accepted, TypeOK
  <2>2. \A i \in DOMAIN log : log[i].msg \in Nat
    BY LogMessages
  <2>3. DOMAIN log' = 1..(Len(log) + 1) /\ DOMAIN log = 1..Len(log) /\ Len(log) \in Nat
    BY <2>1 DEF TypeOK
  <2>4. \A i \in DOMAIN log' : IF i = Len(log) + 1 THEN log'[i] = ev
                                 ELSE i \in DOMAIN log /\ log'[i] = log[i]
    BY <2>1, <2>3 DEF TypeOK
  <2>5. \A i \in DOMAIN log' : log'[i].msg \in Nat /\ log'[i].msg <= calls'
    BY <2>1, <2>2, <2>4 DEF Ordered
  <2>6. ASSUME NEW i \in DOMAIN log', NEW j \in DOMAIN log', i < j PROVE log'[i].msg < log'[j].msg
    <3>1. i \in DOMAIN log /\ log'[i] = log[i]
      BY <2>3, <2>4, <2>6
    <3>2. CASE j = Len(log) + 1
      BY <2>1, <2>2, <2>4, <3>1, <3>2 DEF Ordered
    <3>3. CASE j # Len(log) + 1
      BY <2>4, <2>6, <3>1, <3>3 DEF Ordered
    <3>4. QED
      BY <3>2, <3>3
  <2>7. QED
    BY <2>5, <2>6 DEF Ordered
<1>3. ASSUME NEW p \in Pumps, NextPop(p) PROVE Ordered'
  BY <1>3, PumpFlow DEF Ordered
<1>4. ASSUME NEW p \in Pumps, Send(p) PROVE Ordered'
  BY <1>4, PumpFlow DEF Ordered
<1>5. ASSUME NEW p \in Pumps, Abandon(p) PROVE Ordered'
  BY <1>5, PumpFlow DEF Ordered
<1>6. QED
  BY <1>1, <1>2, <1>3, <1>4, <1>5, FlowSteps

\* The queue stays the end of the log; what left it never comes back.
LEMMA QueuedInductive ==
    ASSUME TypeOK, Handing, Queued, [Next]_vars
    PROVE  Queued' /\ \A x : Taken(x) => Taken(x)'
<1>1. CASE Still
  BY <1>1 DEF Still, Queued, popped, Taken
<1>2. ASSUME NEW ev \in Event, Accepted(ev) PROVE Queued' /\ \A x : Taken(x) => Taken(x)'
  <2>1. log' = Append(log, ev) /\ queue' = Append(queue, ev)
    BY <1>2 DEF Accepted
  <2>2. /\ Len(log') = Len(log) + 1 /\ Len(queue') = Len(queue) + 1
        /\ Len(log) \in Nat /\ Len(queue) \in Nat
    BY <2>1 DEF TypeOK
  <2>3. popped' = popped /\ popped \in Nat
    BY <2>2 DEF popped, Queued
  <2>4. \A i \in 1..Len(queue) : queue'[i] = queue[i] /\ queue[i] = log[popped + i]
    BY <2>1 DEF TypeOK, Queued
  <2>5. \A i \in 1..Len(log) : log'[i] = log[i]
    BY <2>1 DEF TypeOK
  <2>6. queue'[Len(queue) + 1] = ev /\ log'[Len(log) + 1] = ev
    BY <2>1 DEF TypeOK
  <2>7. \A i \in 1..Len(queue) : popped + i \in 1..Len(log)
    BY <2>2, <2>3 DEF popped
  <2>8. popped + Len(queue) + 1 = Len(log) + 1
    BY <2>2 DEF popped
  <2>9. ASSUME NEW i \in DOMAIN queue' PROVE queue'[i] = log'[popped' + i]
    <3>1. CASE i \in 1..Len(queue)
      BY <2>3, <2>4, <2>5, <2>7, <3>1
    <3>2. CASE i = Len(queue) + 1
      <4>1. popped + i = Len(log) + 1
        BY <2>2, <2>3, <3>2 DEF popped
      <4>2. QED
        BY <2>3, <2>6, <3>2, <4>1
    <3>3. DOMAIN queue' = 1..(Len(queue) + 1)
      BY <2>1 DEF TypeOK
    <3>4. QED
      BY <2>2, <3>1, <3>2, <3>3
  <2>10. \A x : Taken(x) => Taken(x)'
    BY <2>2, <2>3, <2>5 DEF Taken, popped
  <2>11. QED
    BY <2>3, <2>9, <2>10 DEF Queued
<1>3. ASSUME NEW p \in Pumps, NextPop(p) PROVE Queued' /\ \A x : Taken(x) => Taken(x)'
  <2>1. queue # <<>> /\ queue' = Tail(queue) /\ log' = log
    BY <1>3, PumpFlow
  <2>2. /\ Len(queue') = Len(queue) - 1 /\ Len(queue) \in Nat \ {0} /\ Len(log) \in Nat
        /\ \A i \in 1..Len(queue') : queue'[i] = queue[i + 1]
    BY <2>1 DEF TypeOK
  <2>3. popped' = popped + 1 /\ popped \in Nat
    BY <2>1, <2>2 DEF popped, Queued
  <2>4. ASSUME NEW i \in DOMAIN queue' PROVE queue'[i] = log'[popped' + i]
    <3>1. i \in 1..Len(queue') /\ i + 1 \in DOMAIN queue
      BY <2>1, <2>2 DEF TypeOK
    <3>2. queue'[i] = log[popped + (i + 1)]
      BY <2>2, <3>1 DEF Queued
    <3>3. popped' + i = popped + (i + 1)
      BY <2>3, <3>1
    <3>4. QED
      BY <2>1, <3>2, <3>3
  <2>5. \A x : Taken(x) => Taken(x)'
    BY <2>1, <2>3 DEF Taken
  <2>6. QED
    BY <2>3, <2>4, <2>5 DEF Queued
<1>4. ASSUME NEW p \in Pumps, Send(p) PROVE Queued' /\ \A x : Taken(x) => Taken(x)'
  BY <1>4, PumpFlow DEF Queued, popped, Taken
<1>5. ASSUME NEW p \in Pumps, Abandon(p) PROVE Queued' /\ \A x : Taken(x) => Taken(x)'
  BY <1>5, PumpFlow DEF Queued, popped, Taken
<1>6. QED
  BY <1>1, <1>2, <1>3, <1>4, <1>5, FlowSteps

\* A hand is full exactly while its pump sends.
LEMMA HandingInductive ==
    ASSUME TypeOK, Handing, [Next]_vars
    PROVE  Handing'
<1> USE DEF Handing
<1>1. CASE Still
  BY <1>1 DEF Still
<1>2. ASSUME NEW ev \in Event, Accepted(ev) PROVE Handing'
  BY <1>2 DEF Accepted
<1>3. ASSUME NEW p \in Pumps, NextPop(p) PROVE Handing'
  BY <1>3, PumpFlow
<1>4. ASSUME NEW p \in Pumps, Send(p) PROVE Handing'
  BY <1>4, PumpFlow
<1>5. ASSUME NEW p \in Pumps, Abandon(p) PROVE Handing'
  BY <1>5, PumpFlow
<1>6. QED
  BY <1>1, <1>2, <1>3, <1>4, <1>5, FlowSteps

-----------------------------------------------------------------------------
(* What was handed out                                                     *)

\* The popped event is the first that was left, and comes after all that were
\* taken before it.
LEMMA PopTakes ==
    ASSUME TypeOK, Handing, Queued, Ordered, NEW p \in Pumps, NextPop(p)
    PROVE  /\ log' = log /\ popped \in Nat /\ popped' = popped + 1 /\ popped + 1 \in DOMAIN log
           /\ hand'[p][1] = log[popped + 1]
           /\ \A x : Taken(x) => x.msg < hand'[p][1].msg /\ x # hand'[p][1]
<1>1. queue # <<>> /\ queue' = Tail(queue) /\ log' = log /\ hand'[p][1] = queue[1]
  BY PumpFlow
<1>2. /\ Len(queue') = Len(queue) - 1 /\ Len(queue) \in Nat \ {0} /\ Len(log) \in Nat
      /\ 1 \in DOMAIN queue /\ DOMAIN log = 1..Len(log)
  BY <1>1 DEF TypeOK
<1>3. popped' = popped + 1 /\ popped \in Nat /\ popped + 1 \in DOMAIN log
  BY <1>1, <1>2 DEF popped, Queued
<1>4. queue[1] = log[popped + 1]
  BY <1>2 DEF Queued
<1>5. ASSUME NEW x, Taken(x) PROVE x.msg < log[popped + 1].msg /\ x # log[popped + 1]
  <2>1. PICK i \in 1..popped : log[i] = x
    BY <1>5 DEF Taken
  <2>2. i \in DOMAIN log /\ i < popped + 1
    BY <1>2, <1>3, <2>1
  <2>3. x.msg < log[popped + 1].msg
    BY <1>3, <2>1, <2>2 DEF Ordered
  <2>4. x.msg \in Nat
    BY <2>1, <2>2, LogMessages
  <2>5. ~(x.msg < x.msg)
    BY <2>4
  <2>6. QED
    BY <2>3, <2>5
<1>6. QED
  BY <1>1, <1>3, <1>4, <1>5

\* Nothing is handed out twice, or out of order.
LEMMA HandedInductive ==
    ASSUME TypeOK, Handing, Ordered, Queued, Handed, [Next]_vars
    PROVE  Handed'
<1> USE DEF InSeq
<1>1. CASE Still
  <2>1. \A x : Taken(x) => Taken(x)'
    BY QueuedInductive
  <2>2. QED
    BY <1>1, <2>1 DEF Still, Handed
<1>2. ASSUME NEW ev \in Event, Accepted(ev) PROVE Handed'
  <2>1. \A x : Taken(x) => Taken(x)'
    BY QueuedInductive
  <2>2. QED
    BY <1>2, <2>1 DEF Accepted, Handed
<1>3. ASSUME NEW p \in Pumps, NextPop(p) PROVE Handed'
  <2>0. \A x : Taken(x) => Taken(x)'
    BY QueuedInductive
  <2>1. /\ log' = log /\ popped \in Nat /\ popped' = popped + 1 /\ popped + 1 \in DOMAIN log
        /\ hand'[p][1] = log[popped + 1]
        /\ \A x : Taken(x) => x.msg < hand'[p][1].msg /\ x # hand'[p][1]
    BY <1>3, PopTakes
  <2>2. /\ pump[p] = "look" /\ pump'[p] = "send" /\ seen' = seen
        /\ \A q \in Pumps \ {p} : hand'[q] = hand[q] /\ pump'[q] = pump[q]
    BY <1>3, PumpFlow
  <2>3. popped' \in 1..popped' /\ log'[popped'] = hand'[p][1]
    BY <2>1
  <2>4. \A q \in Pumps : \A i \in DOMAIN seen[q] : Taken(seen[q][i])
    BY DEF Handed
  <2>5. \A q \in Pumps \ {p} : pump[q] = "send" => Taken(hand[q][1])
    BY DEF Handed
  <2>6. \A q \in Pumps : \A i \in DOMAIN seen[q] : \E j \in 1..popped' : log'[j] = seen[q][i]
    BY <2>0, <2>4 DEF Taken
  <2>7. \A q \in Pumps : \A i \in DOMAIN seen[q] :
           seen[q][i].msg < hand'[p][1].msg /\ seen[q][i] # hand'[p][1]
    BY <2>1, <2>4
  <2>8. ASSUME NEW q \in Pumps, q # p, pump'[q] = "send"
        PROVE  /\ Taken(hand[q][1])' /\ hand'[p][1] # hand[q][1]
               /\ \A i \in DOMAIN seen[q] : seen[q][i].msg < hand[q][1].msg
               /\ \A r \in Pumps : ~InSeq(hand[q][1], seen[r])
               /\ \A r \in Pumps \ {q} : pump[r] = "send" => hand[r][1] # hand[q][1]
    <3>1. pump[q] = "send" /\ hand'[q] = hand[q]
      BY <2>2, <2>8
    <3>2. Taken(hand[q][1]) /\ hand'[p][1] # hand[q][1]
      BY <2>1, <2>5, <2>8, <3>1
    <3>3. \E i \in 1..popped' : log'[i] = hand[q][1]
      BY <2>0, <3>2 DEF Taken
    <3>4. QED
      BY <3>1, <3>2, <3>3 DEF Handed, Taken
  <2>9. Taken(hand[p][1])'
    BY <2>3 DEF Taken
  <2>10. QED
    BY <2>2, <2>6, <2>7, <2>8, <2>9 DEF Handed, Taken
<1>4. ASSUME NEW p \in Pumps, Send(p) PROVE Handed'
  <2>1. /\ pump[p] = "send" /\ pump'[p] = "lock"
        /\ DOMAIN seen'[p] = 1..(Len(seen[p]) + 1)
        /\ \A i \in DOMAIN seen[p] : seen'[p][i] = seen[p][i]
        /\ seen'[p][Len(seen[p]) + 1] = hand[p][1]
        /\ \A q \in Pumps \ {p} : hand'[q] = hand[q] /\ pump'[q] = pump[q] /\ seen'[q] = seen[q]
        /\ log' = log /\ popped' = popped
    BY <1>4, PumpFlow DEF popped
  <2>2. \A i \in DOMAIN seen'[p] : i \in DOMAIN seen[p] \/ i = Len(seen[p]) + 1
    BY <2>1 DEF TypeOK
  <2>3. \A i \in DOMAIN seen'[p] :
            (\E j \in DOMAIN seen[p] : seen'[p][i] = seen[p][j]) \/ seen'[p][i] = hand[p][1]
    BY <2>1, <2>2
  <2>4. \A i \in DOMAIN seen'[p] : Taken(seen'[p][i])
    BY <2>1, <2>3 DEF Handed
  <2>5. ASSUME NEW q \in Pumps \ {p}, pump[q] = "send" PROVE ~InSeq(hand[q][1], seen'[p])
    BY <2>1, <2>3, <2>5 DEF Handed
  <2>6. \A q \in Pumps : \A i \in DOMAIN seen'[q] : \E j \in 1..popped' : log'[j] = seen'[q][i]
    BY <2>1, <2>4 DEF Handed, Taken
  <2>7. ASSUME NEW q \in Pumps, pump'[q] = "send"
        PROVE  /\ \E j \in 1..popped' : log'[j] = hand'[q][1]
               /\ \A i \in DOMAIN seen'[q] : seen'[q][i].msg < hand'[q][1].msg
               /\ \A r \in Pumps : ~InSeq(hand'[q][1], seen'[r])
               /\ \A r \in Pumps \ {q} : pump'[r] = "send" => hand'[r][1] # hand'[q][1]
    <3>1. q # p /\ pump[q] = "send" /\ hand'[q] = hand[q] /\ seen'[q] = seen[q]
      BY <2>1, <2>7
    <3>2. \E j \in 1..popped' : log'[j] = hand'[q][1]
      BY <2>1, <3>1 DEF Handed, Taken
    <3>3. \A r \in Pumps : ~InSeq(hand[q][1], seen'[r])
      BY <2>1, <2>5, <3>1 DEF Handed
    <3>4. QED
      BY <2>1, <3>1, <3>2, <3>3 DEF Handed
  <2>8. QED
    BY <2>6, <2>7 DEF Handed, Taken
<1>5. ASSUME NEW p \in Pumps, Abandon(p) PROVE Handed'
  <2>0. \A x : Taken(x) => Taken(x)'
    BY QueuedInductive
  <2>1. /\ pump'[p] = "stop" /\ seen' = seen
        /\ \A q \in Pumps \ {p} : hand'[q] = hand[q] /\ pump'[q] = pump[q]
    BY <1>5, PumpFlow
  <2>2. QED
    BY <2>0, <2>1 DEF Handed
<1>6. QED
  BY <1>1, <1>2, <1>3, <1>4, <1>5, FlowSteps

\* Two parts of a length.
LEMMA Parts ==
    \A a, b, n \in Nat : a + b = n =>
       a <= n /\ (\A i \in 1..a : i \in 1..n) /\ (b = 1 => n \in 1..n) /\ (b = 0 => a = n)
OBVIOUS

\* A consumer that is alone misses nothing.
LEMMA GaplessInductive ==
    ASSUME TypeOK, Handing, Ordered, Queued, Gapless, [Next]_vars
    PROVE  Gapless'
<1>1. CASE Still
  <2>1. /\ log' = log /\ popped' = popped /\ hand' = hand /\ seen' = seen
        /\ cancelled \subseteq cancelled'
        /\ \A q \in Pumps : /\ pump'[q] = "send" <=> pump[q] = "send"
                            /\ pump'[q] = "off" => pump[q] = "off"
    BY <1>1 DEF Still, popped
  <2>2. QED
    BY <2>1 DEF Gapless
<1>2. ASSUME NEW ev \in Event, Accepted(ev) PROVE Gapless'
  <2>1. /\ log' = Append(log, ev) /\ hand' = hand /\ seen' = seen /\ cancelled' = cancelled
        /\ \A q \in Pumps : /\ pump'[q] = "send" <=> pump[q] = "send"
                            /\ pump'[q] = "off" <=> pump[q] = "off"
    BY <1>2 DEF Accepted
  <2>2. popped' = popped /\ popped \in Nat
    BY <1>2 DEF Accepted, popped, TypeOK, Queued
  <2>3. \A i \in 1..popped : log'[i] = log[i]
    BY <2>1, <2>2 DEF TypeOK, popped
  <2>4. SUFFICES ASSUME NEW p \in Pumps,
                        (\A q \in Pumps \ {p} : pump[q] = "off") /\ p \notin cancelled
                 PROVE  /\ Len(seen[p]) + Len(hand[p]) = popped
                        /\ \A i \in DOMAIN seen[p] : seen[p][i] = log'[i]
                        /\ pump[p] = "send" => hand[p][1] = log'[popped]
    BY <2>1, <2>2 DEF Gapless
  <2>5. /\ Len(seen[p]) + Len(hand[p]) = popped
        /\ \A i \in DOMAIN seen[p] : seen[p][i] = log[i]
        /\ pump[p] = "send" => hand[p][1] = log[popped]
    BY <2>4 DEF Gapless
  <2>6. DOMAIN seen[p] = 1..Len(seen[p]) /\ Len(seen[p]) \in Nat /\ Len(hand[p]) \in Nat
    BY DEF TypeOK
  <2>7. PICK a \in Nat, b \in Nat : a = Len(seen[p]) /\ b = Len(hand[p]) /\ a + b = popped
    BY <2>5, <2>6
  <2>8. \A i \in 1..a : i \in 1..popped
    BY <2>2, <2>7, Parts
  <2>9. pump[p] = "send" => popped \in 1..popped
    BY <2>2, <2>7, Parts DEF Handing
  <2>10. QED
    BY <2>3, <2>5, <2>6, <2>7, <2>8, <2>9
<1>3. ASSUME NEW p \in Pumps, NextPop(p) PROVE Gapless'
  <2>1. /\ log' = log /\ popped \in Nat /\ popped' = popped + 1
        /\ hand'[p][1] = log[popped + 1]
    BY <1>3, PopTakes
  <2>2. /\ pump[p] = "look" /\ pump'[p] = "send" /\ seen' = seen /\ Len(hand'[p]) = 1
        /\ cancelled' = cancelled
        /\ \A q \in Pumps \ {p} : hand'[q] = hand[q] /\ pump'[q] = pump[q]
    BY <1>3, PumpFlow
  <2>3. Len(hand[p]) = 0
    BY <2>2 DEF Handing
  <2>4. CASE (\A q \in Pumps \ {p} : pump[q] = "off") /\ p \notin cancelled
    <3>1. /\ Len(seen[p]) = popped /\ \A i \in DOMAIN seen[p] : seen[p][i] = log[i]
      <4>1. Len(seen[p]) \in Nat /\ Len(hand[p]) \in Nat
        BY DEF TypeOK
      <4>2. Len(seen[p]) + Len(hand[p]) = popped
        BY <2>4 DEF Gapless
      <4>3. Len(seen[p]) = popped
        BY <2>1, <2>3, <4>1, <4>2, Parts
      <4>4. QED
        BY <2>4, <4>3 DEF Gapless
    <3>2. QED
      BY <2>1, <2>2, <3>1 DEF Gapless
  <2>5. CASE ~((\A q \in Pumps \ {p} : pump[q] = "off") /\ p \notin cancelled)
    BY <2>2, <2>5 DEF Gapless
  <2>6. QED
    BY <2>4, <2>5
<1>4. ASSUME NEW p \in Pumps, Send(p) PROVE Gapless'
  <2>1. /\ pump[p] = "send" /\ pump'[p] = "lock" /\ hand'[p] = <<>>
        /\ Len(seen'[p]) = Len(seen[p]) + 1 /\ DOMAIN seen'[p] = 1..(Len(seen[p]) + 1)
        /\ \A i \in DOMAIN seen[p] : seen'[p][i] = seen[p][i]
        /\ seen'[p][Len(seen[p]) + 1] = hand[p][1]
        /\ cancelled' = cancelled /\ log' = log /\ popped' = popped
        /\ \A q \in Pumps \ {p} : hand'[q] = hand[q] /\ pump'[q] = pump[q] /\ seen'[q] = seen[q]
    BY <1>4, PumpFlow DEF popped
  <2>2. /\ Len(hand[p]) = 1 /\ Len(hand'[p]) = 0
        /\ Len(seen[p]) \in Nat /\ DOMAIN seen[p] = 1..Len(seen[p])
    BY <2>1 DEF Handing, TypeOK
  <2>3. CASE (\A q \in Pumps \ {p} : pump[q] = "off") /\ p \notin cancelled
    <3>1. /\ Len(seen[p]) + 1 = popped /\ hand[p][1] = log[popped]
          /\ \A i \in DOMAIN seen[p] : seen[p][i] = log[i]
      BY <2>1, <2>2, <2>3 DEF Gapless
    <3>2. ASSUME NEW i \in DOMAIN seen'[p] PROVE seen'[p][i] = log[i]
      <4>1. i \in DOMAIN seen[p] \/ i = Len(seen[p]) + 1
        BY <2>1, <2>2
      <4>2. QED
        BY <2>1, <3>1, <4>1
    <3>3. Len(seen'[p]) + Len(hand'[p]) = popped
      BY <2>1, <2>2, <3>1
    <3>4. QED
      BY <2>1, <3>2, <3>3 DEF Gapless
  <2>4. CASE ~((\A q \in Pumps \ {p} : pump[q] = "off") /\ p \notin cancelled)
    BY <2>1, <2>4 DEF Gapless
  <2>5. QED
    BY <2>3, <2>4
<1>5. ASSUME NEW p \in Pumps, Abandon(p) PROVE Gapless'
  <2>1. /\ p \in cancelled /\ UNCHANGED <<log, queue, seen, cancelled>> /\ pump[p] = "send"
        /\ \A q \in Pumps \ {p} : hand'[q] = hand[q] /\ pump'[q] = pump[q]
        /\ pump'[p] = "stop"
    BY <1>5, PumpFlow
  <2>2. popped' = popped
    BY <2>1 DEF popped
  <2>3. QED
    BY <2>1, <2>2 DEF Gapless
<1>6. QED
  BY <1>1, <1>2, <1>3, <1>4, <1>5, FlowSteps

-----------------------------------------------------------------------------
(* How pumps and answers end                                               *)

\* A terminated stream stays terminated, with the result it has; a drained one
\* stays drained; contexts stay done.
LEMMA DoneStays ==
    ASSUME TypeOK, Handing, [Next]_vars
    PROVE  /\ done => done' /\ result' = result
           /\ done /\ queue = <<>> => queue' = <<>>
           /\ cancelled \subseteq cancelled'
<1>1. CASE Produce
  BY <1>1 DEF Produce, Push, End, stream
<1>2. ASSUME NEW p \in Pumps, Events(p) \/ PumpStep(p) \/ LeaveEarly(p)
      PROVE  UNCHANGED <<done, result, cancelled>>
  BY <1>2 DEF Events, PumpStep, Pump, NextLock, NextCheck, NextPop, NextDrained, NextWait,
     Abandon, CloseStop, CloseChannel, Send, Watcher, WatchCancel, WatchStop, WatchBroadcast,
     RangeEnds, LeaveEarly, stream
<1>3. ASSUME NEW c \in Cancellable, Cancel(c)
      PROVE  UNCHANGED <<done, result>> /\ cancelled \subseteq cancelled'
  BY <1>3 DEF Cancel, stream
<1>4. ASSUME NEW w \in Callers, Result(w) \/ CallerStep(w)
      PROVE  UNCHANGED <<done, result, cancelled>>
  BY <1>4 DEF CallerStep, Result, ResultReady, ResultCancelled, ResultRead, stream
<1>5. /\ done => done' /\ result' = result
      /\ cancelled \subseteq cancelled'
  <2>1. CASE UNCHANGED vars
    BY <2>1 DEF vars, stream
  <2>2. QED
    BY <1>1, <1>2, <1>3, <1>4, <2>1 DEF Next
<1>6. done /\ queue = <<>> => queue' = <<>>
  <2>1. Still => queue' = queue
    BY DEF Still
  <2>2. \A ev \in Event : Accepted(ev) => ~done
    BY DEF Accepted
  <2>3. \A p \in Pumps : /\ NextPop(p) => queue # <<>>
                         /\ Send(p) \/ Abandon(p) => queue' = queue
    BY PumpFlow
  <2>4. QED
    BY <2>1, <2>2, <2>3, FlowSteps
<1>7. QED
  BY <1>5, <1>6

\* A pump reaches its end from a check or a drained queue, or gives up.
LEMMA EndedInductive ==
    ASSUME TypeOK, Handing, Ended, [Next]_vars
    PROVE  Ended'
<1> DEFINE over == {"stop", "stopped", "closed"}
<1>1. ASSUME NEW q \in Pumps, pump'[q] \in over
      PROVE  pump[q] \in over \/ q \in cancelled \/ (done /\ queue = <<>>)
  <2>1. CASE UNCHANGED pump
    BY <1>1, <2>1
  <2>2. CASE Broadcast
    BY <1>1, <2>2, BroadcastWakes
  <2>3. ASSUME NEW p \in Pumps, PumpStep(p) \/ Events(p) \/ LeaveEarly(p)
        PROVE  pump[q] \in over \/ q \in cancelled \/ (done /\ queue = <<>>)
    <3> USE <1>1 DEF TypeOK, Goto
    <3>1. CASE Events(p)
      BY <3>1 DEF Events
    <3>2. CASE NextLock(p)
      BY <3>2 DEF NextLock
    <3>3. CASE NextCheck(p)
      BY <3>3 DEF NextCheck
    <3>4. CASE NextPop(p)
      BY <3>4 DEF NextPop
    <3>5. CASE NextDrained(p)
      BY <3>5 DEF NextDrained
    <3>6. CASE NextWait(p)
      BY <3>6 DEF NextWait
    <3>7. CASE Abandon(p)
      BY <3>7 DEF Abandon
    <3>8. CASE CloseStop(p)
      BY <3>8 DEF CloseStop
    <3>9. CASE CloseChannel(p)
      BY <3>9 DEF CloseChannel
    <3>10. CASE Send(p)
      BY <3>10 DEF Send
    <3>11. QED
      BY <2>1, <2>2, <2>3, <3>1, <3>2, <3>3, <3>4, <3>5, <3>6, <3>7, <3>8, <3>9, <3>10
         DEF PumpStep, Pump, Watcher, WatchCancel, WatchStop, WatchBroadcast, RangeEnds, LeaveEarly
  <2>4. CASE Produce
    BY <2>1, <2>2, <2>4 DEF Produce, Push, End
  <2>5. ASSUME NEW w \in Callers, Result(w) \/ CallerStep(w) PROVE UNCHANGED pump
    BY <2>5 DEF CallerStep, Result, ResultReady, ResultCancelled, ResultRead
  <2>6. ASSUME NEW c \in Cancellable, Cancel(c) PROVE UNCHANGED pump
    BY <2>6 DEF Cancel
  <2>7. CASE UNCHANGED vars
    BY <2>1, <2>7 DEF vars
  <2>8. QED
    BY <2>1, <2>3, <2>4, <2>5, <2>6, <2>7 DEF Next
<1>2. QED
  BY <1>1, DoneStays DEF Ended

Answers == Answering /\ AnswersAgree

\* A caller answers with what the stream ended with, and that never changes.
LEMMA AnswersInductive ==
    ASSUME TypeOK, Terminated, Handing, Answers, [Next]_vars
    PROVE  Answers'
<1> USE DEF Answers, Answering, AnswersAgree
<1>1. CASE UNCHANGED readers
  BY <1>1, DoneStays DEF readers
<1>2. ASSUME NEW w \in Callers, Result(w) \/ CallerStep(w) PROVE Answers'
  <2> USE <1>2 DEF TypeOK, Return
  <2>1. UNCHANGED <<done, result, cancelled, resultCh>>
    BY <1>2 DEF CallerStep, Result, ResultReady, ResultCancelled, ResultRead, stream
  <2>2. CASE Result(w)
    BY <2>1, <2>2 DEF Result
  <2>3. CASE ResultReady(w)
    BY <2>1, <2>3 DEF ResultReady, Terminated, SingleTermination
  <2>4. CASE ResultCancelled(w)
    BY <2>1, <2>4 DEF ResultCancelled
  <2>5. CASE ResultRead(w)
    <3>1. /\ done /\ done' /\ result' = result /\ cancelled' = cancelled
          /\ caller' = [caller EXCEPT ![w] = "returned"]
      BY <2>1, <2>5 DEF ResultRead
    <3>2. CASE result = NoMessage
      <4>1. answer' = [answer EXCEPT ![w] = [msg |-> NoMessage, err |-> "ended"]]
        BY <2>5, <3>2 DEF ResultRead
      <4>2. QED
        BY <3>1, <3>2, <4>1
    <3>3. CASE result # NoMessage
      <4>1. answer' = [answer EXCEPT ![w] = [msg |-> result, err |-> "nil"]]
        BY <2>5, <3>3 DEF ResultRead
      <4>2. QED
        BY <3>1, <3>3, <4>1
    <3>4. QED
      BY <3>2, <3>3
  <2>6. QED
    BY <1>2, <2>2, <2>3, <2>4, <2>5 DEF CallerStep
<1>3. CASE Produce
  BY <1>1, <1>3 DEF Produce, Push, End
<1>4. ASSUME NEW p \in Pumps, Events(p) \/ PumpStep(p) \/ LeaveEarly(p) PROVE UNCHANGED readers
  BY <1>4 DEF Events, PumpStep, Pump, NextLock, NextCheck, NextPop, NextDrained, NextWait,
     Abandon, CloseStop, CloseChannel, Send, Watcher, WatchCancel, WatchStop, WatchBroadcast,
     RangeEnds, LeaveEarly
<1>5. ASSUME NEW c \in Cancellable, Cancel(c) PROVE UNCHANGED readers
  BY <1>5 DEF Cancel
<1>6. CASE UNCHANGED vars
  BY <1>1, <1>6 DEF vars
<1>7. QED
  BY <1>1, <1>2, <1>3, <1>4, <1>5, <1>6 DEF Next
-----------------------------------------------------------------------------
(* The invariant                                                           *)

\* The new stream satisfies the invariant.
LEMMA InitCInv == Init => CInv
<1> SUFFICES ASSUME Init PROVE CInv
  OBVIOUS
<1>1. IInv
  BY InitInv
<1>2. queue = <<>> /\ log = <<>> /\ popped = 0
  BY DEF Init, popped
<1>3. Ordered /\ Queued
  BY <1>2 DEF Ordered, Queued
<1>4. /\ \A p \in Pumps : pump[p] = "off" /\ hand[p] = <<>> /\ seen[p] = <<>>
      /\ \A w \in Callers : caller[w] = "off" /\ answer[w] = Pending /\ answer[w].err = "pending"
  BY DEF Init, Pending
<1>5. Handing /\ Handed /\ Gapless /\ Ended
  <2>1. Handing /\ Handed /\ Ended
    BY <1>2, <1>4 DEF Handing, Handed, Ended
  <2>2. \A p \in Pumps : Len(seen[p]) = 0 /\ Len(hand[p]) = 0 /\ DOMAIN seen[p] = {}
    BY <1>4
  <2>3. Gapless
    <3>1. ASSUME NEW p \in Pumps PROVE Len(seen[p]) + Len(hand[p]) = popped
      <4>1. Len(seen[p]) = 0 /\ Len(hand[p]) = 0 /\ popped = 0
        BY <1>2, <2>2
      <4>2. Len(seen[p]) + Len(hand[p]) = 0 + 0
        BY <4>1
      <4>3. QED
        BY <4>1, <4>2
    <3>2. \A p \in Pumps : pump[p] # "send" /\ DOMAIN seen[p] = {}
      BY <1>4, <2>2
    <3>3. QED
      BY <3>1, <3>2 DEF Gapless
  <2>4. QED
    BY <2>1, <2>3
<1>6. Answering /\ AnswersAgree
  BY <1>4 DEF Answering, AnswersAgree
<1>7. QED
  BY <1>1, <1>3, <1>5, <1>6 DEF CInv

\* Every step preserves it.
LEMMA StreamInductive == CInv /\ [Next]_vars => CInv'
<1> SUFFICES ASSUME CInv, [Next]_vars PROVE CInv'
  OBVIOUS
<1> USE DEF CInv
<1>1. TypeOK /\ Terminated
  BY DEF IInv
<1>2. IInv'
  BY TypeInductive, ThreadsInductive, TerminatedInductive DEF IInv, Threads
<1>3. Ordered' /\ Queued' /\ Handing' /\ Gapless'
  BY <1>1, OrderedInductive, QueuedInductive, HandingInductive, GaplessInductive
<1>4. Handed'
  BY <1>1, HandedInductive
<1>5. Ended' /\ Answers'
  BY <1>1, EndedInductive, AnswersInductive DEF Answers
<1>6. QED
  BY <1>2, <1>3, <1>4, <1>5 DEF Answers

\* The queue is the end of the log; what left it is in a hand or was received,
\* once and in order; a pump ends and a Result call answers for a reason.
THEOREM StreamInvariant == SafeSpec => []CInv
BY InitCInv, StreamInductive, PTL DEF SafeSpec

\* Every Result call that returned agrees, for good, with the final result or
\* with its context (Result reads s.result after resultCh is closed).
THEOREM EveryAnswerAgrees == SafeSpec => []AnswersAgree
<1>1. CInv => AnswersAgree
  BY DEF CInv
<1>2. QED
  BY StreamInvariant, <1>1, PTL

-----------------------------------------------------------------------------
(* What is lost                                                            *)

\* Somebody has the event.
Kept(ev) == InSeq(ev, queue) \/ \E p \in Pumps : InSeq(ev, hand[p]) \/ InSeq(ev, seen[p])

\* An event is lost when it was accepted and nobody has it.
LEMMA LostMeans == \A x : x \in Lost <=> InSeq(x, log) /\ ~Kept(x)
<1>1. \A x : InSeq(x, log) <=> x \in {log[i] : i \in DOMAIN log}
  BY DEF InSeq
<1>2. QED
  BY <1>1 DEF Lost, Kept

\* What is in a sequence after one more event.
LEMMA AppendHolds ==
    ASSUME NEW s \in Seq(Event), NEW ev \in Event
    PROVE  \A x : InSeq(x, Append(s, ev)) <=> InSeq(x, s) \/ x = ev
<1>1. /\ DOMAIN s = 1..Len(s) /\ Len(s) \in Nat
      /\ DOMAIN Append(s, ev) = 1..(Len(s) + 1)
      /\ \A i \in 1..Len(s) : Append(s, ev)[i] = s[i]
      /\ Append(s, ev)[Len(s) + 1] = ev
  OBVIOUS
<1>2. /\ \A i \in DOMAIN s : i \in DOMAIN Append(s, ev) /\ i \in 1..Len(s)
      /\ \A i \in DOMAIN Append(s, ev) : i \in DOMAIN s \/ i = Len(s) + 1
      /\ Len(s) + 1 \in DOMAIN Append(s, ev)
  BY <1>1
<1>3. QED
  BY <1>1, <1>2 DEF InSeq

\* An event changes hands; only a pump that gives up drops one.
LEMMA LostGrows ==
    ASSUME TypeOK, Handing, [Next]_vars
    PROVE  \/ Lost' \subseteq Lost
           \/ \E p \in Pumps : Abandon(p) /\ Lost' \subseteq Lost \cup {hand[p][1]}
<1>1. \A x : x \in Lost' <=> InSeq(x, log') /\ ~Kept(x)'
  <2>1. \A x : InSeq(x, log') <=> x \in {log'[i] : i \in DOMAIN log'}
    BY DEF InSeq
  <2>2. QED
    BY <2>1 DEF Lost, Kept
<1>2. CASE Still
  <2>1. Lost' = Lost
    BY <1>2 DEF Still, Lost
  <2>2. QED
    BY <2>1
<1>3. ASSUME NEW ev \in Event, Accepted(ev) PROVE Lost' \subseteq Lost
  <2>1. /\ log' = Append(log, ev) /\ queue' = Append(queue, ev)
        /\ hand' = hand /\ seen' = seen
    BY <1>3 DEF Accepted
  <2>2. \A x : InSeq(x, log') <=> InSeq(x, log) \/ x = ev
    BY <2>1, AppendHolds DEF TypeOK
  <2>3. \A x : InSeq(x, queue') <=> InSeq(x, queue) \/ x = ev
    BY <2>1, AppendHolds DEF TypeOK
  <2>4. \A x : Kept(x)' <=> Kept(x) \/ x = ev
    BY <2>1, <2>3 DEF Kept
  <2>5. QED
    BY <1>1, <2>2, <2>4, LostMeans
<1>4. ASSUME NEW p \in Pumps, NextPop(p) PROVE Lost' \subseteq Lost
  <2>1. /\ queue # <<>> /\ queue' = Tail(queue) /\ log' = log /\ seen' = seen
        /\ pump[p] = "look" /\ Len(hand'[p]) = 1 /\ hand'[p][1] = queue[1]
        /\ \A q \in Pumps \ {p} : hand'[q] = hand[q]
    BY <1>4, PumpFlow
  <2>2. \A x : InSeq(x, queue) => InSeq(x, queue') \/ x = queue[1]
    <3>1. /\ DOMAIN queue = 1..Len(queue) /\ Len(queue) \in Nat \ {0}
          /\ DOMAIN queue' = 1..(Len(queue) - 1)
          /\ \A i \in 1..(Len(queue) - 1) : queue'[i] = queue[i + 1]
      BY <2>1 DEF TypeOK
    <3>2. ASSUME NEW i \in DOMAIN queue, i # 1
          PROVE  i - 1 \in DOMAIN queue' /\ queue'[i - 1] = queue[i]
      <4>1. PICK j \in 1..(Len(queue) - 1) : i = j + 1 /\ j = i - 1
        BY <3>1, <3>2
      <4>2. QED
        BY <3>1, <4>1
    <3>3. QED
      BY <3>2 DEF InSeq
  <2>3. hand[p] = <<>>
    BY <2>1 DEF Handing
  <2>4. \A x : ~InSeq(x, hand[p])
    BY <2>3 DEF InSeq
  <2>5. InSeq(queue[1], hand'[p])
    <3>1. hand'[p] = <<Head(queue)>>
      BY <1>4 DEF NextPop, TypeOK
    <3>2. QED
      BY <2>1, <3>1 DEF InSeq
  <2>6. \A x : Kept(x) => Kept(x)'
    BY <2>1, <2>2, <2>4, <2>5 DEF Kept
  <2>7. QED
    BY <1>1, <2>1, <2>6, LostMeans
<1>5. ASSUME NEW p \in Pumps, Send(p) PROVE Lost' \subseteq Lost
  <2>1. /\ queue' = queue /\ log' = log
        /\ pump[p] = "send"
        /\ DOMAIN seen'[p] = 1..(Len(seen[p]) + 1)
        /\ \A i \in DOMAIN seen[p] : seen'[p][i] = seen[p][i]
        /\ seen'[p][Len(seen[p]) + 1] = hand[p][1]
        /\ \A q \in Pumps \ {p} : hand'[q] = hand[q] /\ seen'[q] = seen[q]
    BY <1>5, PumpFlow
  <2>2. Len(hand[p]) = 1 /\ DOMAIN hand[p] = 1..Len(hand[p])
    BY <2>1 DEF Handing, TypeOK
  <2>3. Len(seen[p]) \in Nat /\ DOMAIN seen[p] = 1..Len(seen[p])
    BY DEF TypeOK
  <2>4. \A i \in DOMAIN seen[p] : i \in DOMAIN seen'[p]
    BY <2>1, <2>3
  <2>5. Len(seen[p]) + 1 \in DOMAIN seen'[p]
    BY <2>1, <2>3
  <2>6. \A x : InSeq(x, seen[p]) => InSeq(x, seen'[p])
    BY <2>1, <2>4 DEF InSeq
  <2>7. \A x : InSeq(x, hand[p]) => InSeq(x, seen'[p])
    BY <2>1, <2>2, <2>5 DEF InSeq
  <2>8. \A x : Kept(x) => Kept(x)'
    BY <2>1, <2>6, <2>7 DEF Kept
  <2>9. QED
    BY <1>1, <2>1, <2>8, LostMeans
<1>6. ASSUME NEW p \in Pumps, Abandon(p) PROVE Lost' \subseteq Lost \cup {hand[p][1]}
  <2>1. /\ UNCHANGED <<queue, log, seen>> /\ pump[p] = "send"
        /\ \A q \in Pumps \ {p} : hand'[q] = hand[q]
    BY <1>6, PumpFlow
  <2>2. Len(hand[p]) = 1 /\ DOMAIN hand[p] = 1..Len(hand[p])
    BY <2>1 DEF Handing, TypeOK
  <2>3. \A x : InSeq(x, hand[p]) => x = hand[p][1]
    BY <2>2 DEF InSeq
  <2>4. \A x : Kept(x) => Kept(x)' \/ x = hand[p][1]
    BY <2>1, <2>3 DEF Kept
  <2>5. QED
    BY <1>1, <2>1, <2>4, LostMeans
<1>7. QED
  BY <1>2, <1>3, <1>4, <1>5, <1>6, FlowSteps

\* At most one more pump gives up in a step, and none takes it back.
LEMMA GaveUpGrows ==
    ASSUME TypeOK, [Next]_vars
    PROVE  GaveUp \subseteq GaveUp' /\ \E c : GaveUp' \subseteq GaveUp \cup {c}
<1> DEFINE over == {"stop", "stopped", "closed"}
<1>1. CASE UNCHANGED <<pump, cancelled>>
  BY <1>1 DEF GaveUp
<1>2. CASE Broadcast /\ cancelled' = cancelled
  <2>1. \A q \in Pumps : pump'[q] \in over <=> pump[q] \in over
    BY <1>2, BroadcastWakes
  <2>2. QED
    BY <1>2, <2>1 DEF GaveUp
<1>3. ASSUME NEW p \in Pumps, Events(p) \/ PumpStep(p) \/ LeaveEarly(p)
      PROVE  GaveUp \subseteq GaveUp' /\ \E c : GaveUp' \subseteq GaveUp \cup {c}
  <2> USE DEF TypeOK, Goto
  <2>1. CASE WatchBroadcast(p)
    BY <1>2, <2>1 DEF WatchBroadcast
  <2>2. CASE WatchCancel(p) \/ WatchStop(p) \/ RangeEnds(p) \/ LeaveEarly(p)
    BY <1>1, <2>2 DEF WatchCancel, WatchStop, RangeEnds, LeaveEarly
  <2>3. ASSUME ~WatchBroadcast(p),
               ~(WatchCancel(p) \/ WatchStop(p) \/ RangeEnds(p) \/ LeaveEarly(p))
        PROVE  /\ cancelled' = cancelled
               /\ \A q \in Pumps \ {p} : pump'[q] = pump[q]
               /\ pump[p] \in over => pump'[p] \in over
    <3> USE <2>3
    <3>1. CASE Events(p)
      BY <3>1 DEF Events
    <3>2. CASE NextLock(p)
      BY <3>2 DEF NextLock
    <3>3. CASE NextCheck(p)
      BY <3>3 DEF NextCheck
    <3>4. CASE NextPop(p)
      BY <3>4 DEF NextPop
    <3>5. CASE NextDrained(p)
      BY <3>5 DEF NextDrained
    <3>6. CASE NextWait(p)
      BY <3>6 DEF NextWait
    <3>7. CASE Abandon(p)
      BY <3>7 DEF Abandon
    <3>8. CASE CloseStop(p)
      BY <3>8 DEF CloseStop
    <3>9. CASE CloseChannel(p)
      BY <3>9 DEF CloseChannel
    <3>10. CASE Send(p)
      BY <3>10 DEF Send
    <3>11. QED
      BY <1>3, <3>1, <3>2, <3>3, <3>4, <3>5, <3>6, <3>7, <3>8, <3>9, <3>10
         DEF PumpStep, Pump, Watcher
  <2>4. ASSUME /\ cancelled' = cancelled
               /\ \A q \in Pumps \ {p} : pump'[q] = pump[q]
               /\ pump[p] \in over => pump'[p] \in over
        PROVE  GaveUp \subseteq GaveUp' /\ \E c : GaveUp' \subseteq GaveUp \cup {c}
    <3>1. GaveUp \subseteq GaveUp' /\ GaveUp' \subseteq GaveUp \cup {p}
      BY <2>4 DEF GaveUp
    <3>2. QED
      BY <3>1
  <2>5. QED
    BY <2>1, <2>2, <2>3, <2>4
<1>4. CASE Produce
  <2>1. cancelled' = cancelled /\ (UNCHANGED pump \/ Broadcast)
    BY <1>4 DEF Produce, Push, End
  <2>2. QED
    BY <1>1, <1>2, <2>1
<1>5. ASSUME NEW c \in Cancellable, Cancel(c)
      PROVE  GaveUp \subseteq GaveUp' /\ \E d : GaveUp' \subseteq GaveUp \cup {d}
  <2>1. GaveUp \subseteq GaveUp' /\ GaveUp' \subseteq GaveUp \cup {c}
    BY <1>5 DEF Cancel, GaveUp
  <2>2. QED
    BY <2>1
<1>6. ASSUME NEW w \in Callers, Result(w) \/ CallerStep(w) PROVE UNCHANGED <<pump, cancelled>>
  BY <1>6 DEF CallerStep, Result, ResultReady, ResultCancelled, ResultRead
<1>7. CASE UNCHANGED vars
  BY <1>1, <1>7 DEF vars
<1>8. QED
  BY <1>1, <1>3, <1>4, <1>5, <1>6, <1>7 DEF Next

\* Both sets are finite at every moment, for their sizes to be compared.
Losses == IsFiniteSet(Lost) /\ IsFiniteSet(GaveUp) /\ LossBound

\* A step loses at most one event, and then one more pump gave up.
LEMMA LossesInductive ==
    ASSUME TypeOK, Handing, Losses, [Next]_vars
    PROVE  Losses'
<1>1. PICK c : GaveUp \subseteq GaveUp' /\ GaveUp' \subseteq GaveUp \cup {c}
  BY GaveUpGrows
<1>2. IsFiniteSet(GaveUp \cup {c})
  BY FS_AddElement DEF Losses
<1>3. IsFiniteSet(GaveUp') /\ Cardinality(GaveUp) <= Cardinality(GaveUp')
  <2>1. IsFiniteSet(GaveUp')
    BY <1>1, <1>2, FS_Subset
  <2>2. QED
    BY <1>1, <2>1, FS_Subset
<1>4. /\ Cardinality(Lost) \in Nat /\ Cardinality(GaveUp) \in Nat /\ Cardinality(GaveUp') \in Nat
      /\ Cardinality(Lost) <= Cardinality(GaveUp)
  BY <1>3, FS_CardinalityType DEF Losses, LossBound
<1>5. CASE Lost' \subseteq Lost
  <2>1. IsFiniteSet(Lost') /\ Cardinality(Lost') <= Cardinality(Lost)
    BY <1>5, FS_Subset DEF Losses
  <2>2. Cardinality(Lost') \in Nat
    BY <2>1, FS_CardinalityType
  <2>3. Cardinality(Lost') <= Cardinality(GaveUp')
    BY <1>3, <1>4, <2>1, <2>2
  <2>4. QED
    BY <1>3, <2>1, <2>3 DEF Losses, LossBound
<1>6. ASSUME NEW p \in Pumps, Abandon(p), Lost' \subseteq Lost \cup {hand[p][1]} PROVE Losses'
  <2>1. pump[p] = "send" /\ p \in cancelled /\ cancelled' = cancelled /\ pump'[p] = "stop"
    BY <1>6, PumpFlow
  <2>2. p \notin GaveUp /\ p \in GaveUp'
    BY <2>1 DEF GaveUp
  <2>3. /\ IsFiniteSet(GaveUp \cup {p})
        /\ Cardinality(GaveUp \cup {p}) = Cardinality(GaveUp) + 1
    BY <2>2, FS_AddElement DEF Losses
  <2>4. GaveUp \cup {p} \subseteq GaveUp'
    BY <1>1, <2>2
  <2>5. Cardinality(GaveUp) + 1 <= Cardinality(GaveUp')
    BY <1>3, <2>3, <2>4, FS_Subset
  <2>6. /\ IsFiniteSet(Lost \cup {hand[p][1]})
        /\ Cardinality(Lost \cup {hand[p][1]}) =
              IF hand[p][1] \in Lost THEN Cardinality(Lost) ELSE Cardinality(Lost) + 1
    BY FS_AddElement DEF Losses
  <2>7. /\ IsFiniteSet(Lost')
        /\ Cardinality(Lost') <= Cardinality(Lost \cup {hand[p][1]})
    BY <1>6, <2>6, FS_Subset
  <2>8. Cardinality(Lost') \in Nat
    BY <2>7, FS_CardinalityType
  <2>9. Cardinality(Lost') <= Cardinality(GaveUp')
    BY <1>4, <2>5, <2>6, <2>7, <2>8
  <2>10. QED
    BY <1>3, <2>7, <2>9 DEF Losses, LossBound
<1>7. QED
  BY <1>5, <1>6, LostGrows

\* A stream taken over from cancelled consumers is short of at most one event
\* for each of them: the one its pump had popped and could not send.
THEOREM LossIsBounded == SafeSpec => []LossBound
<1>1. Init => Losses
  <2>1. Init => Lost = {} /\ GaveUp = {}
    BY DEF Init, Lost, GaveUp
  <2>2. QED
    BY <2>1, FS_EmptySet DEF Losses, LossBound
<1>2. CInv /\ Losses /\ [Next]_vars => Losses'
  BY LossesInductive DEF CInv, IInv
<1>3. Losses => LossBound
  BY DEF Losses
<1>4. QED
  BY StreamInvariant, <1>1, <1>2, <1>3, PTL DEF SafeSpec

-----------------------------------------------------------------------------
(* The threads implement the contract                                      *)

\* Sending the one event of a hand appends it.
LEMMA SendIsAppend ==
    ASSUME NEW s \in Seq(Event), NEW h \in Seq(Event), Len(h) = 1
    PROVE  s \o h = Append(s, h[1])
<1>1. h[1] \in Event
  OBVIOUS
<1>2. /\ Append(s, h[1]) \in Seq(Event) /\ Len(Append(s, h[1])) = Len(s) + 1
      /\ \A i \in 1..Len(s) : Append(s, h[1])[i] = s[i]
      /\ Append(s, h[1])[Len(s) + 1] = h[1] /\ Len(s) \in Nat
  BY <1>1
<1>3. \A i \in 1..(Len(s) + 1) : i \in 1..Len(s) \/ i = Len(s) + 1
  BY <1>2
<1>4. \A i \in 1..Len(s \o h) : (s \o h)[i] = Append(s, h[1])[i]
  BY <1>2, <1>3, SendAppends
<1>5. QED
  BY <1>2, <1>4, SendAppends, SeqEqual

\* A sequence that agrees with another from its start is a prefix of it.
LEMMA PrefixIsSubSeq ==
    ASSUME NEW s \in Seq(Event), NEW t \in Seq(Event), Len(s) <= Len(t),
           \A i \in 1..Len(s) : s[i] = t[i]
    PROVE  s = SubSeq(t, 1, Len(s))
<1>1. Len(s) \in Nat /\ Len(t) \in Nat /\ 1 \in Int /\ Len(s) \in Int
  OBVIOUS
<1>2. \A i \in 1..Len(s) : t[i] \in Event
  BY <1>1
<1>3. /\ SubSeq(t, 1, Len(s)) \in Seq(Event)
      /\ Len(SubSeq(t, 1, Len(s))) = IF 1 <= Len(s) THEN Len(s) - 1 + 1 ELSE 0
      /\ \A i \in 1..(Len(s) - 1 + 1) : SubSeq(t, 1, Len(s))[i] = t[1 + i - 1]
  BY <1>1, <1>2, SubSeqProperties
<1>4. Len(SubSeq(t, 1, Len(s))) = Len(s)
  BY <1>1, <1>3
<1>5. \A i \in 1..Len(s) : SubSeq(t, 1, Len(s))[i] = t[i]
  BY <1>1, <1>3
<1>6. QED
  BY <1>3, <1>4, <1>5, SeqEqual

\* A step the contract does not see.
Unseen ==
    /\ UNCHANGED <<log, done, result, seen, answer, cancelled>>
    /\ \A p \in Pumps : /\ pump'[p] = "off" <=> pump[p] = "off"
                        /\ pump'[p] = "closed" <=> pump[p] = "closed"

\* What the contract allows in a step.
ContractStep == [Contract!Next]_(Contract!vars)

\* What the contract does not see, it allows.
LEMMA UnseenStutters == Unseen => ContractStep
<1>1. Unseen => /\ UNCHANGED {p \in Pumps : pump[p] # "off"}
                /\ UNCHANGED {p \in Pumps : pump[p] = "closed"}
  BY DEF Unseen
<1>2. QED
  BY <1>1 DEF ContractStep, Unseen, Contract!vars

\* Push is Accept, End is End; both are dropped once the stream is terminated.
LEMMA ProduceMaps ==
    ASSUME CInv, Produce
    PROVE  ContractStep
<1>1. TypeOK /\ SingleTermination /\ calls \in Nat /\ calls + 1 \in 1..MaxCalls
  BY CallsAssumption DEF CInv, IInv, TypeOK, Terminated, Produce
<1>2. CASE done
  BY <1>2, UnseenStutters DEF Produce, Push, End, Unseen, stream, readers
<1>3. CASE ~done
  <2>1. result = NoMessage
    BY <1>1, <1>3 DEF SingleTermination
  <2>2. Broadcast /\ UNCHANGED <<seen, answer, cancelled>>
    BY <1>3 DEF Produce, Push, End, readers
  <2>3. /\ UNCHANGED {p \in Pumps : pump[p] # "off"}
        /\ UNCHANGED {p \in Pumps : pump[p] = "closed"}
    BY <2>2, BroadcastWakes
  <2>4. ASSUME NEW k \in Kinds, Push([kind |-> k, msg |-> calls + 1]) PROVE ContractStep
    <3> DEFINE ev == [kind |-> k, msg |-> calls + 1]
    <3>1. \A i \in DOMAIN log : log[i].msg < ev.msg
      <4>1. \A i \in DOMAIN log : log[i].msg \in Nat /\ log[i].msg <= calls
        BY <1>1, LogMessages DEF CInv, Ordered
      <4>2. QED
        BY <1>1, <4>1
    <3>2. /\ log' = Append(log, ev)
          /\ done' = IsTerminalEvent(ev) /\ result' = EventResult(ev)
      <4>1. log' = Append(log, ev)
        BY <1>3, <2>4 DEF Push
      <4>2. CASE IsTerminalEvent(ev)
        <5>1. done' = TRUE /\ result' = EventResult(ev) /\ IsTerminalEvent(ev) = TRUE
          BY <1>3, <2>4, <4>2 DEF Push, IsTerminalEvent
        <5>2. QED
          BY <4>1, <5>1
      <4>3. CASE ~IsTerminalEvent(ev)
        <5>1. done' = done /\ result' = NoMessage /\ EventResult(ev) = NoMessage
          BY <1>3, <2>1, <2>4, <4>3 DEF Push, EventResult
        <5>2. done = FALSE /\ IsTerminalEvent(ev) = FALSE
          BY <1>1, <1>3, <4>3 DEF TypeOK, IsTerminalEvent
        <5>3. QED
          BY <4>1, <5>1, <5>2
      <4>4. QED
        BY <4>2, <4>3
    <3>3. Contract!Accept(ev)
      BY <1>3, <2>2, <2>3, <3>1, <3>2
         DEF Contract!Accept, Contract!IsTerminalEvent, Contract!EventResult,
             IsTerminalEvent, EventResult, Contract!NoMessage, NoMessage
    <3>4. k \in Contract!Kinds
      BY DEF Kinds, Contract!Kinds
    <3>5. QED
      BY <1>1, <3>3, <3>4 DEF ContractStep, Contract!Next
  <2>5. ASSUME NEW m \in {NoMessage, calls + 1}, End(m) PROVE ContractStep
    <3>1. Contract!End(m)
      BY <1>3, <2>2, <2>3, <2>5 DEF End, Contract!End
    <3>2. m \in (1..MaxCalls) \cup {Contract!NoMessage}
      BY <1>1 DEF NoMessage, Contract!NoMessage
    <3>3. QED
      BY <3>1, <3>2 DEF ContractStep, Contract!Next
  <2>6. QED
    BY <2>4, <2>5 DEF Produce
<1>4. QED
  BY <1>2, <1>3

\* A consumer that is alone has no other pump to share the log with.
LEMMA Alone ==
    ASSUME CInv, NEW p \in Pumps, Contract!Undisturbed(p)
    PROVE  /\ Len(seen[p]) + Len(hand[p]) = popped
           /\ \A i \in DOMAIN seen[p] : seen[p][i] = log[i]
           /\ pump[p] = "send" => hand[p][1] = log[popped]
           /\ p \notin cancelled
<1>1. (\A q \in Pumps \ {p} : pump[q] = "off") /\ p \notin cancelled
  BY DEF Contract!Undisturbed
<1>2. QED
  BY <1>1 DEF CInv, Gapless

\* A send is a Receive: the event is taken, new, later and the next one.
LEMMA SendMaps ==
    ASSUME CInv, NEW p \in Pumps, Send(p)
    PROVE  ContractStep
<1> DEFINE ev == hand[p][1]
<1>1. TypeOK /\ Handing /\ Handed /\ Queued
  BY DEF CInv, IInv
<1>2. /\ pump[p] = "send" /\ Len(hand[p]) = 1 /\ hand[p] \in Seq(Event) /\ seen[p] \in Seq(Event)
      /\ Len(seen[p]) \in Nat
  BY <1>1 DEF Send, Handing, TypeOK
<1>3. seen' = [seen EXCEPT ![p] = Append(@, ev)]
  <2>1. seen[p] \o hand[p] = Append(seen[p], ev)
    BY <1>2, SendIsAppend
  <2>2. QED
    BY <2>1 DEF Send
<1>4. /\ UNCHANGED <<log, done, result, answer, cancelled>> /\ pump' = [pump EXCEPT ![p] = "lock"]
  BY DEF Send, Goto, stream, readers, history
<1>5. /\ UNCHANGED {q \in Pumps : pump[q] # "off"}
      /\ UNCHANGED {q \in Pumps : pump[q] = "closed"}
  BY <1>1, <1>2, <1>4 DEF TypeOK
<1>6. PICK i \in 1..popped : log[i] = ev
  BY <1>1, <1>2 DEF Handed, Taken
<1>7. i \in DOMAIN log
  BY <1>1 DEF TypeOK, Queued, popped
<1>8. /\ \A j \in DOMAIN seen[p] : seen[p][j].msg < ev.msg
      /\ \A q \in Pumps : ~InSeq(ev, seen[q])
  BY <1>1, <1>2 DEF Handed
<1>9. ASSUME Contract!Undisturbed(p)
      PROVE  Append(seen[p], ev) = SubSeq(log, 1, Len(seen[p]) + 1)
  <2>1. /\ Len(seen[p]) + 1 = popped /\ ev = log[popped]
        /\ \A j \in DOMAIN seen[p] : seen[p][j] = log[j]
    BY <1>2, <1>9, Alone
  <2>2. /\ Append(seen[p], ev) \in Seq(Event) /\ Len(Append(seen[p], ev)) = Len(seen[p]) + 1
        /\ \A j \in 1..Len(seen[p]) : Append(seen[p], ev)[j] = seen[p][j]
        /\ Append(seen[p], ev)[Len(seen[p]) + 1] = ev /\ DOMAIN seen[p] = 1..Len(seen[p])
    BY <1>2
  <2>3. \A j \in 1..(Len(seen[p]) + 1) : j \in 1..Len(seen[p]) \/ j = Len(seen[p]) + 1
    BY <1>2
  <2>4. \A j \in 1..(Len(seen[p]) + 1) : Append(seen[p], ev)[j] = log[j]
    BY <2>1, <2>2, <2>3
  <2>5. log \in Seq(Event) /\ Len(seen[p]) + 1 <= Len(log)
    BY <1>1, <2>1 DEF TypeOK, popped
  <2>6. QED
    BY <2>2, <2>4, <2>5, PrefixIsSubSeq
<1>10. Contract!Receive(p, log[i])
  <2>1. InSeq(ev, log)
    BY <1>6, <1>7 DEF InSeq
  <2>2. QED
    BY <1>2, <1>3, <1>4, <1>5, <1>6, <1>8, <1>9, <2>1 DEF Contract!Receive, InSeq, Contract!InSeq
<1>11. QED
  BY <1>7, <1>10 DEF ContractStep, Contract!Next

\* The channel that closes is Finish: there is a reason, and nothing is left.
LEMMA CloseMaps ==
    ASSUME CInv, NEW p \in Pumps, CloseChannel(p)
    PROVE  ContractStep
<1>1. TypeOK /\ Handing /\ Ended
  BY DEF CInv, IInv
<1>2. /\ pump[p] = "stopped" /\ pump' = [pump EXCEPT ![p] = "closed"]
      /\ UNCHANGED <<log, done, result, seen, answer, cancelled>>
  BY DEF CloseChannel, Goto, stream, readers, history
<1>3. /\ UNCHANGED {q \in Pumps : pump[q] # "off"}
      /\ {q \in Pumps : pump'[q] = "closed"} = {q \in Pumps : pump[q] = "closed"} \cup {p}
  BY <1>1, <1>2 DEF TypeOK
<1>4. p \in cancelled \/ (done /\ queue = <<>>)
  BY <1>1, <1>2 DEF Ended
<1>5. ASSUME Contract!Undisturbed(p) PROVE seen[p] = log
  <2>1. /\ Len(seen[p]) + Len(hand[p]) = popped /\ p \notin cancelled
        /\ \A i \in DOMAIN seen[p] : seen[p][i] = log[i]
    BY <1>5, Alone
  <2>2. hand[p] = <<>> /\ queue = <<>>
    BY <1>1, <1>2, <1>4, <2>1 DEF Handing
  <2>3. Len(seen[p]) \in Nat /\ Len(log) \in Nat /\ Len(hand[p]) = 0 /\ Len(queue) = 0
    BY <1>1, <2>2 DEF TypeOK
  <2>4. Len(seen[p]) = Len(log)
    BY <2>1, <2>3 DEF popped
  <2>5. QED
    <3>1. seen[p] \in Seq(Event) /\ log \in Seq(Event)
      BY <1>1 DEF TypeOK
    <3>2. \A i \in 1..Len(seen[p]) : seen[p][i] = log[i]
      BY <2>1, <3>1
    <3>3. QED
      BY <2>4, <3>1, <3>2, SeqEqual
<1>6. Contract!Finish(p)
  BY <1>2, <1>3, <1>4, <1>5 DEF Contract!Finish
<1>7. QED
  BY <1>6 DEF ContractStep, Contract!Next

\* The other steps of Events open a consumer or stay unseen.
LEMMA PumpMaps ==
    ASSUME CInv, NEW p \in Pumps, Events(p) \/ PumpStep(p) \/ LeaveEarly(p)
    PROVE  ContractStep
<1>1. TypeOK /\ Ended
  BY DEF CInv, IInv
<1> USE UnseenStutters DEF Goto, stream, readers, history
<1>2. CASE Events(p)
  <2>1. /\ pump[p] = "off" /\ pump' = [pump EXCEPT ![p] = "lock"]
        /\ UNCHANGED <<log, done, result, seen, answer, cancelled>>
    BY <1>2 DEF Events
  <2>2. /\ {q \in Pumps : pump'[q] # "off"} = {q \in Pumps : pump[q] # "off"} \cup {p}
        /\ UNCHANGED {q \in Pumps : pump[q] = "closed"}
    BY <1>1, <2>1 DEF TypeOK
  <2>3. Contract!Open(p)
    BY <2>1, <2>2 DEF Contract!Open
  <2>4. QED
    BY <2>3 DEF ContractStep, Contract!Next
<1>3. CASE NextLock(p) \/ NextCheck(p)
  BY <1>1, <1>3 DEF NextLock, NextCheck, Unseen, TypeOK
<1>4. CASE NextPop(p)
  BY <1>1, <1>4 DEF NextPop, Unseen, TypeOK
<1>5. CASE NextDrained(p) \/ NextWait(p)
  BY <1>1, <1>5 DEF NextDrained, NextWait, Unseen, TypeOK
<1>6. CASE Abandon(p) \/ CloseStop(p)
  BY <1>1, <1>6 DEF Abandon, CloseStop, Unseen, TypeOK
<1>7. CASE WatchCancel(p) \/ WatchStop(p) \/ RangeEnds(p) \/ LeaveEarly(p)
  BY <1>7 DEF WatchCancel, WatchStop, RangeEnds, LeaveEarly, Unseen
<1>8. CASE WatchBroadcast(p)
  BY <1>8, BroadcastWakes DEF WatchBroadcast, Unseen
<1>9. QED
  BY <1>2, <1>3, <1>4, <1>5, <1>6, <1>7, <1>8, SendMaps, CloseMaps DEF PumpStep, Pump, Watcher

\* What Result returns is an Answer.
LEMMA CallerMaps ==
    ASSUME CInv, NEW w \in Callers, Result(w) \/ CallerStep(w)
    PROVE  ContractStep
<1>1. UNCHANGED <<log, done, result, seen, cancelled, pump>>
  BY DEF CallerStep, Result, ResultReady, ResultCancelled, ResultRead, stream, history
<1>2. CASE UNCHANGED answer
  BY <1>1, <1>2, UnseenStutters DEF Unseen
<1>3. ASSUME NEW err \in {"nil", "ended", "ctx"}, answer[w] = Pending,
             err \in {"nil", "ended"} => done, err = "ctx" => w \in cancelled,
             err = "nil" <=> (err # "ctx" /\ result # NoMessage),
             answer' = [answer EXCEPT ![w] = [msg |-> IF err = "nil" THEN result ELSE NoMessage,
                                              err |-> err]]
      PROVE  ContractStep
  <2>1. Contract!Answer(w)
    BY <1>1, <1>3 DEF Contract!Answer, Contract!Pending, Pending, Contract!NoMessage, NoMessage
  <2>2. QED
    BY <2>1 DEF ContractStep, Contract!Next
<1>4. CASE ResultCancelled(w)
  <2>1. answer[w] = Pending /\ w \in cancelled
    BY <1>4 DEF ResultCancelled, CInv, Answering
  <2>2. answer' = [answer EXCEPT ![w] = [msg |-> NoMessage, err |-> "ctx"]]
    BY <1>4 DEF ResultCancelled, Return
  <2>3. QED
    BY <1>3, <2>1, <2>2
<1>5. CASE ResultRead(w)
  <2>1. answer[w] = Pending /\ done
    BY <1>5 DEF ResultRead, CInv, Answering
  <2>2. CASE result = NoMessage
    <3>1. answer' = [answer EXCEPT ![w] = [msg |-> NoMessage, err |-> "ended"]]
      BY <1>5, <2>2 DEF ResultRead, Return
    <3>2. QED
      BY <1>3, <2>1, <2>2, <3>1
  <2>3. CASE result # NoMessage
    <3>1. answer' = [answer EXCEPT ![w] = [msg |-> result, err |-> "nil"]]
      BY <1>5, <2>3 DEF ResultRead, Return
    <3>2. QED
      BY <1>3, <2>1, <2>3, <3>1
  <2>4. QED
    BY <2>2, <2>3
<1>6. QED
  BY <1>2, <1>4, <1>5 DEF CallerStep, Result, ResultReady

\* Every step of the threads is a step of the contract, or none.
LEMMA StepMaps == CInv /\ [Next]_vars => [Contract!Next]_(Contract!vars)
<1> SUFFICES ASSUME CInv, [Next]_vars PROVE ContractStep
  BY DEF ContractStep
<1>1. ASSUME NEW c \in Cancellable, Cancel(c) PROVE ContractStep
  <2>1. Contract!Cancel(c)
    BY <1>1 DEF Cancel, Contract!Cancel, stream, readers, history
  <2>2. QED
    BY <2>1, CallsAssumption DEF ContractStep, Contract!Next
<1>2. CASE UNCHANGED vars
  BY <1>2, UnseenStutters DEF vars, stream, readers, history, Unseen
<1>3. QED
  BY <1>1, <1>2, ProduceMaps, PumpMaps, CallerMaps DEF Next

\* The threads of the stream keep its contract: a log that stops growing once
\* terminated, every event handed out at most once and in order, the whole log
\* to a consumer that is alone and not cancelled, a channel that closes and a
\* Result that answers only for a reason.
THEOREM KeepsContract == SafeSpec => ImplementsContract
<1>1. Init => Contract!Init
  BY DEF Init, Contract!Init, Contract!NoMessage, NoMessage, Contract!Pending, Pending
<1>2. QED
  BY <1>1, StepMaps, StreamInvariant, PTL DEF SafeSpec, ImplementsContract, Contract!Spec
=============================================================================
