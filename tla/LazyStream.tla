---------------------------- MODULE LazyStream ----------------------------
(***************************************************************************)
(* ai.LazyStream (src/ai/lazy.go): the outer stream a caller gets at once, *)
(* the goroutine (relay) that runs setup behind it, and the inner stream   *)
(* of the provider adapter that setup dispatched to.  Both streams are     *)
(* StreamContract, which EventStream implements; the relay is the only     *)
(* consumer of the inner one, with context.Background().                   *)
(*                                                                         *)
(* Setup (auth resolution and dispatch) and the adapter are environment:   *)
(* setup may fail or return; an adapter emits updates and terminates, with *)
(* done, with an error (its own or because it saw the context done), or    *)
(* out-of-band: End closes it without a terminal event, with or without a  *)
(* result (stream.go, the comment on End).                                 *)
(***************************************************************************)
EXTENDS StreamEvents

CONSTANT MaxEvents   \* bound on the events of the adapter
ASSUME MaxEventsAssumption == MaxEvents \in Nat \ {0}

VARIABLES iLog, iClosed, iResult, iOpened, iSeen, iFinished,  \* inner
          oLog, oClosed, oResult,                              \* outer
          relay,     \* where the goroutine of LazyStream is
          hand,      \* the event the relay is about to push
          ctxDone    \* the context of the request is done

inner == <<iLog, iClosed, iResult, iOpened, iSeen, iFinished>>
outer == <<oLog, oClosed, oResult>>
vars == <<inner, outer, relay, hand, ctxDone>>

Relay == "relay"
SetupMessage == MaxEvents + 1    \* the message NewSetupErrorMessage builds
Messages == 1..SetupMessage

Inner == INSTANCE StreamContract WITH
    Consumers <- {Relay}, Callers <- {}, log <- iLog, closed <- iClosed,
    result <- iResult, opened <- iOpened, seen <- iSeen, finished <- iFinished,
    answer <- <<>>, cancelled <- {}

\* The consumers of the outer stream do not act on the relay, and are left out.
Outer == INSTANCE StreamContract WITH
    Consumers <- {}, Callers <- {}, log <- oLog, closed <- oClosed,
    result <- oResult, opened <- {}, seen <- <<>>, finished <- {},
    answer <- <<>>, cancelled <- {}

Init ==
    /\ iLog = <<>> /\ iClosed = FALSE /\ iResult = NoMessage
    /\ iOpened = {} /\ iSeen = [c \in {Relay} |-> <<>>] /\ iFinished = {}
    /\ oLog = <<>> /\ oClosed = FALSE /\ oResult = NoMessage
    /\ relay = "setup"
    /\ hand = <<>>
    /\ ctxDone = FALSE

\* outer.Push and outer.End, dropped once the outer stream is closed.
OuterPush(ev) == IF oClosed THEN UNCHANGED outer ELSE Outer!Accept(ev)

OuterEnd == IF oClosed THEN UNCHANGED outer ELSE Outer!End(NoMessage)

\* setup(ctx) fails: the outer stream terminates with an in-band error.
SetupFails ==
    /\ relay = "setup"
    /\ OuterPush([kind |-> "error", msg |-> SetupMessage])
    /\ relay' = "gone"
    /\ UNCHANGED <<inner, hand, ctxDone>>

\* setup returns the inner stream, and the relay starts to range over it.
SetupReturns ==
    /\ relay = "setup"
    /\ Inner!Open(Relay)
    /\ relay' = "range"
    /\ UNCHANGED <<outer, hand, ctxDone>>

RelayReceives ==
    /\ relay = "range"
    /\ \E i \in DOMAIN iLog : Inner!Receive(Relay, iLog[i]) /\ hand' = <<iLog[i]>>
    /\ relay' = "push"
    /\ UNCHANGED <<outer, ctxDone>>

\* Mutated RelayPushes: only terminal events are forwarded.
PushTerminalOnly ==
    /\ relay = "push"
    /\ IF IsTerminalEvent(hand[1]) THEN OuterPush(hand[1]) ELSE UNCHANGED outer
    /\ hand' = <<>>
    /\ relay' = "range"
    /\ UNCHANGED <<inner, ctxDone>>

RelayPushes ==
    /\ relay = "push"
    /\ OuterPush(hand[1])
    /\ hand' = <<>>
    /\ relay' = "range"
    /\ UNCHANGED <<inner, ctxDone>>

\* The inner channel is closed, and with it the range.
RelayRangeEnds ==
    /\ relay = "range"
    /\ Inner!Finish(Relay)
    /\ relay' = "end"
    /\ UNCHANGED <<outer, hand, ctxDone>>

RelayEnds ==
    /\ relay = "end"
    /\ OuterEnd
    /\ relay' = "gone"
    /\ UNCHANGED <<inner, hand, ctxDone>>

-----------------------------------------------------------------------------
(* The adapter behind the inner stream, and the caller's context           *)

AdapterPushes(kind) ==
    /\ iOpened # {}
    /\ kind = "update" => Len(iLog) < MaxEvents - 1
    /\ Inner!Accept([kind |-> kind, msg |-> Len(iLog) + 1])
    /\ UNCHANGED <<outer, relay, hand, ctxDone>>

\* End(result), as test doubles and adapters that complete out-of-band do.
AdapterEnds ==
    /\ iOpened # {}
    /\ \E m \in {NoMessage, Len(iLog) + 1} : Inner!End(m)
    /\ UNCHANGED <<outer, relay, hand, ctxDone>>

CancelRequest ==
    /\ ~ctxDone
    /\ ctxDone' = TRUE
    /\ UNCHANGED <<inner, outer, relay, hand>>

\* "The adapter observes ctx itself and always terminates" (lazy.go).
AdapterTerminates == AdapterPushes("done") \/ AdapterPushes("error") \/ AdapterEnds

-----------------------------------------------------------------------------
(* Properties                                                              *)

\* What the events of a terminated stream make its final result.
ResultOf(log) == IF log = <<>> THEN NoMessage ELSE EventResult(log[Len(log)])

\* The caller of LazyStream sees the adapter's stream event by event, or one setup
\* error and nothing else.  Once setup has dispatched, the outer stream terminates only
\* after the inner one, with every event of it and the result of its terminal event,
\* however early the context was done: the aborted event is not swallowed (lazy.go, the
\* comment in LazyStream).  A result that came without an event is ResultCarriedOver.
OuterFollowsInner ==
    /\ \/ Len(oLog) <= Len(iLog) /\ oLog = SubSeq(iLog, 1, Len(oLog))
       \/ iOpened = {} /\ oLog = <<[kind |-> "error", msg |-> SetupMessage]>>
    /\ (oClosed /\ iOpened # {}) => iClosed /\ oLog = iLog /\ oResult = ResultOf(iLog)

\* The comment on End: "If result is non-nil it becomes the final result", for "adapters
\* that complete out-of-band".  Through LazyStream too, the caller gets that result.
ResultCarriedOver == oClosed /\ iOpened # {} => oResult = iResult
=============================================================================
