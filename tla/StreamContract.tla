--------------------------- MODULE StreamContract ---------------------------
(***************************************************************************)
(* What an ai.Stream promises its users, whatever its threads do: a log of *)
(* accepted events that stops growing at the first terminal event or End;  *)
(* a final result fixed at that moment; every accepted event handed out at *)
(* most once and, to each consumer, in log order; the whole log, without a *)
(* gap, to a consumer that is alone and not cancelled; a channel that      *)
(* closes only for a reason; and answers to Result that agree with the     *)
(* final result.  EventStream implements this module.                      *)
(***************************************************************************)
EXTENDS StreamEvents

CONSTANTS Consumers,   \* the calls of Events
          Callers,     \* the calls of Result
          Messages     \* the messages producers may use, Messages \subseteq Message

VARIABLES log,         \* the accepted events, oldest first
          closed,      \* the stream has terminated
          result,      \* the final message, NoMessage until there is one
          opened,      \* the consumers that called Events
          seen,        \* what each consumer received, in order
          finished,    \* the consumers whose channel is closed
          answer,      \* what each Result call returned
          cancelled    \* the contexts that are done

vars == <<log, closed, result, opened, seen, finished, answer, cancelled>>

Pending == [msg |-> NoMessage, err |-> "pending"]

InSeq(ev, s) == \E i \in DOMAIN s : s[i] = ev

Init ==
    /\ log = <<>>
    /\ closed = FALSE
    /\ result = NoMessage
    /\ opened = {}
    /\ seen = [c \in Consumers |-> <<>>]
    /\ finished = {}
    /\ answer = [w \in Callers |-> Pending]
    /\ cancelled = {}

\* Push: a terminal event completes the stream with its message.
Accept(ev) ==
    /\ ~closed
    /\ \A i \in DOMAIN log : log[i].msg < ev.msg
    /\ log' = Append(log, ev)
    /\ closed' = IsTerminalEvent(ev)
    /\ result' = EventResult(ev)
    /\ UNCHANGED <<opened, seen, finished, answer, cancelled>>

\* End: the stream completes with m, or with no message, and no event.
End(m) ==
    /\ ~closed
    /\ closed' = TRUE
    /\ result' = m
    /\ UNCHANGED <<log, opened, seen, finished, answer, cancelled>>

Open(c) ==
    /\ c \notin opened
    /\ opened' = opened \cup {c}
    /\ UNCHANGED <<log, closed, result, seen, finished, answer, cancelled>>

\* No other consumer ever took from the log, and c does not give up.
Undisturbed(c) == opened = {c} /\ c \notin cancelled

\* An event nobody received yet, later in the log than all c received.
Receive(c, ev) ==
    /\ c \in opened \ finished
    /\ InSeq(ev, log)
    /\ \A d \in Consumers : ~InSeq(ev, seen[d])
    /\ \A i \in DOMAIN seen[c] : seen[c][i].msg < ev.msg
    /\ Undisturbed(c) => Append(seen[c], ev) = SubSeq(log, 1, Len(seen[c]) + 1)
    /\ seen' = [seen EXCEPT ![c] = Append(@, ev)]
    /\ UNCHANGED <<log, closed, result, opened, finished, answer, cancelled>>

\* A channel closes because the stream ended or its own context is done.
Finish(c) ==
    /\ c \in opened \ finished
    /\ closed \/ c \in cancelled
    /\ Undisturbed(c) => seen[c] = log
    /\ finished' = finished \cup {c}
    /\ UNCHANGED <<log, closed, result, opened, seen, answer, cancelled>>

Answer(w) ==
    /\ answer[w] = Pending
    /\ \E err \in {"nil", "ended", "ctx"} :
          /\ err \in {"nil", "ended"} => closed
          /\ err = "ctx" => w \in cancelled
          /\ err = "nil" <=> (err # "ctx" /\ result # NoMessage)
          /\ answer' = [answer EXCEPT ![w] =
                           [msg |-> IF err = "nil" THEN result ELSE NoMessage,
                            err |-> err]]
    /\ UNCHANGED <<log, closed, result, opened, seen, finished, cancelled>>

Cancel(c) ==
    /\ cancelled' = cancelled \cup {c}
    /\ UNCHANGED <<log, closed, result, opened, seen, finished, answer>>

Next ==
    \/ \E k \in Kinds, m \in Messages : Accept([kind |-> k, msg |-> m])
    \/ \E m \in Messages \cup {NoMessage} : End(m)
    \/ \E c \in Consumers : \/ Open(c)
                            \/ Finish(c)
                            \/ \E i \in DOMAIN log : Receive(c, log[i])
    \/ \E w \in Callers : Answer(w)
    \/ \E c \in Consumers \cup Callers : Cancel(c)

Spec == Init /\ [][Next]_vars
=============================================================================
