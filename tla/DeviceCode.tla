------------------------------ MODULE DeviceCode ------------------------------
(***************************************************************************)
(* PollDeviceCodeFlow (oauth/devicecode.go) as Codex and Copilot use it.   *)
(* One unit of time is the 5 seconds of the default interval and of the    *)
(* increase for slow_down; shorter intervals are not told apart from one.  *)
(***************************************************************************)
EXTENDS LoginFlow

CONSTANTS Lifetimes,   \* what a server says of its device code: 0 for no expiry
          Intervals,   \* what it may ask for: 0 for nothing
          MaxClock

ASSUME DeviceAssumption == Lifetimes \subseteq Nat /\ Intervals \subseteq Nat /\ MaxClock \in Nat

VARIABLES clock,
          deadline,    \* 0 for none
          interval,
          wake,        \* when the sleep is over
          slowed,      \* a slow_down was among the answers
          polled, answered, asked   \* when the last poll began and was answered, and the interval
                                    \* the server has asked for by then
history == <<polled, answered, asked>>
device == <<clock, deadline, interval, wake, slowed, history>>

DeviceInit ==
    /\ clock = 1 /\ deadline = 0 /\ interval = 1 /\ wake = 0 /\ slowed = FALSE
    /\ polled = 0 /\ answered = 0 /\ asked = 1

Interval(i) == IF i = 0 THEN 1 ELSE i
Expired == deadline # 0 /\ clock >= deadline
Until(wait) == IF deadline # 0 /\ deadline < clock + wait THEN deadline ELSE clock + wait
TimedOut(slow) == IF slow THEN "timed out after slow_down" ELSE "timed out"

\* The device code is granted, or not.  Copilot waits before its first poll.
StartDevice ==
    /\ stage = "device"
    /\ \/ End("failed") /\ UNCHANGED device
       \/ \E lifetime \in Lifetimes, i \in Intervals :
             /\ flow = "codex" => lifetime # 0
             /\ deadline' = IF lifetime = 0 THEN 0 ELSE clock + lifetime
             /\ interval' = Interval(i) /\ asked' = Interval(i)
             /\ Proceed(IF flow = "copilot" THEN "first" ELSE "poll?")
             /\ UNCHANGED <<clock, wake, slowed, polled, answered>>
    /\ Quiet /\ UNCHANGED <<flow, ctx, grant>>

WaitFirst ==
    /\ stage = "first"
    /\ IF Expired
       THEN End("timed out") /\ UNCHANGED device
       ELSE Proceed("sleep") /\ wake' = Until(interval) /\ UNCHANGED <<clock, deadline, interval, slowed, history>>
    /\ Quiet /\ UNCHANGED <<flow, ctx, grant>>

\* deviceCodeSleep: the timer or the context; when both are done, either.
Sleep ==
    /\ stage = "sleep"
    /\ \/ ctx /\ End("cancelled")
       \/ clock >= wake /\ Proceed("poll?")
    /\ Quiet /\ UNCHANGED <<flow, ctx, grant, device>>

\* The head of the loop.
MayPoll ==
    /\ stage = "poll?"
    /\ CASE Expired -> End(TimedOut(slowed)) /\ UNCHANGED polled
         [] ~Expired /\ ctx -> End("cancelled") /\ UNCHANGED polled
         [] OTHER -> Proceed("poll") /\ polled' = clock
    /\ Quiet /\ UNCHANGED <<flow, ctx, grant, clock, deadline, interval, wake, slowed, answered, asked>>

\* Mutated SlowedDown: the interval stays what it was.
SlowedDownNot(i) == interval

\* The interval the server asks for, or one unit more.
SlowedDown(i) == IF i # 0 THEN i ELSE interval + 1

\* The request fails (Codex tells a cancelled one apart), the server decides, or asks to
\* be polled again: after the interval, which slow_down changes, or at the deadline.
Poll ==
    /\ stage = "poll"
    /\ \/ End(IF ctx /\ flow = "codex" THEN "cancelled" ELSE "failed") /\ UNCHANGED <<grant, device>>
       \/ Proceed("exchange") /\ grant' = "device" /\ UNCHANGED device
       \/ \E slow \in BOOLEAN, i \in Intervals :
             /\ i # 0 => slow /\ flow = "copilot"
             /\ interval' = IF slow THEN SlowedDown(i) ELSE interval
             /\ asked' = CASE ~slow -> asked [] slow /\ i = 0 -> asked + 1 [] OTHER -> i
             /\ slowed' = (slowed \/ slow)
             /\ answered' = clock
             /\ wake' = Until(interval')
             /\ IF Expired THEN End(TimedOut(slowed')) ELSE Proceed("sleep")
             /\ UNCHANGED <<clock, deadline, polled, grant>>
    /\ Quiet /\ UNCHANGED <<flow, ctx>>

TimePasses ==
    /\ clock < MaxClock
    /\ clock' = clock + 1
    /\ UNCHANGED <<login, deadline, interval, wake, slowed, history>>

DeviceStep == StartDevice \/ WaitFirst \/ Sleep \/ MayPoll \/ Poll
=============================================================================
