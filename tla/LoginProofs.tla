---------------------------- MODULE LoginProofs ----------------------------
(***************************************************************************)
(* Proofs about the login flows, for any code lifetimes, poll intervals    *)
(* and times: the code that is exchanged, who reads from stdin, and the    *)
(* pace of the polls.                                                      *)
(***************************************************************************)
EXTENDS Login, FiniteSetTheorems, TLAPS

Answers == Lines \cup {"none", "error"}

LoginTypes ==
    /\ answers \in [Prompts -> Answers]
    /\ asking \subseteq readers /\ readers \subseteq Prompts
    /\ result \in {"none", "code", "nil"}
    /\ manual \in {"none", "start", "ask", "answered", "gone"}

\* An answer is final: who waits for one has none yet, and a goroutine left on stdin
\* belongs to a prompt that failed.
Final ==
    /\ \A p \in asking : answers[p] = "none"
    /\ \A p \in readers \ asking : answers[p] = "error"

\* Where the login is while a prompt has a goroutine on stdin, and while the
\* manual prompt lives.
Where ==
    /\ \A p \in readers \ {"manual"} : stage \in {p, "ended"}
    /\ \A p \in readers \cap {"provider", "method", "domain"} : manual = "none"
    /\ "text" \in readers => manual = "gone"
    /\ "manual" \in readers =>
          /\ stage \in {"wait", "manual", "exchange", "save", "ended"}
          /\ manual # "none"
    /\ manual # "none" => stage \in {"wait", "manual", "text", "exchange", "save", "ended"}
    /\ manual \in {"none", "start"} => answers["manual"] = "none" /\ "manual" \notin readers

\* The paste is looked at only when it won the race.
Race ==
    /\ result = "nil" => manual = "gone"
    /\ stage \in {"manual", "text"} => result = "nil"

OneReader == \E p \in Prompts : readers \subseteq {p}

Granted ==
    /\ grant \in {"none", "code", "plain", "own", "device"}
    /\ grant = "code" => result = "code"
    /\ grant \in {"plain", "own"} => result = "nil" /\ grant \in {answers["manual"], answers["text"]}

PInv == LoginTypes /\ Final /\ Where /\ Race /\ OneReader /\ Granted

-----------------------------------------------------------------------------
(* Device codes                                                            *)

DeviceTypes ==
    /\ clock \in Nat /\ deadline \in Nat /\ interval \in Nat /\ wake \in Nat
    /\ polled \in Nat /\ answered \in Nat /\ asked \in Nat

\* The interval is what the server asked for, and a sleep cut short by the deadline
\* is never followed by a poll.
Paced ==
    /\ asked = interval
    /\ stage \notin {"sleep", "poll?", "poll", "exchange", "save", "ended"} => answered = 0
    /\ stage = "sleep" /\ answered # 0 =>
          wake >= answered + asked \/ (deadline # 0 /\ wake >= deadline)
    /\ stage = "poll?" /\ answered # 0 =>
          clock >= answered + asked \/ (deadline # 0 /\ clock >= deadline)

DInv == DeviceTypes /\ Paced /\ PollsPaced
-----------------------------------------------------------------------------
(* The prompts                                                             *)

\* Every login starts with nobody on stdin.
LEMMA LoginInitially == RunLoginInit => PInv
<1> SUFFICES ASSUME RunLoginInit PROVE PInv
  OBVIOUS
<1> USE DEF RunLoginInit, LoginInit, BrowserInit
<1>1. LoginTypes
  BY DEF LoginTypes, Answers, Lines, Prompts
<1>2. Final /\ Where /\ Race /\ Granted
  BY DEF Final, Where, Race, Granted, Prompts
<1>3. OneReader
  BY DEF OneReader, Prompts
<1>4. QED
  BY <1>1, <1>2, <1>3 DEF PInv


\* A prompt of the login asks, or takes its answer; one that fails may leave its
\* goroutine on stdin, and then the login ends.
LEMMA ByPrompt ==
    ASSUME PInv, NEW p \in {"provider", "method", "domain"}, NEW ok \in SUBSET Lines, NEW next \in SUBSET {"picked", "listen", "device"},
           Prompt(p, ok, next), UNCHANGED browser
    PROVE  PInv'
<1> USE DEF PInv
<1>1. LoginTypes'
  BY DEF LoginTypes, Final, Prompt, Asked, Ask, Proceed, End, Quiet, browser, Answers, Prompts
<1>2. Final'
  <2>1. CASE ~Asked(p)
    BY <2>1 DEF LoginTypes, Final, Where, Prompt, Asked, Ask, Prompts
  <2>2. CASE UNCHANGED <<asking, readers, answers>>
    BY <2>2 DEF Final
  <2>3. QED
    BY <2>1, <2>2 DEF Prompt, Quiet
<1>3. Where'
  <2>1. stage = p /\ manual = "none" /\ readers \subseteq {p} /\ manual' = "none"
    BY DEF Where, LoginTypes, Prompt, Prompts, browser
  <2>2. CASE ~Asked(p)
    <3>1. readers' = {p} /\ stage' = p /\ answers' = answers
      BY <2>1, <2>2 DEF Prompt, Ask
    <3>2. QED
      BY <2>1, <3>1 DEF Where
  <2>3. CASE answers[p] \in ok /\ Asked(p)
    <3>1. readers = {}
      BY <2>1, <2>3 DEF Final, Lines
    <3>2. readers' = {} /\ answers' = answers
      BY <3>1, <2>3 DEF Prompt, Quiet
    <3>3. QED
      BY <2>1, <3>2 DEF Where
  <2>4. CASE answers[p] \notin ok /\ Asked(p)
    <3>1. stage' = "ended" /\ readers' = readers /\ answers' = answers
      BY <2>4 DEF Prompt, Quiet, End
    <3>2. QED
      BY <2>1, <3>1 DEF Where
  <2>5. QED
    BY <2>2, <2>3, <2>4
<1>4. Race'
  BY DEF LoginTypes, Where, Race, Prompt, Asked, Ask, Proceed, End, Quiet, browser, Answers, Prompts
<1>5. OneReader'
  <2>1. CASE stage = p /\ ~Asked(p)
    <3>1. readers' = readers \cup {p} /\ readers \subseteq {p}
      BY <2>1 DEF Prompt, Ask, Where, LoginTypes, Prompts
    <3>2. QED
      BY <3>1 DEF OneReader, Prompts
  <2>2. CASE UNCHANGED readers
    BY <2>2 DEF OneReader
  <2>3. QED
    BY <2>1, <2>2 DEF Prompt, Quiet
<1>6. Granted'
  BY DEF LoginTypes, Final, Race, Granted, Prompt, Asked, Ask, Proceed, End, Quiet, browser,
     Answers, Prompts
<1>7. QED
  BY <1>1, <1>2, <1>3, <1>4, <1>5, <1>6

\* A line answers the prompt that waits for it, if it still waits.
LEMMA ByType ==
    ASSUME PInv, Type, UNCHANGED browser
    PROVE  PInv'
<1> USE DEF PInv
<1>1. LoginTypes'
  <2>1. PICK p \in readers, line \in Lines :
          /\ readers' = readers \ {p} /\ asking' = asking \ {p}
          /\ answers' = IF p \in asking THEN [answers EXCEPT ![p] = line] ELSE answers
    BY DEF Type
  <2>2. answers' \in [Prompts -> Answers]
    BY <2>1 DEF LoginTypes, Answers
  <2>3. QED
    BY <2>1, <2>2 DEF LoginTypes, Type, browser
<1>2. Final'
  BY DEF LoginTypes, Final, Where, Type, browser, Lines, Answers, Prompts
<1>3. Where'
  <2>1. PICK p \in readers, line \in Lines :
          answers' = IF p \in asking THEN [answers EXCEPT ![p] = line] ELSE answers
    BY DEF Type
  <2>2. \A q \in Prompts \ {p} : answers'[q] = answers[q]
    BY <2>1 DEF LoginTypes
  <2>3. manual \in {"none", "start"} => answers'["manual"] = "none"
    BY <2>2 DEF Where, Prompts
  <2>4. readers' \subseteq readers /\ UNCHANGED <<stage, manual>>
    BY DEF Type, browser
  <2>5. QED
    BY <2>3, <2>4 DEF Where
<1>4. Race'
  BY DEF LoginTypes, Where, Race, Type, browser, Lines, Answers, Prompts
<1>5. OneReader'
  BY DEF LoginTypes, Where, OneReader, Type, browser, Lines, Answers, Prompts
<1>6. Granted'
  <2>1. PICK p \in readers, line \in Lines :
          answers' = IF p \in asking THEN [answers EXCEPT ![p] = line] ELSE answers
    BY DEF Type
  <2>2. \A q \in Prompts : answers[q] # "none" => answers'[q] = answers[q]
    BY <2>1 DEF LoginTypes, Final
  <2>3. UNCHANGED <<grant, result>> /\ "manual" \in Prompts /\ "text" \in Prompts
    BY DEF Type, browser, Prompts
  <2>4. QED
    BY <2>2, <2>3 DEF Granted
<1>7. QED
  BY <1>1, <1>2, <1>3, <1>4, <1>5, <1>6

\* The end of the input answers every prompt that waits.
LEMMA ByEnd ==
    ASSUME PInv, EndOfInput, UNCHANGED browser
    PROVE  PInv'
<1> USE DEF PInv
<1>1. LoginTypes'
  BY DEF LoginTypes, Final, EndOfInput, browser, Answers, Prompts
<1>2. Final'
  BY DEF LoginTypes, Final, Where, EndOfInput, browser, Answers, Prompts
<1>3. Where'
  BY DEF LoginTypes, Final, Where, Race, EndOfInput, browser, Answers, Prompts
<1>4. Race'
  BY DEF LoginTypes, Where, Race, EndOfInput, browser, Answers, Prompts
<1>5. OneReader'
  BY DEF LoginTypes, Where, OneReader, EndOfInput, browser, Answers, Prompts
<1>6. Granted'
  BY DEF LoginTypes, Final, Race, Granted, EndOfInput, browser, Answers, Prompts
<1>7. QED
  BY <1>1, <1>2, <1>3, <1>4, <1>5, <1>6

\* A dismissed prompt has failed.
LEMMA ByDismiss ==
    ASSUME PInv, Dismiss, UNCHANGED browser
    PROVE  PInv'
<1> USE DEF PInv
<1>1. LoginTypes'
  BY DEF LoginTypes, Final, Dismiss, browser, Answers, Prompts
<1>2. Final'
  BY DEF LoginTypes, Final, Where, Dismiss, browser, Answers, Prompts
<1>3. Where'
  BY DEF LoginTypes, Final, Where, Race, Dismiss, browser, Answers, Prompts
<1>4. Race'
  BY DEF LoginTypes, Where, Race, Dismiss, browser, Answers, Prompts
<1>5. OneReader'
  BY DEF LoginTypes, Where, OneReader, Dismiss, browser, Answers, Prompts
<1>6. Granted'
  BY DEF LoginTypes, Final, Race, Granted, Dismiss, browser, Answers, Prompts
<1>7. QED
  BY <1>1, <1>2, <1>3, <1>4, <1>5, <1>6

\* A callback settles the result, unless it is settled.
LEMMA ByCallback ==
    ASSUME PInv, Callback
    PROVE  PInv'
<1> USE DEF PInv
<1>1. LoginTypes'
  BY DEF LoginTypes, Final, Callback, Settle, login, Answers, Prompts
<1>2. Final'
  BY DEF LoginTypes, Final, Where, Callback, Settle, login, Answers, Prompts
<1>3. Where'
  BY DEF LoginTypes, Final, Where, Race, Callback, Settle, login, Answers, Prompts
<1>4. Race'
  BY DEF LoginTypes, Where, Race, Callback, Settle, login, Answers, Prompts
<1>5. OneReader'
  BY DEF LoginTypes, Where, OneReader, Callback, Settle, login, Answers, Prompts
<1>6. Granted'
  BY DEF LoginTypes, Final, Race, Granted, Callback, Settle, login, Answers, Prompts
<1>7. QED
  BY <1>1, <1>2, <1>3, <1>4, <1>5, <1>6

\* The goroutine of the manual prompt asks only while no other prompt has a reader.
LEMMA ByManual ==
    ASSUME PInv, ManualStep
    PROVE  PInv'
<1> USE DEF PInv
<1>1. LoginTypes'
  BY DEF LoginTypes, Final, ManualStep, ManualAsks, ManualAnswers, ManualCancels, Ask, Settle,
     login, Answers, Prompts
<1>2. Final'
  BY DEF LoginTypes, Final, Where, ManualStep, ManualAsks, ManualAnswers, ManualCancels, Ask,
     Settle, login, Answers, Prompts
<1>3. Where'
  BY DEF LoginTypes, Final, Where, Race, ManualStep, ManualAsks, ManualAnswers, ManualCancels,
     Ask, Settle, login, Answers, Prompts
<1>4. Race'
  BY DEF LoginTypes, Where, Race, ManualStep, ManualAsks, ManualAnswers, ManualCancels, Ask,
     Settle, login, Answers, Prompts
<1>5. OneReader'
  BY DEF LoginTypes, Where, OneReader, ManualStep, ManualAsks, ManualAnswers, ManualCancels,
     Ask, Settle, login, Answers, Prompts
<1>6. Granted'
  BY DEF LoginTypes, Final, Race, Granted, ManualStep, ManualAsks, ManualAnswers, ManualCancels,
     Ask, Settle, login, Answers, Prompts
<1>7. QED
  BY <1>1, <1>2, <1>3, <1>4, <1>5, <1>6

\* The server starts, and the goroutine of the manual prompt.
LEMMA ByListen ==
    ASSUME PInv, StartCallbackServer
    PROVE  PInv'
<1> USE DEF PInv
<1>1. LoginTypes'
  BY DEF LoginTypes, Final, StartCallbackServer, Proceed, End, Quiet, browser, Answers, Prompts
<1>2. Final'
  BY DEF LoginTypes, Final, Where, StartCallbackServer, Proceed, End, Quiet, browser, Answers, Prompts
<1>3. Where'
  BY DEF LoginTypes, Final, Where, Race, StartCallbackServer, Proceed, End, Quiet, browser,
     Answers, Prompts
<1>4. Race'
  BY DEF LoginTypes, Where, Race, StartCallbackServer, Proceed, End, Quiet, browser, Answers, Prompts
<1>5. OneReader'
  BY DEF LoginTypes, Where, OneReader, StartCallbackServer, Proceed, End, Quiet, browser, Answers,
     Prompts
<1>6. Granted'
  BY DEF LoginTypes, Final, Race, Granted, StartCallbackServer, Proceed, End, Quiet, browser,
     Answers, Prompts
<1>7. QED
  BY <1>1, <1>2, <1>3, <1>4, <1>5, <1>6

\* What won the race is taken.
LEMMA ByWait ==
    ASSUME PInv, WaitForCode
    PROVE  PInv'
<1> USE DEF PInv
<1>1. LoginTypes'
  BY DEF LoginTypes, Final, WaitForCode, Proceed, End, Quiet, CloseServer, Answers, Prompts
<1>2. Final'
  BY DEF LoginTypes, Final, Where, WaitForCode, Proceed, End, Quiet, CloseServer, Answers, Prompts
<1>3. Where'
  BY DEF LoginTypes, Final, Where, Race, WaitForCode, Proceed, End, Quiet, CloseServer, Answers,
     Prompts
<1>4. Race'
  BY DEF LoginTypes, Where, Race, WaitForCode, Proceed, End, Quiet, CloseServer, Answers, Prompts
<1>5. OneReader'
  BY DEF LoginTypes, Where, OneReader, WaitForCode, Proceed, End, Quiet, CloseServer, Answers, Prompts
<1>6. Granted'
  BY DEF LoginTypes, Final, Race, Granted, WaitForCode, Proceed, End, Quiet, CloseServer, Answers,
     Prompts
<1>7. QED
  BY <1>1, <1>2, <1>3, <1>4, <1>5, <1>6

\* What was pasted is taken.
LEMMA ByPaste ==
    ASSUME PInv, TakeManual
    PROVE  PInv'
<1> USE DEF PInv
<1>1. LoginTypes'
  BY DEF LoginTypes, Final, TakeManual, Pasted, Proceed, End, Quiet, CloseServer, browser, Lines,
     Answers, Prompts
<1>2. Final'
  BY DEF LoginTypes, Final, Where, TakeManual, Pasted, Proceed, End, Quiet, CloseServer, browser,
     Lines, Answers, Prompts
<1>3. Where'
  BY DEF LoginTypes, Final, Where, Race, TakeManual, Pasted, Proceed, End, Quiet, CloseServer,
     browser, Lines, Answers, Prompts
<1>4. Race'
  BY DEF LoginTypes, Where, Race, TakeManual, Pasted, Proceed, End, Quiet, CloseServer, browser,
     Lines, Answers, Prompts
<1>5. OneReader'
  BY DEF LoginTypes, Where, OneReader, TakeManual, Pasted, Proceed, End, Quiet, CloseServer,
     browser, Lines, Answers, Prompts
<1>6. Granted'
  BY DEF LoginTypes, Final, Race, Granted, TakeManual, Pasted, Proceed, End, Quiet, CloseServer,
     browser, Lines, Answers, Prompts
<1>7. QED
  BY <1>1, <1>2, <1>3, <1>4, <1>5, <1>6

\* Codex asks once more, when nobody else reads from stdin.
LEMMA ByText ==
    ASSUME PInv, TextPrompt
    PROVE  PInv'
<1> USE DEF PInv
<1>1. stage = "text" /\ manual = "gone" /\ result = "nil" /\ readers \subseteq {"text"}
  BY DEF TextPrompt, Race, Where, LoginTypes, Prompts
<1>2. CASE ~Asked("text")
  <2>1. /\ readers' = {"text"} /\ asking' = {"text"} /\ answers["text"] = "none"
        /\ UNCHANGED <<answers, stage, grant, manual, result>>
    BY <1>1, <1>2 DEF TextPrompt, Asked, Ask, browser, LoginTypes
  <2>2. LoginTypes' /\ Final' /\ OneReader'
    BY <2>1 DEF LoginTypes, Final, OneReader, Prompts
  <2>3. Where' /\ Race' /\ Granted'
    BY <1>1, <2>1 DEF Where, Race, Granted
  <2>4. QED
    BY <2>2, <2>3
<1>3. CASE Asked("text")
  <2>1. "text" \notin asking /\ Pasted("text", End("failed") /\ CloseServer) /\ UNCHANGED <<asking, readers, answers>>
    BY <1>3 DEF TextPrompt, Quiet
  <2>2. UNCHANGED <<manual, result>>
    BY <2>1 DEF Pasted, CloseServer, browser
  <2>3. LoginTypes' /\ Final' /\ OneReader'
    BY <2>1, <2>2 DEF LoginTypes, Final, OneReader
  <2>4. CASE answers["text"] \in {"error", "foreign", ""}
    <3>1. stage' = "ended" /\ UNCHANGED grant
      BY <2>1, <2>4 DEF Pasted, End
    <3>2. QED
      BY <1>1, <2>1, <2>2, <2>3, <3>1 DEF Where, Race, Granted
  <2>5. CASE answers["text"] \notin {"error", "foreign", ""}
    <3>1. stage' = "exchange" /\ grant' = answers["text"]
      BY <2>1, <2>5 DEF Pasted, Proceed
    <3>2. readers = {}
      BY <1>1, <2>1, <2>5 DEF Final
    <3>3. grant' \in {"plain", "own"}
      <4>1. answers["text"] # "none"
        BY <1>3, <2>1 DEF Asked
      <4>2. QED
        BY <2>5, <3>1, <4>1 DEF LoginTypes, Answers, Lines, Prompts
    <3>4. Where'
      BY <1>1, <2>1, <2>2, <3>1, <3>2 DEF Where
    <3>5. Race' /\ Granted'
      BY <1>1, <2>1, <2>2, <3>1, <3>3 DEF Race, Granted
    <3>6. QED
      BY <2>3, <3>4, <3>5
  <2>6. QED
    BY <2>4, <2>5
<1>4. QED
  BY <1>2, <1>3

\* The rest of the login takes no prompt's answer.
LEMMA ByOther ==
    ASSUME PInv, UNCHANGED <<asking, readers, answers>>, UNCHANGED <<result, manual>>,
           \/ UNCHANGED stage
           \/ stage' = "ended"
           \/ stage \in {"exchange", "save"} /\ stage' \in {"save", "ended"}
           \/ stage \in {"picked", "device", "first", "sleep", "poll?", "poll"} /\ stage' \notin {"manual", "text"},
           UNCHANGED grant \/ grant' = "device"
    PROVE  PInv'
<1> USE DEF PInv
<1>1. LoginTypes' /\ Final' /\ OneReader'
  BY DEF LoginTypes, Final, OneReader
<1>2. Where'
  BY DEF LoginTypes, Where, Prompts
<1>3. Race' /\ Granted'
  BY DEF Race, Granted
<1>4. QED
  BY <1>1, <1>2, <1>3

\* PInv is inductive.
LEMMA PromptStep == PInv /\ [RunLoginNext]_loginVars => PInv'
<1> SUFFICES ASSUME PInv, [RunLoginNext]_loginVars PROVE PInv'
  OBVIOUS
<1>1. CASE ResolveProvider
  <2>1. CASE Prompt("provider", {"plain"}, {"picked"})
    BY <1>1, <2>1, ByPrompt DEF ResolveProvider, Lines
  <2>2. CASE stage = "provider" /\ (Proceed("picked") \/ End("failed")) /\ Quiet /\ ~Asked("provider") /\ UNCHANGED grant
    <3>1. manual = "none" /\ manual' = "none" /\ readers = {}
      BY <1>1, <2>2 DEF ResolveProvider, browser, PInv, Where, LoginTypes, Prompts, Final, Asked
    <3>2. UNCHANGED <<asking, readers, answers, result, manual, grant>> /\ stage' \in {"picked", "ended"}
      BY <1>1, <2>2 DEF ResolveProvider, browser, Quiet, Proceed, End
    <3>3. LoginTypes' /\ Final' /\ OneReader'
      BY <3>2 DEF PInv, LoginTypes, Final, OneReader
    <3>4. Where' /\ Race' /\ Granted'
      BY <3>1, <3>2 DEF PInv, Where, Race, Granted
    <3>5. QED
      BY <3>3, <3>4 DEF PInv
  <2>3. QED
    BY <1>1, <2>1, <2>2 DEF ResolveProvider
<1>2. CASE StartLogin
  <2>1. UNCHANGED <<asking, readers, answers, result, manual, grant>> /\ stage = "picked" /\ stage' \in {"listen", "method", "domain"}
    BY <1>2 DEF StartLogin, Quiet, Proceed, browser
  <2>2. QED
    BY <2>1, ByOther
<1>3. CASE SelectMethod \/ EnterpriseDomain
  BY <1>3, ByPrompt DEF SelectMethod, EnterpriseDomain, Lines
<1>4. CASE ByBrowser
  <2>1. CASE ExchangeCode
    <3>1. UNCHANGED <<asking, readers, answers, result, manual, grant>> /\ stage = "exchange" /\ stage' \in {"save", "ended"}
      BY <2>1 DEF ExchangeCode, Exchange, CloseServer, Quiet, Proceed, End
    <3>2. QED
      BY <3>1, ByOther
  <2>2. QED
    BY <1>4, <2>1, ByListen, ByWait, ByPaste, ByText DEF ByBrowser, BrowserStep
<1>5. CASE ByDevice
  <2>1. UNCHANGED <<asking, readers, answers, result, manual>>
    BY <1>5 DEF ByDevice, DeviceStep, StartDevice, WaitFirst, Sleep, MayPoll, Poll, Exchange,
       Quiet, browser
  <2>2. CASE Exchange
    <3>1. stage = "exchange" /\ stage' \in {"save", "ended"} /\ UNCHANGED grant
      BY <2>2 DEF Exchange, Proceed, End
    <3>2. QED
      BY <2>1, <3>1, ByOther
  <2>3. CASE DeviceStep
    <3>1. UNCHANGED grant \/ grant' = "device"
      BY <2>3 DEF DeviceStep, StartDevice, WaitFirst, Sleep, MayPoll, Poll
    <3>2. stage \in {"device", "first", "sleep", "poll?", "poll"}
      BY <2>3 DEF DeviceStep, StartDevice, WaitFirst, Sleep, MayPoll, Poll
    <3>3. stage' \notin {"manual", "text"}
      <4>1. CASE StartDevice
        BY <4>1 DEF StartDevice, Proceed, End
      <4>2. CASE WaitFirst
        BY <4>2 DEF WaitFirst, Proceed, End
      <4>3. CASE Sleep
        BY <4>3 DEF Sleep, Proceed, End
      <4>4. CASE MayPoll
        <5>1. stage' = "poll" \/ stage' = "ended"
          BY <4>4, Zenon DEF MayPoll, Proceed, End
        <5>2. QED
          BY <5>1
      <4>5. CASE Poll
        BY <4>5 DEF Poll, Proceed, End
      <4>6. QED
        BY <2>3, <4>1, <4>2, <4>3, <4>4, <4>5 DEF DeviceStep
    <3>4. QED
      BY <2>1, <3>1, <3>2, <3>3, ByOther
  <2>4. QED
    BY <1>5, <2>2, <2>3 DEF ByDevice
<1>6. CASE StoreCredential
  <2>1. UNCHANGED <<asking, readers, answers, result, manual, grant>> /\ stage = "save" /\ stage' = "ended"
    BY <1>6 DEF StoreCredential, Save, Quiet, End, browser
  <2>2. QED
    BY <2>1, ByOther
<1>7. CASE Manual
  BY <1>7, ByManual DEF Manual
<1>8. CASE Dismissal
  BY <1>8, ByDismiss DEF Dismissal
<1>9. CASE UserActs
  <2>1. CASE Cancel /\ UNCHANGED browser
    <3>1. UNCHANGED <<asking, readers, answers, result, manual, grant, stage>>
      BY <2>1 DEF Cancel, browser
    <3>2. QED
      BY <3>1, ByOther
  <2>2. QED
    BY <1>9, <2>1, ByCallback, ByType, ByEnd DEF UserActs
<1>10. CASE Time \/ UNCHANGED loginVars
  <2>1. UNCHANGED <<asking, readers, answers, result, manual, grant, stage>>
    BY <1>10 DEF Time, TimePasses, loginVars, login, browser
  <2>2. QED
    BY <2>1, ByOther
<1>11. QED
  BY <1>1, <1>2, <1>3, <1>4, <1>5, <1>6, <1>7, <1>8, <1>9, <1>10 DEF RunLoginNext, RunLoginStep

\* The prompts of a login hold to PInv.
THEOREM PromptInvariant == RunLoginSpec => []PInv
<1>1. QED
  BY LoginInitially, PromptStep, PTL DEF RunLoginSpec

\* For any lifetimes and intervals, what is exchanged was granted to this login, by the one
\* of the callback and the paste that won the race, and one goroutine at a time reads from
\* stdin while a prompt waits (WaitForCode, readLine).
THEOREM GrantHolds == RunLoginSpec => []GrantIsOurs
<1>1. PInv => GrantIsOurs
  <2> SUFFICES ASSUME PInv PROVE GrantIsOurs
    OBVIOUS
  <2>1. ASSUME asking # {} PROVE readers = asking /\ Cardinality(asking) = 1
    <3>1. PICK p \in Prompts : readers \subseteq {p}
      BY DEF PInv, OneReader
    <3>2. asking = {p} /\ readers = {p}
      BY <2>1, <3>1 DEF PInv, LoginTypes
    <3>3. QED
      BY <3>2, FS_Singleton
  <2>2. QED
    BY <2>1 DEF PInv, Granted, GrantIsOurs
<1>2. QED
  BY <1>1, PromptInvariant, PTL

-----------------------------------------------------------------------------
(* The pace of the polls                                                   *)

\* A wait ends when it is over, or at the deadline.
LEMMA UntilThen ==
    ASSUME clock \in Nat, deadline \in Nat, NEW w \in Nat
    PROVE  /\ Until(w) \in Nat
           /\ Until(w) = clock + w \/ (deadline # 0 /\ Until(w) = deadline)
  BY DEF Until

Late == {"exchange", "save", "ended"}
Polling == {"sleep", "poll?", "poll"}

\* Steps that are none of the device flow's lead to no poll.
LEMMA NoPoll ==
    ASSUME DInv, UNCHANGED device,
           UNCHANGED stage \/ (stage \notin Polling /\ stage' \notin Polling /\ (stage \in Late => stage' \in Late))
    PROVE  DInv'
<1>1. DeviceTypes' /\ PollsPaced'
  BY DEF DInv, DeviceTypes, PollsPaced, device, history, Polling
<1>2. CASE UNCHANGED stage
  BY <1>1, <1>2 DEF DInv, Paced, device, history
<1>3. CASE stage \notin Polling /\ stage' \notin Polling /\ (stage \in Late => stage' \in Late)
  BY <1>1, <1>3 DEF DInv, Paced, device, history, Late, Polling
<1>4. QED
  BY <1>2, <1>3

\* The device code arrives: no poll was answered yet.
LEMMA DeviceStarts == DInv /\ StartDevice => DInv'
<1> SUFFICES ASSUME DInv, StartDevice PROVE DInv'
  OBVIOUS
<1>1. CASE End("failed") /\ UNCHANGED device
  <2>1. stage = "device" /\ stage' = "ended"
    BY <1>1 DEF StartDevice, End
  <2>2. QED
    BY <1>1, <2>1, NoPoll DEF Late, Polling
<1>2. CASE ~(End("failed") /\ UNCHANGED device)
  <2>1. PICK lifetime \in Lifetimes, i \in Intervals :
             /\ deadline' = IF lifetime = 0 THEN 0 ELSE clock + lifetime
             /\ interval' = Interval(i) /\ asked' = Interval(i)
             /\ stage' \in {"first", "poll?"}
             /\ UNCHANGED <<clock, wake, slowed, polled, answered>>
    BY <1>2 DEF StartDevice, Proceed
  <2>2. lifetime \in Nat /\ Interval(i) \in Nat
    BY DeviceAssumption DEF Interval
  <2>3. stage = "device" /\ answered = 0 /\ answered' = 0
    BY <2>1 DEF StartDevice, DInv, Paced
  <2>4. DeviceTypes'
    BY <2>1, <2>2 DEF DInv, DeviceTypes
  <2>5. Paced' /\ PollsPaced'
    BY <2>1, <2>3 DEF Paced, PollsPaced
  <2>6. QED
    BY <2>4, <2>5 DEF DInv
<1>3. QED
  BY <1>1, <1>2

\* Copilot waits before the first poll.
LEMMA FirstWait == DInv /\ WaitFirst => DInv'
<1> SUFFICES ASSUME DInv, WaitFirst PROVE DInv'
  OBVIOUS
<1>1. stage = "first" /\ answered = 0
  BY DEF WaitFirst, DInv, Paced
<1>2. CASE Expired
  <2>1. UNCHANGED device /\ stage' = "ended"
    BY <1>2 DEF WaitFirst, End
  <2>2. QED
    BY <1>1, <2>1, NoPoll DEF Late, Polling
<1>3. CASE ~Expired
  <2>1. stage' = "sleep" /\ wake' = Until(interval) /\ UNCHANGED <<clock, deadline, interval, polled, answered, asked>>
    BY <1>3 DEF WaitFirst, Proceed, history
  <2>2. wake' \in Nat
    BY <2>1, UntilThen DEF DInv, DeviceTypes
  <2>3. DeviceTypes'
    BY <2>1, <2>2 DEF DInv, DeviceTypes
  <2>4. Paced' /\ PollsPaced'
    BY <1>1, <2>1 DEF DInv, Paced, PollsPaced
  <2>5. QED
    BY <2>3, <2>4 DEF DInv
<1>4. QED
  BY <1>2, <1>3

\* A sleep that is over leaves the interval, or the deadline, behind.
LEMMA SleepOver == DInv /\ Sleep => DInv'
<1> SUFFICES ASSUME DInv, Sleep PROVE DInv'
  OBVIOUS
<1>1. stage = "sleep" /\ UNCHANGED device
  BY DEF Sleep
<1>2. DeviceTypes'
  BY <1>1 DEF DInv, DeviceTypes, device, history
<1>3. CASE stage' = "ended"
  BY <1>1, <1>2, <1>3 DEF DInv, Paced, PollsPaced, device, history
<1>4. CASE stage' = "poll?" /\ clock >= wake
  <2>1. \A c, w, a, d \in Nat : c >= w /\ (w >= a \/ (d # 0 /\ w >= d)) => c >= a \/ (d # 0 /\ c >= d)
    OBVIOUS
  <2>2. answered + asked \in Nat
    BY DEF DInv, DeviceTypes
  <2>3. answered # 0 => clock >= answered + asked \/ (deadline # 0 /\ clock >= deadline)
    BY <1>1, <1>4, <2>1, <2>2 DEF DInv, DeviceTypes, Paced
  <2>4. Paced' /\ PollsPaced'
    BY <1>1, <1>4, <2>3 DEF DInv, Paced, PollsPaced, device, history
  <2>5. QED
    BY <1>2, <2>4 DEF DInv
<1>5. QED
  BY <1>3, <1>4 DEF Sleep, Proceed, End

\* A poll begins only before the deadline.
LEMMA PollBegins == DInv /\ MayPoll => DInv'
<1> SUFFICES ASSUME DInv, MayPoll PROVE DInv'
  OBVIOUS
<1>1. stage = "poll?" /\ UNCHANGED <<clock, deadline, interval, wake, answered, asked>>
  BY DEF MayPoll
<1>2. CASE stage' = "ended" /\ UNCHANGED polled
  BY <1>1, <1>2 DEF DInv, DeviceTypes, Paced, PollsPaced
<1>3. CASE stage' = "poll" /\ polled' = clock /\ ~Expired
  <2>1. DeviceTypes'
    BY <1>1, <1>3 DEF DInv, DeviceTypes
  <2>2. deadline # 0 => clock < deadline
    BY <1>3 DEF DInv, DeviceTypes, Expired
  <2>3. answered # 0 => clock >= answered + asked
    BY <1>1, <1>3 DEF DInv, Paced, Expired
  <2>4. Paced' /\ PollsPaced'
    BY <1>1, <1>3, <2>2, <2>3 DEF DInv, Paced, PollsPaced
  <2>5. QED
    BY <2>1, <2>4 DEF DInv
<1>4. QED
  BY <1>2, <1>3, Zenon DEF MayPoll, Proceed, End

\* An answer sets the interval and the next wait.
LEMMA PollAnswered == DInv /\ Poll => DInv'
<1> SUFFICES ASSUME DInv, Poll PROVE DInv'
  OBVIOUS
<1>1. stage = "poll"
  BY DEF Poll
<1>2. CASE stage' \in Late /\ UNCHANGED device
  BY <1>2 DEF DInv, DeviceTypes, Paced, PollsPaced, device, history, Late
<1>3. ASSUME NEW slow \in BOOLEAN, NEW i \in Intervals,
             interval' = IF slow THEN SlowedDown(i) ELSE interval,
             asked' = CASE ~slow -> asked [] slow /\ i = 0 -> asked + 1 [] OTHER -> i,
             i # 0 => slow,
             answered' = clock, wake' = Until(interval'),
             stage' \in {"ended", "sleep"},
             UNCHANGED <<clock, deadline, polled>>
      PROVE  DInv'
  <2>1. interval \in Nat /\ i \in Nat /\ asked = interval /\ clock \in Nat /\ deadline \in Nat
    BY DeviceAssumption DEF DInv, DeviceTypes, Paced
  <2>2. interval' \in Nat /\ asked' = interval'
    BY <1>3, <2>1 DEF SlowedDown
  <2>3. /\ wake' \in Nat
        /\ wake' = clock + interval' \/ (deadline # 0 /\ wake' = deadline)
    BY <1>3, <2>1, <2>2, UntilThen
  <2>4. DeviceTypes'
    BY <1>3, <2>2, <2>3 DEF DInv, DeviceTypes
  <2>5. wake' >= answered' + asked' \/ (deadline' # 0 /\ wake' >= deadline')
    BY <1>3, <2>1, <2>2, <2>3
  <2>6. Paced' /\ PollsPaced'
    BY <1>3, <2>2, <2>5 DEF Paced, PollsPaced
  <2>7. QED
    BY <2>4, <2>6 DEF DInv
<1>4. QED
  <2>1. CASE \E slow \in BOOLEAN, i \in Intervals :
             /\ i # 0 => slow /\ flow = "copilot"
             /\ interval' = IF slow THEN SlowedDown(i) ELSE interval
             /\ asked' = CASE ~slow -> asked [] slow /\ i = 0 -> asked + 1 [] OTHER -> i
             /\ answered' = clock
             /\ wake' = Until(interval')
             /\ stage' \in {"ended", "sleep"}
             /\ UNCHANGED <<clock, deadline, polled>>
    BY <2>1, <1>3
  <2>2. QED
    BY <1>2, <2>1 DEF Poll, Proceed, End, Late

\* No login starts with a poll.
LEMMA DeviceStarted == RunLoginInit => DInv
  BY DEF RunLoginInit, LoginInit, DeviceInit, DInv, DeviceTypes, Paced, PollsPaced

\* DInv is inductive.
LEMMA PaceStep == DInv /\ [RunLoginNext]_loginVars => DInv'
<1> SUFFICES ASSUME DInv, [RunLoginNext]_loginVars PROVE DInv'
  OBVIOUS
<1>1. CASE ResolveProvider \/ StartLogin \/ SelectMethod \/ EnterpriseDomain
  <2>1. UNCHANGED device
    BY <1>1 DEF ResolveProvider, StartLogin, SelectMethod, EnterpriseDomain
  <2>2. UNCHANGED stage \/ (stage \in {"provider", "picked", "method", "domain"} /\ stage' \notin Polling)
    BY <1>1 DEF ResolveProvider, StartLogin, SelectMethod, EnterpriseDomain, Prompt, Proceed, End,
       Polling
  <2>3. QED
    BY <2>1, <2>2, NoPoll DEF Late, Polling
<1>2. CASE ByBrowser
  <2>1. UNCHANGED device
    BY <1>2 DEF ByBrowser
  <2>2. CASE ExchangeCode
    <3>1. stage = "exchange" /\ stage' \in Late
      BY <2>2 DEF ExchangeCode, Exchange, Proceed, End, Late
    <3>2. QED
      BY <2>1, <3>1, NoPoll DEF Late, Polling
  <2>3. CASE StartCallbackServer \/ WaitForCode
    <3>1. stage \in {"listen", "wait"} /\ stage' \notin Polling
      BY <2>3 DEF StartCallbackServer, WaitForCode, Proceed, End, Polling
    <3>2. QED
      BY <2>1, <3>1, NoPoll DEF Late, Polling
  <2>4. CASE TakeManual
    <3>1. stage = "manual" /\ stage' \notin Polling
      BY <2>4 DEF TakeManual, Pasted, Proceed, End, Polling
    <3>2. QED
      BY <2>1, <3>1, NoPoll DEF Late, Polling
  <2>5. CASE TextPrompt
    <3>1. UNCHANGED stage \/ (stage = "text" /\ stage' \notin Polling)
      BY <2>5 DEF TextPrompt, Pasted, Proceed, End, Polling
    <3>2. QED
      BY <2>1, <3>1, NoPoll DEF Late, Polling
  <2>6. QED
    BY <1>2, <2>2, <2>3, <2>4, <2>5 DEF ByBrowser, BrowserStep
<1>3. CASE ByDevice
  <2>1. CASE Exchange /\ UNCHANGED device
    <3>1. stage = "exchange" /\ stage' \in Late
      BY <2>1 DEF Exchange, Proceed, End, Late
    <3>2. QED
      BY <2>1, <3>1, NoPoll DEF Late, Polling
  <2>2. QED
    BY <1>3, <2>1, DeviceStarts, FirstWait, SleepOver, PollBegins, PollAnswered DEF ByDevice,
       DeviceStep
<1>4. CASE StoreCredential
  <2>1. stage = "save" /\ stage' = "ended" /\ UNCHANGED device
    BY <1>4 DEF StoreCredential, Save, End
  <2>2. QED
    BY <2>1, NoPoll DEF Late, Polling
<1>5. CASE Manual \/ Dismissal \/ UserActs \/ UNCHANGED loginVars
  <2>1. UNCHANGED <<stage, device>>
    BY <1>5 DEF Manual, ManualStep, ManualAsks, ManualAnswers, ManualCancels, Dismissal,
       Dismiss, UserActs, Callback,
                Type, EndOfInput, Cancel, loginVars, login
  <2>2. QED
    BY <2>1, NoPoll
<1>6. CASE Time
  <2>1. clock' = clock + 1 /\ UNCHANGED <<stage, deadline, interval, wake, polled, answered, asked>>
    BY <1>6 DEF Time, TimePasses, login, history
  <2>2. DeviceTypes' /\ PollsPaced'
    BY <2>1 DEF DInv, DeviceTypes, PollsPaced
  <2>3. Paced'
    <3>1. \A c, a, d \in Nat : c >= a \/ (d # 0 /\ c >= d) => c + 1 >= a \/ (d # 0 /\ c + 1 >= d)
      OBVIOUS
    <3>2. answered + asked \in Nat /\ clock \in Nat /\ deadline \in Nat
      BY DEF DInv, DeviceTypes
    <3>3. stage = "poll?" /\ answered # 0 => clock + 1 >= answered + asked \/ (deadline # 0 /\ clock + 1 >= deadline)
      BY <3>1, <3>2 DEF DInv, Paced
    <3>4. QED
      BY <2>1, <3>3 DEF DInv, Paced
  <2>4. QED
    BY <2>2, <2>3 DEF DInv
<1>7. QED
  BY <1>1, <1>2, <1>3, <1>4, <1>5, <1>6 DEF RunLoginNext, RunLoginStep

\* For any lifetimes, intervals and times, no poll begins after the code expired or sooner
\* than the server asked for (PollDeviceCodeFlow).
THEOREM PaceHolds == RunLoginSpec => []PollsPaced
<1>1. DInv => PollsPaced
  BY DEF DInv
<1>2. RunLoginSpec => []DInv
  BY DeviceStarted, PaceStep, PTL DEF RunLoginSpec
<1>3. QED
  BY <1>1, <1>2, PTL

=============================================================================
