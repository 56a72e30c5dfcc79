----------------------------- MODULE BrowserLogin -----------------------------
(***************************************************************************)
(* The browser logins of Anthropic and Codex (loginAnthropic in            *)
(* oauth/anthropic.go, loginCodexBrowser in oauth/codex.go): the callback  *)
(* server (callback.go) and the manual prompt race for the code.           *)
(***************************************************************************)
EXTENDS LoginFlow

VARIABLES serving,   \* the callback server is up
          result,    \* what settled it: none, code or nil
          waited,    \* WaitForCode took the result
          manual     \* the goroutine of the manual prompt

browser == <<serving, result, waited, manual>>

BrowserInit == serving = FALSE /\ result = "none" /\ waited = FALSE /\ manual = "none"

Settle(r) == result' = IF result = "none" THEN r ELSE result

\* The port may be taken.  Then the URL is shown and the manual prompt starts.
StartCallbackServer ==
    /\ stage = "listen"
    /\ \/ End("failed") /\ UNCHANGED browser
       \/ Proceed("wait") /\ serving' = TRUE /\ manual' = "start" /\ UNCHANGED <<result, waited>>
    /\ Quiet /\ UNCHANGED <<flow, ctx, grant>>

\* Mutated Callback: the state is not compared.
CallbackUnchecked ==
    /\ serving
    /\ \E state \in {"own", "foreign"} : Settle(IF state = "own" THEN "code" ELSE "foreign code")
    /\ UNCHANGED <<login, serving, waited, manual>>

\* A callback with an error, without a code or with another state changes nothing.
Callback ==
    /\ serving
    /\ \E state \in {"own", "foreign"} : state = "own" /\ Settle("code")
    /\ UNCHANGED <<login, serving, waited, manual>>

\* The goroutine asks, hands its answer over on a buffered channel, and cancels the wait.
ManualAsks ==
    /\ manual = "start"
    /\ Ask("manual")
    /\ manual' = "ask"
    /\ UNCHANGED <<flow, stage, ctx, grant, ending, serving, result, waited>>

ManualAnswers ==
    /\ manual = "ask" /\ answers["manual"] # "none"
    /\ manual' = "answered"
    /\ UNCHANGED <<login, serving, result, waited>>

ManualCancels ==
    /\ manual = "answered"
    /\ manual' = "gone"
    /\ Settle("nil")
    /\ UNCHANGED <<login, serving, waited>>

\* Mutated CloseServer: the server outlives the login.
CloseServerLater == UNCHANGED browser

\* The deferred Close, and the cancelled context of the manual prompt, when Login returns.
CloseServer == serving' = FALSE /\ UNCHANGED <<result, waited, manual>>

\* The result, or the context; when both are there, either.
WaitForCode ==
    /\ stage = "wait"
    /\ \/ ctx /\ End("failed") /\ CloseServer /\ UNCHANGED grant
       \/ /\ result # "none"
          /\ waited' = TRUE
          /\ IF result = "nil" THEN Proceed("manual") /\ UNCHANGED grant
             ELSE Proceed("exchange") /\ grant' = result
          /\ UNCHANGED <<serving, result, manual>>
    /\ Quiet /\ UNCHANGED <<flow, ctx>>

\* What was pasted: nothing, a code, or a redirect URL whose state must be this login's.
Pasted(p, nothing) ==
    CASE answers[p] \in {"error", "foreign"} -> End("failed") /\ CloseServer /\ UNCHANGED grant
      [] answers[p] = "" -> nothing /\ UNCHANGED grant
      [] OTHER -> Proceed("exchange") /\ grant' = answers[p] /\ UNCHANGED browser

\* The answer is there by now, since its goroutine sent it first.  Codex prompts once
\* more for an empty one; Anthropic's Login has no such prompt.
TakeManual ==
    /\ stage = "manual"
    /\ \/ ctx /\ End("failed") /\ CloseServer /\ UNCHANGED grant
       \/ /\ answers["manual"] # "none"
          /\ Pasted("manual", IF flow = "codex" THEN Proceed("text") /\ UNCHANGED browser ELSE End("failed") /\ CloseServer)
    /\ Quiet /\ UNCHANGED <<flow, ctx>>

TextPrompt ==
    /\ stage = "text"
    /\ IF ~Asked("text")
       THEN Ask("text") /\ UNCHANGED <<stage, ending, grant, browser>>
       ELSE /\ "text" \notin asking
            /\ Pasted("text", End("failed") /\ CloseServer)
            /\ Quiet
    /\ UNCHANGED <<flow, ctx>>

\* exchangeAuthorizationCode; Login returns.
ExchangeCode == serving /\ Exchange /\ CloseServer

BrowserStep == StartCallbackServer \/ WaitForCode \/ TakeManual \/ TextPrompt \/ ExchangeCode
ManualStep == ManualAsks \/ ManualAnswers \/ ManualCancels
=============================================================================
