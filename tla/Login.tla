--------------------------------- MODULE Login ---------------------------------
(***************************************************************************)
(* runLogin of pi-ai (src/cmd/pi-ai/oauth.go): a provider is picked, its   *)
(* login flow runs, and what it obtained is stored.                        *)
(***************************************************************************)
EXTENDS BrowserLogin, DeviceCode

loginVars == <<login, browser, device>>

RunLoginInit == LoginInit /\ BrowserInit /\ DeviceInit

\* The provider is named on the command line, or picked from a list.
ResolveProvider ==
    /\ \/ Prompt("provider", {"plain"}, {"picked"})
       \/ /\ stage = "provider" /\ ~Asked("provider")
          /\ Proceed("picked") \/ End("failed")
          /\ Quiet /\ UNCHANGED <<flow, ctx, grant>>
    /\ UNCHANGED <<browser, device>>

StartLogin ==
    /\ stage = "picked"
    /\ \/ flow' = "anthropic" /\ Proceed("listen")
       \/ flow' = "codex" /\ Proceed("method")
       \/ flow' = "copilot" /\ Proceed("domain")
    /\ Quiet /\ UNCHANGED <<ctx, grant, browser, device>>

SelectMethod == Prompt("method", {"plain"}, {"listen", "device"}) /\ UNCHANGED <<browser, device>>
EnterpriseDomain == Prompt("domain", {"plain", "own", ""}, {"device"}) /\ UNCHANGED <<browser, device>>

ByBrowser == BrowserStep /\ UNCHANGED device
ByDevice == (DeviceStep \/ (~serving /\ Exchange /\ UNCHANGED device)) /\ UNCHANGED browser
StoreCredential == Save /\ UNCHANGED <<browser, device>>

RunLoginStep == ResolveProvider \/ StartLogin \/ SelectMethod \/ EnterpriseDomain \/ ByBrowser \/ ByDevice \/ StoreCredential
Manual == ManualStep /\ UNCHANGED device
Dismissal == Dismiss /\ UNCHANGED <<browser, device>>
UserActs ==
    \/ Callback /\ UNCHANGED device
    \/ (Type \/ EndOfInput \/ Cancel) /\ UNCHANGED <<browser, device>>
Time == TimePasses /\ UNCHANGED browser

RunLoginNext == RunLoginStep \/ Manual \/ Dismissal \/ UserActs \/ Time

\* Goroutines run; a request that its server does not answer ends with the context, and
\* nobody has to type or to visit the URL.
LoginFairness == WF_loginVars(ctx /\ RunLoginStep) /\ WF_loginVars(Manual) /\ WF_loginVars(Dismissal)

RunLoginSpec == RunLoginInit /\ [][RunLoginNext]_loginVars /\ LoginFairness

-----------------------------------------------------------------------------
(* Properties                                                              *)

\* What is exchanged was granted to this login, by a callback or a paste that names its
\* state (or a bare code); of the callback and the paste it is the one that won the race,
\* though both may arrive before anybody looks.  While a prompt waits for its line nobody
\* else reads from stdin.
GrantIsOurs ==
    /\ grant \in {"none", "code", "plain", "own", "device"}
    /\ grant = "code" => result = "code"
    /\ grant \in {"plain", "own"} => result = "nil" /\ grant \in {answers["manual"], answers["text"]}
    /\ asking # {} => readers = asking /\ Cardinality(asking) = 1

\* No poll begins after the device code expired, and none sooner after the last answer
\* than the server asked for, slow_down included, wherever the deadline cuts a wait short.
PollsPaced ==
    stage = "poll" =>
        /\ deadline # 0 => polled < deadline
        /\ answered # 0 => polled >= answered + asked

\* A cancelled login ends, and a login that ended, however it did, closes the callback
\* port, dismisses the manual prompt and keeps no goroutine but one that reads stdin.
LoginEnds ==
    /\ ctx ~> (stage = "ended")
    /\ (stage = "ended") ~> (~serving /\ asking = {} /\ manual \in {"none", "gone"})
=============================================================================
