------------------------------ MODULE LoginFlow ------------------------------
(***************************************************************************)
(* What the login flows share (src/ai/auth/oauth): one login, its context, *)
(* the exchange that ends it, and the prompts that pi-ai answers from      *)
(* stdin.  A prompt reads its line in a goroutine of its own, which stays  *)
(* on stdin when the prompt is dismissed.                                  *)
(***************************************************************************)
EXTENDS Naturals, FiniteSets

VARIABLES flow,      \* the login method
          stage, ctx,
          asking,    \* the prompts that wait for an answer
          readers,   \* the prompts whose goroutine is blocked on stdin
          answers,   \* what each prompt returned
          grant,     \* what is exchanged for tokens
          ending

login == <<flow, stage, ctx, asking, readers, answers, grant, ending>>

Prompts == {"provider", "method", "domain", "manual", "text"}
\* A number, bare code or domain; a redirect URL with the state of this login, or with
\* another's; nothing.
Lines == {"plain", "own", "foreign", ""}

LoginInit ==
    /\ flow = "none"
    /\ stage = "provider"
    /\ ctx = FALSE
    /\ asking = {}
    /\ readers = {}
    /\ answers = [p \in Prompts |-> "none"]
    /\ grant = "none"
    /\ ending = "none"

Proceed(l) == stage' = l /\ UNCHANGED ending
End(o) == stage' = "ended" /\ ending' = o
Quiet == UNCHANGED <<asking, readers, answers>>

-----------------------------------------------------------------------------
(* readLine                                                                *)

Ask(p) == asking' = asking \cup {p} /\ readers' = readers \cup {p} /\ UNCHANGED answers

\* A line goes to whichever goroutine reads it; that of a dismissed prompt drops it.
Type ==
    /\ \E p \in readers, line \in Lines :
          /\ readers' = readers \ {p}
          /\ asking' = asking \ {p}
          /\ answers' = IF p \in asking THEN [answers EXCEPT ![p] = line] ELSE answers
    /\ UNCHANGED <<flow, stage, ctx, grant, ending>>

\* The end of the input answers every prompt with an error.
EndOfInput ==
    /\ readers # {}
    /\ readers' = {} /\ asking' = {}
    /\ answers' = [p \in Prompts |-> IF p \in asking THEN "error" ELSE answers[p]]
    /\ UNCHANGED <<flow, stage, ctx, grant, ending>>

\* Its context is done, or that of the prompt alone: the manual prompt's is when Login
\* returned.
Dismiss ==
    /\ \E p \in asking :
          /\ ctx \/ (p = "manual" /\ stage \in {"save", "ended"})
          /\ asking' = asking \ {p}
          /\ answers' = [answers EXCEPT ![p] = "error"]
    /\ UNCHANGED <<flow, stage, ctx, readers, grant, ending>>

Asked(p) == p \in asking \/ answers[p] # "none"

\* A prompt in the course of the login: ask, and go on with an answer that will do.
Prompt(p, ok, next) ==
    /\ stage = p
    /\ IF ~Asked(p)
       THEN Ask(p) /\ UNCHANGED <<stage, ending>>
       ELSE /\ p \notin asking
            /\ IF answers[p] \in ok THEN \E l \in next : Proceed(l) ELSE End("failed")
            /\ Quiet
    /\ UNCHANGED <<flow, ctx, grant>>

-----------------------------------------------------------------------------
(* The end of every flow                                                   *)

\* The token endpoint answers or refuses; the tokens of Codex must name an account.
Exchange ==
    /\ stage = "exchange"
    /\ Proceed("save") \/ End("failed")
    /\ Quiet /\ UNCHANGED <<flow, ctx, grant>>

\* store.Modify in runLogin, which may give up or fail.
Save ==
    /\ stage = "save"
    /\ End("saved") \/ End("failed")
    /\ Quiet /\ UNCHANGED <<flow, ctx, grant>>

Cancel ==
    /\ ~ctx
    /\ ctx' = TRUE
    /\ UNCHANGED <<flow, stage, asking, readers, answers, grant, ending>>
=============================================================================
