------------------------------ MODULE MCRequest ------------------------------
(***************************************************************************)
(* One request to a model: the history it carries (Conversation), the      *)
(* attempts to send it (HttpRetry) and the decoding of its answer          *)
(* (Adapters).  They share no variable: what one leaves to the next is a   *)
(* value that the next takes as it comes.  A behaviour follows one of the  *)
(* three, its part, and the others stay where they start.                  *)
(***************************************************************************)
EXTENDS MCConversation, MCAdapters, HttpRetry

VARIABLE part

RequestInit ==
    /\ HttpInit /\ Init
    /\ part \in {"history", "attempts", "answer"}
    /\ IF part = "history" THEN ConversationInit ELSE history = <<>>
    /\ part # "attempts" => ~timed
    /\ part # "answer" => adapter = "bedrock"

Composing == part = "history" /\ ConversationNext /\ UNCHANGED <<part, httpVars, vars>>
Sending == part = "attempts" /\ HttpNext /\ UNCHANGED <<part, history, vars>>
Decoding == part = "answer" /\ Next /\ UNCHANGED <<part, history, httpVars>>

RequestNext == Composing \/ Sending \/ Decoding

\* The fairness of HttpRetry, once its part is the one that is followed, and of Adapters,
\* none of whose fair actions is enabled where it starts.
RequestSpec ==
    /\ RequestInit /\ [][RequestNext]_<<part, history, httpVars, vars>>
    /\ WF_httpVars(part = "attempts" /\ Loop) /\ WF_httpVars(part = "attempts" /\ TimerFires)
    /\ WF_httpVars(part = "attempts" /\ ReadErrorBody) /\ WF_httpVars(part = "attempts" /\ Cut /\ TransportFails)
    /\ Fairness
=============================================================================
