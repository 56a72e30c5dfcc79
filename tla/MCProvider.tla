------------------------------ MODULE MCProvider ------------------------------
(***************************************************************************)
(* What keeps one provider usable: its token (AuthResolution), the login   *)
(* that obtains one (Login) and its list of models (ModelRefresh).  They   *)
(* share no variable: AuthResolution knows a login by what it stores.  A   *)
(* behaviour follows one of the three, its part, and the others stay where *)
(* they start, where none of their fair actions is enabled.                *)
(***************************************************************************)
EXTENDS AuthResolution, Login, ModelRefresh

VARIABLE part

ProviderInit ==
    /\ Init /\ RunLoginInit /\ RefreshInit
    /\ part \in {"token", "login", "models"}
    /\ part # "token" => handlers = {} /\ current = NoCredential

Resolving == part = "token" /\ Next /\ UNCHANGED <<part, loginVars, refreshVars>>
LoggingIn == part = "login" /\ RunLoginNext /\ UNCHANGED <<part, vars, refreshVars>>
Refreshing == part = "models" /\ RefreshNext /\ UNCHANGED <<part, vars, loginVars>>

ProviderNext == Resolving \/ LoggingIn \/ Refreshing

ProviderSpec ==
    /\ ProviderInit /\ [][ProviderNext]_<<part, vars, loginVars, refreshVars>>
    /\ Fairness /\ LoginFairness /\ RefreshFairness
=============================================================================
