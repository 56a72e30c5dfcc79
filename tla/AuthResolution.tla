--------------------------- MODULE AuthResolution ---------------------------
(***************************************************************************)
(* ResolveProviderAuth and resolveStoredOAuth (src/ai/resolve.go) for one  *)
(* provider: requests, of any number of processes, resolve their auth over *)
(* a shared CredentialStore, while a user logs in and out                  *)
(* (src/cmd/pi-ai/oauth.go) and time passes.                               *)
(*                                                                         *)
(* The authorization server is the harder of the kinds the code talks to:  *)
(* a refresh token works once and rotates.  gen numbers the tokens in the  *)
(* order they were issued; session numbers the logins.                     *)
(***************************************************************************)
EXTENDS Naturals, FiniteSets

CONSTANTS Requests,
          NoCredential, NoClient, User,
          MaxTime,     \* bound on the clock
          Lifetime,    \* of an access token
          MaxVisits    \* bound on the logins and logouts

ASSUME AuthAssumption ==
    /\ MaxTime \in Nat /\ Lifetime \in Nat \ {0} /\ MaxVisits \in Nat
    /\ User \notin Requests /\ NoClient \notin Requests \cup {User}

VARIABLES handlers,      \* the handlers the provider has: ProviderAuth
          creds, owner,  \* the store
          now,           \* authClock
          issued, logins, visits,  \* tokens, sessions and visits so far
          consumed,      \* refresh tokens the server has rotated away
          pc,            \* where each request is
          local,         \* the credential it works with
          answer,        \* what it returned
          user,          \* where the user is
          began, during, \* history: when a request began; what was stored since
          replayed,      \* history: tokens presented again after their rotation
          excused        \* history: tokens whose rotation never reached the store

store == <<creds, owner>>
server == <<issued, consumed, replayed, excused>>
vars == <<handlers, store, now, server, logins, visits, pc, local, answer, user, began, during>>

Provider == "provider"
MaxGen == MaxVisits + Cardinality(Requests) + 1
Credential ==
    [type : {"oauth"}, gen : 1..MaxGen, session : 0..MaxVisits, expires : 0..(MaxTime + Lifetime)]
      \cup [type : {"api_key"}, gen : {0}, session : 0..MaxVisits, expires : {0}]
IsOAuth(c) == c # NoCredential /\ c.type = "oauth"
IsAPIKey(c) == c # NoCredential /\ c.type = "api_key"

Store == INSTANCE CredentialStore WITH
    Providers <- {Provider}, Clients <- Requests \cup {User}, Credentials <- Credential,
    Losses <- FALSE

HasOAuth == "oauth" \in handlers
HasAPIKey == "api_key" \in handlers

current == creds[Provider]
OAuthCredential(gen, session) ==
    [type |-> "oauth", gen |-> gen, session |-> session, expires |-> now + Lifetime]
APIKeyCredential(session) ==
    [type |-> "api_key", gen |-> 0, session |-> session, expires |-> 0]
Unanswered == [source |-> "none yet", cred |-> NoCredential]

Init ==
    /\ handlers \in SUBSET {"oauth", "api_key"}
    /\ now = 0
    /\ creds \in {[p \in {Provider} |-> c] :
                    c \in {NoCredential, APIKeyCredential(0), OAuthCredential(1, 0)}}
    /\ owner = [p \in {Provider} |-> NoClient]
    /\ issued = 1 /\ logins = 0 /\ visits = 0
    /\ consumed = {} /\ replayed = {} /\ excused = {}
    /\ pc = [r \in Requests |-> "idle"]
    /\ local = [r \in Requests |-> NoCredential]
    /\ answer = [r \in Requests |-> Unanswered]
    /\ user = "away"
    /\ began = [r \in Requests |-> 0]
    /\ during = [r \in Requests |-> {}]

Active(r) == pc[r] \notin {"idle", "done"}
Goto(r, l) == pc' = [pc EXCEPT ![r] = l]
Use(r, c) == local' = [local EXCEPT ![r] = c]

\* The request returns an auth result, nil ("none") or an error.
Answer(r, source, c) ==
    /\ Goto(r, "done")
    /\ answer' = [answer EXCEPT ![r] = [source |-> source, cred |-> c]]
    /\ UNCHANGED local

\* What was stored while each request ran.
Witness ==
    during' = [r \in Requests |->
        IF pc'[r] = "idle" \/ pc[r] = "done" THEN during[r] ELSE during[r] \cup {current, current'}]

-----------------------------------------------------------------------------
(* A request                                                               *)

Environment == <<server, now, logins, visits, user>>

\* The API key a request may carry is used as it is; without one, or without a
\* handler for it, the store is read.
Resolve(r) ==
    /\ pc[r] = "idle"
    /\ began' = [began EXCEPT ![r] = now]
    /\ \/ HasAPIKey /\ Answer(r, "override", NoCredential)
       \/ Goto(r, "read") /\ UNCHANGED <<local, answer>>
    /\ UNCHANGED <<store, Environment>>

\* A stored credential owns the provider; ambient sources come after it.
Read(r) ==
    /\ pc[r] = "read"
    /\ CASE IsOAuth(current) /\ HasOAuth ->
              Goto(r, "check") /\ Use(r, current) /\ UNCHANGED answer
         [] IsAPIKey(current) /\ HasAPIKey -> Answer(r, "api key", current)
         [] current = NoCredential /\ HasAPIKey -> Answer(r, "ambient", NoCredential)
         [] OTHER -> Answer(r, "none", NoCredential)
    /\ UNCHANGED <<store, Environment, began>>

\* The store cannot be read, or the api-key handler fails.
ReadFails(r) ==
    /\ pc[r] = "read"
    /\ Answer(r, "auth error", NoCredential)
    /\ UNCHANGED <<store, Environment, began>>

\* Mutated Check: a token is good until it is past its expiry.
CheckOneLate(r) ==
    /\ pc[r] = "check"
    /\ Goto(r, IF now > local[r].expires THEN "lock" ELSE "to auth")
    /\ UNCHANGED <<store, Environment, local, answer, began>>

\* The optimistic check, without the lock.
Check(r) ==
    /\ pc[r] = "check"
    /\ Goto(r, IF now >= local[r].expires THEN "lock" ELSE "to auth")
    /\ UNCHANGED <<store, Environment, local, answer, began>>

\* Modify waits for the provider ...
Lock(r) ==
    /\ pc[r] = "lock"
    /\ Store!Acquire(r, Provider)
    /\ Goto(r, "recheck")
    /\ UNCHANGED <<Environment, local, answer, began>>

\* ... or fails: its context is done, or the storage fails.
LockFails(r) ==
    /\ pc[r] = "lock"
    /\ Answer(r, "auth error", NoCredential)
    /\ UNCHANGED <<store, Environment, began>>

\* Mutated Recheck: what was read without the lock is refreshed.
RecheckSkipped(r) ==
    /\ pc[r] = "recheck"
    /\ IF IsOAuth(current)
       THEN Goto(r, "refresh") /\ UNCHANGED <<store, local, answer>>
       ELSE Store!Release(r, Provider) /\ Answer(r, "none", NoCredential)
    /\ UNCHANGED <<Environment, began>>

\* Mutated Recheck: the early returns do not release the provider.
RecheckKeeps(r) ==
    /\ pc[r] = "recheck"
    /\ CASE ~IsOAuth(current) -> Answer(r, "none", NoCredential)
         [] IsOAuth(current) /\ now < current.expires ->
              Use(r, current) /\ Goto(r, "to auth") /\ UNCHANGED answer
         [] OTHER -> Use(r, current) /\ Goto(r, "refresh") /\ UNCHANGED answer
    /\ UNCHANGED <<store, Environment, began>>

\* The authoritative check under the lock: logged out meanwhile, refreshed by
\* somebody else, or still expired.
Recheck(r) ==
    /\ pc[r] = "recheck"
    /\ CASE ~IsOAuth(current) ->
              Store!Release(r, Provider) /\ Answer(r, "none", NoCredential)
         [] IsOAuth(current) /\ now < current.expires ->
              Store!Release(r, Provider) /\ Use(r, current) /\ Goto(r, "to auth") /\ UNCHANGED answer
         [] OTHER ->
              Use(r, current) /\ Goto(r, "refresh") /\ UNCHANGED <<store, answer>>
    /\ UNCHANGED <<Environment, began>>

\* The refresh token reaches the server.
Presented(r) ==
    replayed' = IF local[r].gen \in consumed THEN replayed \cup {local[r].gen} ELSE replayed

Rotate(r) ==
    /\ local[r].gen \notin consumed
    /\ consumed' = consumed \cup {local[r].gen}
    /\ issued' = issued + 1

RefreshSucceeds(r) ==
    /\ pc[r] = "refresh"
    /\ Presented(r) /\ Rotate(r)
    /\ Use(r, OAuthCredential(issued + 1, local[r].session))
    /\ Goto(r, "commit")
    /\ UNCHANGED <<store, excused, now, logins, visits, user, answer, began>>

\* The server refuses, or the response is lost after the server rotated.
RefreshFails(r) ==
    /\ pc[r] = "refresh"
    /\ Presented(r)
    /\ \/ Rotate(r) /\ excused' = excused \cup {local[r].gen}
       \/ UNCHANGED <<consumed, issued, excused>>
    /\ Store!Release(r, Provider)
    /\ Answer(r, "oauth error", NoCredential)
    /\ UNCHANGED <<now, logins, visits, user, began>>

\* Mutated Commit: the lock is released before the credential is stored.
CommitUnlocked(r) ==
    /\ pc[r] = "commit"
    /\ IF owner[Provider] = r
       THEN Store!Release(r, Provider) /\ UNCHANGED pc
       ELSE /\ creds' = [creds EXCEPT ![Provider] = local[r]]
            /\ UNCHANGED owner
            /\ Goto(r, "to auth")
    /\ UNCHANGED <<Environment, local, answer, began>>

\* The rotated credential is stored before the lock is released ...
Commit(r) ==
    /\ pc[r] = "commit"
    /\ Store!Commit(r, Provider, local[r])
    /\ Goto(r, "to auth")
    /\ UNCHANGED <<Environment, local, answer, began>>

\* ... unless the storage fails.
CommitFails(r) ==
    /\ pc[r] = "commit"
    /\ Store!Release(r, Provider)
    /\ excused' = excused \cup {current.gen}
    /\ Answer(r, "auth error", NoCredential)
    /\ UNCHANGED <<consumed, issued, replayed, now, logins, visits, user, began>>

ToAuth(r) ==
    /\ pc[r] = "to auth"
    /\ Answer(r, "oauth", local[r])
    /\ UNCHANGED <<store, Environment, began>>

ToAuthFails(r) ==
    /\ pc[r] = "to auth"
    /\ Answer(r, "oauth error", NoCredential)
    /\ UNCHANGED <<store, Environment, began>>

\* The process of the request dies; a file lock goes with it.
Crash(r) ==
    /\ Active(r)
    /\ IF owner[Provider] = r THEN Store!Release(r, Provider) ELSE UNCHANGED store
    /\ excused' = IF pc[r] = "commit" THEN excused \cup {current.gen} ELSE excused
    /\ Answer(r, "crashed", NoCredential)
    /\ UNCHANGED <<consumed, issued, replayed, now, logins, visits, user, began>>

-----------------------------------------------------------------------------
(* The user, and time                                                      *)

Requesting == <<pc, local, answer, began>>

\* runLogin stores what the login flow obtained, whatever is stored; Delete
\* logs out.  Each waits for the provider like any Modify.
Visit(errand) ==
    /\ user = "away"
    /\ visits < MaxVisits
    /\ visits' = visits + 1
    /\ Store!Acquire(User, Provider)
    /\ user' = errand
    /\ UNCHANGED <<Requesting, server, logins, now>>

Login ==
    /\ user = "login"
    /\ logins' = logins + 1
    /\ \/ Store!Commit(User, Provider, OAuthCredential(issued + 1, logins')) /\ issued' = issued + 1
       \/ Store!Commit(User, Provider, APIKeyCredential(logins')) /\ UNCHANGED issued
    /\ user' = "away"
    /\ UNCHANGED <<Requesting, consumed, replayed, excused, visits, now>>

Logout ==
    /\ user = "logout"
    /\ Store!Commit(User, Provider, NoCredential)
    /\ user' = "away"
    /\ UNCHANGED <<Requesting, server, visits, logins, now>>

\* Either may fail to be saved, or the process of the user may die.
VisitFails ==
    /\ user # "away"
    /\ Store!Release(User, Provider)
    /\ user' = "away"
    /\ UNCHANGED <<Requesting, server, visits, logins, now>>

Tick ==
    /\ now < MaxTime
    /\ now' = now + 1
    /\ UNCHANGED <<store, Requesting, server, logins, visits, user>>

Step(r) ==
    \/ Read(r) \/ Check(r) \/ Lock(r) \/ Recheck(r)
    \/ RefreshSucceeds(r) \/ RefreshFails(r) \/ Commit(r) \/ ToAuth(r)

Faults(r) ==
    ReadFails(r) \/ LockFails(r) \/ CommitFails(r) \/ ToAuthFails(r) \/ Crash(r)

Next ==
    /\ \/ \E r \in Requests : Resolve(r) \/ Step(r) \/ Faults(r)
       \/ \E errand \in {"login", "logout"} : Visit(errand)
       \/ Login \/ Logout \/ VisitFails \/ Tick
    /\ Witness
    /\ UNCHANGED handlers

\* Requests run, the server answers or the refresh times out, and the user
\* finishes what she began.
Fairness ==
    /\ \A r \in Requests : WF_vars(Step(r) /\ Witness /\ UNCHANGED handlers)
    /\ WF_vars((Login \/ Logout) /\ Witness /\ UNCHANGED handlers)

SafeSpec == Init /\ [][Next]_vars
Spec == SafeSpec /\ Fairness

-----------------------------------------------------------------------------
(* Properties                                                              *)

\* "Concurrent requests cannot double-refresh a rotated token" (auth.go, the
\* comment on CredentialStore): no refresh token is presented again after the
\* server rotated it, unless its successor never reached the store.
NoDoubleRefresh == replayed \subseteq excused

\* "Persist the rotated credential before release" (resolve.go, the comment on
\* resolveStoredOAuth): while nobody holds the provider, the stored refresh
\* token is one the server still honours.
PersistedBeforeRelease ==
    (owner[Provider] = NoClient /\ IsOAuth(current)) => current.gen \notin consumed \ excused

\* A refresh never undoes what the user did: nothing but a new login follows a
\* logout, and a session is never overwritten by an older one.
SessionsMoveForward ==
    [][/\ (current = NoCredential /\ current' # NoCredential) => current'.session > logins
       /\ (current # NoCredential /\ current' # NoCredential) =>
              current'.session >= current.session]_vars

\* A request answers for what was stored at some moment while it ran: ambient
\* auth when nothing was ("no silent env fallback"), a credential when it was, and
\* a token only if it was good at some moment of the request.
AnswersWereStored ==
    \A r \in Requests :
        /\ answer[r].source \in {"ambient", "api key", "oauth"} => answer[r].cred \in during[r]
        /\ answer[r].source = "oauth" => answer[r].cred.expires > began[r]

\* Every request is answered.
RequestsAnswered == \A r \in Requests : Active(r) ~> (pc[r] = "done")
=============================================================================
