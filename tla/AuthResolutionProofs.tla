------------------------ MODULE AuthResolutionProofs ------------------------
(***************************************************************************)
(* Proofs about AuthResolution, for any number of requests and visits and  *)
(* any clock.  The argument is that the provider's lock covers everything  *)
(* between the authoritative check and the commit: while a request holds   *)
(* it, what the request works with is what is stored.                      *)
(***************************************************************************)
EXTENDS AuthResolution, TLAPS

\* What may be stored: without the bounds AuthResolution puts on the numbers.
Tokens == [type : {"oauth"}, gen : Nat, session : Nat, expires : Nat]
Keys == [type : {"api_key"}, gen : {0}, session : Nat, expires : {0}]
Stored == Tokens \cup Keys \cup {NoCredential}
Sources == {"none yet", "override", "api key", "ambient", "none", "oauth",
            "auth error", "oauth error", "crashed"}

Places == {"idle", "read", "check", "lock", "recheck", "refresh", "commit", "to auth", "done"}

StoreTypes ==
    /\ creds \in [{Provider} -> Stored]
    /\ owner \in [{Provider} -> Requests \cup {User, NoClient}]

NumberTypes ==
    /\ now \in Nat /\ issued \in Nat /\ logins \in Nat /\ visits \in Nat
    /\ consumed \subseteq Nat /\ replayed \subseteq Nat /\ excused \subseteq Nat
    /\ began \in [Requests -> Nat]

RequestTypes ==
    /\ pc \in [Requests -> Places]
    /\ local \in [Requests -> Stored]
    /\ answer \in [Requests -> [source : Sources, cred : Stored]]
    /\ user \in {"away", "login", "logout"}

TypeOK == StoreTypes /\ NumberTypes /\ RequestTypes /\ during \in [Requests -> SUBSET Stored]

\* Who has the provider for itself.
holder == owner[Provider]

\* Who is inside Modify or Delete owns the provider, and nobody else does.
Locked ==
    /\ \A r \in Requests : holder = r <=> pc[r] \in {"recheck", "refresh", "commit"}
    /\ holder = User <=> user # "away"

\* Tokens and sessions are numbered in the order they were issued.
Numbered ==
    /\ \A g \in consumed : g <= issued
    /\ IsOAuth(current) => current.gen <= issued
    /\ current # NoCredential => current.session <= logins

\* A request that refreshes works with the credential that is stored; one that
\* is about to commit, with its successor.
Refreshing ==
    \A r \in Requests :
        /\ pc[r] \in {"refresh", "commit"} => IsOAuth(current)
        /\ pc[r] = "refresh" => local[r] = current
        /\ pc[r] = "commit" =>
              /\ local[r] \in Tokens
              /\ local[r].gen \notin consumed /\ local[r].gen <= issued
              /\ local[r].session = current.session

\* Unless somebody is about to replace it, the stored refresh token is good, or
\* it is one whose successor never reached the store.
Honoured ==
    IsOAuth(current) /\ (\A r \in Requests : pc[r] # "commit")
        => current.gen \notin consumed \ excused

\* What a request is about to answer with was stored while it ran, and was good
\* at some moment since it began.
WitnessOf(r) ==
    /\ pc[r] # "idle" => began[r] <= now
    /\ pc[r] # "done" => answer[r].source = "none yet"
    /\ pc[r] \in {"check", "to auth"} => local[r] \in Tokens /\ local[r] \in during[r]
    /\ pc[r] \in {"commit", "to auth"} => local[r].expires > began[r]

Witnessed == \A r \in Requests : WitnessOf(r)

\* The step SessionsMoveForward allows.
Forward ==
    /\ (current = NoCredential /\ current' # NoCredential) => current'.session > logins
    /\ (current # NoCredential /\ current' # NoCredential) => current'.session >= current.session

\* AnswersWereStored for one request.
AnswerOf(r) ==
    /\ answer[r].source \in {"ambient", "api key", "oauth"} => answer[r].cred \in during[r]
    /\ answer[r].source = "oauth" => answer[r].cred.expires > began[r]

IInv ==
    /\ TypeOK /\ Locked /\ Numbered /\ Refreshing /\ Honoured /\ NoDoubleRefresh
    /\ Witnessed /\ AnswersWereStored

-----------------------------------------------------------------------------
(* Lemmas about credentials and the store                                  *)
\* The credentials the model works with, and their fields.
LEMMA CredentialTypes ==
    /\ NoCredential \in Stored
    /\ \A c \in Tokens : c \in Stored /\ c.gen \in Nat /\ c.session \in Nat /\ c.expires \in Nat
    /\ \A c \in Stored : IsOAuth(c) => c \in Tokens
    /\ now \in Nat => \A g, s \in Nat :
          OAuthCredential(g, s) \in Tokens /\ APIKeyCredential(s) \in Stored
BY AuthAssumption DEF Stored, Tokens, Keys, IsOAuth, OAuthCredential, APIKeyCredential

\* What the calls of the store do to the provider's credential and its holder.
LEMMA StoreSteps ==
    ASSUME StoreTypes
    PROVE  /\ current \in Stored
           /\ UNCHANGED store => StoreTypes' /\ holder' = holder /\ current' = current
           /\ \A c \in Requests \cup {User} :
                 /\ Store!Acquire(c, Provider) =>
                       StoreTypes' /\ holder = NoClient /\ holder' = c /\ current' = current
                 /\ Store!Release(c, Provider) =>
                       StoreTypes' /\ holder = c /\ holder' = NoClient /\ current' = current
                 /\ \A next \in Stored : Store!Commit(c, Provider, next) =>
                       StoreTypes' /\ holder = c /\ holder' = NoClient /\ current' = next
BY DEF StoreTypes, current, holder, Provider, store, Store!Acquire, Store!Release, Store!Commit

\* A request keeps its types wherever it goes and whatever it answers.
LEMMA RequestMoves ==
    ASSUME RequestTypes, NEW r \in Requests, UNCHANGED user,
           NEW s \in Sources, NEW c \in Stored, NEW l \in Places
    PROVE  /\ Answer(r, s, c) => RequestTypes'
           /\ Goto(r, l) /\ Use(r, c) /\ UNCHANGED answer => RequestTypes'
           /\ Goto(r, l) /\ UNCHANGED <<local, answer>> => RequestTypes'
<1>1. CASE Answer(r, s, c)
  BY <1>1 DEF RequestTypes, Answer, Goto, Places
<1>2. CASE Goto(r, l) /\ Use(r, c) /\ UNCHANGED answer
  BY <1>2 DEF RequestTypes, Goto, Use
<1>3. CASE Goto(r, l) /\ UNCHANGED <<local, answer>>
  BY <1>3 DEF RequestTypes, Goto
<1>4. QED
  BY <1>1, <1>2, <1>3

\* A request that refreshes works with the stored token, alone.
LEMMA Refresher ==
    ASSUME TypeOK, Locked, Refreshing, NEW r \in Requests, pc[r] = "refresh"
    PROVE  /\ IsOAuth(current) /\ local[r] = current /\ current.gen \in Nat
           /\ current \in Tokens
           /\ \A q \in Requests : pc[q] # "commit"
<1>1. IsOAuth(current) /\ local[r] = current
  BY DEF Refreshing
<1>2. current \in Tokens /\ current.gen \in Nat
  BY <1>1, CredentialTypes, StoreSteps DEF TypeOK
<1>3. \A q \in Requests : pc[q] # "commit"
  BY DEF Locked
<1>4. QED
  BY <1>1, <1>2, <1>3

\* The fields of a new token.
LEMMA TokenFields ==
    \A g, s : /\ OAuthCredential(g, s).gen = g
              /\ OAuthCredential(g, s).session = s
              /\ OAuthCredential(g, s).expires = now + Lifetime
              /\ APIKeyCredential(s).session = s
              /\ ~IsOAuth(APIKeyCredential(s))
BY DEF OAuthCredential, APIKeyCredential, IsOAuth

\* What Login stores: a token issued for a new session, or a key.
LEMMA LoginStores ==
    ASSUME TypeOK, Locked, Login
    PROVE  /\ holder = User /\ holder' = NoClient /\ logins' = logins + 1
           /\ issued' \in {issued, issued + 1} /\ current'.session = logins'
           /\ IsOAuth(current') => current'.gen = issued' /\ issued' = issued + 1
           /\ UNCHANGED <<consumed, excused, replayed, pc, local, answer, now, began>>
<1>1. /\ issued + 1 \in Nat /\ logins' \in Nat /\ logins' = logins + 1
      /\ UNCHANGED <<consumed, excused, replayed, pc, local, answer, now, began>>
  BY DEF Login, TypeOK, NumberTypes, Requesting
<1>2. /\ OAuthCredential(issued + 1, logins') \in Stored
      /\ APIKeyCredential(logins') \in Stored
  BY <1>1, CredentialTypes DEF TypeOK, NumberTypes
<1>3. CASE /\ Store!Commit(User, Provider, OAuthCredential(issued + 1, logins'))
           /\ issued' = issued + 1
  <2>1. current' = OAuthCredential(issued + 1, logins') /\ holder = User /\ holder' = NoClient
    BY <1>2, <1>3, StoreSteps DEF TypeOK
  <2>2. QED
    BY <1>1, <1>3, <2>1, TokenFields
<1>4. CASE Store!Commit(User, Provider, APIKeyCredential(logins')) /\ UNCHANGED issued
  <2>1. current' = APIKeyCredential(logins') /\ holder = User /\ holder' = NoClient
    BY <1>2, <1>4, StoreSteps DEF TypeOK
  <2>2. QED
    BY <1>1, <1>4, <2>1, TokenFields
<1>5. QED
  BY <1>3, <1>4 DEF Login

\* Arithmetic of the clock: a token that is good now outlives what began
\* before.
LEMMA Outlives ==
    \A b, e, n \in Nat :
       /\ b <= n /\ n < e => e > b
       /\ b <= n /\ ~(n >= e) => e > b
       /\ b <= n => n + Lifetime > b
       /\ b <= n => b <= n + 1
       /\ n <= n
BY AuthAssumption

\* What is stored now, or after this step, was stored while a request ran.
LEMMA DuringGrows ==
    ASSUME TypeOK, Witness
    PROVE  \A q \in Requests :
              /\ during[q] \subseteq during'[q]
              /\ pc'[q] # "idle" /\ pc[q] # "done" => {current, current'} \subseteq during'[q]
BY DEF TypeOK, Witness

\* A step that keeps the credential keeps its session.
LEMMA KeptSession ==
    ASSUME TypeOK, current' = current
    PROVE  Forward
<1>1. current # NoCredential => current.session \in Nat
  BY StoreSteps DEF TypeOK, Stored, Tokens, Keys
<1>2. QED
  BY <1>1 DEF Forward
-----------------------------------------------------------------------------
(* Type correctness                                                        *)

\* The store and the requests keep their types.
LEMMA RequestsTyped ==
    ASSUME TypeOK, Refreshing, [Next]_vars
    PROVE  (StoreTypes /\ RequestTypes)'
<1> USE AuthAssumption, CredentialTypes, StoreSteps, RequestMoves DEF TypeOK, Requesting,
        Environment
<1>1. ASSUME NEW r \in Requests, Resolve(r) PROVE (StoreTypes /\ RequestTypes)'
  BY <1>1 DEF Resolve, Places, Sources
<1>2. ASSUME NEW r \in Requests, Read(r) PROVE (StoreTypes /\ RequestTypes)'
  BY <1>2 DEF Read, Places, Sources
<1>3. ASSUME NEW r \in Requests, ReadFails(r) PROVE (StoreTypes /\ RequestTypes)'
  BY <1>3 DEF ReadFails, Places, Sources
<1>4. ASSUME NEW r \in Requests, Check(r) PROVE (StoreTypes /\ RequestTypes)'
  BY <1>4 DEF Check, Places, Sources
<1>5. ASSUME NEW r \in Requests, Lock(r) PROVE (StoreTypes /\ RequestTypes)'
  BY <1>5 DEF Lock, Places, Sources
<1>6. ASSUME NEW r \in Requests, LockFails(r) PROVE (StoreTypes /\ RequestTypes)'
  BY <1>6 DEF LockFails, Places, Sources
<1>7. ASSUME NEW r \in Requests, Recheck(r) PROVE (StoreTypes /\ RequestTypes)'
  BY <1>7 DEF Recheck, Places, Sources
<1>8. ASSUME NEW r \in Requests, RefreshSucceeds(r) PROVE (StoreTypes /\ RequestTypes)'
  <2>1. local[r].session \in Nat /\ issued + 1 \in Nat
    BY <1>8, CredentialTypes DEF RefreshSucceeds, Refreshing, NumberTypes
  <2>2. OAuthCredential(issued + 1, local[r].session) \in Stored
    BY <2>1 DEF NumberTypes
  <2>3. PICK c \in Stored : Goto(r, "commit") /\ Use(r, c) /\ UNCHANGED <<store, user, answer>>
    BY <1>8, <2>2 DEF RefreshSucceeds
  <2>4. QED
    BY <2>3 DEF Places, Sources
<1>9. ASSUME NEW r \in Requests, RefreshFails(r) PROVE (StoreTypes /\ RequestTypes)'
  BY <1>9 DEF RefreshFails, Places, Sources
<1>10. ASSUME NEW r \in Requests, Commit(r) PROVE (StoreTypes /\ RequestTypes)'
  <2>1. local[r] \in Stored
    BY DEF RequestTypes
  <2>2. QED
    BY <1>10, <2>1 DEF Commit, Places, Sources
<1>11. ASSUME NEW r \in Requests, CommitFails(r) PROVE (StoreTypes /\ RequestTypes)'
  BY <1>11 DEF CommitFails, Places, Sources
<1>12. ASSUME NEW r \in Requests, ToAuth(r) PROVE (StoreTypes /\ RequestTypes)'
  <2>1. local[r] \in Stored
    BY DEF RequestTypes
  <2>2. QED
    BY <1>12, <2>1 DEF ToAuth, Places, Sources
<1>13. ASSUME NEW r \in Requests, ToAuthFails(r) PROVE (StoreTypes /\ RequestTypes)'
  BY <1>13 DEF ToAuthFails, Places, Sources
<1>14. ASSUME NEW r \in Requests, Crash(r) PROVE (StoreTypes /\ RequestTypes)'
  BY <1>14 DEF Crash, Places, Sources
<1>15. ASSUME NEW errand \in {"login", "logout"}, Visit(errand)
       PROVE  (StoreTypes /\ RequestTypes)'
  BY <1>15 DEF Visit, RequestTypes
<1>16. ASSUME Login PROVE (StoreTypes /\ RequestTypes)'
  <2>1. issued + 1 \in Nat /\ logins' \in Nat
    BY <1>16 DEF Login, NumberTypes
  <2>2. OAuthCredential(issued + 1, logins') \in Stored /\ APIKeyCredential(logins') \in Stored
    BY <2>1, CredentialTypes DEF NumberTypes
  <2>3. QED
    BY <1>16, <2>2 DEF Login, RequestTypes
<1>17. ASSUME Logout PROVE (StoreTypes /\ RequestTypes)'
  BY <1>17 DEF Logout, RequestTypes
<1>18. ASSUME VisitFails PROVE (StoreTypes /\ RequestTypes)'
  BY <1>18 DEF VisitFails, RequestTypes
<1>19. ASSUME Tick PROVE (StoreTypes /\ RequestTypes)'
  BY <1>19 DEF Tick, RequestTypes
<1>20. CASE UNCHANGED vars
  BY <1>20 DEF vars, RequestTypes, store
<1>21. QED
  BY <1>1, <1>2, <1>3, <1>4, <1>5, <1>6, <1>7, <1>8, <1>9, <1>10, <1>11, <1>12, <1>13, <1>14,
     <1>15, <1>16, <1>17, <1>18, <1>19, <1>20 DEF Next, Step, Faults

\* So do the clock, the counters and the sets of tokens.
LEMMA NumbersTyped ==
    ASSUME TypeOK, Refreshing, [Next]_vars
    PROVE  NumberTypes'
<1> USE AuthAssumption DEF TypeOK, NumberTypes, server, Environment, Requesting
<1>1. ASSUME NEW r \in Requests, Resolve(r) PROVE NumberTypes'
  BY <1>1 DEF Resolve
<1>2. ASSUME NEW r \in Requests, Read(r) PROVE NumberTypes'
  BY <1>2 DEF Read
<1>3. ASSUME NEW r \in Requests, ReadFails(r) PROVE NumberTypes'
  BY <1>3 DEF ReadFails
<1>4. ASSUME NEW r \in Requests, Check(r) PROVE NumberTypes'
  BY <1>4 DEF Check
<1>5. ASSUME NEW r \in Requests, Lock(r) PROVE NumberTypes'
  BY <1>5 DEF Lock
<1>6. ASSUME NEW r \in Requests, LockFails(r) PROVE NumberTypes'
  BY <1>6 DEF LockFails
<1>7. ASSUME NEW r \in Requests, Recheck(r) PROVE NumberTypes'
  BY <1>7 DEF Recheck
<1>8. ASSUME NEW r \in Requests, RefreshSucceeds(r) PROVE NumberTypes'
  <2>1. local[r].gen \in Nat
    BY <1>8, StoreSteps, CredentialTypes DEF RefreshSucceeds, Refreshing
  <2>2. PICK g \in Nat : g = local[r].gen
    BY <2>1
  <2>3. /\ replayed' \subseteq replayed \cup {g} /\ consumed' \subseteq consumed \cup {g}
        /\ excused' \subseteq excused \cup {g} /\ issued' \in {issued, issued + 1}
        /\ UNCHANGED <<now, logins, visits, began>>
    BY <1>8, <2>2 DEF RefreshSucceeds, Presented, Rotate
  <2>4. issued' \in Nat
    BY <2>3
  <2>5. QED
    BY <2>3, <2>4
<1>9. ASSUME NEW r \in Requests, RefreshFails(r) PROVE NumberTypes'
  <2>1. local[r].gen \in Nat
    BY <1>9, StoreSteps, CredentialTypes DEF RefreshFails, Refreshing
  <2>2. PICK g \in Nat : g = local[r].gen
    BY <2>1
  <2>3. /\ replayed' \subseteq replayed \cup {g} /\ consumed' \subseteq consumed \cup {g}
        /\ excused' \subseteq excused \cup {g} /\ issued' \in {issued, issued + 1}
        /\ UNCHANGED <<now, logins, visits, began>>
    BY <1>9, <2>2 DEF RefreshFails, Presented, Rotate
  <2>4. issued' \in Nat
    BY <2>3
  <2>5. QED
    BY <2>3, <2>4
<1>10. ASSUME NEW r \in Requests, Commit(r) PROVE NumberTypes'
  BY <1>10 DEF Commit
<1>11. ASSUME NEW r \in Requests, CommitFails(r) PROVE NumberTypes'
  <2>1. current.gen \in Nat
    BY <1>11, StoreSteps, CredentialTypes DEF CommitFails, Refreshing
  <2>2. QED
    BY <1>11, <2>1 DEF CommitFails
<1>12. ASSUME NEW r \in Requests, ToAuth(r) PROVE NumberTypes'
  BY <1>12 DEF ToAuth
<1>13. ASSUME NEW r \in Requests, ToAuthFails(r) PROVE NumberTypes'
  BY <1>13 DEF ToAuthFails
<1>14. ASSUME NEW r \in Requests, Crash(r) PROVE NumberTypes'
  <2>1. pc[r] = "commit" => current.gen \in Nat
    BY <1>14, StoreSteps, CredentialTypes DEF Refreshing
  <2>2. QED
    BY <1>14, <2>1 DEF Crash
<1>15. ASSUME NEW errand \in {"login", "logout"}, Visit(errand) PROVE NumberTypes'
  BY <1>15 DEF Visit
<1>16. ASSUME Login PROVE NumberTypes'
  BY <1>16 DEF Login
<1>17. ASSUME Logout PROVE NumberTypes'
  BY <1>17 DEF Logout
<1>18. ASSUME VisitFails PROVE NumberTypes'
  BY <1>18 DEF VisitFails
<1>19. ASSUME Tick PROVE NumberTypes'
  BY <1>19 DEF Tick
<1>20. CASE UNCHANGED vars
  BY <1>20 DEF vars
<1>21. QED
  BY <1>1, <1>2, <1>3, <1>4, <1>5, <1>6, <1>7, <1>8, <1>9, <1>10, <1>11, <1>12, <1>13, <1>14,
     <1>15, <1>16, <1>17, <1>18, <1>19, <1>20 DEF Next, Step, Faults
-----------------------------------------------------------------------------
(* The lock, and what it protects                                          *)

\* What neither refreshes, stores nor logs in leaves the credential, the server
\* and who is about to commit as they are.
Quiet ==
    /\ current' = current /\ UNCHANGED <<server, logins>>
    /\ \A q \in Requests : pc'[q] = "commit" <=> pc[q] = "commit"

LEMMA QuietSteps ==
    ASSUME TypeOK, [Next]_vars
    PROVE  \/ Quiet \/ Login \/ Logout
           \/ \E r \in Requests : \/ RefreshSucceeds(r) \/ RefreshFails(r)
                                  \/ Commit(r) \/ CommitFails(r) \/ Crash(r)
<1> USE StoreSteps DEF TypeOK, RequestTypes, Quiet, Requesting, Environment, server, Goto, Use,
        Answer
<1>1. ASSUME NEW r \in Requests, Resolve(r) PROVE Quiet
  BY <1>1 DEF Resolve
<1>2. ASSUME NEW r \in Requests, Read(r) PROVE Quiet
  BY <1>2 DEF Read
<1>3. ASSUME NEW r \in Requests, ReadFails(r) PROVE Quiet
  BY <1>3 DEF ReadFails
<1>4. ASSUME NEW r \in Requests, Check(r) PROVE Quiet
  BY <1>4 DEF Check
<1>5. ASSUME NEW r \in Requests, Lock(r) PROVE Quiet
  BY <1>5 DEF Lock
<1>6. ASSUME NEW r \in Requests, LockFails(r) PROVE Quiet
  BY <1>6 DEF LockFails
<1>7. ASSUME NEW r \in Requests, Recheck(r) PROVE Quiet
  BY <1>7 DEF Recheck
<1>8. ASSUME NEW r \in Requests, ToAuth(r) PROVE Quiet
  BY <1>8 DEF ToAuth
<1>9. ASSUME NEW r \in Requests, ToAuthFails(r) PROVE Quiet
  BY <1>9 DEF ToAuthFails
<1>10. ASSUME NEW errand \in {"login", "logout"}, Visit(errand) PROVE Quiet
  BY <1>10 DEF Visit
<1>11. CASE VisitFails
  BY <1>11 DEF VisitFails
<1>12. CASE Tick
  BY <1>12 DEF Tick
<1>13. CASE UNCHANGED vars
  BY <1>13 DEF vars
<1>14. QED
  BY <1>1, <1>2, <1>3, <1>4, <1>5, <1>6, <1>7, <1>8, <1>9, <1>10, <1>11, <1>12, <1>13 DEF
     Next, Step, Faults

\* A request moves alone.
LEMMA Others ==
    ASSUME TypeOK, NEW r \in Requests, Resolve(r) \/ Step(r) \/ Faults(r)
    PROVE  /\ now' = now
           /\ \A q \in Requests \ {r} :
                 /\ pc'[q] = pc[q] /\ local'[q] = local[q]
                 /\ answer'[q] = answer[q] /\ began'[q] = began[q]
<1> USE DEF TypeOK, RequestTypes, NumberTypes, Environment, Goto, Use, Answer
<1>1. CASE Resolve(r)
  BY <1>1 DEF Resolve
<1>2. CASE Read(r)
  BY <1>2 DEF Read
<1>3. CASE ReadFails(r)
  BY <1>3 DEF ReadFails
<1>4. CASE Check(r)
  BY <1>4 DEF Check
<1>5. CASE Lock(r)
  BY <1>5 DEF Lock
<1>6. CASE LockFails(r)
  BY <1>6 DEF LockFails
<1>7. CASE Recheck(r)
  BY <1>7 DEF Recheck
<1>8. CASE RefreshSucceeds(r)
  BY <1>8 DEF RefreshSucceeds
<1>9. CASE RefreshFails(r)
  BY <1>9 DEF RefreshFails
<1>10. CASE Commit(r)
  BY <1>10 DEF Commit
<1>11. CASE CommitFails(r)
  BY <1>11 DEF CommitFails
<1>12. CASE ToAuth(r)
  BY <1>12 DEF ToAuth
<1>13. CASE ToAuthFails(r)
  BY <1>13 DEF ToAuthFails
<1>14. CASE Crash(r)
  BY <1>14 DEF Crash
<1>15. QED
  BY <1>1, <1>2, <1>3, <1>4, <1>5, <1>6, <1>7, <1>8, <1>9, <1>10, <1>11, <1>12, <1>13, <1>14
     DEF Step, Faults

\* The provider's lock follows the requests and the user through every step.
LEMMA LockedInductive ==
    ASSUME TypeOK, Locked, [Next]_vars
    PROVE  Locked'
<1> USE AuthAssumption, StoreSteps DEF TypeOK, Requesting, Environment, Goto, Answer,
        RequestTypes, Locked, Active
<1>1. ASSUME NEW r \in Requests, Resolve(r) PROVE Locked'
  BY <1>1 DEF Resolve
<1>2. ASSUME NEW r \in Requests, Read(r) PROVE Locked'
  BY <1>2 DEF Read
<1>3. ASSUME NEW r \in Requests, ReadFails(r) PROVE Locked'
  BY <1>3 DEF ReadFails
<1>4. ASSUME NEW r \in Requests, Check(r) PROVE Locked'
  BY <1>4 DEF Check
<1>5. ASSUME NEW r \in Requests, Lock(r) PROVE Locked'
  BY <1>5 DEF Lock
<1>6. ASSUME NEW r \in Requests, LockFails(r) PROVE Locked'
  BY <1>6 DEF LockFails
<1>7. ASSUME NEW r \in Requests, Recheck(r) PROVE Locked'
  <2>1. CASE pc'[r] = "refresh"
    BY <1>7, <2>1 DEF Recheck
  <2>2. CASE pc'[r] # "refresh"
    <3>1. pc'[r] \notin {"recheck", "refresh", "commit"} /\ \A q \in Requests \ {r} : pc'[q] = pc[q]
      BY <1>7, <2>2 DEF Recheck
    <3>2. holder = r /\ holder' = NoClient /\ UNCHANGED user
      BY <1>7, <2>2 DEF Recheck
    <3>3. QED
      BY <3>1, <3>2
  <2>3. QED
    BY <2>1, <2>2
<1>8. ASSUME NEW r \in Requests, RefreshSucceeds(r) PROVE Locked'
  BY <1>8 DEF RefreshSucceeds
<1>9. ASSUME NEW r \in Requests, RefreshFails(r) PROVE Locked'
  <2>1. pc'[r] \notin {"recheck", "refresh", "commit"} /\ \A q \in Requests \ {r} : pc'[q] = pc[q]
    BY <1>9 DEF RefreshFails
  <2>2. holder = r /\ holder' = NoClient /\ UNCHANGED user
    BY <1>9 DEF RefreshFails
  <2>3. QED
    BY <2>1, <2>2
<1>10. ASSUME NEW r \in Requests, Commit(r) PROVE Locked'
  <2>1. pc'[r] \notin {"recheck", "refresh", "commit"} /\ \A q \in Requests \ {r} : pc'[q] = pc[q]
    BY <1>10 DEF Commit
  <2>2. holder = r /\ holder' = NoClient /\ UNCHANGED user
    BY <1>10 DEF Commit
  <2>3. QED
    BY <2>1, <2>2
<1>11. ASSUME NEW r \in Requests, CommitFails(r) PROVE Locked'
  <2>1. pc'[r] \notin {"recheck", "refresh", "commit"} /\ \A q \in Requests \ {r} : pc'[q] = pc[q]
    BY <1>11 DEF CommitFails
  <2>2. holder = r /\ holder' = NoClient /\ UNCHANGED user
    BY <1>11 DEF CommitFails
  <2>3. QED
    BY <2>1, <2>2
<1>12. ASSUME NEW r \in Requests, ToAuth(r) PROVE Locked'
  BY <1>12 DEF ToAuth
<1>13. ASSUME NEW r \in Requests, ToAuthFails(r) PROVE Locked'
  BY <1>13 DEF ToAuthFails
<1>14. ASSUME NEW r \in Requests, Crash(r) PROVE Locked'
  <2>1. pc'[r] = "done" /\ UNCHANGED user /\ \A q \in Requests \ {r} : pc'[q] = pc[q]
    BY <1>14 DEF Crash
  <2>2. CASE holder = r
    <3>1. holder' = NoClient
      BY <1>14, <2>2 DEF Crash, holder
    <3>2. QED
      BY <2>1, <2>2, <3>1
  <2>3. CASE holder # r
    <3>1. holder' = holder
      BY <1>14, <2>3 DEF Crash, holder, store
    <3>2. QED
      BY <2>1, <2>3, <3>1
  <2>4. QED
    BY <2>2, <2>3
<1>15. ASSUME NEW errand \in {"login", "logout"}, Visit(errand) PROVE Locked'
  BY <1>15 DEF Visit
<1>16. ASSUME Login PROVE Locked'
  <2>1. holder = User /\ holder' = NoClient /\ user' = "away" /\ UNCHANGED pc
    BY <1>16, CredentialTypes DEF Login, NumberTypes
  <2>2. QED
    BY <2>1
<1>17. ASSUME Logout PROVE Locked'
  <2>1. holder = User /\ holder' = NoClient /\ user' = "away" /\ UNCHANGED pc
    BY <1>17, CredentialTypes DEF Logout, NumberTypes
  <2>2. QED
    BY <2>1
<1>18. ASSUME VisitFails PROVE Locked'
  BY <1>18 DEF VisitFails
<1>19. ASSUME Tick PROVE Locked'
  BY <1>19 DEF Tick
<1>20. CASE UNCHANGED vars
  BY <1>20 DEF vars
<1>21. QED
  BY <1>1, <1>2, <1>3, <1>4, <1>5, <1>6, <1>7, <1>8, <1>9, <1>10, <1>11, <1>12, <1>13, <1>14,
     <1>15, <1>16, <1>17, <1>18, <1>19, <1>20 DEF Next, Step, Faults

\* Numbers only grow.
LEMMA NumberedInductive ==
    ASSUME TypeOK, Locked, Numbered, Refreshing, [Next]_vars
    PROVE  Numbered'
<1> USE AuthAssumption, StoreSteps DEF TypeOK, Requesting, Environment, server, Goto, Use,
        Answer, RequestTypes, Numbered
<1>1. ASSUME Quiet PROVE Numbered'
  BY <1>1 DEF Quiet
<1>2. ASSUME NEW r \in Requests, RefreshSucceeds(r) PROVE Numbered'
  <2>1. /\ current' = current /\ UNCHANGED logins /\ issued' \in {issued, issued + 1}
        /\ consumed' = consumed \/ consumed' = consumed \cup {current.gen}
    BY <1>2, Refresher DEF RefreshSucceeds, Rotate
  <2>2. IsOAuth(current) /\ current.gen \in Nat
    BY <1>2, Refresher DEF RefreshSucceeds
  <2>3. issued \in Nat /\ consumed \subseteq Nat /\ current.gen <= issued
    BY <2>2 DEF NumberTypes
  <2>4. ASSUME NEW g \in consumed'
        PROVE  g <= issued'
    <3>1. g \in Nat /\ g <= issued
      BY <2>1, <2>2, <2>3
    <3>2. QED
      BY <2>1, <2>3, <3>1
  <2>5. current.gen <= issued'
    BY <2>1, <2>2, <2>3
  <2>6. QED
    BY <2>1, <2>4, <2>5
<1>3. ASSUME NEW r \in Requests, RefreshFails(r) PROVE Numbered'
  <2>1. /\ current' = current /\ UNCHANGED logins /\ issued' \in {issued, issued + 1}
        /\ consumed' = consumed \/ consumed' = consumed \cup {current.gen}
    BY <1>3, Refresher DEF RefreshFails, Rotate
  <2>2. IsOAuth(current) /\ current.gen \in Nat
    BY <1>3, Refresher DEF RefreshFails
  <2>3. issued \in Nat /\ consumed \subseteq Nat /\ current.gen <= issued
    BY <2>2 DEF NumberTypes
  <2>4. ASSUME NEW g \in consumed'
        PROVE  g <= issued'
    <3>1. g \in Nat /\ g <= issued
      BY <2>1, <2>2, <2>3
    <3>2. QED
      BY <2>1, <2>3, <3>1
  <2>5. current.gen <= issued'
    BY <2>1, <2>2, <2>3
  <2>6. QED
    BY <2>1, <2>4, <2>5
<1>4. ASSUME NEW r \in Requests, Commit(r) PROVE Numbered'
  <2>1. current' = local[r] /\ UNCHANGED <<logins, issued, consumed>>
    BY <1>4 DEF Commit
  <2>2. local[r].gen <= issued /\ local[r].session = current.session /\ IsOAuth(current)
    BY <1>4 DEF Commit, Refreshing
  <2>3. QED
    BY <2>1, <2>2 DEF IsOAuth
<1>5. ASSUME NEW r \in Requests, CommitFails(r) PROVE Numbered'
  BY <1>5 DEF CommitFails
<1>6. ASSUME NEW r \in Requests, Crash(r) PROVE Numbered'
  BY <1>6 DEF Crash
<1>7. ASSUME Login PROVE Numbered'
  <2>1. /\ UNCHANGED consumed /\ logins' = logins + 1 /\ current'.session = logins'
        /\ issued' \in {issued, issued + 1}
        /\ IsOAuth(current') => current'.gen = issued'
    BY <1>7, LoginStores
  <2>2. issued \in Nat /\ consumed \subseteq Nat /\ logins' \in Nat /\ issued' \in Nat
    BY <2>1 DEF NumberTypes
  <2>3. \A g \in consumed' : g <= issued'
    BY <2>1, <2>2
  <2>4. /\ IsOAuth(current') => current'.gen <= issued'
        /\ current'.session <= logins'
    BY <2>1, <2>2
  <2>5. QED
    BY <2>3, <2>4
<1>8. ASSUME Logout PROVE Numbered'
  <2>1. current' = NoCredential /\ UNCHANGED <<logins, issued, consumed>>
    BY <1>8, CredentialTypes DEF Logout
  <2>2. QED
    BY <2>1 DEF IsOAuth
<1>9. QED
  BY QuietSteps, <1>1, <1>2, <1>3, <1>4, <1>5, <1>6, <1>7, <1>8

\* Nobody changes what a refreshing request works with: it holds the provider.
LEMMA RefreshingInductive ==
    ASSUME TypeOK, Locked, Numbered, Refreshing, [Next]_vars
    PROVE  Refreshing'
<1> USE AuthAssumption, StoreSteps DEF TypeOK, Requesting, Environment, server, Goto, Use,
        Answer, RequestTypes, Refreshing, Locked
<1>1. ASSUME NEW r \in Requests, Resolve(r) PROVE Refreshing'
  BY <1>1 DEF Resolve
<1>2. ASSUME NEW r \in Requests, Read(r) PROVE Refreshing'
  BY <1>2 DEF Read
<1>3. ASSUME NEW r \in Requests, ReadFails(r) PROVE Refreshing'
  BY <1>3 DEF ReadFails
<1>4. ASSUME NEW r \in Requests, Check(r) PROVE Refreshing'
  BY <1>4 DEF Check
<1>5. ASSUME NEW r \in Requests, Lock(r) PROVE Refreshing'
  BY <1>5 DEF Lock
<1>6. ASSUME NEW r \in Requests, LockFails(r) PROVE Refreshing'
  BY <1>6 DEF LockFails
<1>7. ASSUME NEW r \in Requests, Recheck(r) PROVE Refreshing'
  BY <1>7 DEF Recheck
<1>8. ASSUME NEW r \in Requests, RefreshSucceeds(r) PROVE Refreshing'
  <2>1. IsOAuth(current) /\ local[r] = current /\ current \in Tokens /\ current' = current
    BY <1>8, Refresher DEF RefreshSucceeds
  <2>2. \A q \in Requests : pc[q] \notin {"refresh", "commit"} \/ q = r
    BY <1>8 DEF RefreshSucceeds
  <2>3. /\ pc'[r] = "commit" /\ \A q \in Requests \ {r} : pc'[q] = pc[q]
        /\ local'[r] = OAuthCredential(issued + 1, current.session)
        /\ consumed' = consumed \cup {current.gen} /\ issued' = issued + 1
    BY <1>8, <2>1 DEF RefreshSucceeds, Rotate
  <2>4. current.gen \in Nat /\ current.session \in Nat
    BY <2>1, CredentialTypes
  <2>5. local'[r] \in Tokens /\ local'[r].gen = issued + 1 /\ local'[r].session = current.session
    BY <2>3, <2>4, CredentialTypes, TokenFields DEF NumberTypes
  <2>6. local'[r].gen \notin consumed' /\ local'[r].gen <= issued'
    BY <2>1, <2>3, <2>4, <2>5 DEF Numbered, NumberTypes
  <2>7. QED
    BY <2>1, <2>2, <2>3, <2>5, <2>6
<1>9. ASSUME NEW r \in Requests, RefreshFails(r) PROVE Refreshing'
  BY <1>9 DEF RefreshFails
<1>10. ASSUME NEW r \in Requests, Commit(r) PROVE Refreshing'
  BY <1>10 DEF Commit
<1>11. ASSUME NEW r \in Requests, CommitFails(r) PROVE Refreshing'
  BY <1>11 DEF CommitFails
<1>12. ASSUME NEW r \in Requests, ToAuth(r) PROVE Refreshing'
  BY <1>12 DEF ToAuth
<1>13. ASSUME NEW r \in Requests, ToAuthFails(r) PROVE Refreshing'
  BY <1>13 DEF ToAuthFails
<1>14. ASSUME NEW r \in Requests, Crash(r) PROVE Refreshing'
  BY <1>14 DEF Crash
<1>15. ASSUME NEW errand \in {"login", "logout"}, Visit(errand) PROVE Refreshing'
  BY <1>15 DEF Visit
<1>16. ASSUME Login PROVE Refreshing'
  BY <1>16 DEF Login
<1>17. ASSUME Logout PROVE Refreshing'
  BY <1>17 DEF Logout
<1>18. ASSUME VisitFails PROVE Refreshing'
  BY <1>18 DEF VisitFails
<1>19. ASSUME Tick PROVE Refreshing'
  BY <1>19 DEF Tick
<1>20. CASE UNCHANGED vars
  BY <1>20 DEF vars
<1>21. QED
  BY <1>1, <1>2, <1>3, <1>4, <1>5, <1>6, <1>7, <1>8, <1>9, <1>10, <1>11, <1>12, <1>13, <1>14,
     <1>15, <1>16, <1>17, <1>18, <1>19, <1>20 DEF Next, Step, Faults

\* The stored token stays good: it is replaced before the provider is released.
LEMMA HonouredInductive ==
    ASSUME TypeOK, Locked, Numbered, Refreshing, Honoured, [Next]_vars
    PROVE  Honoured'
<1> USE AuthAssumption, StoreSteps DEF TypeOK, Requesting, Environment, server, Goto, Answer,
        RequestTypes, Honoured
<1>1. ASSUME Quiet PROVE Honoured'
  BY <1>1 DEF Quiet
<1>2. ASSUME NEW r \in Requests, RefreshSucceeds(r) PROVE Honoured'
  BY <1>2 DEF RefreshSucceeds
<1>3. ASSUME NEW r \in Requests, RefreshFails(r) PROVE Honoured'
  <2>1. /\ IsOAuth(current) /\ local[r] = current /\ current' = current
        /\ \A q \in Requests : pc[q] # "commit"
    BY <1>3, Refresher DEF RefreshFails
  <2>2. \/ UNCHANGED <<consumed, excused>>
        \/ consumed' = consumed \cup {current.gen} /\ excused' = excused \cup {current.gen}
    BY <1>3, <2>1 DEF RefreshFails, Rotate
  <2>3. QED
    BY <2>1, <2>2
<1>4. ASSUME NEW r \in Requests, Commit(r) PROVE Honoured'
  <2>1. current' = local[r] /\ UNCHANGED consumed
    BY <1>4 DEF Commit
  <2>2. local[r].gen \notin consumed
    BY <1>4 DEF Commit, Refreshing
  <2>3. QED
    BY <2>1, <2>2
<1>5. ASSUME NEW r \in Requests, CommitFails(r) PROVE Honoured'
  BY <1>5 DEF CommitFails
<1>6. ASSUME NEW r \in Requests, Crash(r) PROVE Honoured'
  BY <1>6 DEF Crash
<1>7. ASSUME Login PROVE Honoured'
  <2>1. IsOAuth(current') => current'.gen = issued + 1 /\ UNCHANGED consumed
    BY <1>7, LoginStores
  <2>2. issued + 1 \notin consumed
    BY DEF Numbered, NumberTypes
  <2>3. QED
    BY <2>1, <2>2
<1>8. ASSUME Logout PROVE Honoured'
  <2>1. current' = NoCredential
    BY <1>8, CredentialTypes DEF Logout
  <2>2. QED
    BY <2>1 DEF IsOAuth
<1>9. QED
  BY QuietSteps, <1>1, <1>2, <1>3, <1>4, <1>5, <1>6, <1>7, <1>8

\* Only a token whose successor was lost is presented again.
LEMMA ReplayInductive ==
    ASSUME TypeOK, Locked, Refreshing, Honoured, NoDoubleRefresh, [Next]_vars
    PROVE  NoDoubleRefresh'
<1> USE AuthAssumption, StoreSteps DEF TypeOK, Requesting, Environment, server, NoDoubleRefresh
<1>1. ASSUME Quiet PROVE NoDoubleRefresh'
  BY <1>1 DEF Quiet
<1>2. ASSUME NEW r \in Requests, RefreshSucceeds(r) PROVE NoDoubleRefresh'
  BY <1>2 DEF RefreshSucceeds, Presented, Rotate
<1>3. ASSUME NEW r \in Requests, RefreshFails(r) PROVE NoDoubleRefresh'
  <2>1. local[r] = current /\ (current.gen \in consumed => current.gen \in excused)
    BY <1>3, Refresher DEF RefreshFails, Honoured
  <2>2. QED
    BY <1>3, <2>1 DEF RefreshFails, Presented
<1>4. ASSUME NEW r \in Requests, Commit(r) PROVE NoDoubleRefresh'
  BY <1>4 DEF Commit
<1>5. ASSUME NEW r \in Requests, CommitFails(r) PROVE NoDoubleRefresh'
  BY <1>5 DEF CommitFails
<1>6. ASSUME NEW r \in Requests, Crash(r) PROVE NoDoubleRefresh'
  BY <1>6 DEF Crash
<1>7. ASSUME Login PROVE NoDoubleRefresh'
  BY <1>7 DEF Login
<1>8. ASSUME Logout PROVE NoDoubleRefresh'
  BY <1>8 DEF Logout
<1>9. QED
  BY QuietSteps, <1>1, <1>2, <1>3, <1>4, <1>5, <1>6, <1>7, <1>8

-----------------------------------------------------------------------------
(* The answers                                                             *)

\* What a request works with is what it saw stored, and still good when it
\* looked.
LEMMA WitnessedInductive ==
    ASSUME TypeOK, Locked, Refreshing, Witnessed, [Next]_vars
    PROVE  Witnessed'
<1> USE AuthAssumption DEF vars, Requesting, Environment, server, Goto, Use, Answer
<1>1. ASSUME NEW r \in Requests, Resolve(r), Witness PROVE WitnessOf(r)'
  <2>1. began'[r] = now /\ now' = now /\ now \in Nat /\ pc'[r] \in {"read", "done"}
    BY <1>1, StoreSteps, DuringGrows DEF Resolve, NumberTypes, TypeOK, RequestTypes,
       Witnessed, WitnessOf
  <2>2. pc'[r] # "done" => answer'[r].source = "none yet"
    BY <1>1, StoreSteps, DuringGrows DEF Resolve, TypeOK, RequestTypes, Witnessed, WitnessOf
  <2>3. began'[r] <= now'
    BY <2>1, Outlives
  <2>4. QED
    BY <2>1, <2>2, <2>3 DEF WitnessOf, TypeOK
<1>2. ASSUME NEW r \in Requests, Read(r), Witness PROVE WitnessOf(r)'
  <2>1. /\ began'[r] <= now'
        /\ pc'[r] # "done" => answer'[r].source = "none yet"
    BY <1>2, StoreSteps, DuringGrows DEF Read, TypeOK, RequestTypes, Witnessed, WitnessOf
  <2>2. CASE Goto(r, "check") /\ Use(r, current) /\ IsOAuth(current)
    <3>1. current \in Tokens
      BY <2>2, CredentialTypes, StoreSteps DEF WitnessOf, TypeOK
    <3>2. local'[r] \in during'[r] /\ local'[r] = current /\ pc'[r] = "check"
      BY <1>2, StoreSteps, DuringGrows, <2>2 DEF Read, TypeOK, RequestTypes, Witnessed,
         WitnessOf
    <3>3. QED
      BY <2>1, <3>1, <3>2 DEF WitnessOf, TypeOK
  <2>3. CASE pc'[r] = "done"
    BY <2>1, <2>3 DEF WitnessOf, TypeOK
  <2>4. QED
    BY <1>2, StoreSteps, DuringGrows, <2>2, <2>3 DEF Read, TypeOK, RequestTypes, Witnessed,
       WitnessOf
<1>3. ASSUME NEW r \in Requests, ReadFails(r), Witness PROVE WitnessOf(r)'
  BY <1>3, StoreSteps, DuringGrows DEF ReadFails, TypeOK, RequestTypes, Witnessed, WitnessOf
<1>4. ASSUME NEW r \in Requests, Check(r), Witness PROVE WitnessOf(r)'
  <2>1. /\ began'[r] = began[r] /\ now' = now /\ local'[r] = local[r] /\ answer'[r] = answer[r]
        /\ pc'[r] = "lock" \/ (pc'[r] = "to auth" /\ ~(now >= local[r].expires))
    BY <1>4, StoreSteps, DuringGrows DEF Check, TypeOK, RequestTypes, Witnessed, WitnessOf
  <2>2. local[r].expires \in Nat /\ began[r] \in Nat /\ now \in Nat
    BY <1>4, StoreSteps, DuringGrows, CredentialTypes DEF Check, NumberTypes, TypeOK,
       RequestTypes, Witnessed, WitnessOf
  <2>3. began[r] <= now
    BY <1>4 DEF Check, Witnessed, WitnessOf
  <2>4. pc'[r] = "to auth" => local'[r].expires > began'[r]
    BY Outlives, <2>1, <2>2, <2>3
  <2>5. QED
    BY <1>4, StoreSteps, DuringGrows, <2>1, <2>3, <2>4 DEF Check, TypeOK, RequestTypes,
       Witnessed, WitnessOf
<1>5. ASSUME NEW r \in Requests, Lock(r), Witness PROVE WitnessOf(r)'
  BY <1>5, StoreSteps, DuringGrows DEF Lock, TypeOK, RequestTypes, Witnessed, WitnessOf
<1>6. ASSUME NEW r \in Requests, LockFails(r), Witness PROVE WitnessOf(r)'
  BY <1>6, StoreSteps, DuringGrows DEF LockFails, TypeOK, RequestTypes, Witnessed, WitnessOf
<1>7. ASSUME NEW r \in Requests, Recheck(r), Witness PROVE WitnessOf(r)'
  <2>1. /\ began'[r] = began[r] /\ began[r] <= now'
        /\ pc'[r] # "done" => answer'[r].source = "none yet"
    BY <1>7, StoreSteps, DuringGrows DEF Recheck, TypeOK, RequestTypes, Witnessed, WitnessOf
  <2>2. CASE Goto(r, "to auth") /\ Use(r, current) /\ IsOAuth(current) /\ now < current.expires
    <3>1. current \in Tokens /\ current.expires \in Nat /\ began[r] \in Nat /\ now \in Nat
      BY <2>2, CredentialTypes, StoreSteps DEF NumberTypes, WitnessOf, TypeOK
    <3>2. local'[r] \in during'[r] /\ local'[r] = current /\ pc'[r] = "to auth" /\ now' = now
      BY <1>7, StoreSteps, DuringGrows, <2>2 DEF Recheck, TypeOK, RequestTypes, Witnessed,
         WitnessOf
    <3>3. local'[r].expires > began'[r]
      BY Outlives, <2>1, <2>2, <3>1, <3>2
    <3>4. QED
      BY <2>1, <3>1, <3>2, <3>3 DEF WitnessOf, TypeOK
  <2>3. CASE pc'[r] \in {"done", "refresh"}
    BY <2>1, <2>3 DEF WitnessOf, TypeOK
  <2>4. QED
    BY <1>7, StoreSteps, DuringGrows, <2>2, <2>3 DEF Recheck, TypeOK, RequestTypes,
       Witnessed, WitnessOf
<1>8. ASSUME NEW r \in Requests, RefreshSucceeds(r), Witness PROVE WitnessOf(r)'
  <2>1. /\ began'[r] = began[r] /\ now' = now /\ began[r] <= now /\ pc'[r] = "commit"
        /\ answer'[r].source = "none yet"
    BY <1>8, StoreSteps, DuringGrows DEF RefreshSucceeds, TypeOK, RequestTypes, Witnessed,
       WitnessOf
  <2>2. PICK g, s : local'[r] = OAuthCredential(g, s)
    BY <1>8, StoreSteps, DuringGrows DEF RefreshSucceeds, TypeOK, RequestTypes, Witnessed,
       WitnessOf
  <2>3. local'[r].expires = now + Lifetime
    BY <2>2 DEF OAuthCredential
  <2>4. local'[r].expires > began'[r]
    BY Outlives, <2>1, <2>3 DEF TypeOK, NumberTypes
  <2>5. QED
    BY <2>1, <2>4 DEF WitnessOf, TypeOK
<1>9. ASSUME NEW r \in Requests, RefreshFails(r), Witness PROVE WitnessOf(r)'
  BY <1>9, StoreSteps, DuringGrows DEF RefreshFails, TypeOK, RequestTypes, Witnessed, WitnessOf
<1>10. ASSUME NEW r \in Requests, Commit(r), Witness PROVE WitnessOf(r)'
  <2>1. /\ began'[r] = began[r] /\ now' = now /\ pc'[r] = "to auth" /\ answer' = answer
        /\ local' = local /\ current' = local[r]
    BY <1>10, StoreSteps, DuringGrows DEF Commit, TypeOK, RequestTypes, Witnessed, WitnessOf
  <2>2. local[r] \in Tokens /\ local[r].expires > began[r]
    BY <1>10, StoreSteps, DuringGrows DEF Commit, Refreshing, TypeOK, RequestTypes,
       Witnessed, WitnessOf
  <2>3. current' \in during'[r]
    BY <1>10, StoreSteps, DuringGrows, <2>1 DEF Commit, TypeOK, RequestTypes, Witnessed,
       WitnessOf
  <2>4. QED
    BY <1>10, StoreSteps, DuringGrows, <2>1, <2>2, <2>3 DEF Commit, TypeOK, RequestTypes,
       Witnessed, WitnessOf
<1>11. ASSUME NEW r \in Requests, CommitFails(r), Witness PROVE WitnessOf(r)'
  BY <1>11, StoreSteps, DuringGrows DEF CommitFails, TypeOK, RequestTypes, Witnessed, WitnessOf
<1>12. ASSUME NEW r \in Requests, ToAuth(r), Witness PROVE WitnessOf(r)'
  BY <1>12, StoreSteps, DuringGrows DEF ToAuth, TypeOK, RequestTypes, Witnessed, WitnessOf
<1>13. ASSUME NEW r \in Requests, ToAuthFails(r), Witness PROVE WitnessOf(r)'
  BY <1>13, StoreSteps, DuringGrows DEF ToAuthFails, TypeOK, RequestTypes, Witnessed, WitnessOf
<1>14. ASSUME NEW r \in Requests, Crash(r), Witness PROVE WitnessOf(r)'
  BY <1>14, StoreSteps, DuringGrows DEF Crash, Active, TypeOK, RequestTypes, Witnessed,
     WitnessOf
<1>15. ASSUME NEW r \in Requests, Resolve(r) \/ Step(r) \/ Faults(r), Witness
       PROVE  Witnessed'
  <2>1. WitnessOf(r)'
    BY <1>15, <1>1, <1>2, <1>3, <1>4, <1>5, <1>6, <1>7, <1>8, <1>9, <1>10, <1>11, <1>12,
       <1>13, <1>14 DEF Step, Faults
  <2>2. ASSUME NEW q \in Requests \ {r} PROVE WitnessOf(q)'
    BY <1>15, Others, DuringGrows DEF Witnessed, WitnessOf
  <2>3. QED
    BY <2>1, <2>2 DEF Witnessed, WitnessOf
<1>16. CASE UNCHANGED <<pc, local, answer, began, now>> /\ Witness
  BY <1>16, DuringGrows DEF Witnessed, WitnessOf
<1>17. CASE Tick /\ Witness
  <2>1. /\ UNCHANGED <<pc, local, answer, began>> /\ now' = now + 1
    BY <1>17, StoreSteps, DuringGrows DEF Tick, TypeOK, RequestTypes, Witnessed, WitnessOf
  <2>2. ASSUME NEW q \in Requests
        PROVE  WitnessOf(q)'
    <3>1. began[q] \in Nat /\ now \in Nat
      BY DEF TypeOK, NumberTypes
    <3>2. pc[q] # "idle" => began[q] <= now
      BY DEF Witnessed, WitnessOf
    <3>3. pc[q] # "idle" => began[q] <= now'
      BY <2>1, <3>1, <3>2, Outlives
    <3>4. WitnessOf(q)
      BY DEF Witnessed, WitnessOf, TypeOK
    <3>5. during[q] \subseteq during'[q]
      BY <1>17, DuringGrows
    <3>6. QED
      BY <2>1, <3>3, <3>4, <3>5 DEF WitnessOf, TypeOK
  <2>3. QED
    BY <2>2 DEF Witnessed, WitnessOf, TypeOK
<1>18. CASE UNCHANGED vars
  BY <1>18 DEF vars, Witnessed, WitnessOf
<1>19. ASSUME NEW errand \in {"login", "logout"},
              Visit(errand) \/ Login \/ Logout \/ VisitFails
       PROVE  UNCHANGED <<pc, local, answer, began, now>>
  BY <1>19 DEF Visit, Login, Logout, VisitFails, Requesting
<1>20. QED
  BY <1>15, <1>16, <1>17, <1>18, <1>19 DEF Next

\* An answer is what the request worked with.
LEMMA AnswersInductive ==
    ASSUME TypeOK, Locked, Refreshing, Witnessed, AnswersWereStored, [Next]_vars
    PROVE  AnswersWereStored'
<1> USE AuthAssumption DEF TypeOK, Requesting, Environment, server, Goto, Use, Answer,
        RequestTypes, AnswersWereStored, AnswerOf
<1>1. ASSUME NEW r \in Requests, Resolve(r), Witness PROVE AnswerOf(r)'
  <2>1. answer[r].source = "none yet"
    BY <1>1 DEF Resolve, Witnessed, WitnessOf
  <2>2. CASE Answer(r, "override", NoCredential)
    <3>1. answer'[r].source = "override"
      BY <2>2
    <3>2. QED
      BY <3>1
  <2>3. CASE UNCHANGED answer
    BY <2>1, <2>3
  <2>4. QED
    BY <1>1, <2>2, <2>3 DEF Resolve
<1>2. ASSUME NEW r \in Requests, Read(r), Witness PROVE AnswerOf(r)'
  <2>1. CASE pc'[r] = "check"
    BY <1>2, StoreSteps, DuringGrows, <2>1 DEF Read, Witnessed, WitnessOf
  <2>2. CASE pc'[r] = "done"
    <3>1. current \in during'[r]
      BY <1>2, StoreSteps, DuringGrows, <2>2 DEF Read
    <3>2. CASE Answer(r, "none", NoCredential)
      <4>1. answer'[r].source = "none"
        BY <3>2
      <4>2. QED
        BY <4>1
    <3>3. CASE Answer(r, "api key", current)
      <4>1. answer'[r].source = "api key" /\ answer'[r].cred = current
        BY <3>3
      <4>2. QED
        BY <3>1, <4>1
    <3>4. CASE Answer(r, "ambient", NoCredential) /\ current = NoCredential
      <4>1. answer'[r].source = "ambient" /\ answer'[r].cred = current
        BY <3>4
      <4>2. QED
        BY <3>1, <4>1
    <3>5. QED
      BY <1>2, <2>2, <3>2, <3>3, <3>4 DEF Read
  <2>3. QED
    BY <1>2, StoreSteps, DuringGrows, <2>1, <2>2 DEF Read
<1>3. ASSUME NEW r \in Requests, ReadFails(r), Witness PROVE AnswerOf(r)'
  BY <1>3, StoreSteps, DuringGrows DEF ReadFails
<1>4. ASSUME NEW r \in Requests, Check(r), Witness PROVE AnswerOf(r)'
  BY <1>4, StoreSteps, DuringGrows DEF Check
<1>5. ASSUME NEW r \in Requests, Lock(r), Witness PROVE AnswerOf(r)'
  BY <1>5, StoreSteps, DuringGrows DEF Lock
<1>6. ASSUME NEW r \in Requests, LockFails(r), Witness PROVE AnswerOf(r)'
  BY <1>6, StoreSteps, DuringGrows DEF LockFails
<1>7. ASSUME NEW r \in Requests, Recheck(r), Witness PROVE AnswerOf(r)'
  <2>1. answer[r].source = "none yet"
    BY <1>7 DEF Recheck, Witnessed, WitnessOf
  <2>2. CASE Answer(r, "none", NoCredential)
    <3>1. answer'[r].source = "none"
      BY <2>2
    <3>2. QED
      BY <3>1
  <2>3. CASE UNCHANGED answer
    BY <2>1, <2>3
  <2>4. QED
    BY <1>7, <2>2, <2>3 DEF Recheck
<1>8. ASSUME NEW r \in Requests, RefreshSucceeds(r), Witness PROVE AnswerOf(r)'
  BY <1>8, StoreSteps, DuringGrows DEF RefreshSucceeds
<1>9. ASSUME NEW r \in Requests, RefreshFails(r), Witness PROVE AnswerOf(r)'
  BY <1>9, StoreSteps, DuringGrows DEF RefreshFails
<1>10. ASSUME NEW r \in Requests, Commit(r), Witness PROVE AnswerOf(r)'
  BY <1>10, StoreSteps, DuringGrows DEF Commit
<1>11. ASSUME NEW r \in Requests, CommitFails(r), Witness PROVE AnswerOf(r)'
  BY <1>11, StoreSteps, DuringGrows DEF CommitFails
<1>12. ASSUME NEW r \in Requests, ToAuth(r), Witness PROVE AnswerOf(r)'
  <2>1. local[r] \in during'[r] /\ local[r].expires > began[r]
    BY <1>12, StoreSteps, DuringGrows DEF ToAuth, Witnessed, WitnessOf
  <2>2. answer'[r].cred = local[r] /\ began' = began
    BY <1>12, StoreSteps, DuringGrows DEF ToAuth
  <2>3. QED
    BY <2>1, <2>2
<1>13. ASSUME NEW r \in Requests, ToAuthFails(r), Witness PROVE AnswerOf(r)'
  BY <1>13, StoreSteps, DuringGrows DEF ToAuthFails
<1>14. ASSUME NEW r \in Requests, Crash(r), Witness PROVE AnswerOf(r)'
  BY <1>14, StoreSteps, DuringGrows DEF Crash
<1>15. ASSUME NEW r \in Requests, Resolve(r) \/ Step(r) \/ Faults(r), Witness
       PROVE  AnswersWereStored'
  <2>1. AnswerOf(r)'
    BY <1>15, <1>1, <1>2, <1>3, <1>4, <1>5, <1>6, <1>7, <1>8, <1>9, <1>10, <1>11, <1>12,
       <1>13, <1>14 DEF Step, Faults
  <2>2. ASSUME NEW q \in Requests \ {r} PROVE AnswerOf(q)'
    BY <1>15, Others, DuringGrows DEF AnswersWereStored, AnswerOf
  <2>3. QED
    BY <2>1, <2>2 DEF AnswersWereStored, AnswerOf
<1>16. CASE UNCHANGED <<pc, local, answer, began, now>> /\ Witness
  BY <1>16, DuringGrows DEF AnswersWereStored, AnswerOf
<1>17. CASE Tick /\ Witness
  BY <1>17, DuringGrows DEF Tick, Requesting, AnswersWereStored, AnswerOf
<1>18. CASE UNCHANGED vars
  BY <1>18 DEF vars, AnswersWereStored, AnswerOf
<1>19. ASSUME NEW errand \in {"login", "logout"},
              Visit(errand) \/ Login \/ Logout \/ VisitFails
       PROVE  UNCHANGED <<pc, local, answer, began, now>>
  BY <1>19 DEF Visit, Login, Logout, VisitFails, Requesting
<1>20. QED
  BY <1>15, <1>16, <1>17, <1>18, <1>19 DEF Next

-----------------------------------------------------------------------------
(* The sessions                                                            *)

\* Only a login starts a session; a commit keeps the session it refreshed.
LEMMA StepsForward ==
    ASSUME TypeOK, Locked, Numbered, Refreshing, [Next]_vars
    PROVE  Forward
<1> USE AuthAssumption, StoreSteps DEF TypeOK, store
<1>1. ASSUME Quiet PROVE Forward
  BY <1>1, KeptSession DEF Quiet
<1>2. ASSUME NEW r \in Requests, RefreshSucceeds(r) PROVE Forward
  <2>1. current' = current
    BY <1>2 DEF RefreshSucceeds
  <2>2. QED
    BY <2>1, KeptSession
<1>3. ASSUME NEW r \in Requests, RefreshFails(r) PROVE Forward
  <2>1. current' = current
    BY <1>3 DEF RefreshFails
  <2>2. QED
    BY <2>1, KeptSession
<1>4. ASSUME NEW r \in Requests, Commit(r) PROVE Forward
  <2>1. current' = local[r] /\ IsOAuth(current) /\ local[r].session = current.session
    BY <1>4 DEF Commit, Refreshing, RequestTypes
  <2>2. current.session \in Nat
    BY <2>1, CredentialTypes
  <2>3. QED
    BY <2>1, <2>2 DEF Forward, IsOAuth
<1>5. ASSUME NEW r \in Requests, CommitFails(r) PROVE Forward
  <2>1. current' = current
    BY <1>5 DEF CommitFails
  <2>2. QED
    BY <2>1, KeptSession
<1>6. ASSUME NEW r \in Requests, Crash(r) PROVE Forward
  <2>1. current' = current
    BY <1>6 DEF Crash
  <2>2. QED
    BY <2>1, KeptSession
<1>7. ASSUME Login PROVE Forward
  <2>1. current'.session = logins + 1 /\ logins \in Nat
    BY <1>7, LoginStores DEF NumberTypes
  <2>2. current # NoCredential => current.session \in Nat /\ current.session <= logins
    BY DEF Numbered, Stored, Tokens, Keys
  <2>3. QED
    BY <2>1, <2>2 DEF Forward
<1>8. ASSUME Logout PROVE Forward
  <2>1. current' = NoCredential
    BY <1>8, CredentialTypes DEF Logout
  <2>2. QED
    BY <2>1 DEF Forward
<1>9. QED
  BY QuietSteps, <1>1, <1>2, <1>3, <1>4, <1>5, <1>6, <1>7, <1>8

-----------------------------------------------------------------------------
(* The inductive invariant                                                 *)

LEMMA InitIInv ==
    ASSUME Init
    PROVE  IInv
<1>1. StoreTypes
  BY AuthAssumption DEF Init, StoreTypes, Stored, Tokens, Keys, OAuthCredential,
     APIKeyCredential, Provider
<1>2. NumberTypes
  BY DEF Init, NumberTypes
<1>3. RequestTypes /\ during \in [Requests -> SUBSET Stored]
  BY CredentialTypes DEF Init, RequestTypes, Places, Sources, Unanswered
<1>4. TypeOK /\ Locked
  BY <1>1, <1>2, <1>3, AuthAssumption DEF Init, TypeOK, Locked, holder, Provider
<1>5. Numbered
  <2>1. IsOAuth(current) => current.gen <= issued
    BY DEF Init, Provider, current, IsOAuth, OAuthCredential, APIKeyCredential
  <2>2. current # NoCredential => current.session <= logins
    BY DEF Init, Provider, current, OAuthCredential, APIKeyCredential
  <2>3. QED
    BY <2>1, <2>2 DEF Init, Numbered
<1>6. Refreshing /\ Honoured /\ NoDoubleRefresh
  BY DEF Init, Refreshing, Honoured, NoDoubleRefresh
<1>7. Witnessed /\ AnswersWereStored
  BY DEF Init, Witnessed, WitnessOf, AnswersWereStored, Unanswered
<1>8. QED
  BY <1>4, <1>5, <1>6, <1>7 DEF IInv

LEMMA TypeInductive ==
    ASSUME TypeOK, Refreshing, [Next]_vars
    PROVE  TypeOK'
<1>1. StoreTypes' /\ RequestTypes' /\ NumberTypes'
  BY RequestsTyped, NumbersTyped
<1>2. during' \in [Requests -> SUBSET Stored]
  <2>1. current \in Stored /\ current' \in Stored
    BY <1>1 DEF TypeOK, StoreTypes, current, Provider
  <2>2. CASE Witness
    BY <2>1, <2>2 DEF TypeOK, Witness
  <2>3. CASE UNCHANGED vars
    BY <2>3 DEF TypeOK, vars
  <2>4. QED
    BY <2>2, <2>3 DEF Next
<1>3. QED
  BY <1>1, <1>2 DEF TypeOK

LEMMA InvInductive ==
    ASSUME IInv, [Next]_vars
    PROVE  IInv'
BY TypeInductive, LockedInductive, NumberedInductive, RefreshingInductive, HonouredInductive,
   ReplayInductive, WitnessedInductive, AnswersInductive DEF IInv
-----------------------------------------------------------------------------
(* The theorems                                                            *)

\* The inductive invariant holds of every reachable state, and with it the
\* types of everything the requests, the user and the store keep.
THEOREM AuthInvariant == SafeSpec => []IInv
<1>1. Init => IInv
  BY InitIInv
<1>2. IInv /\ [Next]_vars => IInv'
  BY InvInductive
<1>3. QED
  BY <1>1, <1>2, PTL DEF SafeSpec

\* However many requests run and however often the user logs in and out, no
\* refresh token is presented to the server again after its rotation, unless
\* its successor was lost on the way to the store (resolveStoredOAuth).
THEOREM NeverRefreshedTwice == SafeSpec => []NoDoubleRefresh
<1>1. IInv => NoDoubleRefresh
  BY DEF IInv
<1>2. QED
  BY <1>1, AuthInvariant, PTL

\* Whenever nobody holds the provider, the stored refresh token is one the
\* server still honours: it was persisted before the lock was released.
THEOREM PersistedFirst == SafeSpec => []PersistedBeforeRelease
<1>1. IInv => PersistedBeforeRelease
  <2> SUFFICES ASSUME IInv, owner[Provider] = NoClient, IsOAuth(current)
               PROVE  current.gen \notin consumed \ excused
    BY DEF PersistedBeforeRelease
  <2>1. \A r \in Requests : pc[r] # "commit"
    BY AuthAssumption DEF IInv, Locked, holder
  <2>2. QED
    BY <2>1 DEF IInv, Honoured
<1>2. QED
  BY <1>1, AuthInvariant, PTL

\* Every answer was stored at some moment of its request, and a token it
\* carries was good at some moment of it.
THEOREM AnsweredFromStore == SafeSpec => []AnswersWereStored
<1>1. IInv => AnswersWereStored
  BY DEF IInv
<1>2. QED
  BY <1>1, AuthInvariant, PTL

\* No step of any request undoes a login or a logout: a refresh never brings a
\* session back.
THEOREM SessionsNeverReturn == SafeSpec => SessionsMoveForward
<1>1. IInv /\ [Next]_vars => Forward
  BY StepsForward DEF IInv
<1>2. QED
  BY <1>1, AuthInvariant, PTL DEF SafeSpec, SessionsMoveForward, Forward
=============================================================================
