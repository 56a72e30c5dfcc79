---------------------------- MODULE MemoryStore ----------------------------
(***************************************************************************)
(* InMemoryCredentialStore (src/ai/credentialstore.go): a map of           *)
(* credentials and a map of per-provider mutexes, both under s.mu, and     *)
(* clients that Read, Modify and Delete.  A step under s.mu is one action; *)
(* the provider's mutex is held across fn.                                 *)
(***************************************************************************)
EXTENDS Naturals, Sequences

CONSTANTS Providers, Clients, Credentials, NoCredential, NoClient,
          MaxOps,     \* bound on the calls of each client
          Stuck       \* providers whose fn may never return

VARIABLES credentials,
          locks,      \* the mutex of each provider, NoMutex until it is used
          heldBy,     \* who holds each mutex made so far
          pc, op,     \* where each client is, and in which call
          lock,       \* the mutex its call got from providerLock
          current, next,  \* what fn saw and returned
          ops         \* calls so far

vars == <<credentials, locks, heldBy, pc, op, lock, current, next, ops>>

NoMutex == 0
Values == Credentials \cup {NoCredential}
Ops == [kind : {"modify", "delete"}, provider : Providers]
NoOp == [kind |-> "none", provider |-> NoClient]

Init ==
    /\ credentials \in [Providers -> Values]
    /\ locks = [p \in Providers |-> NoMutex]
    /\ heldBy = <<>>
    /\ pc = [c \in Clients |-> "idle"]
    /\ op = [c \in Clients |-> NoOp]
    /\ lock = [c \in Clients |-> NoMutex]
    /\ current = [c \in Clients |-> NoCredential]
    /\ next = [c \in Clients |-> NoCredential]
    /\ ops = [c \in Clients |-> 0]

Goto(c, l) == pc' = [pc EXCEPT ![c] = l]
NewMutex == Len(heldBy) + 1

\* Mutated ProviderLock: a mutex for every call.
FreshLock(c, o) ==
    /\ pc[c] = "idle"
    /\ ops[c] < MaxOps
    /\ locks' = [locks EXCEPT ![o.provider] = NewMutex]
    /\ heldBy' = Append(heldBy, NoClient)
    /\ lock' = [lock EXCEPT ![c] = locks'[o.provider]]
    /\ op' = [op EXCEPT ![c] = o]
    /\ ops' = [ops EXCEPT ![c] = @ + 1]
    /\ Goto(c, "lock")
    /\ UNCHANGED <<credentials, current, next>>

\* Modify and Delete look their mutex up, and make it when it is not there.
ProviderLock(c, o) ==
    /\ pc[c] = "idle"
    /\ ops[c] < MaxOps
    /\ IF locks[o.provider] = NoMutex
       THEN /\ locks' = [locks EXCEPT ![o.provider] = NewMutex]
            /\ heldBy' = Append(heldBy, NoClient)
       ELSE UNCHANGED <<locks, heldBy>>
    /\ lock' = [lock EXCEPT ![c] = locks'[o.provider]]
    /\ op' = [op EXCEPT ![c] = o]
    /\ ops' = [ops EXCEPT ![c] = @ + 1]
    /\ Goto(c, "lock")
    /\ UNCHANGED <<credentials, current, next>>

Lock(c) ==
    /\ pc[c] = "lock"
    /\ heldBy[lock[c]] = NoClient
    /\ heldBy' = [heldBy EXCEPT ![lock[c]] = c]
    /\ Goto(c, IF op[c].kind = "delete" THEN "write" ELSE "read")
    /\ next' = [next EXCEPT ![c] = NoCredential]
    /\ UNCHANGED <<credentials, locks, op, lock, current, ops>>

ReadCurrent(c) ==
    /\ pc[c] = "read"
    /\ current' = [current EXCEPT ![c] = credentials[op[c].provider]]
    /\ Goto(c, "fn")
    /\ UNCHANGED <<credentials, locks, heldBy, op, lock, next, ops>>

\* The call returns and releases the provider's mutex.
Unlock(c) ==
    /\ heldBy' = [heldBy EXCEPT ![lock[c]] = NoClient]
    /\ Goto(c, "idle")

\* fn returns nil or an error: the entry stays.
FnKeeps(c) ==
    /\ pc[c] = "fn"
    /\ Unlock(c)
    /\ UNCHANGED <<credentials, locks, op, lock, current, next, ops>>

FnStores(c, cred) ==
    /\ pc[c] = "fn"
    /\ next' = [next EXCEPT ![c] = cred]
    /\ Goto(c, "write")
    /\ UNCHANGED <<credentials, locks, heldBy, op, lock, current, ops>>

\* Modify stores what fn returned, Delete removes the entry.
Write(c) ==
    /\ pc[c] = "write"
    /\ credentials' = [credentials EXCEPT ![op[c].provider] = next[c]]
    /\ Unlock(c)
    /\ UNCHANGED <<locks, op, lock, current, next, ops>>

Step(c) == Lock(c) \/ ReadCurrent(c) \/ Write(c)
Fn(c) == FnKeeps(c) \/ \E cred \in Credentials : FnStores(c, cred)

Next == \E c \in Clients :
    \/ \E o \in Ops : ProviderLock(c, o)
    \/ Step(c) \/ Fn(c)

\* Every fn returns, except on the providers in Stuck.
Spec ==
    /\ Init /\ [][Next]_vars
    /\ \A c \in Clients :
          /\ WF_vars(Step(c))
          /\ WF_vars(op[c].provider \notin Stuck /\ Fn(c))

-----------------------------------------------------------------------------
(* Properties                                                              *)

\* The client inside Modify or Delete of p.
Owner(p) ==
    LET holders == {c \in Clients : pc[c] \in {"read", "fn", "write"} /\ op[c].provider = p}
    IN  IF holders = {} THEN NoClient ELSE CHOOSE c \in holders : TRUE

Contract == INSTANCE CredentialStore WITH
    creds <- credentials,
    owner <- [p \in Providers |-> Owner(p)],
    Losses <- FALSE

\* The in-memory store implements CredentialStore.
ImplementsContract == Contract!Spec
=============================================================================
