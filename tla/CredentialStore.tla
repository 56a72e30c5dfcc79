-------------------------- MODULE CredentialStore --------------------------
(***************************************************************************)
(* What ai.CredentialStore promises (src/ai/auth.go): one credential per   *)
(* provider, and Modify as the only way to change it besides Delete, each  *)
(* a read-modify-write that excludes the others on the same provider.      *)
(* FileStore and MemoryStore implement this module; AuthResolution is      *)
(* written over it.                                                        *)
(***************************************************************************)
CONSTANTS Providers, Clients,
          Credentials,    \* the values a client may store
          NoCredential,   \* nothing stored
          NoClient,       \* no client is inside Modify or Delete
          Losses          \* whether the storage itself may fail and lose it all

VARIABLES creds,          \* the stored credential of each provider
          owner           \* the client inside Modify or Delete, per provider

vars == <<creds, owner>>

Init ==
    /\ creds \in [Providers -> Credentials \cup {NoCredential}]
    /\ owner = [p \in Providers |-> NoClient]

\* Modify or Delete begins: the client has the provider for itself.
Acquire(c, p) ==
    /\ owner[p] = NoClient
    /\ owner' = [owner EXCEPT ![p] = c]
    /\ UNCHANGED creds

\* It ends with a new credential, or with none (Delete) ...
Commit(c, p, next) ==
    /\ owner[p] = c
    /\ creds' = [creds EXCEPT ![p] = next]
    /\ owner' = [owner EXCEPT ![p] = NoClient]

\* ... or leaves the entry as it was (fn returned nil or failed).
Release(c, p) ==
    /\ owner[p] = c
    /\ owner' = [owner EXCEPT ![p] = NoClient]
    /\ UNCHANGED creds

\* "Methods fail only on storage failure": what is stored may go with it.
StorageFails ==
    /\ Losses
    /\ creds' = [p \in Providers |-> NoCredential]
    /\ UNCHANGED owner

Next ==
    \/ \E c \in Clients, p \in Providers :
          \/ Acquire(c, p)
          \/ Release(c, p)
          \/ \E next \in Credentials \cup {NoCredential} : Commit(c, p, next)
    \/ StorageFails

Spec == Init /\ [][Next]_vars
=============================================================================
