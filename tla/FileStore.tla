----------------------------- MODULE FileStore -----------------------------
(***************************************************************************)
(* FileCredentialStore (src/ai/auth/filestore.go): auth.json, the sidecar  *)
(* lock file, and clients (goroutines of one process or of several: each   *)
(* call opens its own lock file, so flock excludes them alike) that Read,  *)
(* Modify and Delete.                                                      *)
(*                                                                         *)
(* auth.json is "missing", "empty" (truncated by os.WriteFile and not yet  *)
(* written), "torn" (cut short, which JSON does not parse) or "json" with  *)
(* its entries.  Foreign is an entry of a credential type this build does  *)
(* not know.  Faults is what may go wrong around a save: "crash" (the      *)
(* process dies inside it) and "disk" (a write or the chmod fails).        *)
(***************************************************************************)
EXTENDS Naturals

CONSTANTS Providers, Clients, Credentials,
          Foreign,        \* an entry UnmarshalCredential refuses
          NoCredential, NoClient,
          MaxOps,         \* bound on the calls of each client
          Faults

VARIABLES file,      \* auth.json
          lock,      \* the holder of auth.json.lock
          pc, op,    \* where each client is, and in which call
          entries,   \* what the client loaded, then what it saves
          result,    \* what its last call returned
          ops,       \* calls so far
          held       \* history: the values of its entry since the call began

vars == <<file, lock, pc, op, entries, result, ops, held>>

Values == Credentials \cup {Foreign, NoCredential}
Entries == [Providers -> Values]
NoEntries == [p \in Providers |-> NoCredential]
NoOp == [kind |-> "none", provider |-> NoClient]
Ops == [kind : {"read", "modify", "delete"}, provider : Providers]
Failed == "failed"

Json(e) == [state |-> "json", entries |-> e]
NotJson(state) == [state |-> state, entries |-> NoEntries]

Init ==
    /\ file \in {NotJson("missing")} \cup {Json(e) : e \in Entries}
    /\ lock = NoClient
    /\ pc = [c \in Clients |-> "idle"]
    /\ op = [c \in Clients |-> NoOp]
    /\ entries = [c \in Clients |-> NoEntries]
    /\ result = [c \in Clients |-> NoCredential]
    /\ ops = [c \in Clients |-> 0]
    /\ held = [c \in Clients |-> {}]

Goto(c, l) == pc' = [pc EXCEPT ![c] = l]

\* A client that saves: the file is not what the store means to hold.
Saving(c) == pc[c] \in {"write", "chmod"}

\* The entries the store stands for: the saved ones from the moment a save
\* starts, when nothing can stop it any more unless a fault strikes.
Stored ==
    IF \E c \in Clients : Saving(c)
    THEN entries[CHOOSE c \in Clients : Saving(c)]
    ELSE file.entries

\* The calls in progress saw the values the store went through.
Witness ==
    held' = [c \in Clients |->
                IF pc'[c] = "idle" THEN held[c]
                ELSE (IF pc[c] = "idle" THEN {} ELSE held[c])
                       \cup {Stored[op'[c].provider], Stored'[op'[c].provider]}]

-----------------------------------------------------------------------------
(* One client                                                              *)

\* Read looks for the file before it locks; the writers lock at once.
Call(c, o) ==
    /\ pc[c] = "idle"
    /\ ops[c] < MaxOps
    /\ op' = [op EXCEPT ![c] = o]
    /\ ops' = [ops EXCEPT ![c] = @ + 1]
    /\ Goto(c, IF o.kind = "read" THEN "stat" ELSE "lock")
    /\ UNCHANGED <<file, lock, entries, result>>

\* Mutated Return: the lock is not released.
ReturnLocked(c, r) ==
    /\ result' = [result EXCEPT ![c] = r]
    /\ Goto(c, "idle")
    /\ UNCHANGED <<lock, op, entries, ops>>

\* The call returns without the lock, or releasing it.
Return(c, r) ==
    /\ result' = [result EXCEPT ![c] = r]
    /\ lock' = IF lock = c THEN NoClient ELSE lock
    /\ Goto(c, "idle")
    /\ UNCHANGED <<op, entries, ops>>

Stat(c) ==
    /\ pc[c] = "stat"
    /\ IF file.state = "missing"
       THEN Return(c, NoCredential)
       ELSE Goto(c, "lock") /\ UNCHANGED <<lock, op, entries, result, ops>>
    /\ UNCHANGED file

\* Mutated Lock: the lock is only asked for.
LockShared(c) ==
    /\ pc[c] = "lock"
    /\ lock' = c
    /\ Goto(c, "load")
    /\ UNCHANGED <<file, op, entries, result, ops>>

\* TryLockContext: poll until the lock is free ...
Lock(c) ==
    /\ pc[c] = "lock"
    /\ lock = NoClient
    /\ lock' = c
    /\ Goto(c, "load")
    /\ UNCHANGED <<file, op, entries, result, ops>>

\* ... or the context is done.
LockGivesUp(c) ==
    /\ pc[c] = "lock"
    /\ Return(c, Failed)
    /\ UNCHANGED file

\* load and decodeEntry; Read and a Delete of nothing end here.
Load(c) ==
    LET p == op[c].provider
        current == file.entries[p]
    IN  /\ pc[c] = "load"
        /\ CASE file.state = "torn" -> Return(c, Failed)
             [] file.state # "torn" /\ op[c].kind = "delete" ->
                  IF current = NoCredential
                  THEN Return(c, NoCredential)
                  ELSE /\ entries' = [entries EXCEPT ![c] = [file.entries EXCEPT ![p] = NoCredential]]
                       /\ Goto(c, "truncate")
                       /\ UNCHANGED <<lock, op, result, ops>>
             [] file.state # "torn" /\ op[c].kind # "delete" ->
                  IF current = Foreign THEN Return(c, Failed)
                  ELSE IF op[c].kind = "read" THEN Return(c, current)
                  ELSE /\ entries' = [entries EXCEPT ![c] = file.entries]
                       /\ Goto(c, "fn")
                       /\ UNCHANGED <<lock, op, result, ops>>
        /\ UNCHANGED file

\* fn(current), under the lock for as long as it takes, returns a credential ...
FnStores(c, next) ==
    /\ pc[c] = "fn"
    /\ entries' = [entries EXCEPT ![c][op[c].provider] = next]
    /\ Goto(c, "truncate")
    /\ UNCHANGED <<file, lock, op, result, ops>>

\* Mutated FnKeeps: nil is returned as the credential.
FnForgets(c) ==
    /\ pc[c] = "fn"
    /\ \E r \in {NoCredential, Failed} : Return(c, r)
    /\ UNCHANGED file

\* ... or nil, or an error.
FnKeeps(c) ==
    /\ pc[c] = "fn"
    /\ \E r \in {entries[c][op[c].provider], Failed} : Return(c, r)
    /\ UNCHANGED file

\* save: os.WriteFile truncates (or creates) auth.json ...
Truncate(c) ==
    /\ pc[c] = "truncate"
    /\ file' = NotJson("empty")
    /\ Goto(c, "write")
    /\ UNCHANGED <<lock, op, entries, result, ops>>

\* ... writes the new content ...
Write(c) ==
    /\ pc[c] = "write"
    /\ file' = Json(entries[c])
    /\ Goto(c, "chmod")
    /\ UNCHANGED <<lock, op, entries, result, ops>>

WriteFails(c) ==
    /\ "disk" \in Faults
    /\ pc[c] = "write"
    /\ \E state \in {"empty", "torn"} : file' = NotJson(state)
    /\ Return(c, Failed)

\* ... and clamps its mode; the deferred Unlock releases the lock.
Chmod(c) ==
    /\ pc[c] = "chmod"
    /\ Return(c, entries[c][op[c].provider])
    /\ UNCHANGED file

ChmodFails(c) ==
    /\ "disk" \in Faults
    /\ pc[c] = "chmod"
    /\ Return(c, Failed)
    /\ UNCHANGED file

\* The process dies: the system releases its lock, the file stays as it is.
Crash(c) ==
    /\ pc[c] # "idle"
    /\ Saving(c) => "crash" \in Faults
    /\ Return(c, Failed)
    /\ IF pc[c] = "write"
       THEN file' \in {file, NotJson("torn")}
       ELSE UNCHANGED file

Step(c) ==
    \/ Stat(c) \/ Lock(c) \/ Load(c)
    \/ FnKeeps(c) \/ \E next \in Credentials : FnStores(c, next)
    \/ Truncate(c) \/ Write(c) \/ WriteFails(c) \/ Chmod(c) \/ ChmodFails(c)

Next ==
    /\ \E c \in Clients :
          \/ \E o \in Ops : Call(c, o)
          \/ Step(c) \/ LockGivesUp(c) \/ Crash(c)
    /\ Witness

\* Every client that can go on does, and every fn returns; a context need
\* never be done, and a process need not crash.
Spec == Init /\ [][Next]_vars /\ \A c \in Clients : WF_vars(Step(c) /\ Witness)

-----------------------------------------------------------------------------
(* Properties                                                              *)

\* A call that succeeds returns a value its entry had while the call ran, be it
\* the value the call wrote: reads are never stale and writes are never lost.
Linearizable ==
    \A c \in Clients :
        (pc[c] = "idle" /\ ops[c] > 0 /\ result[c] # Failed) => result[c] \in held[c]

\* Entries of other providers "round-trip untouched" (filestore.go, the comment
\* on FileCredentialStore): what is stored for a provider changes only by a
\* call on that provider.
OthersUntouched ==
    [][\A p \in Providers :
          Stored'[p] # Stored[p] => \E c \in Clients : lock = c /\ op[c].provider = p]_vars

\* The client inside Modify or Delete of p, until its save commits it.
Owner(p) ==
    IF lock # NoClient /\ op[lock].kind # "read" /\ op[lock].provider = p
       /\ pc[lock] \in {"load", "fn", "truncate"}
    THEN lock ELSE NoClient

Contract == INSTANCE CredentialStore WITH
    Credentials <- Credentials \cup {Foreign},
    creds <- Stored,
    owner <- [p \in Providers |-> Owner(p)],
    Losses <- Faults # {}

\* The file store implements CredentialStore; a save that is cut short is a
\* storage failure that loses every entry.
ImplementsContract == Contract!Spec
=============================================================================
