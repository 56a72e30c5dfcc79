------------------------------- MODULE Stores -------------------------------
(***************************************************************************)
(* The two stores behind ai.CredentialStore.  A program is built with      *)
(* NewInMemoryCredentialStore or with NewFileCredentialStore and uses that *)
(* one; the variables of the other stay as they are.                       *)
(***************************************************************************)
EXTENDS Naturals

CONSTANTS Providers, Clients, Credentials, Foreign, NoCredential, NoClient,
          FileOps, MemoryOps, \* bounds on the calls of each client
          Faults,             \* what may go wrong around a save of the file
          Stuck               \* providers whose fn may never return, in memory

ASSUME StoresAssumption ==
    /\ FileOps \in Nat /\ MemoryOps \in Nat
    /\ Faults \subseteq {"crash", "disk"} /\ Stuck \subseteq Providers
    /\ NoClient \notin Clients
    /\ NoCredential \notin Credentials \cup {Foreign} /\ Foreign \notin Credentials

VARIABLES built,                                                 \* the store in use
          file, fileLock, filePc, fileOp, entries, result, fileOps, held,
          credentials, locks, heldBy, pc, op, lock, current, next, ops

fileVars == <<file, fileLock, filePc, fileOp, entries, result, fileOps, held>>
memoryVars == <<credentials, locks, heldBy, pc, op, lock, current, next, ops>>
vars == <<built, fileVars, memoryVars>>

File == INSTANCE FileStore WITH
    lock <- fileLock, pc <- filePc, op <- fileOp, ops <- fileOps, MaxOps <- FileOps

Memory == INSTANCE MemoryStore WITH MaxOps <- MemoryOps

Init ==
    /\ File!Init /\ Memory!Init
    /\ \/ built = "file" /\ credentials = [p \in Providers |-> NoCredential]
       \/ built = "memory" /\ file = File!NotJson("missing")

OnFile == built = "file" /\ UNCHANGED <<built, memoryVars>>
InMemory == built = "memory" /\ UNCHANGED <<built, fileVars>>

Next ==
    \/ File!Next /\ OnFile
    \/ Memory!Next /\ InMemory

\* Every client that can go on does.  Every fn on the file returns, and in
\* memory every fn but those on the providers in Stuck.
Spec ==
    /\ Init /\ [][Next]_vars
    /\ \A c \in Clients :
          /\ WF_vars(File!Step(c) /\ File!Witness /\ OnFile)
          /\ WF_vars(Memory!Step(c) /\ InMemory)
          /\ WF_vars(op[c].provider \notin Stuck /\ Memory!Fn(c) /\ InMemory)

-----------------------------------------------------------------------------
(* Properties                                                              *)

\* A call on the file that succeeds returns a value its entry had while the
\* call ran, be it the value the call wrote: reads are never stale and writes
\* are never lost (Read, Modify and Delete of FileCredentialStore).
Linearizable == File!Linearizable

\* Every call on the file returns, whatever becomes of the calls it waits for;
\* a fn in memory that never returns holds up the calls on its own provider and
\* no others ("Writes are serialized per provider", credentialstore.go).
CallsReturn ==
    \A c \in Clients :
        /\ (filePc[c] # "idle") ~> (filePc[c] = "idle")
        /\ (pc[c] # "idle" /\ op[c].provider \notin Stuck) ~> (pc[c] = "idle")

\* The file store implements CredentialStore; a save that is cut short is a
\* storage failure that loses every entry.
FileImplementsContract == File!ImplementsContract

\* The in-memory store implements CredentialStore, and never fails.
MemoryImplementsContract == Memory!ImplementsContract
=============================================================================
