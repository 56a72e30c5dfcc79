---------------------------- MODULE StoresProofs ----------------------------
(***************************************************************************)
(* Proofs about the two stores, for any clients, providers, credentials,   *)
(* faults and numbers of calls: calls on the file are linearizable, and    *)
(* both stores implement CredentialStore.                                  *)
(***************************************************************************)
EXTENDS Stores, SequenceTheorems, TLAPS

-----------------------------------------------------------------------------
(* The file                                                                *)

\* The places of a client that has the lock.
Inside == {"load", "fn", "truncate", "write", "chmod"}

\* What a call returns.
Results == File!Values \cup {File!Failed}

FileTypes ==
    /\ fileLock \in Clients \cup {NoClient}
    /\ filePc \in [Clients -> {"idle", "stat", "lock"} \cup Inside]
    /\ fileOp \in [Clients -> File!Ops \cup {File!NoOp}]
    /\ entries \in [Clients -> File!Entries]
    /\ result \in [Clients -> Results]
    /\ fileOps \in [Clients -> Nat]

\* One client is inside, the one that holds the lock.
Locked ==
    /\ \A c \in Clients : filePc[c] \in Inside <=> fileLock = c
    /\ \A c \in Clients : filePc[c] # "idle" => fileOp[c] \in File!Ops

\* What the file holds.
FileHolds ==
    /\ file.state \in {"missing", "empty", "torn", "json"} /\ file.entries \in File!Entries
    /\ file.state # "json" => file.entries = File!NoEntries

\* What a client is about to do agrees with the file.
Means(c) ==
    /\ filePc[c] = "stat" => fileOp[c].kind = "read"
    /\ filePc[c] = "fn" => fileOp[c].kind = "modify" /\ entries[c] = file.entries
    /\ filePc[c] = "truncate" =>
          /\ fileOp[c].kind # "read"
          /\ \E v \in File!Values : entries[c] = [file.entries EXCEPT ![fileOp[c].provider] = v]
    /\ filePc[c] = "write" => file.state = "empty"
    /\ filePc[c] = "chmod" => file.state = "json" /\ file.entries = entries[c]

FileCore == FileTypes /\ Locked /\ FileHolds /\ \A c \in Clients : Means(c)

\* A call has seen the value that its entry has now.
Seen == \A c \in Clients : filePc[c] # "idle" => File!Stored[fileOp[c].provider] \in held[c]

FileInv == FileCore /\ Seen /\ Linearizable

-----------------------------------------------------------------------------
(* What stands for the file                                                *)

\* The places of a client that saves.
Saves == {"write", "chmod"}

\* The entries are those of the client that saves, and the file's if there is none.
LEMMA StoredIs ==
    ASSUME FileCore
    PROVE  /\ \A c \in Clients : filePc[c] \in Saves => File!Stored = entries[c]
           /\ (\A c \in Clients : filePc[c] \notin Saves) => File!Stored = file.entries
<1>1. ASSUME NEW c \in Clients, filePc[c] \in Saves PROVE File!Stored = entries[c]
  <2>1. ASSUME NEW d \in Clients, filePc[d] \in Saves PROVE d = c
    BY <1>1, <2>1 DEF FileCore, Locked, Saves, Inside
  <2>2. (CHOOSE d \in Clients : File!Saving(d)) = c
    BY <1>1, <2>1 DEF File!Saving, Saves
  <2>3. QED
    BY <1>1, <2>2 DEF File!Stored, File!Saving, Saves
<1>2. QED
  BY <1>1 DEF File!Stored, File!Saving, Saves

\* And after a step.
LEMMA StoredIsNext ==
    ASSUME FileCore'
    PROVE  /\ \A c \in Clients : filePc'[c] \in Saves => File!Stored' = entries'[c]
           /\ (\A c \in Clients : filePc'[c] \notin Saves) => File!Stored' = file'.entries
<1>1. ASSUME NEW c \in Clients, filePc'[c] \in Saves PROVE File!Stored' = entries'[c]
  <2>1. ASSUME NEW d \in Clients, filePc'[d] \in Saves PROVE d = c
    BY <1>1, <2>1 DEF FileCore, Locked, Saves, Inside
  <2>2. (CHOOSE d \in Clients : File!Saving(d)') = c
    BY <1>1, <2>1 DEF File!Saving, Saves
  <2>3. QED
    BY <1>1, <2>2 DEF File!Stored, File!Saving, Saves
<1>2. QED
  BY <1>1 DEF File!Stored, File!Saving, Saves

\* Neither a file nor a save that stays changes what is stored.
LEMMA StoredStays ==
    ASSUME FileCore, FileCore', file' = file,
           \A c \in Clients : filePc'[c] \in Saves <=> filePc[c] \in Saves,
           \A c \in Clients : filePc[c] \in Saves => entries'[c] = entries[c]
    PROVE  File!Stored' = File!Stored
<1>1. CASE \E c \in Clients : filePc[c] \in Saves
  BY <1>1, StoredIs, StoredIsNext
<1>2. CASE \A c \in Clients : filePc[c] \notin Saves
  BY <1>2, StoredIs, StoredIsNext
<1>3. QED
  BY <1>1, <1>2

\* A client inside has the file for itself.
LEMMA AloneInside ==
    ASSUME FileCore, NEW c \in Clients, filePc[c] \in Inside
    PROVE  fileLock = c /\ \A d \in Clients \ {c} : filePc[d] \notin Inside
  BY DEF FileCore, Locked

-----------------------------------------------------------------------------
(* The contract's owner                                                    *)

\* The client inside Modify or Delete, until its save starts.
Modifies(c) == filePc[c] \in {"load", "fn", "truncate"} /\ fileOp[c].kind # "read"
Nobody == \A c \in Clients : ~Modifies(c)

\* The owner of a provider is the client that modifies it.
LEMMA FileOwner ==
    ASSUME FileCore, NEW p \in Providers
    PROVE  /\ \A c \in Clients : Modifies(c) =>
                 File!Owner(p) = IF fileOp[c].provider = p THEN c ELSE NoClient
           /\ Nobody => File!Owner(p) = NoClient
<1>1. ASSUME NEW c \in Clients, Modifies(c)
      PROVE  File!Owner(p) = IF fileOp[c].provider = p THEN c ELSE NoClient
  <2>1. fileLock = c /\ c # NoClient
    BY <1>1, AloneInside, StoresAssumption DEF Modifies, Inside
  <2>2. QED
    BY <1>1, <2>1 DEF File!Owner, Modifies
<1>2. ASSUME Nobody PROVE File!Owner(p) = NoClient
  BY <1>2 DEF File!Owner, Nobody, Modifies, FileCore, FileTypes
<1>3. QED
  BY <1>1, <1>2

\* And after a step.
LEMMA FileOwnerNext ==
    ASSUME FileCore', NEW p \in Providers
    PROVE  /\ \A c \in Clients : Modifies(c)' =>
                 File!Owner(p)' = IF fileOp'[c].provider = p THEN c ELSE NoClient
           /\ Nobody' => File!Owner(p)' = NoClient
<1>1. ASSUME NEW c \in Clients, Modifies(c)'
      PROVE  File!Owner(p)' = IF fileOp'[c].provider = p THEN c ELSE NoClient
  <2>1. fileLock' = c /\ c # NoClient
    BY <1>1, StoresAssumption DEF Modifies, Inside, FileCore, Locked
  <2>2. QED
    BY <1>1, <2>1 DEF File!Owner, Modifies
<1>2. ASSUME Nobody' PROVE File!Owner(p)' = NoClient
  BY <1>2 DEF File!Owner, Nobody, Modifies, FileCore, FileTypes
<1>3. QED
  BY <1>1, <1>2

\* The owners stay.
LEMMA OwnersStay ==
    ASSUME FileCore, FileCore',
           \A d \in Clients : Modifies(d)' <=> Modifies(d),
           \A d \in Clients : Modifies(d) => fileOp'[d] = fileOp[d]
    PROVE  \A p \in Providers : File!Owner(p)' = File!Owner(p)
<1>1. CASE Nobody
  <2>1. Nobody'
    BY <1>1 DEF Nobody
  <2>2. QED
    BY <1>1, <2>1, FileOwner, FileOwnerNext
<1>2. CASE \E c \in Clients : Modifies(c)
  <2>1. PICK c \in Clients : Modifies(c)
    BY <1>2
  <2>2. Modifies(c)' /\ fileOp'[c] = fileOp[c]
    BY <2>1
  <2>3. QED
    BY <2>1, <2>2, FileOwner, FileOwnerNext
<1>3. QED
  BY <1>1, <1>2 DEF Nobody

\* A step that moves neither what is stored nor an owner is invisible to the contract ...
LEMMA FileKeeps ==
    ASSUME FileCore, FileCore', File!Stored' = File!Stored,
           \A d \in Clients : Modifies(d)' <=> Modifies(d),
           \A d \in Clients : Modifies(d) => fileOp'[d] = fileOp[d]
    PROVE  UNCHANGED File!Contract!vars
  BY OwnersStay DEF File!Contract!vars

\* ... the lock of a Modify or Delete is Acquire ...
LEMMA FileAcquires ==
    ASSUME FileCore, FileCore', File!Stored' = File!Stored, NEW c \in Clients,
           Nobody, Modifies(c)', fileOp'[c] \in File!Ops
    PROVE  File!Contract!Next
<1>1. PICK p \in Providers : p = fileOp'[c].provider
  BY DEF File!Ops
<1>2. \A q \in Providers : File!Owner(q) = NoClient /\ File!Owner(q)' = IF q = p THEN c ELSE NoClient
  BY <1>1, FileOwner, FileOwnerNext
<1>3. File!Contract!Acquire(c, p)
  BY <1>2 DEF File!Contract!Acquire
<1>4. QED
  BY <1>3 DEF File!Contract!Next

\* ... the end of one is Commit or Release ...
LEMMA FileLeaves ==
    ASSUME FileCore, FileCore', NEW c \in Clients, Modifies(c), fileOp[c] \in File!Ops, Nobody',
           NEW v \in File!Values,
           \/ File!Stored' = File!Stored
           \/ File!Stored' = [File!Stored EXCEPT ![fileOp[c].provider] = v]
    PROVE  File!Contract!Next
<1>1. PICK p \in Providers : p = fileOp[c].provider
  BY DEF File!Ops
<1>2. \A q \in Providers : File!Owner(q)' = NoClient /\ File!Owner(q) = IF q = p THEN c ELSE NoClient
  BY <1>1, FileOwner, FileOwnerNext
<1>3. CASE File!Stored' = File!Stored
  <2>1. File!Contract!Release(c, p)
    BY <1>2, <1>3 DEF File!Contract!Release
  <2>2. QED
    BY <2>1 DEF File!Contract!Next
<1>4. CASE File!Stored' = [File!Stored EXCEPT ![p] = v]
  <2>1. File!Contract!Commit(c, p, v)
    BY <1>2, <1>4 DEF File!Contract!Commit
  <2>2. v \in (Credentials \cup {Foreign}) \cup {NoCredential}
    BY DEF File!Values
  <2>3. QED
    BY <2>1, <2>2 DEF File!Contract!Next
<1>5. QED
  BY <1>1, <1>3, <1>4

\* ... and a save that is cut short is StorageFails.
LEMMA FileLoses ==
    ASSUME FileCore, FileCore', File!Stored' = File!NoEntries, Nobody, Nobody', Faults # {}
    PROVE  File!Contract!Next
<1>1. \A p \in Providers : File!Owner(p)' = File!Owner(p)
  BY FileOwner, FileOwnerNext
<1>2. File!Contract!StorageFails
  BY <1>1 DEF File!Contract!StorageFails, File!NoEntries
<1>3. QED
  BY <1>2 DEF File!Contract!Next

-----------------------------------------------------------------------------
(* What one client's step keeps                                            *)

\* The other clients stay where they are.
Others(c) == \A d \in Clients \ {c} :
    /\ filePc'[d] = filePc[d] /\ fileOp'[d] = fileOp[d] /\ entries'[d] = entries[d]
    /\ result'[d] = result[d] /\ fileOps'[d] = fileOps[d]

\* The lock is left alone, taken or released.
LockMoves(c) ==
    \/ fileLock' = fileLock
    \/ fileLock = NoClient /\ fileLock' = c
    \/ fileLock = c /\ fileLock' = NoClient

\* A step of one client keeps FileCore when it keeps that client's own part of it.
LEMMA CoreStays ==
    ASSUME FileCore, FileTypes', FileHolds', NEW c \in Clients, Others(c), LockMoves(c), Means(c)',
           filePc'[c] \in Inside <=> fileLock' = c, filePc'[c] # "idle" => fileOp'[c] \in File!Ops,
           file' = file \/ fileLock = c
    PROVE  FileCore'
<1>1. Locked'
  <2>1. ASSUME NEW d \in Clients \ {c} PROVE filePc'[d] \in Inside <=> fileLock' = d
    <3>1. filePc[d] \in Inside <=> fileLock = d
      BY DEF FileCore, Locked
    <3>2. QED
      BY <2>1, <3>1, StoresAssumption DEF LockMoves, Others
  <2>2. QED
    BY <2>1 DEF Locked, Others, FileCore
<1>2. ASSUME NEW d \in Clients \ {c} PROVE Means(d)'
  <2>1. Means(d)
    BY DEF FileCore
  <2>2. CASE file' = file
    <3>1. file' = file /\ filePc'[d] = filePc[d] /\ fileOp'[d] = fileOp[d] /\ entries'[d] = entries[d]
      BY <2>2 DEF Others
    <3>2. Means(d)' <=> Means(d)
      BY ONLY <3>1, Zenon DEF Means
    <3>3. QED
      BY <2>1, <3>2
  <2>3. CASE fileLock = c
    <3>1. filePc[d] \notin Inside
      BY <2>3 DEF FileCore, Locked
    <3>2. QED
      BY <2>1, <3>1 DEF Means, Others, Inside
  <2>4. QED
    BY <2>2, <2>3
<1>3. QED
  BY <1>1, <1>2 DEF FileCore

\* A call that returns gives Failed or the value its entry has.
LEMMA HistoryStays ==
    ASSUME Seen, Linearizable, File!Witness, NEW c \in Clients, Others(c),
           filePc'[c] = "idle" =>
               filePc[c] # "idle" /\ (result'[c] = File!Failed \/ result'[c] = File!Stored[fileOp[c].provider])
    PROVE  Seen' /\ Linearizable'
<1>1. ASSUME NEW d \in Clients
      PROVE  held'[d] = IF filePc'[d] = "idle" THEN held[d]
                        ELSE (IF filePc[d] = "idle" THEN {} ELSE held[d])
                               \cup {File!Stored[fileOp'[d].provider], File!Stored'[fileOp'[d].provider]}
  BY DEF File!Witness
<1>2. Seen'
  BY <1>1 DEF Seen
<1>3. ASSUME NEW d \in Clients, filePc'[d] = "idle", fileOps'[d] > 0, result'[d] # File!Failed
      PROVE  result'[d] \in held'[d]
  <2>1. held'[d] = held[d]
    BY <1>1, <1>3
  <2>2. CASE d = c
    BY <1>3, <2>1, <2>2 DEF Seen
  <2>3. CASE d # c
    BY <1>3, <2>1, <2>3 DEF Linearizable, File!Linearizable, Others
  <2>4. QED
    BY <2>2, <2>3
<1>4. QED
  BY <1>2, <1>3 DEF Linearizable, File!Linearizable

-----------------------------------------------------------------------------
(* The calls that return                                                   *)

\* What is stored is an entry of every provider.
LEMMA StoredTyped ==
    ASSUME FileCore
    PROVE  File!Stored \in File!Entries
<1>1. file.entries \in File!Entries /\ \A c \in Clients : entries[c] \in File!Entries
  BY DEF FileCore, FileTypes, FileHolds
<1>2. CASE \E c \in Clients : filePc[c] \in Saves
  BY <1>1, <1>2, StoredIs
<1>3. CASE \A c \in Clients : filePc[c] \notin Saves
  BY <1>1, <1>3, StoredIs
<1>4. QED
  BY <1>2, <1>3

\* Return, from inside or from outside.
LEMMA FileReturns ==
    ASSUME FileCore, NEW c \in Clients, filePc[c] # "idle", NEW r \in Results, File!Return(c, r),
           FileHolds', file' = file \/ fileLock = c
    PROVE  /\ FileCore' /\ Others(c) /\ filePc'[c] = "idle" /\ result'[c] = r
           /\ UNCHANGED <<fileOp, entries>>
<1>1. /\ result' = [result EXCEPT ![c] = r] /\ filePc' = [filePc EXCEPT ![c] = "idle"]
      /\ fileLock' = (IF fileLock = c THEN NoClient ELSE fileLock) /\ UNCHANGED <<fileOp, entries, fileOps>>
  BY DEF File!Return, File!Goto
<1>2. FileTypes'
  BY <1>1 DEF FileCore, FileTypes
<1>3. /\ filePc'[c] = "idle" /\ result'[c] = r
      /\ \A d \in Clients \ {c} : filePc'[d] = filePc[d] /\ result'[d] = result[d]
  BY <1>1 DEF FileCore, FileTypes
<1>4. Others(c) /\ LockMoves(c)
  BY <1>1, <1>3 DEF Others, LockMoves
<1>5. Means(c)'
  BY <1>3 DEF Means
<1>6. filePc'[c] \in Inside <=> fileLock' = c
  BY <1>1, <1>3, StoresAssumption DEF Inside
<1>7. FileCore'
  BY <1>2, <1>3, <1>4, <1>5, <1>6, CoreStays
<1>8. QED
  BY <1>1, <1>3, <1>4, <1>7

\* A call that returns releases the entry, ends a save, or loses the file.
LEMMA ReturnStep ==
    ASSUME FileInv, File!Witness, NEW c \in Clients, filePc[c] # "idle", NEW r \in Results,
           r = File!Failed \/ r = File!Stored[fileOp[c].provider], File!Return(c, r),
           \/ filePc[c] # "write" /\ file' = file
           \/ filePc[c] = "write" /\ FileHolds' /\ file'.entries = File!NoEntries /\ Faults # {}
    PROVE  FileInv' /\ (File!Contract!Next \/ UNCHANGED File!Contract!vars)
<1>1. FileHolds' /\ (file' = file \/ fileLock = c)
  BY AloneInside DEF FileInv, FileCore, FileHolds, Inside
<1>2. /\ FileCore /\ FileCore' /\ Others(c) /\ filePc'[c] = "idle" /\ result'[c] = r
      /\ UNCHANGED <<fileOp, entries>>
  BY <1>1, FileReturns DEF FileInv
<1>3. FileInv'
  BY <1>2, HistoryStays DEF FileInv
<1>4. /\ ~Modifies(c)'
      /\ \A d \in Clients \ {c} : /\ Modifies(d)' <=> Modifies(d)
                                  /\ filePc'[d] \in Saves <=> filePc[d] \in Saves
  BY <1>2 DEF Modifies, Others
<1>5. ASSUME filePc[c] \in Inside
      PROVE  /\ \A d \in Clients : filePc'[d] \notin Saves
             /\ Nobody'
             /\ File!Stored' = file'.entries
             /\ filePc[c] \notin Saves => File!Stored = file.entries
  <2>1. \A d \in Clients \ {c} : filePc[d] \notin Inside
    BY <1>2, <1>5, AloneInside
  <2>2. \A d \in Clients : filePc'[d] \notin Saves
    BY <1>2, <1>4, <2>1 DEF Saves, Inside
  <2>3. Nobody'
    BY <1>4, <2>1 DEF Nobody, Modifies, Inside
  <2>4. filePc[c] \notin Saves => \A d \in Clients : filePc[d] \notin Saves
    BY <2>1 DEF Saves, Inside
  <2>5. QED
    BY <1>2, <2>2, <2>3, <2>4, StoredIs, StoredIsNext
<1>6. CASE filePc[c] = "write"
  <2>1. Nobody
    BY <1>2, <1>6, AloneInside DEF Nobody, Modifies, Inside
  <2>2. File!Stored' = File!NoEntries /\ Nobody'
    BY <1>5, <1>6 DEF Inside
  <2>3. QED
    BY <1>2, <1>3, <1>6, <2>1, <2>2, FileLoses
<1>7. CASE filePc[c] = "chmod"
  <2>1. File!Stored = entries[c] /\ entries[c] = file.entries
    BY <1>2, <1>7, StoredIs DEF Saves, FileCore, Means
  <2>2. File!Stored' = File!Stored
    BY <1>5, <1>7, <2>1 DEF Inside
  <2>3. \A d \in Clients : Modifies(d)' <=> Modifies(d)
    BY <1>4, <1>7 DEF Modifies
  <2>4. QED
    BY <1>2, <1>3, <2>2, <2>3, FileKeeps
<1>8. CASE filePc[c] \in {"load", "fn", "truncate"}
  <2>1. File!Stored' = File!Stored /\ Nobody'
    BY <1>5, <1>8 DEF Inside, Saves
  <2>2. CASE Modifies(c)
    <3>1. fileOp[c] \in File!Ops
      BY <1>2, <1>8 DEF FileCore, Locked
    <3>2. NoCredential \in File!Values
      BY DEF File!Values
    <3>3. QED
      BY <1>2, <1>3, <2>1, <2>2, <3>1, <3>2, FileLeaves
  <2>3. CASE ~Modifies(c)
    <3>1. \A d \in Clients : Modifies(d)' <=> Modifies(d)
      BY <1>4, <2>3
    <3>2. QED
      BY <1>2, <1>3, <2>1, <3>1, FileKeeps
  <2>4. QED
    BY <2>2, <2>3
<1>9. CASE filePc[c] \in {"stat", "lock"}
  <2>1. \A d \in Clients : (Modifies(d)' <=> Modifies(d)) /\ (filePc'[d] \in Saves <=> filePc[d] \in Saves)
    BY <1>2, <1>4, <1>9 DEF Modifies, Saves
  <2>2. File!Stored' = File!Stored
    BY <1>2, <1>9, <2>1, StoredStays
  <2>3. QED
    BY <1>2, <1>3, <2>1, <2>2, FileKeeps
<1>10. QED
  BY <1>6, <1>7, <1>8, <1>9 DEF FileInv, FileCore, FileTypes, Inside

\* What a client that has not begun to save sees is stored.
LEMMA StoredInside ==
    ASSUME FileCore, NEW c \in Clients, filePc[c] \in {"load", "fn", "truncate"}
    PROVE  File!Stored = file.entries
<1>1. \A d \in Clients : filePc[d] \notin Saves
  BY AloneInside DEF Saves, Inside
<1>2. QED
  BY <1>1, StoredIs

\* A call in progress is on a provider, and what is stored for it may be answered.
LEMMA StoredValue ==
    ASSUME FileCore, NEW c \in Clients, filePc[c] # "idle"
    PROVE  /\ fileOp[c].provider \in Providers /\ fileOp[c] \in File!Ops
           /\ File!Stored[fileOp[c].provider] \in Results /\ File!Failed \in Results
<1>1. fileOp[c] \in File!Ops
  BY DEF FileCore, Locked
<1>2. fileOp[c].provider \in Providers
  BY <1>1 DEF File!Ops
<1>3. QED
  BY <1>1, <1>2, StoredTyped DEF File!Entries, Results

\* The calls that fail, or return what is stored.
LEMMA FailStep ==
    ASSUME FileInv, File!Witness, NEW c \in Clients,
           File!LockGivesUp(c) \/ File!WriteFails(c) \/ File!ChmodFails(c) \/ File!Crash(c)
    PROVE  FileInv' /\ (File!Contract!Next \/ UNCHANGED File!Contract!vars)
<1>1. filePc[c] # "idle" /\ File!Return(c, File!Failed)
  BY DEF File!LockGivesUp, File!WriteFails, File!ChmodFails, File!Crash
<1>2. \/ filePc[c] # "write" /\ file' = file
      \/ filePc[c] = "write" /\ file' \in {file, File!NotJson("torn"), File!NotJson("empty")} /\ Faults # {}
  BY DEF File!LockGivesUp, File!WriteFails, File!ChmodFails, File!Crash, File!Saving
<1>3. FileCore /\ File!Failed \in Results
  BY <1>1, StoredValue DEF FileInv
<1>4. ASSUME filePc[c] = "write", file' \in {file, File!NotJson("torn"), File!NotJson("empty")}
      PROVE  FileHolds' /\ file'.entries = File!NoEntries
  <2>1. file.state = "empty" /\ FileHolds
    BY <1>3, <1>4 DEF FileCore, Means
  <2>2. file.entries = File!NoEntries
    BY <2>1 DEF FileHolds
  <2>3. File!NoEntries \in File!Entries
    BY DEF File!NoEntries, File!Entries, File!Values
  <2>4. CASE file' = file
    BY <2>1, <2>2, <2>4 DEF FileHolds
  <2>5. CASE file' # file
    <3>1. file'.entries = File!NoEntries /\ file'.state \in {"torn", "empty"}
      BY <1>4, <2>5 DEF File!NotJson
    <3>2. QED
      BY <2>3, <3>1 DEF FileHolds
  <2>6. QED
    BY <2>4, <2>5
<1>5. QED
  BY <1>1, <1>2, <1>3, <1>4, ReturnStep

\* A call that returns a stored value without touching the file.
LEMMA AnswerStep ==
    ASSUME FileInv, File!Witness, NEW c \in Clients, filePc[c] # "idle", filePc[c] # "write", file' = file,
           NEW r, File!Return(c, r), r = File!Failed \/ r = File!Stored[fileOp[c].provider]
    PROVE  FileInv' /\ (File!Contract!Next \/ UNCHANGED File!Contract!vars)
<1>1. r \in Results
  BY StoredValue DEF FileInv
<1>2. QED
  BY <1>1, ReturnStep

\* fn leaves the entry, or the save is over.
LEMMA FnKeepsStep ==
    ASSUME FileInv, File!Witness, NEW c \in Clients, File!FnKeeps(c) \/ File!Chmod(c)
    PROVE  FileInv' /\ (File!Contract!Next \/ UNCHANGED File!Contract!vars)
<1>1. /\ filePc[c] \in {"fn", "chmod"} /\ file' = file
      /\ \E r \in {entries[c][fileOp[c].provider], File!Failed} : File!Return(c, r)
  BY DEF File!FnKeeps, File!Chmod
<1>2. File!Stored = entries[c]
  <2>1. CASE filePc[c] = "fn"
    BY <2>1, StoredInside DEF FileInv, FileCore, Means
  <2>2. CASE filePc[c] = "chmod"
    BY <2>2, StoredIs DEF FileInv, Saves
  <2>3. QED
    BY <1>1, <2>1, <2>2
<1>3. QED
  BY <1>1, <1>2, AnswerStep

-----------------------------------------------------------------------------
(* The calls that go on                                                    *)

\* The places of a client.
Places == {"idle", "stat", "lock"} \cup Inside

\* A client moves, and changes at most what it means to save.
LEMMA OneMoves ==
    ASSUME FileTypes, NEW c \in Clients, NEW l \in Places, filePc' = [filePc EXCEPT ![c] = l],
           NEW e,
           entries' = entries \/ (e \in File!Entries /\ entries' = [entries EXCEPT ![c] = e]),
           UNCHANGED <<fileOp, result, fileOps>>, fileLock' \in Clients \cup {NoClient}
    PROVE  /\ FileTypes' /\ Others(c) /\ filePc'[c] = l
           /\ entries' = [entries EXCEPT ![c] = e] => entries'[c] = e
<1>1. filePc \in [Clients -> Places] /\ entries \in [Clients -> File!Entries]
  BY DEF FileTypes, Places
<1>2. /\ filePc' \in [Clients -> Places] /\ filePc'[c] = l
      /\ \A d \in Clients \ {c} : filePc'[d] = filePc[d]
  BY <1>1
<1>3. /\ entries' \in [Clients -> File!Entries] /\ (entries' = [entries EXCEPT ![c] = e] => entries'[c] = e)
      /\ \A d \in Clients \ {c} : entries'[d] = entries[d]
  BY <1>1
<1>4. FileTypes'
  BY <1>2, <1>3 DEF FileTypes, Places
<1>5. Others(c)
  BY <1>2, <1>3 DEF Others
<1>6. QED
  BY <1>2, <1>3, <1>4, <1>5

\* A client only moves.
LEMMA OnlyMoves ==
    ASSUME FileTypes, NEW c \in Clients, NEW l \in Places, filePc' = [filePc EXCEPT ![c] = l],
           UNCHANGED <<entries, fileOp, result, fileOps>>, fileLock' \in Clients \cup {NoClient}
    PROVE  FileTypes' /\ Others(c) /\ filePc'[c] = l
<1>1. entries[c] \in File!Entries /\ entries' = [entries EXCEPT ![c] = entries[c]]
  BY DEF FileTypes
<1>2. QED
  BY <1>1, OneMoves

\* A call goes on outside the lock.
LEMMA OutsideStep ==
    ASSUME FileInv, File!Witness, NEW c \in Clients, FileTypes', Others(c), UNCHANGED <<file, fileLock>>,
           filePc[c] \notin Inside, filePc'[c] \in {"stat", "lock"}, fileOp'[c] \in File!Ops, Means(c)'
    PROVE  FileInv' /\ UNCHANGED File!Contract!vars
<1>1. FileCore /\ FileHolds' /\ LockMoves(c)
  BY DEF FileInv, FileCore, FileHolds, LockMoves
<1>2. filePc'[c] \notin Inside /\ fileLock # c
  BY <1>1 DEF Inside, FileCore, Locked
<1>3. FileCore'
  BY <1>1, <1>2, CoreStays
<1>4. FileInv'
  BY <1>3, HistoryStays DEF FileInv
<1>5. \A d \in Clients : /\ filePc'[d] \in Saves <=> filePc[d] \in Saves
                         /\ filePc[d] \in Saves => entries'[d] = entries[d]
                         /\ Modifies(d)' <=> Modifies(d)
                         /\ Modifies(d) => fileOp'[d] = fileOp[d]
  BY <1>2 DEF Others, Saves, Modifies, Inside
<1>6. File!Stored' = File!Stored
  BY <1>1, <1>3, <1>5, StoredStays
<1>7. QED
  BY <1>1, <1>3, <1>4, <1>5, <1>6, FileKeeps

\* A call goes on inside the lock, before it saves.
LEMMA InsideStep ==
    ASSUME FileInv, File!Witness, NEW c \in Clients, FileTypes', Others(c), UNCHANGED <<file, fileLock, fileOp>>,
           filePc[c] \in {"load", "fn"}, filePc'[c] \in {"fn", "truncate"}, Means(c)'
    PROVE  FileInv' /\ UNCHANGED File!Contract!vars
<1>1. FileCore /\ FileHolds' /\ LockMoves(c)
  BY DEF FileInv, FileCore, FileHolds, LockMoves
<1>2. filePc'[c] \in Inside /\ fileLock = c /\ fileOp[c] \in File!Ops
  BY <1>1, AloneInside DEF Inside, FileCore, Locked
<1>3. FileCore'
  BY <1>1, <1>2, CoreStays
<1>4. FileInv'
  BY <1>3, HistoryStays DEF FileInv
<1>5. \A d \in Clients : /\ filePc'[d] \in Saves <=> filePc[d] \in Saves
                         /\ filePc[d] \in Saves => entries'[d] = entries[d]
                         /\ Modifies(d)' <=> Modifies(d)
  BY DEF Others, Saves, Modifies
<1>6. File!Stored' = File!Stored
  BY <1>1, <1>3, <1>5, StoredStays
<1>7. QED
  BY <1>1, <1>3, <1>4, <1>5, <1>6, FileKeeps

\* A call begins.
LEMMA CallStep ==
    ASSUME FileInv, File!Witness, NEW c \in Clients, NEW o \in File!Ops, File!Call(c, o)
    PROVE  FileInv' /\ UNCHANGED File!Contract!vars
<1>1. /\ filePc[c] = "idle" /\ fileOp' = [fileOp EXCEPT ![c] = o] /\ fileOps' = [fileOps EXCEPT ![c] = @ + 1]
      /\ filePc' = [filePc EXCEPT ![c] = IF o.kind = "read" THEN "stat" ELSE "lock"]
      /\ UNCHANGED <<file, fileLock, entries, result>>
  BY DEF File!Call, File!Goto
<1>2. FileTypes
  BY DEF FileInv, FileCore
<1>3. /\ FileTypes' /\ Others(c) /\ fileOp'[c] = o
      /\ filePc'[c] = IF o.kind = "read" THEN "stat" ELSE "lock"
  BY <1>1, <1>2 DEF FileTypes, Others
<1>4. Means(c)'
  BY <1>3 DEF Means
<1>5. QED
  BY <1>1, <1>3, <1>4, OutsideStep DEF Inside

\* Read finds no file, or asks for the lock.
LEMMA StatStep ==
    ASSUME FileInv, File!Witness, NEW c \in Clients, File!Stat(c)
    PROVE  FileInv' /\ (File!Contract!Next \/ UNCHANGED File!Contract!vars)
<1>1. filePc[c] = "stat" /\ file' = file /\ FileCore
  BY DEF File!Stat, FileInv
<1>2. CASE file.state = "missing"
  <2>1. \A d \in Clients : filePc[d] \notin Saves
    BY <1>1, <1>2 DEF Saves, FileCore, Means
  <2>2. File!Stored = File!NoEntries
    BY <1>1, <1>2, <2>1, StoredIs DEF FileCore, FileHolds
  <2>3. File!Stored[fileOp[c].provider] = NoCredential
    BY <1>1, <2>2, StoredValue DEF File!NoEntries
  <2>4. File!Return(c, NoCredential)
    BY <1>2 DEF File!Stat
  <2>5. QED
    BY <1>1, <2>3, <2>4, AnswerStep
<1>3. CASE file.state # "missing"
  <2>1. filePc' = [filePc EXCEPT ![c] = "lock"] /\ UNCHANGED <<fileLock, fileOp, entries, result, fileOps>>
    BY <1>3 DEF File!Stat, File!Goto
  <2>2. FileTypes' /\ Others(c) /\ filePc'[c] = "lock"
    BY <1>1, <2>1 DEF FileCore, FileTypes, Others
  <2>3. Means(c)'
    BY <2>2 DEF Means
  <2>4. fileOp'[c] \in File!Ops
    BY <1>1, <2>1, StoredValue
  <2>5. QED
    BY <1>1, <2>1, <2>2, <2>3, <2>4, OutsideStep DEF Inside
<1>4. QED
  BY <1>2, <1>3

\* The lock is taken: a Modify or Delete owns its provider.
LEMMA LockStep ==
    ASSUME FileInv, File!Witness, NEW c \in Clients, File!Lock(c)
    PROVE  FileInv' /\ (File!Contract!Next \/ UNCHANGED File!Contract!vars)
<1>1. /\ filePc[c] = "lock" /\ fileLock = NoClient /\ fileLock' = c
      /\ filePc' = [filePc EXCEPT ![c] = "load"]
      /\ UNCHANGED <<file, fileOp, entries, result, fileOps>> /\ FileCore
  BY DEF File!Lock, File!Goto, FileInv
<1>2. FileTypes' /\ FileHolds' /\ Others(c) /\ LockMoves(c) /\ filePc'[c] = "load"
  <2>1. FileTypes /\ fileLock' \in Clients \cup {NoClient} /\ "load" \in Places
    BY <1>1 DEF FileCore, FileTypes, Places, Inside
  <2>2. FileTypes' /\ Others(c) /\ filePc'[c] = "load"
    BY <1>1, <2>1, OnlyMoves
  <2>3. QED
    BY <1>1, <2>2 DEF FileCore, FileHolds, LockMoves
<1>3. Means(c)' /\ fileOp[c] \in File!Ops
  BY <1>1, <1>2, StoredValue DEF Means
<1>4. FileCore'
  BY <1>1, <1>2, <1>3, CoreStays DEF Inside
<1>5. FileInv'
  BY <1>2, <1>4, HistoryStays DEF FileInv
<1>6. \A d \in Clients : filePc[d] \notin Inside
  BY <1>1, StoresAssumption DEF FileCore, Locked
<1>7. Nobody /\ \A d \in Clients : filePc[d] \notin Saves
  BY <1>6 DEF Nobody, Modifies, Saves, Inside
<1>8. \A d \in Clients : filePc'[d] \notin Saves
  BY <1>2, <1>7 DEF Others, Saves
<1>9. File!Stored' = File!Stored
  BY <1>1, <1>4, <1>7, <1>8, StoredStays
<1>10. CASE fileOp[c].kind = "read"
  <2>1. \A d \in Clients : ~Modifies(d) /\ ~Modifies(d)'
    BY <1>1, <1>2, <1>7, <1>10 DEF Nobody, Modifies, Others
  <2>2. QED
    BY <1>1, <1>4, <1>5, <1>9, <2>1, FileKeeps
<1>11. CASE fileOp[c].kind # "read"
  <2>1. Modifies(c)' /\ fileOp'[c] \in File!Ops
    BY <1>1, <1>2, <1>3, <1>11 DEF Modifies
  <2>2. QED
    BY <1>1, <1>4, <1>5, <1>7, <1>9, <2>1, FileAcquires
<1>12. QED
  BY <1>10, <1>11

\* The file is loaded, and Read and a Delete of nothing return.
LEMMA LoadStep ==
    ASSUME FileInv, File!Witness, NEW c \in Clients, File!Load(c)
    PROVE  FileInv' /\ (File!Contract!Next \/ UNCHANGED File!Contract!vars)
<1>1. filePc[c] = "load" /\ file' = file /\ FileCore
  BY DEF File!Load, FileInv
<1>2. PICK p \in Providers : p = fileOp[c].provider /\ fileOp[c] \in File!Ops
  BY <1>1, StoredValue
<1>3. File!Stored = file.entries /\ file.entries \in File!Entries
  BY <1>1, StoredInside DEF FileCore, FileHolds
<1>4. ASSUME NEW e \in File!Entries, NEW l \in {"fn", "truncate"}, filePc' = [filePc EXCEPT ![c] = l],
             entries' = [entries EXCEPT ![c] = e], UNCHANGED <<fileLock, fileOp, result, fileOps>>,
             l = "fn" => fileOp[c].kind = "modify" /\ e = file.entries,
             l = "truncate" => /\ fileOp[c].kind = "delete"
                               /\ e = [file.entries EXCEPT ![p] = NoCredential]
      PROVE  FileInv' /\ UNCHANGED File!Contract!vars
  <2>1. FileTypes' /\ Others(c) /\ filePc'[c] = l /\ entries'[c] = e
    <3>1. FileTypes /\ fileLock' \in Clients \cup {NoClient} /\ l \in Places
      BY <1>1, <1>4 DEF FileCore, FileTypes, Places, Inside
    <3>2. QED
      BY <1>4, <3>1, OneMoves
  <2>2. NoCredential \in File!Values
    BY DEF File!Values
  <2>3. Means(c)'
    BY <1>1, <1>2, <1>4, <2>1, <2>2 DEF Means
  <2>4. QED
    BY <1>1, <1>4, <2>1, <2>3, InsideStep
<1>5. CASE \E r \in {File!Failed, file.entries[p]} : File!Return(c, r)
  BY <1>1, <1>2, <1>3, <1>5, AnswerStep
<1>6. CASE fileOp[c].kind = "delete" /\ ~\E r \in {File!Failed, file.entries[p]} : File!Return(c, r)
  <2>1. /\ entries' = [entries EXCEPT ![c] = [file.entries EXCEPT ![p] = NoCredential]]
        /\ filePc' = [filePc EXCEPT ![c] = "truncate"] /\ UNCHANGED <<fileLock, fileOp, result, fileOps>>
    BY <1>2, <1>6 DEF File!Load, File!Goto
  <2>2. [file.entries EXCEPT ![p] = NoCredential] \in File!Entries
    BY <1>3 DEF File!Entries, File!Values
  <2>3. QED
    BY <1>4, <1>6, <2>1, <2>2
<1>7. CASE fileOp[c].kind # "delete" /\ ~\E r \in {File!Failed, file.entries[p]} : File!Return(c, r)
  <2>1. /\ fileOp[c].kind # "read" /\ entries' = [entries EXCEPT ![c] = file.entries]
        /\ filePc' = [filePc EXCEPT ![c] = "fn"] /\ UNCHANGED <<fileLock, fileOp, result, fileOps>>
    BY <1>2, <1>7 DEF File!Load, File!Goto
  <2>2. fileOp[c].kind = "modify"
    BY <1>2, <1>7, <2>1 DEF File!Ops
  <2>3. QED
    BY <1>3, <1>4, <2>1, <2>2
<1>8. QED
  BY <1>5, <1>6, <1>7

\* fn returns a credential.
LEMMA FnStoresStep ==
    ASSUME FileInv, File!Witness, NEW c \in Clients, NEW cred \in Credentials, File!FnStores(c, cred)
    PROVE  FileInv' /\ UNCHANGED File!Contract!vars
<1>1. /\ filePc[c] = "fn" /\ entries' = [entries EXCEPT ![c][fileOp[c].provider] = cred]
      /\ filePc' = [filePc EXCEPT ![c] = "truncate"]
      /\ UNCHANGED <<file, fileLock, fileOp, result, fileOps>> /\ FileCore
  BY DEF File!FnStores, File!Goto, FileInv
<1>2. PICK p \in Providers : p = fileOp[c].provider
  BY <1>1, StoredValue
<1>3. fileOp[c].kind = "modify" /\ entries[c] = file.entries
  BY <1>1 DEF FileCore, Means
<1>4. /\ cred \in File!Values /\ file.entries \in File!Entries
      /\ entries \in [Clients -> File!Entries] /\ FileTypes
  BY <1>1 DEF File!Values, FileCore, FileTypes, FileHolds
<1>5. [file.entries EXCEPT ![p] = cred] \in File!Entries
  BY <1>4 DEF File!Entries
<1>6. entries' = [entries EXCEPT ![c] = [file.entries EXCEPT ![p] = cred]]
  BY <1>1, <1>2, <1>3, <1>4
<1>7. FileTypes' /\ Others(c) /\ filePc'[c] = "truncate" /\ entries'[c] = [file.entries EXCEPT ![p] = cred]
  <2>1. fileLock' \in Clients \cup {NoClient} /\ "truncate" \in Places
    BY <1>1, <1>4 DEF FileTypes, Places, Inside
  <2>2. QED
    BY <1>1, <1>4, <1>5, <1>6, <2>1, OneMoves
<1>8. Means(c)'
  BY <1>1, <1>2, <1>3, <1>4, <1>7 DEF Means
<1>9. QED
  BY <1>1, <1>7, <1>8, InsideStep

\* A save begins: from here the store stands for what is saved.
LEMMA TruncateStep ==
    ASSUME FileInv, File!Witness, NEW c \in Clients, File!Truncate(c)
    PROVE  FileInv' /\ File!Contract!Next
<1>1. /\ filePc[c] = "truncate" /\ file' = File!NotJson("empty") /\ filePc' = [filePc EXCEPT ![c] = "write"]
      /\ UNCHANGED <<fileLock, fileOp, entries, result, fileOps>> /\ FileCore
  BY DEF File!Truncate, File!Goto, FileInv
<1>2. fileLock = c /\ (\A d \in Clients \ {c} : filePc[d] \notin Inside) /\ fileOp[c] \in File!Ops
  BY <1>1, AloneInside, StoredValue DEF Inside
<1>3. file'.state = "empty" /\ file'.entries = File!NoEntries /\ File!NoEntries \in File!Entries
  BY <1>1 DEF File!NotJson, File!NoEntries, File!Entries, File!Values
<1>4. FileTypes' /\ FileHolds' /\ Others(c) /\ LockMoves(c) /\ filePc'[c] = "write"
  <2>1. FileTypes /\ fileLock' \in Clients \cup {NoClient} /\ "write" \in Places
    BY <1>1 DEF FileCore, FileTypes, Places, Inside
  <2>2. FileTypes' /\ Others(c) /\ filePc'[c] = "write"
    BY <1>1, <2>1, OnlyMoves
  <2>3. QED
    BY <1>1, <1>3, <2>2 DEF FileHolds, LockMoves
<1>5. Means(c)'
  BY <1>3, <1>4 DEF Means
<1>6. FileCore'
  BY <1>1, <1>2, <1>4, <1>5, CoreStays DEF Inside
<1>7. FileInv'
  BY <1>4, <1>6, HistoryStays DEF FileInv
<1>8. Modifies(c) /\ Nobody'
  <2>1. fileOp[c].kind # "read"
    BY <1>1 DEF FileCore, Means
  <2>2. QED
    BY <1>1, <1>2, <1>4, <2>1 DEF Modifies, Nobody, Others, Inside
<1>9. PICK v \in File!Values : entries[c] = [file.entries EXCEPT ![fileOp[c].provider] = v]
  BY <1>1 DEF FileCore, Means
<1>10. File!Stored = file.entries /\ File!Stored' = entries[c]
  BY <1>1, <1>4, <1>6, StoredInside, StoredIsNext DEF Saves
<1>11. File!Stored' = [File!Stored EXCEPT ![fileOp[c].provider] = v]
  BY <1>9, <1>10
<1>12. QED
  BY <1>1, <1>2, <1>6, <1>7, <1>8, <1>11, FileLeaves

\* The entries reach the file, where the store had them already.
LEMMA WriteStep ==
    ASSUME FileInv, File!Witness, NEW c \in Clients, File!Write(c)
    PROVE  FileInv' /\ UNCHANGED File!Contract!vars
<1>1. /\ filePc[c] = "write" /\ file' = File!Json(entries[c]) /\ filePc' = [filePc EXCEPT ![c] = "chmod"]
      /\ UNCHANGED <<fileLock, fileOp, entries, result, fileOps>> /\ FileCore
  BY DEF File!Write, File!Goto, FileInv
<1>2. fileLock = c /\ fileOp[c] \in File!Ops
  BY <1>1, AloneInside, StoredValue DEF Inside
<1>3. file'.state = "json" /\ file'.entries = entries[c] /\ entries[c] \in File!Entries
  BY <1>1 DEF File!Json, FileCore, FileTypes
<1>4. FileTypes' /\ FileHolds' /\ Others(c) /\ LockMoves(c) /\ filePc'[c] = "chmod"
  <2>1. FileTypes /\ fileLock' \in Clients \cup {NoClient} /\ "chmod" \in Places
    BY <1>1 DEF FileCore, FileTypes, Places, Inside
  <2>2. FileTypes' /\ Others(c) /\ filePc'[c] = "chmod"
    BY <1>1, <2>1, OnlyMoves
  <2>3. QED
    BY <1>1, <1>3, <2>2 DEF FileHolds, LockMoves
<1>5. Means(c)'
  BY <1>1, <1>3, <1>4 DEF Means
<1>6. FileCore'
  BY <1>1, <1>2, <1>4, <1>5, CoreStays DEF Inside
<1>7. FileInv'
  BY <1>4, <1>6, HistoryStays DEF FileInv
<1>8. File!Stored = entries[c] /\ File!Stored' = entries[c]
  BY <1>1, <1>4, <1>6, StoredIs, StoredIsNext DEF Saves
<1>9. \A d \in Clients : Modifies(d)' <=> Modifies(d)
  BY <1>1, <1>4 DEF Modifies, Others
<1>10. QED
  BY <1>1, <1>6, <1>7, <1>8, <1>9, FileKeeps

\* FileInv is inductive, and every step on the file is one of the contract or none.
LEMMA FileStep ==
    ASSUME FileInv, File!Next
    PROVE  FileInv' /\ (File!Contract!Next \/ UNCHANGED File!Contract!vars)
<1>1. File!Witness
  BY DEF File!Next
<1>2. PICK c \in Clients : \/ \E o \in File!Ops : File!Call(c, o)
                           \/ File!Step(c) \/ File!LockGivesUp(c) \/ File!Crash(c)
  BY DEF File!Next
<1>3. CASE \E o \in File!Ops : File!Call(c, o)
  BY <1>1, <1>3, CallStep
<1>4. CASE File!LockGivesUp(c) \/ File!Crash(c)
  BY <1>1, <1>4, FailStep
<1>5. CASE File!Step(c)
  BY <1>1, <1>5, StatStep, LockStep, LoadStep, FnKeepsStep, FnStoresStep, TruncateStep,
     WriteStep, FailStep
     DEF File!Step
<1>6. QED
  BY <1>2, <1>3, <1>4, <1>5

-----------------------------------------------------------------------------
(* The file store                                                          *)

\* FileInv holds at the start, which the contract allows.
LEMMA FileInit == Init => FileInv /\ File!Contract!Init
<1> SUFFICES ASSUME Init PROVE FileInv /\ File!Contract!Init
  OBVIOUS
<1>1. File!Init
  BY DEF Init
<1>2. /\ \A c \in Clients : filePc[c] = "idle" /\ fileOp[c] = File!NoOp /\ entries[c] = File!NoEntries
      /\ fileLock = NoClient
  BY <1>1 DEF File!Init
<1>3. File!NoEntries \in File!Entries
  BY DEF File!NoEntries, File!Entries, File!Values
<1>4. FileHolds
  BY <1>1, <1>3 DEF FileHolds, File!Init, File!NotJson, File!Json
<1>5. FileTypes
  <2>1. NoCredential \in Results
    BY DEF Results, File!Values
  <2>2. QED
    BY <1>1, <1>3, <2>1 DEF FileTypes, File!Init
<1>6. Locked
  BY <1>2, StoresAssumption DEF Locked, Inside
<1>7. \A c \in Clients : Means(c)
  BY <1>2 DEF Means
<1>8. FileCore
  BY <1>4, <1>5, <1>6, <1>7 DEF FileCore
<1>9. Seen
  BY <1>2 DEF Seen
<1>10. Linearizable
  BY <1>1 DEF Linearizable, File!Linearizable, File!Init
<1>11. File!Stored \in [Providers -> (Credentials \cup {Foreign}) \cup {NoCredential}]
  BY <1>8, StoredTyped DEF File!Entries, File!Values
<1>12. \A p \in Providers : File!Owner(p) = NoClient
  BY <1>2 DEF File!Owner
<1>13. QED
  BY <1>8, <1>9, <1>10, <1>11, <1>12 DEF FileInv, File!Contract!Init

\* FileInv is inductive over the steps of both stores.
LEMMA FileNext ==
    FileInv /\ [Next]_vars => FileInv' /\ [File!Contract!Next]_File!Contract!vars
<1> SUFFICES ASSUME FileInv, [Next]_vars
             PROVE  FileInv' /\ (File!Contract!Next \/ UNCHANGED File!Contract!vars)
  OBVIOUS
<1>1. CASE File!Next
  BY <1>1, FileStep
<1>2. CASE UNCHANGED fileVars
  <2>1. UNCHANGED <<file, fileLock, filePc, fileOp, entries, result, fileOps, held>>
    BY <1>2 DEF fileVars
  <2>2. FileCore'
    BY <2>1 DEF FileInv, FileCore, FileTypes, Locked, FileHolds, Means
  <2>3. File!Stored' = File!Stored
    BY <2>1, <2>2, StoredStays DEF FileInv
  <2>4. Seen'
    BY <2>1, <2>3 DEF FileInv, Seen
  <2>5. Linearizable'
    BY <2>1 DEF FileInv, Linearizable, File!Linearizable
  <2>6. \A d \in Clients : Modifies(d)' <=> Modifies(d)
    BY <2>1 DEF Modifies
  <2>7. UNCHANGED File!Contract!vars
    BY <2>1, <2>2, <2>3, <2>6, FileKeeps DEF FileInv
  <2>8. QED
    BY <2>2, <2>4, <2>5, <2>7 DEF FileInv
<1>3. QED
  BY <1>1, <1>2 DEF Next, InMemory, vars

\* The inductive invariant of the file store: one client is inside the lock, the file
\* and what that client means to save agree, and each call saw what its entry is.
THEOREM FileInvariant == Spec => []FileInv
  BY FileInit, FileNext, PTL DEF Spec

\* For any clients, providers, credentials, faults and numbers of calls, a call on the
\* file that succeeds returns a value its entry had while it ran, be it the value the
\* call wrote (Read, Modify and Delete of FileCredentialStore).
THEOREM CallsLinearizable == Spec => []Linearizable
<1>1. FileInv => Linearizable
  BY DEF FileInv
<1>2. QED
  BY <1>1, FileInvariant, PTL

\* The file store implements CredentialStore, Modify and Delete taking effect when their
\* save truncates the file; a save that is cut short is a storage failure.
THEOREM FileContract == Spec => FileImplementsContract
  BY FileInit, FileNext, PTL
     DEF Spec, FileImplementsContract, File!ImplementsContract, File!Contract!Spec

\* Without faults, what is stored for a provider changes only by the client inside a call
\* on that provider, which holds the lock: entries of other providers "round-trip
\* untouched" (filestore.go, the comment on FileCredentialStore) unless a save is cut.
THEOREM OthersRoundTrip == Faults = {} => (Spec => File!OthersUntouched)
<1> DEFINE By(p) == \E c \in Clients : fileLock = c /\ fileOp[c].provider = p
           Kept == \A p \in Providers : File!Stored'[p] # File!Stored[p] => By(p)
<1> SUFFICES ASSUME Faults = {} PROVE Spec => File!OthersUntouched
  OBVIOUS
<1>1. FileInv /\ [Next]_vars => [Kept]_File!vars
  <2> SUFFICES ASSUME FileInv, [Next]_vars PROVE Kept
    OBVIOUS
  <2>1. CASE UNCHANGED File!Contract!vars
    BY <2>1 DEF File!Contract!vars
  <2>2. CASE File!Contract!Next
    <3>1. PICK c \in Clients, p \in Providers :
             \/ File!Contract!Acquire(c, p)
             \/ File!Contract!Release(c, p)
             \/ \E v \in File!Values \cup {Foreign} : File!Contract!Commit(c, p, v)
      BY <2>2 DEF File!Contract!Next, File!Contract!StorageFails, File!Values
    <3>2. CASE File!Contract!Acquire(c, p) \/ File!Contract!Release(c, p)
      BY <3>2 DEF File!Contract!Acquire, File!Contract!Release
    <3>3. ASSUME NEW v, File!Contract!Commit(c, p, v) PROVE Kept
      <4>1. File!Owner(p) = c
        BY <3>3 DEF File!Contract!Commit
      <4>2. By(p)
        BY <4>1, StoresAssumption DEF File!Owner
      <4>3. File!Stored' = [File!Stored EXCEPT ![p] = v]
        BY <3>3 DEF File!Contract!Commit
      <4>4. File!Stored \in File!Entries
        BY StoredTyped DEF FileInv
      <4> QED BY <4>2, <4>3, <4>4 DEF File!Entries
    <3> QED BY <3>1, <3>2, <3>3
  <2> QED BY <2>1, <2>2, FileNext
<1> QED BY <1>1, FileInvariant, PTL DEF Spec, File!OthersUntouched

-----------------------------------------------------------------------------
(* The memory                                                              *)

\* The places of a client that has the mutex.
Holding == {"read", "fn", "write"}

MemoryTypes ==
    /\ credentials \in [Providers -> Memory!Values]
    /\ locks \in [Providers -> Nat]
    /\ heldBy \in Seq(Clients \cup {NoClient})
    /\ pc \in [Clients -> {"idle", "lock"} \cup Holding]
    /\ op \in [Clients -> Memory!Ops \cup {Memory!NoOp}]
    /\ lock \in [Clients -> Nat]
    /\ next \in [Clients -> Memory!Values]

\* A mutex belongs to one provider.
Mutexes ==
    /\ \A p \in Providers : locks[p] # Memory!NoMutex => locks[p] \in 1..Len(heldBy)
    /\ \A p, q \in Providers : locks[p] = locks[q] /\ locks[p] # Memory!NoMutex => p = q

\* A call has the mutex of its provider, and holds it when it is past Lock.
Mutual ==
    \A c \in Clients : pc[c] # "idle" =>
        /\ op[c] \in Memory!Ops
        /\ lock[c] = locks[op[c].provider] /\ lock[c] # Memory!NoMutex
        /\ pc[c] \in Holding => heldBy[lock[c]] = c

MemoryInv == MemoryTypes /\ Mutexes /\ Mutual

-----------------------------------------------------------------------------
(* The in-memory store implements CredentialStore                          *)

\* The client is inside Modify or Delete of p.
Holds(c, p) == pc[c] \in Holding /\ op[c].provider = p

\* One client holds the mutex of a provider.
LEMMA Alone ==
    ASSUME MemoryInv, NEW c \in Clients, NEW d \in Clients, pc[c] # "idle", pc[d] \in Holding,
           op[c].provider = op[d].provider
    PROVE  heldBy[lock[c]] = d
  BY DEF MemoryInv, Mutual, Holding

\* The owner of a provider is the client that holds its mutex.
LEMMA OwnerHolds ==
    ASSUME MemoryInv, NEW p \in Providers
    PROVE  /\ \A c \in Clients : Holds(c, p) => Memory!Owner(p) = c
           /\ (\A c \in Clients : ~Holds(c, p)) => Memory!Owner(p) = NoClient
<1> DEFINE holders == {c \in Clients : pc[c] \in {"read", "fn", "write"} /\ op[c].provider = p}
<1>1. Memory!Owner(p) = IF holders = {} THEN NoClient ELSE CHOOSE c \in holders : TRUE
  BY DEF Memory!Owner
<1>2. \A c \in Clients : c \in holders <=> Holds(c, p)
  BY DEF Holds, Holding
<1>3. ASSUME NEW c \in Clients, Holds(c, p) PROVE holders = {c}
  <2>1. ASSUME NEW d \in holders PROVE d = c
    <3>1. d \in Clients /\ Holds(d, p)
      BY <1>2
    <3>2. heldBy[lock[c]] = d /\ heldBy[lock[c]] = c
      BY <1>3, <3>1, Alone DEF Holds, Holding
    <3>3. QED
      BY <3>2
  <2>2. QED
    BY <1>2, <1>3, <2>1
<1>4. QED
  <2>1. ASSUME NEW c \in Clients, Holds(c, p) PROVE Memory!Owner(p) = c
    BY <1>1, <1>3, <2>1
  <2>2. ASSUME \A c \in Clients : ~Holds(c, p) PROVE Memory!Owner(p) = NoClient
    BY <1>1, <1>2, <2>2
  <2>3. QED
    BY <2>1, <2>2

\* And after a step.
LEMMA OwnerHoldsNext ==
    ASSUME MemoryInv', NEW p \in Providers
    PROVE  /\ \A c \in Clients : Holds(c, p)' => Memory!Owner(p)' = c
           /\ (\A c \in Clients : ~Holds(c, p)') => Memory!Owner(p)' = NoClient
<1> DEFINE holders == {c \in Clients : pc'[c] \in {"read", "fn", "write"} /\ op'[c].provider = p}
<1>1. Memory!Owner(p)' = IF holders = {} THEN NoClient ELSE CHOOSE c \in holders : TRUE
  BY DEF Memory!Owner
<1>2. \A c \in Clients : c \in holders <=> Holds(c, p)'
  BY DEF Holds, Holding
<1>3. ASSUME NEW c \in Clients, Holds(c, p)' PROVE holders = {c}
  <2>1. ASSUME NEW d \in holders PROVE d = c
    <3>1. d \in Clients /\ Holds(d, p)'
      BY <1>2
    <3>2. heldBy'[lock'[c]] = d /\ heldBy'[lock'[c]] = c
      BY <1>3, <3>1 DEF Holds, Holding, MemoryInv, Mutual
    <3>3. QED
      BY <3>2
  <2>2. QED
    BY <1>2, <1>3, <2>1
<1>4. QED
  <2>1. ASSUME NEW c \in Clients, Holds(c, p)' PROVE Memory!Owner(p)' = c
    BY <1>1, <1>3, <2>1
  <2>2. ASSUME \A c \in Clients : ~Holds(c, p)' PROVE Memory!Owner(p)' = NoClient
    BY <1>1, <1>2, <2>2
  <2>3. QED
    BY <2>1, <2>2

\* What a call does to the contract's variables.
LEMMA NobodyMoves ==
    ASSUME MemoryInv, MemoryInv', UNCHANGED credentials,
           \A c \in Clients, p \in Providers : Holds(c, p)' <=> Holds(c, p)
    PROVE  UNCHANGED Memory!Contract!vars
<1>1. ASSUME NEW p \in Providers PROVE Memory!Owner(p)' = Memory!Owner(p)
  <2>1. CASE \E c \in Clients : Holds(c, p)
    BY <2>1, OwnerHolds, OwnerHoldsNext
  <2>2. CASE \A c \in Clients : ~Holds(c, p)
    BY <2>2, OwnerHolds, OwnerHoldsNext
  <2>3. QED
    BY <2>1, <2>2
<1>2. QED
  BY <1>1 DEF Memory!Contract!vars

\* Lock is Acquire.
LEMMA OneEnters ==
    ASSUME MemoryInv, MemoryInv', UNCHANGED credentials, NEW c \in Clients, NEW p \in Providers,
           \A d \in Clients : ~Holds(d, p), Holds(c, p)',
           \A d \in Clients, q \in Providers : d # c \/ q # p => (Holds(d, q)' <=> Holds(d, q))
    PROVE  Memory!Contract!Next
<1>1. Memory!Owner(p) = NoClient /\ Memory!Owner(p)' = c
  BY OwnerHolds, OwnerHoldsNext
<1>2. ASSUME NEW q \in Providers \ {p} PROVE Memory!Owner(q)' = Memory!Owner(q)
  <2>1. CASE \E d \in Clients : Holds(d, q)
    BY <2>1, OwnerHolds, OwnerHoldsNext
  <2>2. CASE \A d \in Clients : ~Holds(d, q)
    BY <2>2, OwnerHolds, OwnerHoldsNext
  <2>3. QED
    BY <2>1, <2>2
<1>3. Memory!Contract!Acquire(c, p)
  BY <1>1, <1>2 DEF Memory!Contract!Acquire
<1>4. QED
  BY <1>3 DEF Memory!Contract!Next

\* Unlock is Release, or Commit.
LEMMA OneLeaves ==
    ASSUME MemoryInv, MemoryInv', NEW c \in Clients, NEW p \in Providers,
           Holds(c, p), \A d \in Clients : ~Holds(d, p)',
           \A d \in Clients, q \in Providers : d # c \/ q # p => (Holds(d, q)' <=> Holds(d, q)),
           NEW v \in Memory!Values, UNCHANGED credentials \/ credentials' = [credentials EXCEPT ![p] = v]
    PROVE  Memory!Contract!Next
<1>1. Memory!Owner(p) = c /\ Memory!Owner(p)' = NoClient
  BY OwnerHolds, OwnerHoldsNext
<1>2. ASSUME NEW q \in Providers \ {p} PROVE Memory!Owner(q)' = Memory!Owner(q)
  <2>1. CASE \E d \in Clients : Holds(d, q)
    BY <2>1, OwnerHolds, OwnerHoldsNext
  <2>2. CASE \A d \in Clients : ~Holds(d, q)
    BY <2>2, OwnerHolds, OwnerHoldsNext
  <2>3. QED
    BY <2>1, <2>2
<1>3. CASE UNCHANGED credentials
  <2>1. Memory!Contract!Release(c, p)
    BY <1>1, <1>2, <1>3 DEF Memory!Contract!Release
  <2>2. QED
    BY <2>1 DEF Memory!Contract!Next
<1>4. CASE credentials' = [credentials EXCEPT ![p] = v]
  <2>1. Memory!Contract!Commit(c, p, v)
    BY <1>1, <1>2, <1>4 DEF Memory!Contract!Commit
  <2>2. v \in Credentials \cup {NoCredential}
    BY DEF Memory!Values
  <2>3. QED
    BY <2>1, <2>2 DEF Memory!Contract!Next
<1>5. QED
  BY <1>3, <1>4

\* One entry of a sequence changes.
LEMMA OneChanged ==
    ASSUME NEW S, NEW s \in Seq(S), NEW k \in 1..Len(s), NEW x \in S, NEW t, t = [s EXCEPT ![k] = x]
    PROVE  /\ t \in Seq(S) /\ Len(t) = Len(s) /\ t[k] = x
           /\ \A j \in 1..Len(s) : j # k => t[j] = s[j]
  BY ExceptSeq

-----------------------------------------------------------------------------
(* The steps in memory                                                     *)

\* The mutex of a call in progress exists.
LEMMA MutexMade ==
    ASSUME MemoryInv, NEW c \in Clients, pc[c] # "idle"
    PROVE  /\ op[c].provider \in Providers /\ lock[c] \in 1..Len(heldBy)
           /\ lock[c] = locks[op[c].provider] /\ lock[c] # Memory!NoMutex
<1>1. op[c] \in Memory!Ops /\ lock[c] = locks[op[c].provider] /\ lock[c] # Memory!NoMutex
  BY DEF MemoryInv, Mutual
<1>2. op[c].provider \in Providers
  BY <1>1 DEF Memory!Ops
<1>3. QED
  BY <1>1, <1>2 DEF MemoryInv, Mutexes

\* A call begins, and makes the mutex when its provider has none.
LEMMA BeginsInMemory ==
    ASSUME MemoryInv, NEW c \in Clients, NEW o \in Memory!Ops, Memory!ProviderLock(c, o)
    PROVE  MemoryInv' /\ UNCHANGED Memory!Contract!vars
<1> DEFINE p == o.provider
<1>1. p \in Providers /\ p = o.provider
  BY DEF Memory!Ops
<1>2. /\ pc[c] = "idle" /\ pc'[c] = "lock" /\ op'[c] = o /\ lock'[c] = locks'[p]
      /\ \A d \in Clients \ {c} : pc'[d] = pc[d] /\ op'[d] = op[d] /\ lock'[d] = lock[d]
      /\ UNCHANGED <<credentials, current, next>>
  BY DEF Memory!ProviderLock, Memory!Goto, MemoryInv, MemoryTypes
<1>3. MemoryInv'
  <2>1. CASE locks[p] # Memory!NoMutex
    <3>1. UNCHANGED <<locks, heldBy>>
      BY <2>1 DEF Memory!ProviderLock
    <3>2. lock'[c] = locks[p] /\ locks[p] \in Nat
      BY <1>1, <1>2, <3>1 DEF MemoryInv, MemoryTypes
    <3>3. MemoryTypes'
      BY <1>1, <1>2, <3>1, <3>2 DEF MemoryInv, MemoryTypes, Memory!ProviderLock, Memory!Goto
    <3>4. Mutexes'
      BY <3>1 DEF MemoryInv, Mutexes
    <3>5. Mutual'
      BY <1>1, <1>2, <2>1, <3>1, <3>2 DEF MemoryInv, Mutual, Holding
    <3>6. QED
      BY <3>3, <3>4, <3>5 DEF MemoryInv
  <2>2. CASE locks[p] = Memory!NoMutex
    <3>1. locks' = [locks EXCEPT ![p] = Len(heldBy) + 1] /\ heldBy' = Append(heldBy, NoClient)
      BY <2>2 DEF Memory!ProviderLock, Memory!NewMutex
    <3>2. heldBy \in Seq(Clients \cup {NoClient}) /\ locks \in [Providers -> Nat]
      BY DEF MemoryInv, MemoryTypes
    <3>3. PICK n \in Nat : n = Len(heldBy)
      BY <3>2
    <3>4. /\ heldBy' \in Seq(Clients \cup {NoClient}) /\ Len(heldBy') = n + 1
          /\ \A j \in 1..n : heldBy'[j] = heldBy[j]
      BY <3>1, <3>2, <3>3, AppendProperties
    <3>5. /\ locks' \in [Providers -> Nat] /\ locks'[p] = n + 1
          /\ \A q \in Providers \ {p} : locks'[q] = locks[q]
      BY <1>1, <3>1, <3>2, <3>3
    <3>6. n + 1 # Memory!NoMutex /\ lock'[c] = n + 1
      BY <1>2, <3>5 DEF Memory!NoMutex
    <3>7. MemoryTypes'
      BY <1>1, <1>2, <3>4, <3>5 DEF MemoryInv, MemoryTypes, Memory!ProviderLock, Memory!Goto
    <3>8. Mutexes'
      <4>1. \A q \in Providers : locks[q] # Memory!NoMutex => locks[q] \in 1..n
        BY <3>3 DEF MemoryInv, Mutexes
      <4>2. \A q \in Providers \ {p} : locks'[q] # Memory!NoMutex => locks'[q] \in 1..(n + 1) /\ locks'[q] # n + 1
        BY <3>5, <4>1
      <4>3. locks'[p] \in 1..(n + 1)
        BY <3>5
      <4>4. \A q, u \in Providers : locks[q] = locks[u] /\ locks[q] # Memory!NoMutex => q = u
        BY DEF MemoryInv, Mutexes
      <4>5. \A q, u \in Providers : locks'[q] = locks'[u] /\ locks'[q] # Memory!NoMutex => q = u
        BY <3>5, <4>2, <4>4
      <4>6. QED
        BY <3>4, <4>2, <4>3, <4>5 DEF Mutexes
    <3>9. Mutual'
      <4>1. ASSUME NEW d \in Clients \ {c}, pc[d] # "idle"
            PROVE  /\ op[d] \in Memory!Ops /\ lock[d] = locks'[op[d].provider] /\ lock[d] # Memory!NoMutex
                   /\ pc[d] \in Holding => heldBy'[lock[d]] = d
        <5>1. /\ op[d].provider \in Providers /\ lock[d] \in 1..n
              /\ lock[d] = locks[op[d].provider] /\ lock[d] # Memory!NoMutex
          BY <3>3, <4>1, MutexMade
        <5>2. op[d].provider # p
          BY <2>2, <5>1
        <5>3. op[d] \in Memory!Ops /\ (pc[d] \in Holding => heldBy[lock[d]] = d)
          BY <4>1 DEF MemoryInv, Mutual
        <5>4. QED
          BY <3>4, <3>5, <5>1, <5>2, <5>3
      <4>2. QED
        BY <1>1, <1>2, <3>5, <3>6, <4>1 DEF Mutual, Holding
    <3>10. QED
      BY <3>7, <3>8, <3>9 DEF MemoryInv
  <2>3. QED
    BY <2>1, <2>2
<1>4. \A d \in Clients, q \in Providers : Holds(d, q)' <=> Holds(d, q)
  BY <1>2 DEF Holds, Holding
<1>5. QED
  BY <1>2, <1>3, <1>4, NobodyMoves

\* The holder of a mutex changes: nobody else holds it.
LEMMA HolderChanges ==
    ASSUME MemoryInv, NEW c \in Clients, NEW x \in Clients \cup {NoClient}, pc[c] # "idle",
           heldBy[lock[c]] \in {c, NoClient}, heldBy' = [heldBy EXCEPT ![lock[c]] = x]
    PROVE  /\ heldBy' \in Seq(Clients \cup {NoClient}) /\ Len(heldBy') = Len(heldBy)
           /\ heldBy'[lock[c]] = x
           /\ \A d \in Clients \ {c} : pc[d] \in Holding => heldBy'[lock[d]] = d
<1>1. heldBy \in Seq(Clients \cup {NoClient}) /\ lock[c] \in 1..Len(heldBy)
  BY MutexMade DEF MemoryInv, MemoryTypes
<1>2. /\ heldBy' \in Seq(Clients \cup {NoClient}) /\ Len(heldBy') = Len(heldBy) /\ heldBy'[lock[c]] = x
      /\ \A j \in 1..Len(heldBy) : j # lock[c] => heldBy'[j] = heldBy[j]
  BY <1>1, OneChanged
<1>3. ASSUME NEW d \in Clients \ {c}, pc[d] \in Holding PROVE heldBy'[lock[d]] = d
  <2>1. pc[d] # "idle"
    BY <1>3 DEF Holding
  <2>2. heldBy[lock[d]] = d /\ lock[d] \in 1..Len(heldBy)
    BY <1>3, <2>1, MutexMade DEF MemoryInv, Mutual
  <2>3. lock[d] # lock[c]
    BY <2>2, StoresAssumption
  <2>4. QED
    BY <1>2, <2>2, <2>3
<1>4. QED
  BY <1>2, <1>3

\* A step after providerLock keeps MemoryInv.
LEMMA KeepsMemory ==
    ASSUME MemoryInv, NEW c \in Clients, pc[c] # "idle", UNCHANGED <<locks, op, lock>>,
           credentials' \in [Providers -> Memory!Values], next' \in [Clients -> Memory!Values],
           NEW l \in {"idle", "lock"} \cup Holding, pc' = [pc EXCEPT ![c] = l],
           heldBy' \in Seq(Clients \cup {NoClient}), Len(heldBy') = Len(heldBy),
           l \in Holding => heldBy'[lock[c]] = c,
           \A d \in Clients \ {c} : pc[d] \in Holding => heldBy'[lock[d]] = d
    PROVE  MemoryInv'
<1>1. /\ pc' \in [Clients -> {"idle", "lock"} \cup Holding] /\ pc'[c] = l
      /\ \A d \in Clients \ {c} : pc'[d] = pc[d]
  BY DEF MemoryInv, MemoryTypes
<1>2. MemoryTypes'
  BY <1>1 DEF MemoryInv, MemoryTypes
<1>3. Mutexes'
  BY DEF MemoryInv, Mutexes
<1>4. Mutual'
  BY <1>1 DEF MemoryInv, Mutual
<1>5. QED
  BY <1>2, <1>3, <1>4 DEF MemoryInv

\* The mutex is locked: its client is the owner.
LEMMA LocksInMemory ==
    ASSUME MemoryInv, NEW c \in Clients, Memory!Lock(c)
    PROVE  MemoryInv' /\ Memory!Contract!Next
<1> DEFINE l == IF op[c].kind = "delete" THEN "write" ELSE "read"
<1>0. PICK p \in Providers : p = op[c].provider
  BY MutexMade DEF Memory!Lock
<1>1. /\ l \in Holding /\ pc[c] = "lock" /\ pc' = [pc EXCEPT ![c] = l]
      /\ UNCHANGED <<credentials, locks, op, lock>>
  BY DEF Memory!Lock, Memory!Goto, Holding
<1>2. /\ heldBy[lock[c]] = NoClient /\ heldBy' = [heldBy EXCEPT ![lock[c]] = c]
      /\ next' = [next EXCEPT ![c] = NoCredential]
  BY <1>1 DEF Memory!Lock
<1>3. /\ next' \in [Clients -> Memory!Values] /\ credentials \in [Providers -> Memory!Values]
      /\ pc \in [Clients -> {"idle", "lock"} \cup Holding]
  BY <1>2 DEF MemoryInv, MemoryTypes, Memory!Values
<1> HIDE DEF l
<1>4. /\ heldBy' \in Seq(Clients \cup {NoClient}) /\ Len(heldBy') = Len(heldBy) /\ heldBy'[lock[c]] = c
      /\ \A d \in Clients \ {c} : pc[d] \in Holding => heldBy'[lock[d]] = d
  BY <1>1, <1>2, HolderChanges
<1>5. MemoryInv'
  BY <1>1, <1>3, <1>4, KeepsMemory
<1>6. \A d \in Clients : ~Holds(d, p)
  <2>1. ASSUME NEW d \in Clients, Holds(d, p) PROVE FALSE
    <3>1. heldBy[lock[c]] = d
      BY <1>0, <1>1, <2>1, Alone DEF Holds
    <3>2. QED
      BY <1>2, <3>1, StoresAssumption
  <2>2. QED
    BY <2>1
<1>7. /\ Holds(c, p)'
      /\ \A d \in Clients, q \in Providers : d # c \/ q # p => (Holds(d, q)' <=> Holds(d, q))
  <2>1. pc'[c] = l /\ pc[c] \notin Holding /\ \A d \in Clients \ {c} : pc'[d] = pc[d]
    BY <1>1, <1>3 DEF Holding
  <2>2. QED
    BY <1>0, <1>1, <2>1 DEF Holds
<1>8. QED
  BY <1>1, <1>2, <1>5, <1>6, <1>7, OneEnters

\* fn sees the entry, or returns a credential.
LEMMA InsideMemory ==
    ASSUME MemoryInv, NEW c \in Clients,
           Memory!ReadCurrent(c) \/ \E cred \in Credentials : Memory!FnStores(c, cred)
    PROVE  MemoryInv' /\ UNCHANGED Memory!Contract!vars
<1>1. PICK l \in {"fn", "write"} : pc' = [pc EXCEPT ![c] = l]
  BY DEF Memory!ReadCurrent, Memory!FnStores, Memory!Goto
<1>2. pc[c] \in {"read", "fn"} /\ UNCHANGED <<credentials, locks, heldBy, op, lock>>
  BY DEF Memory!ReadCurrent, Memory!FnStores
<1>3. next' \in [Clients -> Memory!Values]
  BY DEF Memory!ReadCurrent, Memory!FnStores, MemoryInv, MemoryTypes, Memory!Values
<1>4. /\ credentials \in [Providers -> Memory!Values] /\ pc \in [Clients -> {"idle", "lock"} \cup Holding]
      /\ heldBy \in Seq(Clients \cup {NoClient})
      /\ \A d \in Clients : pc[d] \in Holding => heldBy[lock[d]] = d
  BY DEF MemoryInv, MemoryTypes, Mutual, Holding
<1>5. MemoryInv'
  BY <1>1, <1>2, <1>3, <1>4, KeepsMemory DEF Holding
<1>6. \A d \in Clients, q \in Providers : Holds(d, q)' <=> Holds(d, q)
  BY <1>1, <1>2, <1>4 DEF Holds, Holding
<1>7. QED
  BY <1>2, <1>5, <1>6, NobodyMoves

\* The call returns, leaving the entry or storing what it should.
LEMMA LeavesMemory ==
    ASSUME MemoryInv, NEW c \in Clients, Memory!FnKeeps(c) \/ Memory!Write(c)
    PROVE  MemoryInv' /\ Memory!Contract!Next
<1>0. PICK p \in Providers : p = op[c].provider
  <2>1. pc[c] # "idle"
    BY DEF Memory!FnKeeps, Memory!Write
  <2>2. QED
    BY <2>1, MutexMade
<1>1. /\ pc[c] \in Holding /\ pc' = [pc EXCEPT ![c] = "idle"] /\ heldBy' = [heldBy EXCEPT ![lock[c]] = NoClient]
      /\ UNCHANGED <<locks, op, lock, next>>
      /\ UNCHANGED credentials \/ credentials' = [credentials EXCEPT ![p] = next[c]]
  BY <1>0 DEF Memory!FnKeeps, Memory!Write, Memory!Unlock, Memory!Goto, Holding
<1>2. pc[c] # "idle" /\ heldBy[lock[c]] = c
  BY <1>1 DEF MemoryInv, Mutual, Holding
<1>4. /\ credentials \in [Providers -> Memory!Values] /\ next \in [Clients -> Memory!Values]
      /\ pc \in [Clients -> {"idle", "lock"} \cup Holding] /\ next[c] \in Memory!Values
  BY DEF MemoryInv, MemoryTypes
<1>5. credentials' \in [Providers -> Memory!Values]
  BY <1>1, <1>4
<1>6. /\ heldBy' \in Seq(Clients \cup {NoClient}) /\ Len(heldBy') = Len(heldBy)
      /\ \A d \in Clients \ {c} : pc[d] \in Holding => heldBy'[lock[d]] = d
  BY <1>1, <1>2, HolderChanges
<1>7. MemoryInv'
  BY <1>1, <1>2, <1>4, <1>5, <1>6, KeepsMemory DEF Holding
<1>8. pc'[c] = "idle" /\ \A d \in Clients \ {c} : pc'[d] = pc[d]
  BY <1>1, <1>4
<1>9. Holds(c, p) /\ \A d \in Clients : ~Holds(d, p)'
  <2>1. Holds(c, p)
    BY <1>0, <1>1 DEF Holds
  <2>2. ASSUME NEW d \in Clients, Holds(d, p)' PROVE FALSE
    <3>1. d # c /\ Holds(d, p)
      BY <1>0, <1>1, <1>8, <2>2 DEF Holds, Holding
    <3>2. heldBy[lock[c]] = d
      BY <1>0, <1>2, <3>1, Alone DEF Holds
    <3>3. QED
      BY <1>2, <3>1, <3>2
  <2>3. QED
    BY <2>1, <2>2
<1>10. \A d \in Clients, q \in Providers : d # c \/ q # p => (Holds(d, q)' <=> Holds(d, q))
  BY <1>0, <1>1, <1>8 DEF Holds, Holding
<1>11. QED
  BY <1>1, <1>4, <1>7, <1>9, <1>10, OneLeaves

\* MemoryInv is inductive, and every step in memory is one of the contract or none.
LEMMA MemoryStep ==
    MemoryInv /\ Memory!Next =>
        MemoryInv' /\ (Memory!Contract!Next \/ UNCHANGED Memory!Contract!vars)
<1> SUFFICES ASSUME MemoryInv, NEW c \in Clients,
                    \/ \E o \in Memory!Ops : Memory!ProviderLock(c, o)
                    \/ Memory!Step(c) \/ Memory!Fn(c)
             PROVE  MemoryInv' /\ (Memory!Contract!Next \/ UNCHANGED Memory!Contract!vars)
  BY DEF Memory!Next
<1>1. QED
  BY BeginsInMemory, LocksInMemory, InsideMemory, LeavesMemory DEF Memory!Step, Memory!Fn

\* The in-memory store implements CredentialStore for any clients, providers and
\* credentials, and never fails: the mutex that providerLock makes on demand is one per
\* provider, held from Lock to the return of Modify or Delete.
THEOREM MemoryContract == Spec => MemoryImplementsContract
<1>1. Init => MemoryInv /\ Memory!Contract!Init
  <2> SUFFICES ASSUME Init PROVE MemoryInv /\ Memory!Contract!Init
    OBVIOUS
  <2>1. Memory!Init
    BY DEF Init
  <2>2. MemoryTypes
    BY <2>1, EmptySeq DEF Memory!Init, MemoryTypes, Memory!Values, Memory!NoMutex, Holding
  <2>3. Mutexes /\ Mutual
    BY <2>1 DEF Memory!Init, Mutexes, Mutual
  <2>4. MemoryInv
    BY <2>2, <2>3 DEF MemoryInv
  <2>5. \A p \in Providers : Memory!Owner(p) = NoClient
    <3>1. \A c \in Clients, p \in Providers : ~Holds(c, p)
      BY <2>1 DEF Memory!Init, Holds, Holding
    <3>2. QED
      BY <2>4, <3>1, OwnerHolds
  <2>6. Memory!Contract!Init
    BY <2>1, <2>5 DEF Memory!Contract!Init, Memory!Init, Memory!Values
  <2>7. QED
    BY <2>4, <2>6
<1>2. MemoryInv /\ [Next]_vars => MemoryInv' /\ [Memory!Contract!Next]_Memory!Contract!vars
  <2> SUFFICES ASSUME MemoryInv, [Next]_vars
               PROVE  MemoryInv' /\ (Memory!Contract!Next \/ UNCHANGED Memory!Contract!vars)
    OBVIOUS
  <2>1. CASE Memory!Next
    BY <2>1, MemoryStep
  <2>2. CASE UNCHANGED memoryVars
    <3>1. UNCHANGED <<credentials, locks, heldBy, pc, op, lock, current, next, ops>>
      BY <2>2 DEF memoryVars
    <3>2. MemoryInv'
      BY <3>1 DEF MemoryInv, MemoryTypes, Mutexes, Mutual
    <3>3. \A c \in Clients, p \in Providers : Holds(c, p)' <=> Holds(c, p)
      BY <3>1 DEF Holds
    <3>4. QED
      BY <3>1, <3>2, <3>3, NobodyMoves
  <2>3. QED
    BY <2>1, <2>2 DEF Next, OnFile, vars
<1>3. QED
  BY <1>1, <1>2, PTL DEF Spec, MemoryImplementsContract, Memory!ImplementsContract,
     Memory!Contract!Spec

=============================================================================
