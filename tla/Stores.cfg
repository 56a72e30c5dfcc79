\* Two clients on two providers.  On the file one call each; clients crash at
\* any point, even in a save, disks fail, and contexts end while waiting for the
\* lock.  In memory two calls each; an fn on pa may never return.
SPECIFICATION Spec
CONSTANTS
  Providers = {pa, pb}
  Clients = {c1, c2}
  Credentials = {k1, k2}
  Foreign = Foreign
  NoCredential = NoCredential
  NoClient = NoClient
  FileOps = 1
  MemoryOps = 2
  Faults = {"crash", "disk"}
  Stuck = {pa}
INVARIANTS Linearizable
PROPERTIES FileImplementsContract MemoryImplementsContract CallsReturn
\* The clients stop after their last call.
CHECK_DEADLOCK FALSE
