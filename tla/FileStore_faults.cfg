\* A save may be cut short by a crash or a full disk.
SPECIFICATION Spec
CONSTANTS
  Providers = {pa, pb}
  Clients = {c1}
  Credentials = {k1}
  Foreign = Foreign
  NoCredential = NoCredential
  NoClient = NoClient
  MaxOps = 2
  Faults = {"crash", "disk"}
PROPERTIES OthersUntouched
CHECK_DEADLOCK FALSE
