\* Two ids and three versions: the wanted provider is replaced while it is in use.
\* Version 2 has no implementation for the model.
SPECIFICATION ModelsSpec
CONSTANTS
    MaxEvents = 3
    Ids = {p, q}
    Wanted = p
    Plain = {2}
    MaxVersions = 3
INVARIANTS OuterFollowsInner RegistryConsistent ServedByRegistered
PROPERTY RequestsEnd
\* Requests end.
CHECK_DEADLOCK FALSE
