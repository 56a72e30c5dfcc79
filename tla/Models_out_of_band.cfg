\* A provider that stays, whose adapter completes with or without a terminal event.
SPECIFICATION ModelsSpec
CONSTANTS
    MaxEvents = 2
    Ids = {p}
    Wanted = p
    Plain = {}
    MaxVersions = 1
INVARIANT ResultCarriedOver
CHECK_DEADLOCK FALSE
