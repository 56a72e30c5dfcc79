\* A joiner that is overtaken by a later fetch.
SPECIFICATION RefreshSpec
CONSTANTS
  Callers = {c1, c2}
  MaxFetches = 2
INVARIANTS JoinersShareOutcome
\* The callers stop after MaxFetches fetches.
CHECK_DEADLOCK FALSE
