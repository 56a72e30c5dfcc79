\* Two requests, two token lifetimes and one visit of the user.
\* A device code that lives for three intervals or for ever, and time for four polls.
\* Two callers and three fetches: enough for a waiter to be overtaken by two later fetches.
SPECIFICATION ProviderSpec
CONSTANTS
  Requests = {r1, r2}
  NoCredential = NoCredential
  NoClient = NoClient
  User = User
  MaxTime = 2
  Lifetime = 1
  MaxVisits = 1
  Lifetimes = {0, 3}
  Intervals = {0, 2}
  MaxClock = 6
  Callers = {c1, c2}
  MaxFetches = 3
INVARIANTS NoDoubleRefresh PersistedBeforeRelease AnswersWereStored
INVARIANTS GrantIsOurs PollsPaced SuccessIsFresh
PROPERTIES SessionsMoveForward RequestsAnswered LoginEnds ListMovesForward CallsReturn
\* Requests and logins end, the user goes away, and the callers stop after MaxFetches fetches.
CHECK_DEADLOCK FALSE
