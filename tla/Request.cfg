\* Four models take turns, and eleven could be asked next.  Five messages are
\* enough for two calls, one result, an interruption and a late result.
\* The adapters' default: two retries.
\* Two blocks with their deltas and ends, or three blocks, and any way to fail between.
SPECIFICATION RequestSpec
CONSTANTS
  Models <- MCModels
  Speakers <- MCSpeakers
  MaxMessages = 5
  Caps = {0, 500, 20000}
  Customs <- MCCustoms
  MaxRetries = 2
  MaxEvents = 6
  Indexes = {0, 1}
  Canned <- MCCanned
INVARIANTS CallsAnswered NothingForeign BudgetsFit
INVARIANTS RetriesJustified BodiesSettled
INVARIANTS ProtocolKept DoneIsComplete EndCarriesDeltas
PROPERTIES CallReturns Terminates
\* The history stops growing, the call returns, and a stream ends.
CHECK_DEADLOCK FALSE
