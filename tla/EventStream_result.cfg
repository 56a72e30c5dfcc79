\* One producer call that terminates the stream, and one caller of Result whose
\* context is done later.
SPECIFICATION Spec
CONSTANTS
  Pumps = {p1}
  Callers = {w1}
  Cancellable = {w1}
  MaxCalls = 1
PROPERTY CancelledFirst
CHECK_DEADLOCK FALSE
