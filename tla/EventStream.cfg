\* Two consumers, only one of which can be cancelled or leave, and a caller of
\* Result, on two producer calls.
SPECIFICATION Spec
CONSTANTS
  Pumps = {p1, p2}
  Callers = {w1}
  Cancellable = {p1, w1}
  MaxCalls = 2
INVARIANTS TypeOK NoLostWakeup LossBound SingleTermination AnswersAgree
PROPERTIES ImplementsContract ResultReturns ThreadsEnd
\* Producers may stop producing and consumers may stop ranging for good.
CHECK_DEADLOCK FALSE
