\* Two requests of one session; two messages per connection tell a first from a later one.
SPECIFICATION Spec
CONSTANTS
    Requests = {r1, r2}
    Impatient = {r1}
    MaxFrames = 2
INVARIANTS OneAnswer MemoryAccounts
 
\* The model ends when both requests ended.
CHECK_DEADLOCK FALSE
