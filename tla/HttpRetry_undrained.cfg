\* One attempt.
SPECIFICATION HttpSpec
CONSTANT MaxRetries = 0
INVARIANT BodiesDrained
CHECK_DEADLOCK FALSE
