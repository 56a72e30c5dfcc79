\* Bedrock's answer without a message.
SPECIFICATION Spec
CONSTANTS
    MaxEvents = 6
    Indexes = {0, 1}
    Canned <- MCCanned
INVARIANT StartBeforeDone
\* The model ends with the terminal event.
CHECK_DEADLOCK FALSE
