SPECIFICATION Spec
CONSTANTS
    MaxInterrupts = 2
INVARIANT ResendIsHarmless
CHECK_DEADLOCK FALSE
