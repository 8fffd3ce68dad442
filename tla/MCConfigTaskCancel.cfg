CONSTANT Assignments <- MCUnique
SPECIFICATION Spec
INVARIANT CancelIsOrderly
CHECK_DEADLOCK FALSE
