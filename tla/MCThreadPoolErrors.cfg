\* One task that does not throw.
CONSTANTS
    Cores = 1
    Limit = 1
    Throwing = {}
SPECIFICATION Spec
INVARIANT ErrorsAreReal
CHECK_DEADLOCK FALSE
