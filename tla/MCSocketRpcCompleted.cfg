CONSTANTS
    Limit = 1
    Throwing = {}
    Waiters = {}
    Owner = owner
    Spurious = TRUE
SPECIFICATION Spec
INVARIANT CompletedByReply
CHECK_DEADLOCK FALSE
