CONSTANTS
    Limit = 2
    Throwing = {}
    Waiters = {other}
    Owner = owner
    other = other
    Spurious = FALSE
SPECIFICATION Spec
PROPERTY WaitReturns
CHECK_DEADLOCK FALSE
