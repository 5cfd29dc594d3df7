\* Two units, for the round robin and for destroying one unit after another.
CONSTANTS
    Cores = 2
    Limit = 2
    Throwing = {2}
SPECIFICATION Spec
PROPERTIES DestroyReturns
CHECK_DEADLOCK FALSE
