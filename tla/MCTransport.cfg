\* Two arguments are enough: one the function returns for, one it throws for.
\* A stale page would show as the other of the two.
CONSTANTS
    Values = {ok, bad}
    Throwing = {bad}
    Null = Null
SPECIFICATION Spec
INVARIANTS TypeOK PageExclusive NoInvalidLockState NoLostTurn
PROPERTIES CallReturns Implements
