\* Three calls, one of which throws, and the null call of the destructor: a
\* reply can arrive before, while and after its result is waited for, and
\* between the write of one call and the insertion of the next.
CONSTANTS
    Limit = 3
    Throwing = {2}
    Waiters = {}
    Owner = owner
    Spurious = TRUE
SPECIFICATION Spec
INVARIANTS TypeOK RightReply CallsConserved
PROPERTIES WaitReturns CloseReturns
CHECK_DEADLOCK FALSE
