\* One unit and three tasks: tasks are inserted while earlier ones are queued,
\* running or done.
CONSTANTS
    Cores = 1
    Limit = 3
    Throwing = {2}
SPECIFICATION Spec
INVARIANTS TypeOK LoadsCountQueue NoLostWakeup ValueAfterRun
PROPERTIES TasksRun ResultsReturn
CHECK_DEADLOCK FALSE
