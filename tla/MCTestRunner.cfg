CONSTANT Tests = {1, 2}
SPECIFICATION TestsSpec
PROPERTY TimedOut
CHECK_DEADLOCK FALSE
