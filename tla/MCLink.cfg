CONSTANTS
    Values = {ok, bad}
    Throwing = {bad}
    Null = Null
SPECIFICATION SpecLink
INVARIANTS LinkTypeOK UndisturbedWhileUp
PROPERTIES ServletReclaimed AcceptedCallEnds CloseReturns
CHECK_DEADLOCK FALSE
