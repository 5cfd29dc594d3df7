CONSTANTS
    Values = {ok}
    Throwing = {}
    Null = Null
SPECIFICATION SpecLink
PROPERTY ClientNotified
CHECK_DEADLOCK FALSE
