CONSTANTS
    Creds = {right, wrong}
    Good = {right}
    Garbled = Garbled
    RetryMax = 2
    HandlerCounts = {1, 2}
    MaxSubmits = 3
SPECIFICATION Spec
INVARIANTS TypeOK NoStorm VerdictTrue
PROPERTIES StatusSettles
CHECK_DEADLOCK FALSE
