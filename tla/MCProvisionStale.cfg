CONSTANTS
    Creds = {right, wrong}
    Good = {right}
    Garbled = Garbled
    RetryMax = 2
    HandlerCounts = {1}
    MaxSubmits = 2
SPECIFICATION Spec
PROPERTIES StaleRetryDropped
CHECK_DEADLOCK FALSE
