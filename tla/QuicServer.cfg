CONSTANTS
    MaxConcurrent = 1
    RequireValidation = TRUE
    MaxIncoming = 2
    PendingRecords = 1
    ConnectionLimits = {1, 3}
SPECIFICATION Spec
CHECK_DEADLOCK FALSE
INVARIANTS DecidedOnce HelloBelongs StoppedAccounts
PROPERTIES RunSettles
