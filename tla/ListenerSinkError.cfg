CONSTANTS
    Configs <- MCConfigs
    PendingRecords = 1
    MaxArrivals = 2
SPECIFICATION Spec
CHECK_DEADLOCK FALSE
INVARIANTS SinkFailureHasError
