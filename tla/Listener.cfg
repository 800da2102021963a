CONSTANTS
    Configs <- MCConfigs
    PendingRecords = 1
    MaxArrivals = 3
SPECIFICATION FairSpec
CHECK_DEADLOCK FALSE
INVARIANTS RunAccounted OverloadExact
PROPERTIES Terminates
