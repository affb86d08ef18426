CONSTANTS
    MaxTxns = 2
    MaxItems = 1
    MaxTxnId = 2
    MaxMsgs = 5
    MaxRest = 5
SPECIFICATION Spec
CHECK_DEADLOCK FALSE
INVARIANTS
    RemoveFindsWorker
