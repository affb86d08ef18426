CONSTANTS
    MaxTxns = 2
    MaxItems = 2
    MaxTxnId = 2
    MaxMsgs = 5
    MaxRest = 2
SPECIFICATION FairSpec
CHECK_DEADLOCK FALSE
INVARIANTS
    TypeOK EntriesExact JobsOfOwnTxn ReturnsExact RemoveFindsWorker
    AnsweredOnce NoneForgotten
PROPERTIES
    StopEnds
