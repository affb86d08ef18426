CONSTANTS
    Rows = 1
    RowT = 4
    LkMax = 3
    d1 = d1
    Data = {d1}
    NoData = nodata
    Workers = {w1, w2}
    NoWorker = none
    Jobs <- WaitingJobs
    MaxJobs = 4
    MaxAllJobs = 5
    MaxRetry = 1
    MaxLocks = 1
    MaxCommits = 2
    TblId = 1
    Preload = 1
    Rereads = FALSE
SPECIFICATION FairSpec
CHECK_DEADLOCK FALSE
PROPERTIES
    RequestAnswered StoppedDies CommitEnds
