CONSTANTS
    Rows = 2
    RowT = 6
    LkMax = 3
    d1 = d1
    Data = {d1}
    NoData = nodata
    Workers = {w1, w2}
    NoWorker = none
    Jobs <- AllJobs
    MaxJobs = 4
    MaxAllJobs = 8
    MaxRetry = 1
    MaxLocks = 3
    MaxCommits = 4
    TblId = 1
    Preload = 1
    Rereads = FALSE
SPECIFICATION Spec
SYMMETRY WorkerSymmetry
CHECK_DEADLOCK FALSE
INVARIANTS
    TypeOK LocksMatchTable OneReplyPerJob CommitIsComplete
PROPERTIES
    ChangedUnderLock
