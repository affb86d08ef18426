CONSTANTS
    Rows = 3
    RowT = 6
    LkMax = 3
    d1 = d1
    Data = {d1}
    NoData = nodata
    Workers = {w1, w2}
    NoWorker = none
    Jobs <- PromoteJobs
    MaxJobs = 4
    MaxAllJobs = 8
    MaxRetry = 1
    MaxLocks = 3
    MaxCommits = 2
    TblId = 1
    Preload = 2
    Rereads = FALSE
SPECIFICATION Spec
SYMMETRY WorkerSymmetry
CHECK_DEADLOCK FALSE
INVARIANTS
    AckedIsApplied
