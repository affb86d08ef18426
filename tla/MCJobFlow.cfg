CONSTANTS
    Bufs = {b1, b2, b3}
    NoBuf = nobuf
    Entries = {e1}
    MaxItems = 2
    MaxCommits = 3
    Datagrams <- MCDatagrams
    MaxMsgs = 5
SPECIFICATION FairSpec
CHECK_DEADLOCK FALSE
INVARIANTS
    TypeOK BuffersOwned CommitsInOrder NothingLeaked RepliesReadable
PROPERTIES
    JobsFifo ChangesFifo PoolRecovers
