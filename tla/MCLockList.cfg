CONSTANTS
    MaxLocks = 3
    TblId = 1
    Rowids = {0, 1, 2, 3}
SPECIFICATION Spec
INVARIANTS
    TypeOK GetLockExact IteratorExact TwiceOnlyAfterRemoval
