CONSTANTS
    Rows = 3
    RowT = 5
    LkMax = 3
    Data = {d1, d2}
    NoData = nodata
    Grants = {g1, g2, g3}
    Inserters = {t1, t2}
    MaxInserts = 5
SPECIFICATION Spec
SYMMETRY CallerSymmetry
CHECK_DEADLOCK FALSE
INVARIANTS
    CountersExact LockEncodesHolders SeekFindsHeldRow UniqueKeys
    SearchExact NoLostWakeup IInv
PROPERTIES
    ImplementsStore
