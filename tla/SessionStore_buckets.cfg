SPECIFICATION Spec
CONSTANTS
    k1 = k1  k2 = k2  v1 = v1  v2 = v2  t1 = t1  t2 = t2
    Absent = Absent  Nobody = Nobody
    Keys = {k1, k2}  Values = {v1}  Threads = {t1, t2}
    NumBuckets = 2  BucketOf <- TwoBuckets
    Ttl = 1  RedisTtl = 2  CallerTtls = {0, 1}
    Calls <- LibraryCalls
    RedisMayFail = TRUE  MayRestart = TRUE
SYMMETRY Symmetry
INVARIANTS TypeOK WedgeInv
PROPERTIES WedgeIsPermanent SweepKeepsValues KeepsPromise
