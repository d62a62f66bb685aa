SPECIFICATION FairSpec
CONSTANTS
    r1 = r1  r2 = r2  r3 = r3  m1 = m1  m2 = m2  gone = gone
    Nobody = Nobody
    Requests = {r1, r2, r3}  NumWorkers = 2
    Modules = {m1, m2, gone}  Loaded = {m1, m2}  Stateful = {m1}
    NumBuckets = 2  BucketOf <- OwnBuckets
    Chain <- CrossedChains  Backend <- Backends
    Capacity = 1  WritesMayFail = TRUE
INVARIANTS TypeOK LockInv ChainRespected
PROPERTIES HaltIsPermanent FinishesUnlessHalted AnswersAreRecorded
CHECK_DEADLOCK FALSE
