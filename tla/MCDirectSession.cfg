SPECIFICATION LiveSpec
CONSTANTS
    r1 = r1
    r2 = r2
    closer = closer
    resetter = resetter
    none = none
    Call = {r1, r2}
    Closer = {closer, resetter}
    Resetter = {resetter}
    Clients <- SmallClients
    Key <- TwoKeys
    key <- TwoOrders
    sorted <- Sorted
    HasTimeout = {r1}
    Blocks = {r1, r2}
    BadCalls = {r2}
    BadInputs = {r2}
    Nobody = none
INVARIANT FrameOutlivesItsUsers
INVARIANT CancelledRunsFail
INVARIANT CancelReachesEveryStep
INVARIANT ExecutorsShared
PROPERTY RunsReturn
CHECK_DEADLOCK FALSE
