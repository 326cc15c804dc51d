SPECIFICATION FairSpec
CONSTANTS
    Key = {k1, k2}
    Sender = {s1, s2}
    Receiver = {r1, r2, r3}
    Blocking = {r1}
    tolerate_dup_recv = FALSE
    Nobody = Nobody
    Empty = Empty
INVARIANTS
    NoMessageLost
    CalledExactlyOnce
    RefsExact
PROPERTIES
    WaitersAreTold
    PassesMessages
CHECK_DEADLOCK FALSE
