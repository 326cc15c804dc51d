SPECIFICATION FairChainSpec
CONSTANTS
    e1 = e1
    e2 = e2
    e3 = e3
    s1 = s1
    s2 = s2
    r2 = r2
    r3 = r3
    k1 = k1
    k2 = k2
    Executor = {e1, e2, e3}
    Key = {k1, k2}
    Sender = {s1, s2}
    Receiver = {r2, r3}
    SendOf <- ChainSend
    RecvOf <- ChainRecv
    Blocking <- NoReceivers
    tolerate_dup_recv = FALSE
    Nobody = Nobody
    Empty = Empty
INVARIANTS
    BarrierIsTrue
    RendezvousOutlivesUsers
PROPERTY
    StepCompletes
