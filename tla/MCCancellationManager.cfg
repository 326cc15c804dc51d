SPECIFICATION FairSpec
CONSTANTS
    Operation = {o1, o2, o3}
    Canceller = {t1, t2}
INVARIANTS
    NoCallbackAfterDeregister
    CallbackRunsOnce
PROPERTY
    CancelCompletes
