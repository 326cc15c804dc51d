SPECIFICATION Spec
CONSTANTS
    Workloads <- OneStepWorkloads
    Nobody = Nobody
INVARIANT
    CallbackLeavesManagerAlone
CHECK_DEADLOCK FALSE
