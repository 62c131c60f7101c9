\* A success that is not the call's own. Behaviours end at MaxCalls: no deadlock check.
CONSTANTS
    Statuses = {200, 401}
    PeerHangsUp = TRUE
    MaxCalls = 3
SPECIFICATION Spec
INVARIANT SuccessIsThisCalls
CHECK_DEADLOCK FALSE
