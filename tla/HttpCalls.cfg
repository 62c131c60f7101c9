\* Both uses of the client, with a peer that may close without answering.
\* Behaviours end at MaxCalls: no deadlock check.
CONSTANTS
    Statuses = {200, 401, 500}
    PeerHangsUp = TRUE
    MaxCalls = 3
SPECIFICATION Spec
INVARIANTS TypeOK EachCallReturnsItsOwnOutcome
PROPERTY CallReturns
CHECK_DEADLOCK FALSE
