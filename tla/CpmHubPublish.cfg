\* Competing publications through the authentication service, with one crash.
CONSTANTS
    alice = alice  bob = bob  right = right  wrong = wrong  cest = cest  a = a  b = b
    Exchanges = {x1, x2, x3}
    Names = {cest}
    Versions = {1, 2}
    Users = {alice, bob}
    Passwords = {right, wrong}
    Payloads = {a, b}
    Requests <- PublishRequests
    Authenticator = "cpm_hub"
    InitialAccounts <- BothAccounts
    AuthStatuses = {200, 401, 500}
    AuthHangsUp = FALSE
    KpiInInfluxDb = FALSE
    SqlFails = FALSE
    MaxCrashes = 1
SPECIFICATION Spec
INVARIANTS TypeOK AckedIsStored AtMostOneAck ConflictMeansStored StoredIsVerified ShownIsStored
SYMMETRY Symmetric
