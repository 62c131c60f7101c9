\* A registration the authentication service refuses.
CONSTANTS
    alice = alice  bob = bob  right = right  wrong = wrong  cest = cest  a = a  b = b
    Exchanges = {x1, x2}
    Names = {cest}
    Versions = {1, 2}
    Users = {alice, bob}
    Passwords = {right, wrong}
    Payloads = {a, b}
    Requests <- UserRequests
    Authenticator = "cpm_hub"
    InitialAccounts = {}
    AuthStatuses = {200, 401, 500}
    AuthHangsUp = FALSE
    KpiInInfluxDb = FALSE
    SqlFails = FALSE
    MaxCrashes = 0
SPECIFICATION Spec
INVARIANTS RegisteredHasAccount
