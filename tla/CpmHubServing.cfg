\* The hub serving two exchanges of every kind of request, with one crash, KPI
\* calls, and an authentication service that may close unanswered.
CONSTANTS
    alice = alice  bob = bob  right = right  wrong = wrong  cest = cest  a = a  b = b
    Exchanges = {x1, x2}
    Names = {cest}
    Versions = {1, 2}
    Users = {alice, bob}
    Passwords = {right, wrong}
    Payloads = {a, b}
    Requests <- EveryRequest
    Authenticator = "cpm_hub"
    InitialAccounts <- AliceOnly
    AuthStatuses = {200, 401}
    AuthHangsUp = TRUE
    KpiInInfluxDb = TRUE
    SqlFails = FALSE
    MaxCrashes = 1
SPECIFICATION FairSpec
INVARIANTS AtMostOneRegistration
PROPERTIES ImplementsRegistry EveryRequestSettled
