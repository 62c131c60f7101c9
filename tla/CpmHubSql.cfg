\* Failing SQL statements next to a search whose text has a quote, with one crash.
CONSTANTS
    alice = alice  bob = bob  right = right  wrong = wrong  cest = cest  a = a  b = b
    Exchanges = {x1, x2}
    Names = {cest}
    Versions = {1}
    Users = {alice, bob}
    Passwords = {right, wrong}
    Payloads = {a}
    Requests <- QuotedRequests
    Authenticator = "null"
    InitialAccounts = {}
    AuthStatuses = {200, 401, 500}
    AuthHangsUp = FALSE
    KpiInInfluxDb = FALSE
    SqlFails = TRUE
    MaxCrashes = 1
SPECIFICATION Spec
PROPERTIES WriteOnce
SYMMETRY Symmetric

