\* A file of an older release that holds rows. Publications run out: no deadlock check.
CONSTANTS
    alice = alice  bob = bob  cest = cest  v1 = v1  v2 = v2  a = a  b = b
    Null = Null
    Names = {cest}
    Versions = {v1, v2}
    Users = {alice, bob}
    Payloads = {a, b}
    Publications <- Clients
    OldBits <- OldRelease
    MaxCrashes = 0
SPECIFICATION Spec
INVARIANT SanitisedRowsAreReadable
CHECK_DEADLOCK FALSE
