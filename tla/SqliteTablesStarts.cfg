\* Starts over the files of older releases, with crashes between statements. Publications run out: no deadlock check.
CONSTANTS
    alice = alice  bob = bob  cest = cest  v1 = v1  v2 = v2  a = a  b = b
    Null = Null
    Names = {cest}
    Versions = {v1, v2}
    Users = {alice, bob}
    Payloads = {a, b}
    Publications <- Clients
    OldBits <- OldRelease
    MaxCrashes = 2
SPECIFICATION Spec
INVARIANTS TypeOK ServedTablesAreWhole PublishedReadsBack
PROPERTY CellsAreKept
CHECK_DEADLOCK FALSE
