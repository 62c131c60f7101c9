\* Crashes anywhere, over the directory and the index of an older release.
\* Additions run out, and an emptied index stops the process: no deadlock check.
CONSTANTS
    alice = alice  bob = bob  cest = cest  fakeit = fakeit  a = a  b = b
    loose_b = loose_b  zip_a = zip_a  zip_b = zip_b
    Nobody = Nobody
    Names = {cest, fakeit}
    Versions = {1, 2}
    Users = {alice, bob}
    Payloads = {a, b, loose_b, empty}
    Contents = {zip_a, zip_b, nothing}
    Nothing = nothing
    Decoded <- DecodedTexts
    Encoded <- EncodedContents
    Bits <- TwoAuthors
    Legacy <- OldRelease
    MaxCrashes = 3
SPECIFICATION Spec
INVARIANTS TypeOK AddedIsOnDisk AddedIsFound AddedIsListed IndexedHasVersion LatestIsNoOlder
CHECK_DEADLOCK FALSE
