\* Two starts of the hub over edited configurations, a crash and a refused fork.
CONSTANTS
    Numeral <- Numerals
    Pids = {p1, p2}
    NoPid = NoPid
    Configurations <- SomeConfigurations
    Readable <- HubFiles
    MaxStarts = 2
    MaxCrashes = 1
    MaxForkFailures = 1
SPECIFICATION FairSpec
INVARIANTS TypeOK OneWorkerAtATime SourcesAgree
PROPERTIES OrphansEnd ServiceReturns
