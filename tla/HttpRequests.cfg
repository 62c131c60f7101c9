\* Registrations, publications and reads of a hub with two authors.
CONSTANTS
    Requests <- SomeRequests
SPECIFICATION Spec
INVARIANTS TypeOK PublishedIsFetched SearchFinds RepositoriesAgree LatestIsNewest PreflightKept
PROPERTIES AccountsAreKept
