\* A search by a user of the bucket or by a stranger, and two addresses of the feed that
\* stop and come back, while objects change.
SPECIFICATION ServicesSpec
CONSTANTS
    Words <- MCWords
    FormOf <- MCFormOf
    AmountOf <- MCAmountOf
    Covers <- MCCovers
    MaxInt = 8
    Now = 3
    Documents = {"d1", "d2", "d3", "d4"}
    Initially <- MCInitially
    MaxChanges = 2
    Addresses = 2
    Settings <- MCSettings
    MaxFaults = 1
    Attributes <- MCAttributes
    Bucket = "b"
    Granted = {"user"}
    Clients = {"user", "stranger"}
    Queries <- MCQueries
    PageSize = 1
\* The bounds stop the system.
CHECK_DEADLOCK FALSE
INVARIANTS
    HeardIsTold
    ToldByOneSource
    AcceptsTheDocumented
    AnswersAreMeant
PROPERTIES
    PagesAreWhole
    Reconnects
