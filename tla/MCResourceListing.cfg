\* Two requests at once for the queues and topics of one name, and a listing; a statement
\* fails or a server restarts.
SPECIFICATION ListingSpec
CONSTANTS
    Clients = {c1, c2}
    Accounts = {acc1}
    Names = {n1}
    NoName = NoName
    MaxRows = 3
    MaxUuids = 1
    MaxFaults = 1
    MaxListings = 1
SYMMETRY Symmetry
INVARIANTS
    ListingIsTrue
    DuplicatesBounded
PROPERTIES
    DeletesOnlyItsRow
    RegistryUntilMishap
