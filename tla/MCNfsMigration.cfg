\* The proxy adds and removes exports of three users, one of whom may own no buckets, with
\* two handlers at a time, while the program runs; a call fails or the proxy stops.
\* One of them has another character in the uid or in the subuser, or no keys.
SPECIFICATION MigrationSpec
CONSTANTS
    Users = {u1, u2, u3}
    Unexported = {u3}
    Zeros = Zeros
    Nobody = Nobody
    MaxId = 1
    Handlers = {h1, h2}
    MaxRequests = 2
    MaxFaults = 1
    MaxOdd = 1
SYMMETRY Symmetry
\* The bound on requests stops the system.
CHECK_DEADLOCK FALSE
INVARIANTS
    ObjectsMatchUsers
    ListMatchesUsers
    IdsDifferUnlessRace
    NoSubuserLeft
PROPERTIES
    ExportsUntilMishap
    DiesOfRemoval
