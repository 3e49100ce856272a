\* Two clients and the producers race while the queue is deleted and created again; a
\* Redis call fails, an answer is lost or the server restarts.
SPECIFICATION LifeSpec
CONSTANTS
    Receivers = {r1, r2}
    Requests <- MCRequests
    MaxBatch = 2
    IntMax = 3
    MaxSent = 3
    MaxFaults = 1
    MaxRows = 2
SYMMETRY Symmetry
INVARIANTS
    TypeOK
    ListIsUntrimmed
    ClientOrder
    ExactlyOnceIfClean
    OnlyLeftoversOutlive
PROPERTIES
    ServiceUntilRace
