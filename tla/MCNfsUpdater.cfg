\* Two users who come and go while the daemon polls; a call fails, the daemon or
\* NFS-Ganesha is restarted.
SPECIFICATION FairSpec
CONSTANTS
    u1 = u1
    u2 = u2
    own = own
    other = other
    long = long
    Users = {u1, u2}
    Names = {own, other, long}
    Long = {long}
    Namings <- MCNamings
    Ids = {1, 2}
    Piece = 1
    MaxTime = 2
    MaxChanges = 3
    MaxFaults = 1
\* The bounds stop the system.
CHECK_DEADLOCK FALSE
INVARIANTS
    CopyIsList
    ListedIsExported
    ExportedIsListed
PROPERTIES
    Converges
