\* Two requests for a bucket whose name has a dot or not, no line or one too long,
\* while two runs of the dumper overlap or a call fails.  A name with the local hour is
\* what it would be in GMT.
SPECIFICATION Spec
CONSTANTS
    Requests = {r1, r2}
    Longs = {{}, {r2}}
    Buckets = {b, dotted}
    Dotted = {dotted}
    Dumpers = {d1, d2}
    Offsets = {1}
    NoName = NoName
    MaxHour = 1
    MaxFaults = 1
INVARIANTS
    NothingLost
    IndexedOnce
PROPERTIES
    PastHoursGo
