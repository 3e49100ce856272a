\* Two PUT requests at a time, three altogether, while queues and topics come and go
\* and a statement fails or the proxy stops.
SPECIFICATION Spec
CONSTANTS
    b1 = b1
    b2 = b2
    q1 = q1
    q2 = q2
    i1 = i1
    i2 = i2
    x = x
    y = y
    p1 = p1
    p2 = p2
    Buckets = {b1, b2}
    Kinds = {"queue"}
    Bodies <- MCBodies
    Arns = {q1, q2}
    Idents = {i1, i2}
    Rules = {x, y}
    NoIdent = NoIdent
    NoRule = NoRule
    Malformed = Malformed
    NoConfig = NoConfig
    Puts = {p1, p2}
    MaxPuts = 3
    MaxResources = 2
    MaxFaults = 1
SYMMETRY Symmetry
\* The bounds stop the system.
CHECK_DEADLOCK FALSE
INVARIANTS
    OneTargetPerIdent
    NamedIsBound
PROPERTIES
    OnlyItsOwnPut
    AcceptedIsDone
