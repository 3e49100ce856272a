\* A CopySource written with an escape.
SPECIFICATION Spec
CONSTANTS
    a = a
    b = b
    c = c
    d = d
    e = e
    Keys = {a, b, c, d, e}
    Jobs <- Escaped
    Workers = {w1, w2}
    NoObject = NoObject
    MaxFaults = 0
\* The request ends.
CHECK_DEADLOCK FALSE
INVARIANTS
    SourceDeletedAfterCopy
