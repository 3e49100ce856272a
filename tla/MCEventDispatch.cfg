\* Events of three rules while a PUT is in progress and queues and topics come and go.
SPECIFICATION EventSpec
CONSTANTS
    logs = logs
    myLogs = myLogs
    q = q
    t = t
    i1 = i1
    i2 = i2
    x = x
    y = y
    z = z
    p1 = p1
    Buckets = {logs, myLogs}
    Kinds = {"queue", "topic"}
    Bodies <- MCBodies
    Arns = {q, t}
    Topics = {t}
    Idents = {i1, i2}
    Rules = {x, y, z}
    NameOf <- MCNameOf
    NoIdent = NoIdent
    NoRule = NoRule
    Malformed = Malformed
    NoConfig = NoConfig
    Puts = {p1}
    MaxPuts = 2
    MaxResources = 2
    MaxFaults = 1
    TailOf <- MCTailOf
    Unknown = Unknown
    Endpoints = {e1, e2}
    MaxEvents = 1
\* The bounds stop the system.
CHECK_DEADLOCK FALSE
INVARIANTS
    NothingFalse
PROPERTIES
    NothingMissed
