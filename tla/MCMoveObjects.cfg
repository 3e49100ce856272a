\* A swap and an independent move; refused calls, lost replies
\* and a crash.
SPECIFICATION FairSpec
CONSTANTS
    a = a
    b = b
    c = c
    d = d
    e = e
    Keys = {a, b, c, d}
    Jobs <- SwapAndMove
    Workers = {w1, w2}
    NoObject = NoObject
    MaxFaults = 2
\* The request ends.
CHECK_DEADLOCK FALSE
INVARIANTS
    OneCopyOfEachJob
    NoObjectLost
    ReportIsTrue
PROPERTY Answered
