\* One handler removes a user while another adds one.
SPECIFICATION Spec
CONSTANTS
    Users = {u1, u2}
    Unexported = {}
    Zeros = Zeros
    Nobody = Nobody
    MaxId = 2
    Handlers = {h1, h2}
    MaxRequests = 3
    MaxFaults = 0
\* The bound on requests stops the system.
CHECK_DEADLOCK FALSE
PROPERTY RemovesOnlyItsEntry
