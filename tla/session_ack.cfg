\* The server processes a write that its client says has failed.
CONSTANTS
    c1 = c1
    c2 = c2
    p1 = p1
    Clients <- TwoClients
    Paths <- OnePath
    Unserved = Unserved
    Nobody = Nobody
SPECIFICATION Spec
INVARIANT OnlyCompletedProcessed
CHECK_DEADLOCK FALSE
