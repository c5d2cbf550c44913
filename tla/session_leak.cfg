\* A path stays locked for a session that is gone.
CONSTANTS
    c1 = c1
    c2 = c2
    p1 = p1
    Clients <- TwoClients
    Paths <- OnePath
    Unserved = Unserved
    Nobody = Nobody
SPECIFICATION Spec
PROPERTY RefusedForAnother
CHECK_DEADLOCK FALSE
