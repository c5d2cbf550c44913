\* Two clients; in a behaviour every timeout may strike, or none does.
CONSTANTS
    c1 = c1
    c2 = c2
    p1 = p1
    Clients <- TwoClients
    Paths <- OnePath
    Unserved = Unserved
    Nobody = Nobody
SPECIFICATION FairSpec
INVARIANTS TypeOK OperationUnderLock ReadsPrepared WritesProcessed
           NothingHeldBetweenRequests ServiceAfterAcknowledge
PROPERTIES LockKept RequestReturns PathReleased
CHECK_DEADLOCK FALSE
