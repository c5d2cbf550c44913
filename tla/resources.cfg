\* The native objects of a client, a server or a device discovery.
CONSTANTS
    b1 = b1
    b2 = b2
    r1 = r1
    r2 = r2
    Buffers <- MCBuffers
    Requests <- MCRequests
SPECIFICATION Spec
INVARIANTS TypeOK AllOrNothing OperationBacked OneRunning NothingLost
SYMMETRY MCSymmetry
CHECK_DEADLOCK FALSE
