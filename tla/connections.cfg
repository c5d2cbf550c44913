\* Three clients connect, leave and fail, and Serve() is called again.
CONSTANTS
    c1 = c1
    c2 = c2
    c3 = c3
    Conns <- ThreeConns
    None = None
SPECIFICATION FairSpec
INVARIANTS TypeOK ActiveIsLive EstablishedFindsFree OneClient
PROPERTIES ActiveKept ServerLearns ServerLetsGo
CHECK_DEADLOCK FALSE
