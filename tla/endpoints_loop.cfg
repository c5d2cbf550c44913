\* Server sessions on the one io_context thread, with all endpoints registered.
CONSTANTS
    s1 = s1
    s2 = s2
    s3 = s3
    p1 = p1
    p2 = p2
    Sessions <- MCSessions
    Paths <- MCPaths
    SingleLoop = TRUE
    RegistersFirst = TRUE
SPECIFICATION Spec
INVARIANTS TypeOK Exclusive NoOrphanLock
PROPERTY LockSpec
SYMMETRY Symmetry
