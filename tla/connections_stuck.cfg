\* A request that is never established.
CONSTANTS
    c1 = c1
    c2 = c2
    c3 = c3
    Conns <- TwoConns
    None = None
SPECIFICATION Spec
PROPERTY RejectedForAnother
CHECK_DEADLOCK FALSE
