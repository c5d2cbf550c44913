\* Two operations share an inventory that one failed operation exhausts.
CONSTANTS
    op1 = op1
    op2 = op2
    op3 = op3
    Ops <- TwoOps
    Capacity = 3
SPECIFICATION FairSpec
INVARIANTS TypeOK ClosedMeansAnswered LossBoundedByFailures
PROPERTIES ServiceSpec AcceptedAnswered CallerReturns ClosingEnds
CHECK_DEADLOCK FALSE
