\* The connection goes away between its check and its use.
CONSTANTS
    op1 = op1
    op2 = op2
    op3 = op3
    Ops <- TwoOps
    Capacity = 3
SPECIFICATION Spec
INVARIANT ConnectionChecked
CHECK_DEADLOCK FALSE
