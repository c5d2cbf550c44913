--------------------------- MODULE MCRdmaExecutor ---------------------------
(* Model values for RdmaExecutor.                                          *)
EXTENDS RdmaExecutor, TLC

CONSTANTS op1, op2, op3

TwoOps == {op1, op2}
ThreeOps == {op1, op2, op3}

Symmetry == Permutations(ThreeOps)
=============================================================================
