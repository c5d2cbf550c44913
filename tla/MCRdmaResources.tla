--------------------------- MODULE MCRdmaResources ---------------------------
(* Two buffers and two requests, for TLC.                                  *)
EXTENDS RdmaResources, TLC

CONSTANTS b1, b2, r1, r2

MCBuffers  == {b1, b2}
MCRequests == {r1, r2}
MCSymmetry == Permutations(MCBuffers) \cup Permutations(MCRequests)
=============================================================================
