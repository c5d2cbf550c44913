---------------------------- MODULE MCRdmaMessages ----------------------------
(* Lengths on both sides of a byte's limit, for TLC.                       *)
EXTENDS RdmaMessages

Zeros(n) == [i \in 1 .. n |-> 0]

MCPaths       == {<< >>, <<5, 0>>, Zeros(256)}
MCDescriptors == {<<1, 0, 0, 0, 9>>, Zeros(257)}
=============================================================================
