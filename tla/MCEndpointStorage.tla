-------------------------- MODULE MCEndpointStorage --------------------------
(* Model values for EndpointStorage.                                       *)
EXTENDS EndpointStorage, TLC

CONSTANTS s1, s2, s3, p1, p2

MCSessions == {s1, s2, s3}
MCPaths == {p1, p2}

Symmetry == Permutations(MCSessions) \cup Permutations(MCPaths)
=============================================================================
