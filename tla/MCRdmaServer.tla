----------------------------- MODULE MCRdmaServer -----------------------------
(* Instances of RdmaServer for TLC.                                        *)
EXTENDS RdmaServer

CONSTANTS s1, s2

TwoServers == {s1, s2}
=============================================================================
