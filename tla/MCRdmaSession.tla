---------------------------- MODULE MCRdmaSession ----------------------------
(* An instance of RdmaSession for TLC.                                     *)
EXTENDS RdmaSession

CONSTANTS c1, c2, p1

TwoClients == {c1, c2}
OnePath == {p1}
=============================================================================
