------------------------------ MODULE ConnectMC ------------------------------
(* Two programs, two saved agents, one agent behind one URL.                 *)
EXTENDS Connect
CONSTANTS p1, p2, n1, n2, u1
=============================================================================
