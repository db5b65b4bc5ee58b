------------------------------ MODULE SessionMC ------------------------------
(* An instance of Session for TLC: three calls, each under a key of its own. *)
EXTENDS Session

CONSTANTS o1, o2, o3

MCOps      == {o1, o2, o3}
MCDistinct == [o \in MCOps |-> o]

==============================================================================
