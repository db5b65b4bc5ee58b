------------------------------- MODULE ChatMC -------------------------------
(* ChatTurn for TLC: the first agent has two interchangeable tasks, the    *)
(* second one has one.                                                     *)
EXTENDS ChatTurn, TLC

CONSTANTS a1, a2, b1

MCIds    == {a1, a2, b1}
MCOwner  == [id \in MCIds |-> IF id = b1 THEN 2 ELSE 1]
Symmetry == Permutations({a1, a2})
==============================================================================
