------------------------------- MODULE ConsoleMC -------------------------------
(* Two exchanges, each of the console or of the session; two targets.        *)
EXTENDS RpcConsole

RequestsMC == {[len |-> 4, replay |-> TRUE], [len |-> 4, replay |-> FALSE]}
Symmetry == Permutations(Exch)
=============================================================================
