----------------------------- MODULE AppBridgeMC -----------------------------
(* Instances of AppBridge for TLC.                                          *)
EXTENDS AppBridge, TLC

CONSTANTS c1, c2, u1

TwoChats     == {c1, c2}
OneChat      == {c1}
OneSubscribe == {u1}
NoOps        == {}
Symmetric    == Permutations({c1, c2})
==============================================================================
