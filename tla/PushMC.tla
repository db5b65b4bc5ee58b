-------------------------------- MODULE PushMC --------------------------------
(***************************************************************************)
(* An instance of PushNotify for TLC: two operations meet the same task    *)
(* and a third one another.                                                *)
(***************************************************************************)
EXTENDS PushNotify, TLC

CONSTANTS a, b, c, t, u, r1

ThreeCalls == {a, b, c}
TwoTasks   == {t, u}
TwoOnOne   == a :> t @@ b :> t @@ c :> u
OnePost    == {r1}
==============================================================================
