------------------------------ MODULE KeyboardMC ------------------------------
(* Two presets of the newer dialect, one without params; one of the older.   *)
EXTENDS Keyboard, TLC

CONSTANTS mSend, mCard, mOld

PresetsMC == (V1 :> <<mSend, mCard>>) @@ (V03 :> <<mOld>>)
NoParamsMC == {mCard}
=============================================================================
