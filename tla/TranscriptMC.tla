---------------------------- MODULE TranscriptMC -----------------------------
(* Instances of Transcript for TLC.                                         *)
EXTENDS Transcript, TLC

CONSTANTS t1, t2

OneTask   == {t1}
TwoTasks  == {t1, t2}
TwoWidths == {40, 80}
OneWidth  == {80}
Symmetric == Permutations(TwoTasks)
==============================================================================
