--------------------------- MODULE MCSensorRollup ---------------------------
(* Small instances of SensorRollup for TLC.                                *)
EXTENDS SensorRollup

TwoValues == {1, 2}
=============================================================================
