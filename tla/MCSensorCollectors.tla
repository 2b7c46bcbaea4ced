------------------------- MODULE MCSensorCollectors -------------------------
(* Small instances of SensorCollectors for TLC.                            *)
EXTENDS SensorCollectors, TLC

CONSTANTS ble, spaces1, spaces2

MCProcs  == {ble, spaces1, spaces2}
MCSource == ble :> "ble" @@ spaces1 :> "cisco_spaces" @@ spaces2 :> "cisco_spaces"
=============================================================================
