--------------------------- MODULE MCBleCollector ---------------------------
(* Small instances of BleCollector for TLC.                                *)
EXTENDS BleCollector, TLC

CONSTANTS temperature, lux

MCMetrics == {temperature, lux}

MCThreshold == temperature :> 3 @@ lux :> 0

\* A spike is more than the threshold away, the mean of a spike and a usual value
\* is not; 400 is out of range.
MCValues   == {0, 4, 400}
MCSensible == {0, 4}

Payload(t, l) == temperature :> t @@ lux :> l

\* A usual reading with light out of range, and a spike.
MCAdvertisements == {Payload(0, 400), Payload(4, 4)}

\* No action reads the status row, and no property but TypeOK.
WithoutStatus == <<clock, sensor_minute, windows, history, main, used, log>>
=============================================================================
