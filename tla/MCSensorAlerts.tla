--------------------------- MODULE MCSensorAlerts ---------------------------
(* Small instances of SensorAlerts for TLC.                                *)
EXTENDS SensorAlerts, TLC

CONSTANTS m1, m2

Body(m, for, on) ==
    [mac |-> m, direction |-> "above", trigger |-> 1, clear |-> 0,
     forDuration |-> for, maxDataAge |-> 3, enabled |-> on]

\* Only the newest row of a device is ever read, and retention deletes rows from
\* the oldest on, so two tables with the same newest rows behave alike.
NewestRow(m) ==
    {<<t, sensor_minute[m][t]>> : t \in {t \in Times :
        sensor_minute[m][t] # Nil /\ \A u \in Times : u > t => sensor_minute[m][u] = Nil}}

NewestRows ==
    <<clock, [m \in Devices |-> NewestRow(m)], deviceEnabled, rules, lastRule, states, events,
      lastEvent, lock, worker, faults>>

TwoDevices == {m1, m2}
OneDevice  == {m1}
JustHot    == {1}
HotCold    == {0, 1}
HeldOrOff  == {Body(m1, 1, TRUE), Body(m1, 1, FALSE)}
HeldMoved  == {Body(m1, 1, TRUE), Body(m2, 1, TRUE)}
OnOff      == {Body(m1, 0, TRUE), Body(m1, 0, FALSE)}
=============================================================================
