--------------------------- MODULE MCCiscoSpaces ---------------------------
(* Small instances of CiscoSpaces for TLC.                                 *)
EXTENDS CiscoSpaces, TLC

CONSTANTS temperature, humidity

MCMetrics   == {temperature, humidity}
MCValues    == {2, 12, 98, 100}
MCPlausible == {2, 12}

Item(t, h) == temperature :> t @@ humidity :> h

\* Usual values, a drop with the suspect humidity, a humidity alone, a temperature
\* out of range.
MCTelemetry == {Item(12, 98), Item(2, 100), Item(Nil, 98), Item(98, Nil)}
=============================================================================
