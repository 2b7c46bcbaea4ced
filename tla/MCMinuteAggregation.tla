------------------------ MODULE MCMinuteAggregation ------------------------
(* Small instances of MinuteAggregation for TLC.                            *)
EXTENDS MinuteAggregation

CONSTANTS battery, temperature

MCMetrics == {battery, temperature}

TwoValues == {1, 2}

\* Sparse advertisements: a temperature, or a battery level alone.
TemperatureOnly ==
    {[k \in MCMetrics |-> IF k = temperature THEN v ELSE Nil] : v \in TwoValues}
=============================================================================
