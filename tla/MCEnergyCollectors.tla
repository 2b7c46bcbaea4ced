------------------------- MODULE MCEnergyCollectors -------------------------
(* Small instances of EnergyCollectors for TLC.                            *)
EXTENDS EnergyCollectors, TLC

MCMetricsOf == "apcupsd" :> {"input_voltage_v", "load_percent"}
            @@ "solar" :> {"solar_generation_w"}
            @@ "battery" :> {"battery_remaining"}

\* Three records, two of them of one row; the retention comes to the first batch in part.
MCExport == <<<<0, "solar_generation_w">>, <<1, "battery_remaining">>,
              <<1, "battery_remaining">>>>

\* Nothing reads the rows of collector_status here.
WithoutStatus ==
    <<clock, energy_readings, polls, sock, air, tid, import, used>>
=============================================================================
