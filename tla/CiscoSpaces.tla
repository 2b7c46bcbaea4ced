---------------------------- MODULE CiscoSpaces ----------------------------
(***************************************************************************)
(* cmd/hm-cisco-spaces-collector: how the events of the Firehose become    *)
(* rows.  Samples of a metric go through a rolling window; its median, when *)
(* the window is full, is uploaded with those of the other metrics, at most *)
(* once in UploadInterval by the events' own time.  The stream, its status *)
(* and the lock are in SensorCollectors.                                   *)
(***************************************************************************)
EXTENDS Samples

CONSTANTS
    Nil,
    Devices,
    Metrics,
    Temperature,        \* metricTemperature
    Humidity,           \* metricHumidity
    Values,             \* what telemetry may hold
    Plausible,          \* temperatures of validCiscoSpacesTemperature
    SuspectHumidity,    \* 99, which comes with wrong temperatures
    Telemetry,          \* metric -> value or Nil
    MaxDrop,            \* 3 degrees
    SampleWindow,       \* CISCO_SPACES_SAMPLE_WINDOW
    FieldFreshness,     \* CISCO_SPACES_FIELD_FRESHNESS
    UploadInterval,     \* CISCO_SPACES_UPLOAD_INTERVAL
    Minute,             \* the clock's ticks in a minute
    MaxSkew,            \* ticks a record's timestamp may be behind or ahead
    MaxTime,            \* bound: the clock
    MaxEvents,          \* bound: events with a reading
    MaxFailures,        \* bound: writes that fail
    MaxRestarts         \* bound: processes that end and are started again

Times   == 0..MaxTime
Reading == [Metrics -> Int \cup {Nil}]

ASSUME ConstantsAssumption ==
    /\ {Temperature, Humidity} \subseteq Metrics
    /\ Values \subseteq {2 * n : n \in -100..100}
    /\ Telemetry \subseteq [Metrics -> Values \cup {Nil}]
    /\ {SampleWindow, UploadInterval, Minute} \subseteq Nat \ {0}
    /\ {MaxDrop, FieldFreshness, MaxSkew, MaxTime, MaxEvents, MaxFailures,
        MaxRestarts} \subseteq Nat
    /\ Nil \notin Int

VARIABLES
    clock,
    sensor_minute,      \* [Devices -> [first tick of a minute -> row: metric -> value or Nil]]
    windows,            \* processor.windows
    lastMetrics,        \* processor.lastMetrics, NoMetric where there is none
    lastUploads,        \* processor.lastUploads
    writing,            \* the reading given to writeReading, NoUpload between events
    used,               \* how often the bounded things happened
    uploaded            \* history: the rows this process has uploaded, <<device, minute>>

vars == <<clock, sensor_minute, windows, lastMetrics, lastUploads, writing, used, uploaded>>

NoMetric == [ts |-> Nil, value |-> Nil]

NoUpload == [mac |-> Nil]

EmptyReading == [k \in Metrics |-> Nil]

TypeOK ==
    /\ clock \in Times
    /\ sensor_minute \in [Devices -> [Times -> Reading]]
    /\ windows \in [Devices -> [Metrics -> Seq(Values)]]
    /\ \A m \in Devices, k \in Metrics : Len(windows[m][k]) =< SampleWindow
    /\ lastMetrics \in [Devices -> [Metrics -> [ts : Times, value : Int] \cup {NoMetric}]]
    /\ lastUploads \in [Devices -> Times \cup {Nil}]
    /\ writing = NoUpload \/ /\ writing.mac \in Devices /\ writing.ts \in Times
                             /\ writing.reading \in Reading \ {EmptyReading}
    /\ used \in [events : Nat, failures : Nat, restarts : Nat]
    /\ uploaded \subseteq Devices \X Times

NoWindows == [m \in Devices |-> [k \in Metrics |-> <<>>]]
NoMetrics == [m \in Devices |-> [k \in Metrics |-> NoMetric]]
NoUploads == [m \in Devices |-> Nil]

Init ==
    /\ clock = 0
    /\ sensor_minute = [m \in Devices |-> [t \in Times |-> EmptyReading]]
    /\ windows = NoWindows
    /\ lastMetrics = NoMetrics
    /\ lastUploads = NoUploads
    /\ writing = NoUpload
    /\ used = [events |-> 0, failures |-> 0, restarts |-> 0]
    /\ uploaded = {}

Tick ==
    /\ clock < MaxTime
    /\ clock' = clock + 1
    /\ UNCHANGED <<sensor_minute, windows, lastMetrics, lastUploads, writing, used, uploaded>>

-----------------------------------------------------------------------------
(* processEvent.                                                           *)

Truncate(ts) == ts - (ts % Minute)

\* A temperature far below the last median is taken for a burst of wrong values.
ValidTemperature(m, v) ==
    /\ v \in Plausible
    /\ lastMetrics[m][Temperature] = NoMetric \/ v >= lastMetrics[m][Temperature].value - MaxDrop

ExtractValues(m, item) ==
    LET wrong == item[Temperature] # Nil /\ ~ValidTemperature(m, item[Temperature])
    IN  [k \in Metrics |->
            IF wrong /\ (k = Temperature \/ (k = Humidity /\ item[k] = SuspectHumidity))
            THEN Nil ELSE item[k]]

\* Mutant: the window is not trimmed.
AddedUntrimmed(m, values) ==
    [k \in Metrics |-> IF values[k] = Nil THEN windows[m][k] ELSE Append(windows[m][k], values[k])]

\* addValue of every metric that has a value.
Added(m, values) ==
    [k \in Metrics |-> IF values[k] = Nil THEN windows[m][k]
                       ELSE LastOf(Append(windows[m][k], values[k]), SampleWindow)]

\* Only a full window has a median.
Measured(m, values, ts) ==
    [k \in Metrics |->
        IF values[k] = Nil \/ Len(Added(m, values)[k]) < SampleWindow THEN lastMetrics[m][k]
        ELSE [ts |-> ts, value |-> Median(Added(m, values)[k])]]

\* Mutant: an event older than the last upload is not held back.
HeldBackIfLater(m, ts) ==
    /\ lastUploads[m] # Nil
    /\ ts - lastUploads[m] \in 0..(UploadInterval - 1)

HeldBack(m, ts) == lastUploads[m] # Nil /\ ts - lastUploads[m] < UploadInterval

\* Mutant: a metric never gets old.
BuildStaleReading(metrics, ts) == [k \in Metrics |-> metrics[k].value]

BuildReading(metrics, ts) ==
    [k \in Metrics |->
        IF metrics[k] # NoMetric /\ ts - metrics[k].ts =< FieldFreshness
        THEN metrics[k].value ELSE Nil]

\* The upload is recorded before the reading is written.
Upload(m, ts, metrics) ==
    /\ writing' = [mac |-> m, ts |-> ts, reading |-> BuildReading(metrics, ts), metrics |-> metrics]
    /\ lastUploads' = [lastUploads EXCEPT ![m] = ts]

\* processEvent: the event's samples are taken, and it may cause an upload.  One
\* without telemetry, timestamp or MAC, or with two MACs, changes nothing.
ProcessEvent(m, ts, item) ==
    LET values  == ExtractValues(m, item)
        metrics == Measured(m, values, ts)
    IN  /\ writing = NoUpload
        /\ ts - clock \in -MaxSkew..MaxSkew
        /\ used.events < MaxEvents
        /\ used' = [used EXCEPT !.events = @ + 1]
        /\ windows' = [windows EXCEPT ![m] = Added(m, values)]
        /\ lastMetrics' = [lastMetrics EXCEPT ![m] = metrics]
        /\ IF HeldBack(m, ts) \/ BuildReading(metrics, ts) = EmptyReading
           THEN UNCHANGED <<lastUploads, writing>>
           ELSE Upload(m, ts, metrics)
        /\ UNCHANGED <<clock, sensor_minute, uploaded>>

-----------------------------------------------------------------------------
(* writeReading and the process.                                           *)

RowWritten == <<writing.mac, Truncate(writing.ts)>>

Stored ==
    sensor_minute' = [sensor_minute EXCEPT ![writing.mac][Truncate(writing.ts)] =
        [k \in Metrics |-> IF writing.reading[k] = Nil THEN @[k] ELSE writing.reading[k]]]

\* Done or not, the reading is given up.
WriteEnds ==
    /\ writing # NoUpload
    /\ writing' = NoUpload
    /\ uploaded' = uploaded \cup {RowWritten}
    /\ UNCHANGED <<clock, windows, lastMetrics, lastUploads>>

Write == WriteEnds /\ Stored /\ UNCHANGED used

WriteFails ==
    /\ WriteEnds
    /\ used.failures < MaxFailures
    /\ used' = [used EXCEPT !.failures = @ + 1]
    /\ Stored \/ UNCHANGED sensor_minute

\* Nothing is kept, and nothing is flushed at shutdown.
Restart ==
    /\ used.restarts < MaxRestarts
    /\ used' = [used EXCEPT !.restarts = @ + 1]
    /\ windows' = NoWindows
    /\ lastMetrics' = NoMetrics
    /\ lastUploads' = NoUploads
    /\ writing' = NoUpload
    /\ uploaded' = {}
    /\ UNCHANGED <<clock, sensor_minute>>

Next ==
    \/ Tick
    \/ \E m \in Devices, ts \in Times, item \in Telemetry : ProcessEvent(m, ts, item)
    \/ Write \/ WriteFails \/ Restart

Spec == Init /\ [][Next]_vars

-----------------------------------------------------------------------------
(* Properties.                                                             *)

\* In whatever order events arrive, each median that is written under a time was
\* completed by an event of that time or of at most FieldFreshness before it, never by
\* an event of a later time.  Of the window's other samples it says nothing: they came
\* earlier, but their times may lie further back or ahead.
MediansAreCurrent ==
    writing # NoUpload =>
        \A k \in Metrics :
            writing.reading[k] # Nil =>
                writing.ts - writing.metrics[k].ts \in 0..FieldFreshness

\* One process uploads a row at most once, whatever the order of the events, so that
\* no median of a part of a minute replaces another.
RowsUploadedOnce == writing # NoUpload => RowWritten \notin uploaded
=============================================================================
