-------------------------- MODULE CiscoSpacesProofs --------------------------
(***************************************************************************)
(* Theorems about CiscoSpaces, for any devices, metrics and telemetry,     *)
(* events in any order and any number of failed writes and restarts.       *)
(***************************************************************************)
EXTENDS CiscoSpaces, NumberLemmas

\* sensor_minute keeps a row per minute: rows are told apart if uploads are a minute apart.
MinutesApart == UploadInterval >= Minute

LEMMA Constants ==
    /\ Minute \in Nat \ {0} /\ UploadInterval \in Nat \ {0}
    /\ Times \subseteq Nat /\ Nil \notin Int
BY ConstantsAssumption DEF Times

\* Times at least a minute apart are in different minutes, in the same order.
LEMMA TruncateApart ==
    ASSUME NEW s \in Nat, NEW t \in Nat, t - s >= Minute
    PROVE  /\ Truncate(s) \in Int /\ Truncate(t) \in Int
           /\ Truncate(t) > Truncate(s)
<1>1. s % Minute \in 0..(Minute - 1) /\ t % Minute \in 0..(Minute - 1)
  BY Constants
<1> QED BY <1>1, Constants DEF Truncate

LEMMA TruncateType ==
    ASSUME NEW t \in Nat
    PROVE  Truncate(t) \in Int
<1>1. t % Minute \in 0..(Minute - 1)
  BY Constants
<1> QED BY <1>1, Constants DEF Truncate

UploadsType == lastUploads \in [Devices -> Times \cup {Nil}]

\* The rows this process has uploaded are of its last upload's minute or before.
UploadsInPast ==
    /\ uploaded \subseteq Devices \X Int
    /\ \A m \in Devices, t \in Int :
          <<m, t>> \in uploaded => lastUploads[m] # Nil /\ t =< Truncate(lastUploads[m])

\* The reading that is being written is the last upload, in a minute of its own.
WritesNewRow ==
    writing # NoUpload =>
        /\ writing.mac \in Devices
        /\ writing.ts \in Times
        /\ lastUploads[writing.mac] = writing.ts
        /\ RowWritten \notin uploaded

UploadInv == UploadsType /\ UploadsInPast /\ WritesNewRow

LEMMA UploadInit == Init => UploadInv
BY DEF Init, NoUploads, UploadInv, UploadsType, UploadsInPast, WritesNewRow

\* The two steps of an event that uploads and of one that does not.
LEMMA EventStep ==
    ASSUME MinutesApart, UploadInv, NEW m \in Devices, NEW ts \in Times, NEW item \in Telemetry,
           ProcessEvent(m, ts, item)
    PROVE  UploadInv'
<1> DEFINE metrics == Measured(m, ExtractValues(m, item), ts)
<1>0. writing = NoUpload /\ UNCHANGED uploaded
  BY DEF ProcessEvent
<1>1. CASE UNCHANGED <<lastUploads, writing>>
  BY <1>0, <1>1 DEF UploadInv, UploadsType, UploadsInPast, WritesNewRow
<1>2. CASE ~HeldBack(m, ts) /\ Upload(m, ts, metrics)
  <2>1. /\ writing'.mac = m /\ writing'.ts = ts
        /\ lastUploads' = [lastUploads EXCEPT ![m] = ts]
    BY <1>2 DEF Upload
  <2>2. lastUploads'[m] = ts /\ \A d \in Devices : d # m => lastUploads'[d] = lastUploads[d]
    BY <2>1 DEF UploadInv, UploadsType
  <2>3. UploadsType'
    BY <2>1 DEF UploadInv, UploadsType
  <2>4. ASSUME NEW t \in Int, <<m, t>> \in uploaded
        PROVE  t < Truncate(ts)
    <3>1. lastUploads[m] \in Nat /\ t =< Truncate(lastUploads[m])
      BY <2>4, Constants DEF UploadInv, UploadsType, UploadsInPast
    <3>2. ts \in Nat /\ ts - lastUploads[m] >= Minute
      BY <1>2, <3>1, Constants DEF HeldBack, MinutesApart
    <3>3. /\ Truncate(lastUploads[m]) \in Int /\ Truncate(ts) \in Int
          /\ Truncate(ts) > Truncate(lastUploads[m])
      BY <3>1, <3>2, TruncateApart
    <3> QED BY <3>1, <3>3
  <2>5. ts # Nil /\ Truncate(ts) \in Int
    BY Constants, TruncateType
  <2>6. UploadsInPast'
    <3> SUFFICES ASSUME NEW d \in Devices, NEW t \in Int, <<d, t>> \in uploaded
                 PROVE  lastUploads'[d] # Nil /\ t =< Truncate(lastUploads'[d])
      BY <1>0 DEF UploadInv, UploadsInPast, Truncate
    <3>1. CASE d = m
      BY <2>2, <2>4, <2>5, <3>1
    <3>2. CASE d # m
      BY <2>2, <3>2 DEF UploadInv, UploadsInPast
    <3> QED BY <3>1, <3>2
  <2>7. WritesNewRow'
    <3>1. RowWritten' = <<m, Truncate(ts)>>
      BY <2>1 DEF RowWritten, Truncate
    <3>2. <<m, Truncate(ts)>> \notin uploaded
      BY <2>4, <2>5
    <3> QED BY <1>0, <2>1, <2>2, <3>1, <3>2 DEF WritesNewRow
  <2> QED BY <2>3, <2>6, <2>7 DEF UploadInv
<1> QED BY <1>1, <1>2 DEF ProcessEvent

\* The write is over, done or not.
LEMMA WriteStep ==
    ASSUME UploadInv, WriteEnds
    PROVE  UploadInv'
<1>1. /\ writing # NoUpload /\ writing' = NoUpload
      /\ uploaded' = uploaded \cup {RowWritten}
      /\ UNCHANGED lastUploads
  BY DEF WriteEnds
<1>2. /\ writing.mac \in Devices /\ writing.ts \in Nat
      /\ lastUploads[writing.mac] = writing.ts
  BY <1>1, Constants DEF UploadInv, WritesNewRow
<1>3. Truncate(writing.ts) \in Int
  BY <1>2, TruncateType
<1>4. UploadsInPast'
  <2>1. uploaded' \subseteq Devices \X Int
    BY <1>1, <1>2, <1>3 DEF RowWritten, UploadInv, UploadsInPast
  <2>2. ASSUME NEW m \in Devices, NEW t \in Int, <<m, t>> \in uploaded'
        PROVE  lastUploads[m] # Nil /\ t =< Truncate(lastUploads[m])
    <3>1. CASE <<m, t>> \in uploaded
      BY <3>1 DEF UploadInv, UploadsInPast
    <3>2. CASE <<m, t>> = RowWritten
      BY <1>2, <1>3, <3>2, Constants DEF RowWritten
    <3> QED BY <1>1, <2>2, <3>1, <3>2
  <2> QED BY <1>1, <2>1, <2>2 DEF UploadsInPast, Truncate
<1> QED BY <1>1, <1>4 DEF UploadInv, UploadsType, WritesNewRow

LEMMA UploadStep == MinutesApart /\ UploadInv /\ [Next]_vars => UploadInv'
<1> SUFFICES ASSUME MinutesApart, UploadInv, [Next]_vars PROVE UploadInv'
  OBVIOUS
<1>1. CASE Tick \/ UNCHANGED vars
  <2>1. UNCHANGED <<lastUploads, writing, uploaded>>
    BY <1>1 DEF Tick, vars
  <2> QED BY <2>1 DEF UploadInv, UploadsType, UploadsInPast, WritesNewRow, RowWritten, Truncate
<1>2. CASE \E m \in Devices, ts \in Times, item \in Telemetry : ProcessEvent(m, ts, item)
  BY <1>2, EventStep
<1>3. CASE Write \/ WriteFails
  BY <1>3, WriteStep DEF Write, WriteFails
<1>4. CASE Restart
  BY <1>4 DEF Restart, NoUploads, UploadInv, UploadsType, UploadsInPast, WritesNewRow
<1> QED BY <1>1, <1>2, <1>3, <1>4 DEF Next

\* A process uploads each row once, however late, early or repeated the events are and
\* whether a write fails or not, if the upload interval is a minute or more, as it is by
\* default.
THEOREM EachRowUploadedOnce ==
    ASSUME MinutesApart
    PROVE  Spec => []RowsUploadedOnce
<1>1. UploadInv => RowsUploadedOnce
  BY DEF UploadInv, WritesNewRow, RowsUploadedOnce
<1>2. UploadInv /\ [Next]_vars => UploadInv'
  BY UploadStep
<1> QED BY <1>1, <1>2, UploadInit, PTL DEF Spec

-----------------------------------------------------------------------------
(* What an event makes of the windows and the metrics.                     *)

WindowsOK ==
    /\ windows \in [Devices -> [Metrics -> Seq(Values)]]
    /\ \A m \in Devices, k \in Metrics : Len(windows[m][k]) =< SampleWindow

Metric == [ts : Times, value : Int]

MetricsOK == lastMetrics \in [Devices -> [Metrics -> Metric \cup {NoMetric}]]

LEMMA ValuesOfItem ==
    ASSUME NEW m \in Devices, NEW item \in Telemetry
    PROVE  ExtractValues(m, item) \in [Metrics -> Values \cup {Nil}]
<1>1. item \in [Metrics -> Values \cup {Nil}]
  BY ConstantsAssumption
<1> QED BY <1>1 DEF ExtractValues

LEMMA AddedType ==
    ASSUME WindowsOK, NEW m \in Devices, NEW values \in [Metrics -> Values \cup {Nil}]
    PROVE  /\ Added(m, values) \in [Metrics -> Seq(Values)]
           /\ \A k \in Metrics : Len(Added(m, values)[k]) =< SampleWindow
<1> SUFFICES ASSUME NEW k \in Metrics
             PROVE  Added(m, values)[k] \in Seq(Values) /\ Len(Added(m, values)[k]) =< SampleWindow
  BY DEF Added
<1>1. windows[m][k] \in Seq(Values) /\ Len(windows[m][k]) =< SampleWindow
  BY DEF WindowsOK
<1>2. CASE values[k] = Nil
  BY <1>1, <1>2 DEF Added
<1>3. CASE values[k] # Nil
  <2>1. PICK s \in Seq(Values) : s = Append(windows[m][k], values[k])
    <3>1. PICK w \in Seq(Values), v \in Values : w = windows[m][k] /\ v = values[k]
      BY <1>1, <1>3
    <3>2. Append(w, v) \in Seq(Values)
      OBVIOUS
    <3> QED BY <3>1, <3>2
  <2>2. SampleWindow \in Nat \ {0}
    BY ConstantsAssumption
  <2>3. Added(m, values)[k] = LastOf(s, SampleWindow)
    BY <1>3, <2>1 DEF Added
  <2> QED BY <2>2, <2>3, LastOfType
<1> QED BY <1>2, <1>3

\* A metric is what it was, or was measured by this event.
LEMMA MeasuredType ==
    ASSUME WindowsOK, MetricsOK, NEW m \in Devices, NEW ts \in Times,
           NEW values \in [Metrics -> Values \cup {Nil}]
    PROVE  /\ Measured(m, values, ts) \in [Metrics -> Metric \cup {NoMetric}]
           /\ \A k \in Metrics :
                \/ Measured(m, values, ts)[k] = lastMetrics[m][k]
                \/ Measured(m, values, ts)[k] \in Metric /\ Measured(m, values, ts)[k].ts = ts
<1>1. ASSUME NEW k \in Metrics
      PROVE  \/ Measured(m, values, ts)[k] = lastMetrics[m][k]
             \/ Measured(m, values, ts)[k] \in Metric /\ Measured(m, values, ts)[k].ts = ts
  <2>1. CASE values[k] = Nil \/ Len(Added(m, values)[k]) < SampleWindow
    BY <2>1 DEF Measured
  <2>2. CASE ~(values[k] = Nil \/ Len(Added(m, values)[k]) < SampleWindow)
    <3>1. PICK s : s = Added(m, values)[k]
      OBVIOUS
    <3>2. s \in Seq(Values) /\ s # <<>>
      BY <2>2, <3>1, AddedType, ConstantsAssumption
    <3>3. PICK a \in Int, b \in Int : a = -200 /\ b = 200
      OBVIOUS
    <3>4. Values \in SUBSET (a..b)
      <4>1. \A v \in Values : \E n \in -100..100 : v = 2 * n
        BY ConstantsAssumption
      <4>2. \A v \in Values : v \in Int /\ a =< v /\ v =< b
        BY <3>3, <4>1
      <4> QED BY <4>2
    <3>5. Median(s) \in Int
      BY <3>2, <3>4, MedianOfSamples
    <3>6. Measured(m, values, ts)[k] = [ts |-> ts, value |-> Median(s)]
      BY <2>2, <3>1 DEF Measured
    <3> QED BY <3>5, <3>6 DEF Metric
  <2> QED BY <2>1, <2>2
<1>2. DOMAIN Measured(m, values, ts) = Metrics
      /\ Measured(m, values, ts) = [k \in Metrics |-> Measured(m, values, ts)[k]]
  BY DEF Measured
<1>3. \A k \in Metrics : lastMetrics[m][k] \in Metric \cup {NoMetric}
  BY DEF MetricsOK
<1> QED BY <1>1, <1>2, <1>3

\* A metric of this very moment is in the reading, and none is there that is too old.
LEMMA ReadingType ==
    ASSUME NEW metrics \in [Metrics -> Metric \cup {NoMetric}], NEW ts \in Times
    PROVE  /\ BuildReading(metrics, ts) \in Reading
           /\ \A k \in Metrics :
                /\ BuildReading(metrics, ts)[k] # Nil =>
                     metrics[k] \in Metric /\ ts - metrics[k].ts =< FieldFreshness
                /\ metrics[k] \in Metric /\ metrics[k].ts = ts =>
                     BuildReading(metrics, ts) # EmptyReading
<1>1. \A k \in Metrics : metrics[k] # NoMetric <=> metrics[k] \in Metric
  BY Constants DEF Metric, NoMetric
<1>2. ASSUME NEW k \in Metrics
      PROVE  /\ BuildReading(metrics, ts)[k] \in Int \cup {Nil}
             /\ BuildReading(metrics, ts)[k] # Nil =>
                     metrics[k] \in Metric /\ ts - metrics[k].ts =< FieldFreshness
  BY <1>1 DEF BuildReading, Metric
<1>3. ASSUME NEW k \in Metrics, metrics[k] \in Metric, metrics[k].ts = ts
      PROVE  BuildReading(metrics, ts) # EmptyReading
  <2>1. ts - metrics[k].ts =< FieldFreshness
    BY <1>3, Constants, ConstantsAssumption
  <2>2. BuildReading(metrics, ts)[k] = metrics[k].value /\ metrics[k].value \in Int
    BY <1>1, <1>3, <2>1 DEF BuildReading, Metric
  <2> QED BY <2>2, Constants DEF EmptyReading
<1>4. BuildReading(metrics, ts) \in Reading
  BY <1>2 DEF BuildReading, Reading
<1> QED BY <1>2, <1>3, <1>4

-----------------------------------------------------------------------------
(* Types, and metrics no later than what is written.                       *)

\* A metric is measured by an event that uploads, or that an upload holds back.
MetricsHeldBack ==
    \A m \in Devices, k \in Metrics :
        lastMetrics[m][k] # NoMetric =>
            lastUploads[m] # Nil /\ lastMetrics[m][k].ts < lastUploads[m] + UploadInterval

WritingOK ==
    writing # NoUpload =>
        /\ writing.mac \in Devices /\ writing.ts \in Times
        /\ writing.reading \in Reading \ {EmptyReading}

SpacesInv ==
    /\ clock \in Times
    /\ sensor_minute \in [Devices -> [Times -> Reading]]
    /\ WindowsOK
    /\ MetricsOK
    /\ UploadsType
    /\ WritingOK
    /\ used \in [events : Nat, failures : Nat, restarts : Nat]
    /\ uploaded \subseteq Devices \X Times
    /\ MetricsHeldBack
    /\ MediansAreCurrent

LEMMA SpacesInit == Init => SpacesInv
<1> SUFFICES ASSUME Init PROVE SpacesInv
  OBVIOUS
<1>1. WindowsOK
  BY ConstantsAssumption DEF Init, WindowsOK, NoWindows
<1>2. MetricsOK /\ UploadsType /\ MetricsHeldBack
  BY DEF Init, MetricsOK, UploadsType, MetricsHeldBack, NoMetrics, NoUploads
<1>3. sensor_minute \in [Devices -> [Times -> Reading]] /\ clock \in Times
  BY ConstantsAssumption DEF Init, EmptyReading, Reading, Times
<1>4. WritingOK /\ MediansAreCurrent
  BY DEF Init, WritingOK, MediansAreCurrent
<1> QED BY <1>1, <1>2, <1>3, <1>4 DEF SpacesInv, Init

\* An event is measured, and uploaded unless it is held back or has nothing to upload.
LEMMA EventSound ==
    ASSUME SpacesInv, NEW m \in Devices, NEW ts \in Times, NEW item \in Telemetry,
           ProcessEvent(m, ts, item)
    PROVE  SpacesInv'
<1>1. PICK values : values = ExtractValues(m, item)
  OBVIOUS
<1>2. PICK metrics, added : metrics = Measured(m, values, ts) /\ added = Added(m, values)
  OBVIOUS
<1>3. PICK reading : reading = BuildReading(metrics, ts)
  OBVIOUS
<1>4. /\ writing = NoUpload
      /\ used' = [used EXCEPT !.events = @ + 1]
      /\ windows' = [windows EXCEPT ![m] = added]
      /\ lastMetrics' = [lastMetrics EXCEPT ![m] = metrics]
      /\ UNCHANGED <<clock, sensor_minute, uploaded>>
      /\ \/ HeldBack(m, ts) /\ UNCHANGED <<lastUploads, writing>>
         \/ ~HeldBack(m, ts) /\ reading = EmptyReading /\ UNCHANGED <<lastUploads, writing>>
         \/ /\ ~HeldBack(m, ts) /\ reading # EmptyReading
            /\ writing' = [mac |-> m, ts |-> ts, reading |-> reading, metrics |-> metrics]
            /\ lastUploads' = [lastUploads EXCEPT ![m] = ts]
  BY <1>1, <1>2, <1>3 DEF ProcessEvent, Upload
<1>5. values \in [Metrics -> Values \cup {Nil}]
  BY <1>1, ValuesOfItem
<1>6. /\ added \in [Metrics -> Seq(Values)]
      /\ \A k \in Metrics : Len(added[k]) =< SampleWindow
  BY <1>2, <1>5, AddedType DEF SpacesInv
<1>7. /\ metrics \in [Metrics -> Metric \cup {NoMetric}]
      /\ \A k \in Metrics : \/ metrics[k] = lastMetrics[m][k]
                            \/ metrics[k] \in Metric /\ metrics[k].ts = ts
  BY <1>2, <1>5, MeasuredType DEF SpacesInv
<1>8. /\ reading \in Reading
      /\ \A k \in Metrics :
           /\ reading[k] # Nil => metrics[k] \in Metric /\ ts - metrics[k].ts =< FieldFreshness
           /\ metrics[k] \in Metric /\ metrics[k].ts = ts => reading # EmptyReading
  BY <1>3, <1>7, ReadingType
<1>9. WindowsOK' /\ MetricsOK'
  BY <1>4, <1>6, <1>7 DEF SpacesInv, WindowsOK, MetricsOK
<1>10. used' \in [events : Nat, failures : Nat, restarts : Nat]
  BY <1>4 DEF SpacesInv
<1>11. /\ lastMetrics'[m] = metrics
       /\ \A d \in Devices : d # m => lastMetrics'[d] = lastMetrics[d]
  BY <1>4 DEF SpacesInv, MetricsOK
<1>12. ASSUME NEW k \in Metrics, metrics[k] = lastMetrics[m][k], metrics[k] # NoMetric
       PROVE  /\ lastUploads[m] \in Times /\ metrics[k] \in Metric
              /\ metrics[k].ts < lastUploads[m] + UploadInterval
  BY <1>7, <1>12 DEF SpacesInv, UploadsType, MetricsHeldBack
<1>13. CASE HeldBack(m, ts) /\ UNCHANGED <<lastUploads, writing>>
  <2>1. lastUploads[m] \in Times /\ ts < lastUploads[m] + UploadInterval
    <3>1. lastUploads[m] \in Times /\ ts - lastUploads[m] < UploadInterval
      BY <1>13 DEF HeldBack, SpacesInv, UploadsType
    <3>2. ts \in Nat /\ lastUploads[m] \in Nat /\ UploadInterval \in Nat
      BY <3>1, Constants
    <3> QED BY <3>1, <3>2
  <2>2. MetricsHeldBack'
    <3>1. ASSUME NEW k \in Metrics, metrics[k] # NoMetric
          PROVE  lastUploads[m] # Nil /\ metrics[k].ts < lastUploads[m] + UploadInterval
      BY <1>7, <1>12, <2>1, <3>1, Constants
    <3> QED BY <1>11, <1>13, <3>1 DEF SpacesInv, MetricsHeldBack
  <2>3. UploadsType' /\ WritingOK' /\ MediansAreCurrent'
    BY <1>4, <1>13 DEF SpacesInv, UploadsType, WritingOK, MediansAreCurrent
  <2> QED BY <1>4, <1>9, <1>10, <2>2, <2>3 DEF SpacesInv
<1>14. CASE ~HeldBack(m, ts) /\ reading = EmptyReading /\ UNCHANGED <<lastUploads, writing>>
  <2>1. MetricsHeldBack'
    <3>1. \A k \in Metrics : metrics[k] = lastMetrics[m][k]
      BY <1>7, <1>8, <1>14
    <3> QED BY <1>11, <1>14, <3>1 DEF SpacesInv, MetricsHeldBack
  <2>2. UploadsType' /\ WritingOK' /\ MediansAreCurrent'
    BY <1>4, <1>14 DEF SpacesInv, UploadsType, WritingOK, MediansAreCurrent
  <2> QED BY <1>4, <1>9, <1>10, <2>1, <2>2 DEF SpacesInv
<1>15. CASE /\ ~HeldBack(m, ts) /\ reading # EmptyReading
            /\ writing' = [mac |-> m, ts |-> ts, reading |-> reading, metrics |-> metrics]
            /\ lastUploads' = [lastUploads EXCEPT ![m] = ts]
  <2>1. /\ lastUploads'[m] = ts
        /\ \A d \in Devices : d # m => lastUploads'[d] = lastUploads[d]
        /\ UploadsType'
    BY <1>15 DEF SpacesInv, UploadsType
  <2>2. ASSUME NEW k \in Metrics, metrics[k] # NoMetric
        PROVE  metrics[k] \in Metric /\ metrics[k].ts =< ts
    <3>1. metrics[k] \in Metric /\ metrics[k].ts \in Times
      BY <1>7, <2>2 DEF Metric
    <3>2. CASE metrics[k] = lastMetrics[m][k]
      <4>1. lastUploads[m] \in Nat /\ ts - lastUploads[m] >= UploadInterval
        BY <1>12, <1>15, <2>2, <3>2, Constants DEF HeldBack
      <4>2. metrics[k].ts < lastUploads[m] + UploadInterval
        BY <1>12, <2>2, <3>2
      <4>3. ts \in Nat /\ metrics[k].ts \in Nat /\ UploadInterval \in Nat
        BY <3>1, Constants
      <4> QED BY <3>1, <4>1, <4>2, <4>3
    <3>3. CASE metrics[k].ts = ts
      BY <3>1, <3>3, Constants
    <3> QED BY <1>7, <3>2, <3>3
  <2>3. MetricsHeldBack'
    <3>1. ASSUME NEW k \in Metrics, metrics[k] # NoMetric
          PROVE  ts # Nil /\ metrics[k].ts < ts + UploadInterval
      <4>1. metrics[k].ts \in Nat /\ metrics[k].ts =< ts /\ ts \in Nat
        BY <2>2, <3>1, Constants DEF Metric
      <4> QED BY <4>1, Constants
    <3> QED BY <1>11, <2>1, <3>1 DEF SpacesInv, MetricsHeldBack
  <2>4. WritingOK'
    BY <1>8, <1>15 DEF WritingOK
  <2>5. MediansAreCurrent'
    <3>1. ASSUME NEW k \in Metrics, reading[k] # Nil
          PROVE  ts - metrics[k].ts \in 0..FieldFreshness
      <4>1. metrics[k] \in Metric /\ ts - metrics[k].ts =< FieldFreshness
        BY <1>8, <3>1
      <4>2. metrics[k] # NoMetric
        BY <4>1, Constants DEF Metric, NoMetric
      <4>3. metrics[k].ts \in Nat /\ ts \in Nat /\ metrics[k].ts =< ts /\ FieldFreshness \in Nat
        BY <2>2, <4>1, <4>2, Constants, ConstantsAssumption DEF Metric
      <4> QED BY <4>1, <4>3
    <3> QED BY <1>15, <3>1 DEF MediansAreCurrent
  <2> QED BY <1>4, <1>9, <1>10, <2>1, <2>3, <2>4, <2>5 DEF SpacesInv
<1> QED BY <1>4, <1>13, <1>14, <1>15

LEMMA WriteSound ==
    ASSUME SpacesInv, Write \/ WriteFails
    PROVE  SpacesInv'
<1>1. /\ writing # NoUpload /\ writing' = NoUpload
      /\ uploaded' = uploaded \cup {RowWritten}
      /\ UNCHANGED <<clock, windows, lastMetrics, lastUploads>>
      /\ Stored \/ UNCHANGED sensor_minute
      /\ UNCHANGED used \/ used' = [used EXCEPT !.failures = @ + 1]
  BY DEF Write, WriteFails, WriteEnds
<1>2. PICK m, t, reading : m = writing.mac /\ t = Truncate(writing.ts) /\ reading = writing.reading
  OBVIOUS
<1>3. m \in Devices /\ t \in Times /\ reading \in Reading
  <2>1. writing.ts \in Nat /\ writing.ts \in 0..MaxTime /\ MaxTime \in Nat
    BY <1>1, ConstantsAssumption DEF SpacesInv, WritingOK, Times
  <2>2. writing.ts % Minute \in 0..writing.ts
    BY <2>1, Constants
  <2>3. t \in Times
    BY <1>2, <2>1, <2>2 DEF Truncate, Times
  <2> QED BY <1>1, <1>2, <2>3 DEF SpacesInv, WritingOK
<1>4. sensor_minute' \in [Devices -> [Times -> Reading]]
  <2>1. CASE Stored
    <3>1. PICK row : row = [k \in Metrics |-> IF reading[k] = Nil THEN sensor_minute[m][t][k]
                                              ELSE reading[k]]
      OBVIOUS
    <3>2. row \in Reading
      BY <1>3, <3>1 DEF SpacesInv, Reading
    <3>3. sensor_minute' = [sensor_minute EXCEPT ![m][t] = row]
      BY <1>2, <1>3, <2>1, <3>1 DEF Stored, SpacesInv
    <3> QED BY <1>3, <3>2, <3>3 DEF SpacesInv
  <2> QED BY <1>1, <2>1 DEF SpacesInv
<1>5. used' \in [events : Nat, failures : Nat, restarts : Nat]
  BY <1>1 DEF SpacesInv
<1>6. uploaded' \subseteq Devices \X Times
  BY <1>1, <1>2, <1>3 DEF SpacesInv, RowWritten
<1>7. WindowsOK' /\ MetricsOK' /\ UploadsType' /\ WritingOK' /\ MetricsHeldBack' /\ MediansAreCurrent'
  BY <1>1 DEF SpacesInv, WindowsOK, MetricsOK, UploadsType, WritingOK, MetricsHeldBack,
              MediansAreCurrent
<1> QED BY <1>1, <1>4, <1>5, <1>6, <1>7 DEF SpacesInv

LEMMA SpacesStep == SpacesInv /\ [Next]_vars => SpacesInv'
<1> SUFFICES ASSUME SpacesInv, [Next]_vars PROVE SpacesInv'
  OBVIOUS
<1>1. CASE Tick \/ UNCHANGED vars
  <2>1. clock' \in Times
    BY <1>1, ConstantsAssumption DEF SpacesInv, Tick, vars, Times
  <2>2. UNCHANGED <<sensor_minute, windows, lastMetrics, lastUploads, writing, used, uploaded>>
    BY <1>1 DEF Tick, vars
  <2> QED BY <2>1, <2>2 DEF SpacesInv, WindowsOK, MetricsOK, UploadsType, WritingOK,
                            MetricsHeldBack, MediansAreCurrent
<1>2. CASE \E m \in Devices, ts \in Times, item \in Telemetry : ProcessEvent(m, ts, item)
  BY <1>2, EventSound
<1>3. CASE Write \/ WriteFails
  BY <1>3, WriteSound
<1>4. CASE Restart
  <2>1. WindowsOK'
    BY <1>4, ConstantsAssumption DEF Restart, WindowsOK, NoWindows
  <2>2. MetricsOK' /\ UploadsType' /\ MetricsHeldBack'
    BY <1>4 DEF Restart, MetricsOK, UploadsType, MetricsHeldBack, NoMetrics, NoUploads
  <2>3. WritingOK' /\ MediansAreCurrent'
    BY <1>4 DEF Restart, WritingOK, MediansAreCurrent
  <2>4. used' \in [events : Nat, failures : Nat, restarts : Nat]
    BY <1>4 DEF Restart, SpacesInv
  <2> QED BY <1>4, <2>1, <2>2, <2>3, <2>4 DEF Restart, SpacesInv
<1> QED BY <1>1, <1>2, <1>3, <1>4 DEF Next

\* Every variable keeps its type: no window is longer than its size, and a reading that is
\* written has a metric.
THEOREM TypeCorrect == Spec => []TypeOK
<1>1. SpacesInv => TypeOK
  BY DEF SpacesInv, TypeOK, WindowsOK, MetricsOK, Metric, UploadsType, WritingOK
<1> QED BY <1>1, SpacesInit, SpacesStep, PTL DEF Spec

\* The event that completed a median has the time under which the median is written or
\* one at most FieldFreshness before, for any order of the events and any sizes of window
\* and intervals: if an event of a later time completed it, an upload holds back all that
\* is earlier.  The other samples of the window may have any times.
THEOREM MediansAlwaysCurrent == Spec => []MediansAreCurrent
<1>1. SpacesInv => MediansAreCurrent
  BY DEF SpacesInv
<1> QED BY <1>1, SpacesInit, SpacesStep, PTL DEF Spec
=============================================================================
