---------------------- MODULE MinuteAggregationProofs ----------------------
(***************************************************************************)
(* Theorems about MinuteAggregation, for every set of devices, metrics and *)
(* values, and for any number of messages, polls, failed writes, lost      *)
(* streams, shutdowns and crashes.                                         *)
(***************************************************************************)
EXTENDS MinuteAggregation, TLAPS, FiniteSetTheorems

Row == [Metrics -> {Nil} \cup SUBSET Values]

Rows == [Devices -> [Times -> Row]]

Windows == [Devices -> [Times -> Window]]

Counters ==
    [messages : Nat, polls : Nat, failures : Nat, disconnects : Nat, signals : Nat, crashes : Nat]

Story == [all : Seq(Reading), new : SUBSET Metrics, reopened : BOOLEAN]

Heard == [Devices -> [Times -> Story]]

-----------------------------------------------------------------------------
(* Types.                                                                  *)

LEMMA NoWindowType == NoWindow \in Window
BY DEF NoWindow, Window

\* A median is made of samples.
LEMMA MedianType ==
    ASSUME NEW s \in Seq(Values)
    PROVE  NullableMedian(s) \in {Nil} \cup SUBSET Values
<1>1. ToSet(s) \subseteq Values
  BY DEF ToSet
<1>2. Middle(s) \subseteq ToSet(s)
  BY DEF Middle
<1> QED BY <1>1, <1>2 DEF NullableMedian

LEMMA MergedType ==
    ASSUME NEW row \in Row, NEW values \in Row
    PROVE  Merged(row, values) \in Row
BY DEF Merged, Row

LEMMA ExtendedType ==
    ASSUME NEW window \in Window, NEW r \in Reading
    PROVE  Extended(window, r) \in Window
<1>1. CASE r = window.last
  BY <1>1 DEF Extended
<1>2. CASE r # window.last
  <2> DEFINE f == [k \in Metrics |-> IF r[k] = Nil THEN window.samples[k]
                                     ELSE Append(window.samples[k], r[k])]
  <2>1. ASSUME NEW k \in Metrics
        PROVE  f[k] \in Seq(Values)
    <3>1. window.samples[k] \in Seq(Values)
      BY DEF Window
    <3>2. r[k] \in Values \cup {Nil}
      BY DEF Reading
    <3> QED BY <3>1, <3>2
  <2>2. f \in [Metrics -> Seq(Values)]
    BY <2>1
  <2> HIDE DEF f
  <2>3. [last |-> r, samples |-> f] \in Window
    BY <2>2 DEF Window
  <2> QED BY <1>2, <2>3 DEF Extended, f
<1> QED BY <1>1, <1>2

LEMMA AddType ==
    ASSUME windows \in Windows, heard \in Heard,
           NEW m \in Devices, NEW t \in Times, NEW r \in Reading, Add(m, t, r)
    PROVE  /\ windows' \in Windows
           /\ heard' \in Heard
<1>1. windows[m][t] \in Window
  BY DEF Windows
<1>2. Extended(windows[m][t], r) \in Window
  BY <1>1, ExtendedType
<1>3. windows' \in Windows
  BY <1>2 DEF Add, Windows
<1>4. /\ heard[m][t] \in Story
      /\ [all      |-> Append(heard[m][t].all, r),
          new      |-> heard[m][t].new \cup {k \in Metrics : r[k] # Nil},
          reopened |-> heard[m][t].reopened
                       \/ (windows[m][t] = NoWindow /\ heard[m][t].all # <<>>)] \in Story
  BY DEF Heard, Story
<1>5. heard' \in Heard
  BY <1>4 DEF Add, Heard
<1> QED BY <1>3, <1>5

\* The row that the flush of a window writes.
Medians(window) == [k \in Metrics |-> NullableMedian(window.samples[k])]

LEMMA MediansType ==
    ASSUME NEW window \in Window
    PROVE  Medians(window) \in Row
<1>1. \A k \in Metrics : window.samples[k] \in Seq(Values)
  BY DEF Window
<1> QED BY <1>1, MedianType DEF Medians, Row

LEMMA FlushType ==
    ASSUME windows \in Windows, sensor_minute \in Rows, heard \in Heard,
           NEW written, NEW failed, Flush(written, failed)
    PROVE  windows' \in Windows /\ sensor_minute' \in Rows /\ heard' \in Heard
<1>1. windows' \in Windows
  BY NoWindowType DEF Flush, Delete, Windows
<1>2. ASSUME NEW m \in Devices, NEW t \in Times
      PROVE  Merged(sensor_minute[m][t], Medians(windows[m][t])) \in Row
  <2>1. windows[m][t] \in Window /\ sensor_minute[m][t] \in Row
    BY DEF Windows, Rows
  <2> QED BY <2>1, MediansType, MergedType
<1>3. ASSUME NEW m \in Devices, NEW t \in Times
      PROVE  sensor_minute[m][t] \in Row
  BY DEF Rows
<1>4. sensor_minute' = [m \in Devices |-> [t \in Times |->
          IF <<m, t>> \in written THEN Merged(sensor_minute[m][t], Medians(windows[m][t]))
          ELSE sensor_minute[m][t]]]
  BY DEF Flush, Upsert, Medians
<1>5. sensor_minute' \in Rows
  BY <1>2, <1>3, <1>4 DEF Rows
<1>6. heard' \in Heard
  <2>1. ASSUME NEW m \in Devices, NEW t \in Times
        PROVE  heard[m][t] \in Story /\ [heard[m][t] EXCEPT !.new = {}] \in Story
    <3>1. heard[m][t] \in Story
      BY DEF Heard
    <3> QED BY <3>1 DEF Story
  <2>2. heard' = [m \in Devices |-> [t \in Times |->
            IF <<m, t>> \in written THEN [heard[m][t] EXCEPT !.new = {}] ELSE heard[m][t]]]
    BY DEF Flush, Upsert
  <2> QED BY <2>1, <2>2 DEF Heard
<1> QED BY <1>1, <1>5, <1>6

LEMMA RestartType ==
    ASSUME Restart
    PROVE  /\ windows' \in Windows
           /\ mqtt' \in MqttState
           /\ gatt' \in GattState
           /\ main' \in MainState
BY NoWindowType, ConstantsAssumption
   DEF Restart, Windows, MqttState, NoPoll, GattState, MainState, Times

\* TypeOK in the terms above.
Shape ==
    /\ clock \in Times
    /\ sensor_minute \in Rows
    /\ windows \in Windows
    /\ mqtt \in MqttState
    /\ gatt \in GattState
    /\ main \in MainState
    /\ used \in Counters
    /\ heard \in Heard
    /\ excused \subseteq Devices \X Times

LEMMA TypeShape == TypeOK <=> Shape
BY DEF TypeOK, Shape, Rows, Row, Windows, Counters, Heard, Story

\* Counting keeps the counters numbers.
LEMMA Counted ==
    ASSUME used \in Counters
    PROVE  /\ [used EXCEPT !.messages = @ + 1] \in Counters
           /\ [used EXCEPT !.polls = @ + 1] \in Counters
           /\ [used EXCEPT !.failures = @ + 1] \in Counters
           /\ [used EXCEPT !.disconnects = @ + 1] \in Counters
           /\ [used EXCEPT !.signals = @ + 1] \in Counters
           /\ [used EXCEPT !.crashes = @ + 1] \in Counters
BY DEF Counters

LEMMA OutcomeType ==
    ASSUME used \in Counters,
           NEW S, NEW cancelled, NEW written, NEW failed, Outcome(S, cancelled, written, failed)
    PROVE  /\ used' \in Counters
           /\ written \subseteq S
           /\ failed \subseteq S
BY Counted DEF Outcome

LEMMA ShapeInit == Init => Shape
<1> SUFFICES ASSUME Init PROVE Shape
  OBVIOUS
<1> USE DEF Init
<1>1. clock \in Times /\ 0 \in Times
  BY ConstantsAssumption DEF Times
<1>2. sensor_minute \in Rows
  BY DEF Rows, Row
<1>3. windows \in Windows
  BY NoWindowType DEF Windows
<1>4. gatt \in GattState
  BY <1>1 DEF NoPoll, GattState
<1>5. heard \in Heard
  BY DEF Heard, Story
<1> QED BY <1>1, <1>2, <1>3, <1>4, <1>5 DEF Shape, MqttState, MainState, Counters

LEMMA ShapeStep == Shape /\ [Next]_vars => Shape'
<1> SUFFICES ASSUME Shape, [Next]_vars PROVE Shape'
  OBVIOUS
<1> USE DEF Shape, MqttState, MainState
<1>1. CASE UNCHANGED vars
  BY <1>1 DEF vars
<1>2. CASE Tick
  BY <1>2, ConstantsAssumption DEF Tick, Times
<1>3. CASE Connect
  BY <1>3 DEF Connect
<1>4. CASE Disconnect
  BY <1>4, Counted DEF Disconnect
<1>5. ASSUME NEW m \in Devices, NEW t \in Times, NEW r \in Advertisements, Message(m, t, r)
      PROVE  Shape'
  <2>1. r \in Reading /\ Add(m, t, r)
    BY <1>5, ConstantsAssumption DEF Message
  <2>2. windows' \in Windows /\ heard' \in Heard
    BY <2>1, AddType
  <2> QED BY <1>5, <2>2, Counted DEF Message
<1>6. CASE FlushPending
  <2>1. PICK written, failed : /\ Outcome(Completed(clock), Cancelled, written, failed)
                               /\ Flush(written, failed)
    BY <1>6 DEF FlushPending
  <2>2. windows' \in Windows /\ sensor_minute' \in Rows /\ heard' \in Heard
    BY <2>1, FlushType
  <2>3. used' \in Counters
    BY <2>1, OutcomeType
  <2> QED BY <1>6, <2>2, <2>3 DEF FlushPending
<1>7. CASE MqttDone
  BY <1>7 DEF MqttDone
<1>8. ASSUME NEW m \in PolledDevices, StartPoll(m)
      PROVE  Shape'
  <2>1. m \in Devices
    BY ConstantsAssumption
  <2>2. gatt' \in GattState
    BY <2>1, <1>8 DEF StartPoll, GattState
  <2> QED BY <1>8, <2>2, Counted DEF StartPoll
<1>9. ASSUME NEW v \in Values, ReadBattery(v)
      PROVE  Shape'
  <2>1. gatt' \in GattState
    BY <1>9 DEF ReadBattery, GattState
  <2> QED BY <1>9, <2>1 DEF ReadBattery
<1>nopoll. NoPoll \in GattState
  BY ConstantsAssumption DEF NoPoll, GattState, Times
<1>10. CASE ReadFails
  BY <1>10, <1>nopoll DEF ReadFails
<1>11. CASE EndPoll
  BY <1>11, <1>nopoll DEF EndPoll
<1>12. CASE GattDone
  <2>1. gatt' \in GattState
    BY <1>12 DEF GattDone, GattState
  <2> QED BY <1>12, <2>1 DEF GattDone
<1>13. CASE Signal
  BY <1>13, Counted DEF Signal
<1>14. CASE AddBattery
  <2> DEFINE r == [k \in Metrics |-> IF k = Battery THEN gatt.battery ELSE Nil]
  <2>1. r \in Reading /\ gatt.now \in Times
    BY DEF Reading, GattState
  <2>2. windows' \in Windows /\ heard' \in Heard
    <3>1. Add(gatt.mac, gatt.now, r)
      BY <1>14 DEF AddBattery
    <3>2. CASE gatt.mac \in Devices
      BY <2>1, <3>1, <3>2, AddType
    <3>3. CASE gatt.mac \notin Devices
      BY <3>1, <3>3 DEF Add, Windows, Heard
    <3> QED BY <3>2, <3>3
  <2>3. gatt' \in GattState
    BY <1>14 DEF AddBattery, GattState
  <2> QED BY <1>14, <2>2, <2>3 DEF AddBattery
<1>15. CASE FlushPoll
  <2>1. PICK written, failed :
             /\ Outcome(Completed(gatt.now + 1), Cancelled, written, failed)
             /\ Flush(written, failed)
             /\ gatt' = IF failed = {} THEN [gatt EXCEPT !.pc = "stored"] ELSE NoPoll
    BY <1>15 DEF FlushPoll
  <2>2. windows' \in Windows /\ sensor_minute' \in Rows /\ heard' \in Heard
    BY <2>1, FlushType
  <2>3. used' \in Counters
    BY <2>1, OutcomeType
  <2>4. gatt' \in GattState
    <3>1. [gatt EXCEPT !.pc = "stored"] \in GattState
      BY DEF GattState
    <3> QED BY <2>1, <3>1, <1>nopoll
  <2> QED BY <1>15, <2>2, <2>3, <2>4 DEF FlushPoll
<1>16. ASSUME NEW t \in Times, NEW r \in Advertisements, Backfill(t, r)
       PROVE  Shape'
  <2>1. /\ gatt.mac \in Devices
        /\ r \in Reading
    BY <1>16, ConstantsAssumption DEF Backfill
  <2> DEFINE values == [k \in Metrics |-> IF r[k] = Nil THEN Nil ELSE {r[k]}]
  <2>2. values \in Row /\ sensor_minute[gatt.mac][t] \in Row
    BY <2>1 DEF Reading, Row, Rows
  <2>3. Merged(sensor_minute[gatt.mac][t], values) \in Row
    BY <2>2, MergedType
  <2>4. sensor_minute' =
            [sensor_minute EXCEPT ![gatt.mac][t] = Merged(sensor_minute[gatt.mac][t], values)]
    BY <1>16 DEF Backfill, Rows
  <2> HIDE DEF values
  <2>5. sensor_minute' \in Rows
    BY <2>1, <2>3, <2>4 DEF Rows
  <2> QED BY <1>16, <2>5 DEF Backfill
<1>17. CASE FlushAll
  <2>1. PICK written, failed : /\ Outcome(Pending, FALSE, written, failed)
                               /\ Flush(written, failed)
                               /\ excused' = excused \cup failed
    BY <1>17 DEF FlushAll
  <2>2. windows' \in Windows /\ sensor_minute' \in Rows /\ heard' \in Heard
    BY <2>1, FlushType
  <2>3. used' \in Counters /\ failed \subseteq Pending
    BY <2>1, OutcomeType
  <2>4. excused' \subseteq Devices \X Times
    BY <2>1, <2>3 DEF Pending
  <2> QED BY <1>17, <2>2, <2>3, <2>4 DEF FlushAll
<1>18. CASE Exit
  BY <1>18, RestartType DEF Exit
<1>19. CASE Crash
  <2>1. excused' \subseteq Devices \X Times
    BY <1>19 DEF Crash, Pending
  <2> QED BY <1>19, <2>1, RestartType, Counted DEF Crash
<1> QED
  BY <1>1, <1>2, <1>3, <1>4, <1>5, <1>6, <1>7, <1>8, <1>9, <1>10, <1>11, <1>12, <1>13, <1>14,
     <1>15, <1>16, <1>17, <1>18, <1>19 DEF Next, MqttLoop, GattPoller, Process

\* Every variable keeps its type.
THEOREM AggregationTypeCorrect == Spec => []TypeOK
<1>1. Init => TypeOK
  BY ShapeInit, TypeShape
<1>2. TypeOK /\ [Next]_vars => TypeOK'
  <2>1. Shape' => TypeOK'
    BY DEF TypeOK, Shape, Rows, Row, Windows, Counters, Heard, Story
  <2> QED BY <2>1, ShapeStep, TypeShape
<1> QED BY <1>1, <1>2, PTL DEF Spec

-----------------------------------------------------------------------------
(* What one step does to one metric of one minute.                         *)

Stored(m, t, k) == sensor_minute[m][t][k] # Nil

Held(m, t, k) == windows[m][t].samples[k] # <<>>

\* readingKey of the last reading: all that it held has been sampled.
LastSampled ==
    \A m \in Devices, t \in Times, k \in Metrics :
        windows[m][t].last # Nil /\ windows[m][t].last[k] # Nil => Held(m, t, k)

\* A median is not NULL.
LEMMA MedianNotNil ==
    ASSUME NEW s \in Seq(Values), s # <<>>
    PROVE  NullableMedian(s) # Nil
<1>1. Middle(s) \in SUBSET Values
  BY DEF Middle, ToSet
<1> QED BY <1>1, ConstantsAssumption DEF NullableMedian

\* A flush keeps what is stored, and stores what it takes out of a window.
LEMMA FlushCell ==
    ASSUME Shape, LastSampled, NEW written, NEW failed, Flush(written, failed),
           NEW m \in Devices, NEW t \in Times, NEW k \in Metrics
    PROVE  /\ Stored(m, t, k) => Stored(m, t, k)'
           /\ Held(m, t, k) => Held(m, t, k)' \/ Stored(m, t, k)'
           /\ windows'[m][t].last # Nil /\ windows'[m][t].last[k] # Nil => Held(m, t, k)'
           /\ <<m, t>> \in written /\ Held(m, t, k) => Stored(m, t, k)'
<1>0. windows[m][t] \in Window /\ sensor_minute[m][t] \in Row
  BY DEF Shape, Windows, Rows
<1>1. windows'[m][t] = IF <<m, t>> \in written \ failed THEN NoWindow ELSE windows[m][t]
  BY DEF Flush, Delete
<1>2. sensor_minute'[m][t] =
          IF <<m, t>> \in written THEN Merged(sensor_minute[m][t], Medians(windows[m][t]))
          ELSE sensor_minute[m][t]
  BY DEF Flush, Upsert, Medians
<1>3. Merged(sensor_minute[m][t], Medians(windows[m][t]))[k] =
          IF NullableMedian(windows[m][t].samples[k]) = Nil THEN sensor_minute[m][t][k]
          ELSE NullableMedian(windows[m][t].samples[k])
  BY DEF Merged, Medians
<1>4. Held(m, t, k) => NullableMedian(windows[m][t].samples[k]) # Nil
  <2>1. windows[m][t].samples[k] \in Seq(Values)
    BY <1>0 DEF Window
  <2> QED BY <2>1, MedianNotNil DEF Held
<1>5. Stored(m, t, k) => Stored(m, t, k)'
  BY <1>2, <1>3 DEF Stored
<1>6. <<m, t>> \in written /\ Held(m, t, k) => Stored(m, t, k)'
  BY <1>2, <1>3, <1>4 DEF Stored
<1>7. Held(m, t, k) => Held(m, t, k)' \/ Stored(m, t, k)'
  BY <1>1, <1>6 DEF Held
<1>8. windows'[m][t].last # Nil /\ windows'[m][t].last[k] # Nil => Held(m, t, k)'
  <2>1. CASE <<m, t>> \in written \ failed
    BY <1>1, <2>1 DEF NoWindow
  <2>2. CASE <<m, t>> \notin written \ failed
    BY <1>1, <2>2 DEF LastSampled, Held
  <2> QED BY <2>1, <2>2
<1> QED BY <1>5, <1>6, <1>7, <1>8

LEMMA AppendNotEmpty ==
    ASSUME NEW S, NEW s \in Seq(S), NEW v \in S
    PROVE  Append(s, v) # <<>>
<1>1. Len(Append(s, v)) = Len(s) + 1 /\ Len(s) \in Nat
  OBVIOUS
<1>2. Len(<<>>) = 0
  OBVIOUS
<1> QED BY <1>1, <1>2

\* add keeps every sample, and its own reading is sampled.
LEMMA AddCell ==
    ASSUME Shape, LastSampled, NEW n \in Devices, NEW u \in Times, NEW r \in Reading,
           Add(n, u, r),
           NEW m \in Devices, NEW t \in Times, NEW k \in Metrics
    PROVE  /\ Held(m, t, k) => Held(m, t, k)'
           /\ windows'[m][t].last # Nil /\ windows'[m][t].last[k] # Nil => Held(m, t, k)'
           /\ m = n /\ t = u /\ r[k] # Nil => Held(m, t, k)'
<1>0. windows[m][t] \in Window
  BY DEF Shape, Windows
<1>1. CASE m # n \/ t # u
  <2>1. windows'[m][t] = windows[m][t]
    BY <1>1 DEF Add, Shape, Windows
  <2> QED BY <1>1, <2>1 DEF LastSampled, Held
<1>2. CASE m = n /\ t = u
  <2>1. windows'[m][t] = Extended(windows[m][t], r)
    BY <1>2 DEF Add, Shape, Windows
  <2>2. CASE r = windows[m][t].last
    <3>1. windows'[m][t] = windows[m][t]
      BY <2>1, <2>2 DEF Extended
    <3>2. windows[m][t].last # Nil
      BY <2>2, ConstantsAssumption
    <3> QED BY <2>2, <3>1, <3>2 DEF LastSampled, Held
  <2>3. CASE r # windows[m][t].last
    <3>1. /\ windows'[m][t].last = r
          /\ windows'[m][t].samples[k] = IF r[k] = Nil THEN windows[m][t].samples[k]
                                         ELSE Append(windows[m][t].samples[k], r[k])
      BY <2>1, <2>3 DEF Extended
    <3>2. windows[m][t].samples[k] \in Seq(Values) /\ r[k] \in Values \cup {Nil}
      BY <1>0 DEF Window, Reading
    <3>3. r[k] # Nil => Held(m, t, k)'
      <4>1. r[k] # Nil => Append(windows[m][t].samples[k], r[k]) # <<>>
        BY <3>2, AppendNotEmpty
      <4> QED BY <3>1, <4>1 DEF Held
    <3>4. Held(m, t, k) => Held(m, t, k)'
      BY <3>1, <3>3 DEF Held
    <3> QED BY <3>1, <3>3, <3>4
  <2> QED BY <2>2, <2>3
<1> QED BY <1>1, <1>2

\* Backfill keeps what is stored.
LEMMA BackfillCell ==
    ASSUME Shape, NEW u \in Times, NEW r \in Advertisements, Backfill(u, r),
           NEW m \in Devices, NEW t \in Times, NEW k \in Metrics
    PROVE  Stored(m, t, k) => Stored(m, t, k)'
<1>1. sensor_minute'[m][t] =
          IF m = gatt.mac /\ t = u
          THEN Merged(sensor_minute[m][t], [j \in Metrics |-> IF r[j] = Nil THEN Nil ELSE {r[j]}])
          ELSE sensor_minute[m][t]
  BY DEF Backfill, Shape, Rows
<1> QED BY <1>1 DEF Merged, Stored

-----------------------------------------------------------------------------
(* Nothing stored is erased.                                               *)

LEMMA CellStep == Shape /\ LastSampled /\ [Next]_vars =>
    \A m \in Devices, t \in Times, k \in Metrics : Stored(m, t, k) => Stored(m, t, k)'
<1> SUFFICES ASSUME Shape, LastSampled, [Next]_vars,
                    NEW m \in Devices, NEW t \in Times, NEW k \in Metrics
             PROVE  Stored(m, t, k) => Stored(m, t, k)'
  OBVIOUS
<1>1. CASE UNCHANGED sensor_minute
  BY <1>1 DEF Stored
<1>2. CASE FlushPending \/ FlushPoll \/ FlushAll
  <2>1. \E written, failed : Flush(written, failed)
    BY <1>2 DEF FlushPending, FlushPoll, FlushAll
  <2> QED BY <2>1, FlushCell
<1>3. CASE \E u \in Times, r \in Advertisements : Backfill(u, r)
  BY <1>3, BackfillCell
<1> QED
  BY <1>1, <1>2, <1>3
  DEF Next, MqttLoop, GattPoller, Process, Tick, Connect, Disconnect, Message, MqttDone, StartPoll,
      ReadBattery, ReadFails, AddBattery, EndPoll, GattDone, Signal, Exit, Crash, vars

\* What the GATT poller works on.
PollTarget ==
    /\ gatt.pc \in {"reading", "read", "added", "stored"} => gatt.mac \in Devices
    /\ gatt.pc = "read" => gatt.battery \in Values

LEMMA PollTargetStep == Shape /\ PollTarget /\ [Next]_vars => PollTarget'
<1> SUFFICES ASSUME Shape, PollTarget, [Next]_vars PROVE PollTarget'
  OBVIOUS
<1>0. gatt \in GattState
  BY DEF Shape
<1> USE DEF PollTarget
<1>1. CASE UNCHANGED gatt
  BY <1>1
<1>2. ASSUME NEW m \in PolledDevices, StartPoll(m) PROVE PollTarget'
  BY <1>0, <1>2, ConstantsAssumption DEF StartPoll, GattState
<1>3. ASSUME NEW v \in Values, ReadBattery(v) PROVE PollTarget'
  BY <1>0, <1>3 DEF ReadBattery, GattState
<1>4. CASE AddBattery
  BY <1>0, <1>4 DEF AddBattery, GattState
<1>5. CASE FlushPoll
  <2>1. gatt.pc = "added" /\ gatt' \in {[gatt EXCEPT !.pc = "stored"], NoPoll}
    BY <1>5 DEF FlushPoll
  <2> QED BY <1>0, <2>1 DEF GattState, NoPoll
<1>6. CASE ReadFails \/ EndPoll \/ Exit \/ Crash
  BY <1>6 DEF ReadFails, EndPoll, Exit, Crash, Restart, NoPoll
<1>7. CASE GattDone
  BY <1>0, <1>7 DEF GattDone, GattState
<1> QED
  BY <1>1, <1>2, <1>3, <1>4, <1>5, <1>6, <1>7
  DEF Next, MqttLoop, GattPoller, Process, Tick, Connect, Disconnect, Message, FlushPending,
      MqttDone, Backfill, Signal, FlushAll, vars

\* The reading that AddBattery adds.
Level == [k \in Metrics |-> IF k = Battery THEN gatt.battery ELSE Nil]

LEMMA LevelType == Shape => Level \in Reading /\ gatt.now \in Times
BY DEF Shape, GattState, Level, Reading

\* The steps that change windows and what is known of readings.
LEMMA WindowsSteps ==
    ASSUME Shape, PollTarget, [Next]_vars
    PROVE  \/ UNCHANGED <<windows, heard>>
           \/ \E written, failed : Flush(written, failed)
           \/ \E n \in Devices, u \in Times, r \in Reading : Add(n, u, r)
           \/ Exit \/ Crash
<1>1. CASE FlushPending \/ FlushPoll \/ FlushAll
  BY <1>1 DEF FlushPending, FlushPoll, FlushAll
<1>2. CASE AddBattery
  <2>1. Add(gatt.mac, gatt.now, Level) /\ gatt.mac \in Devices
    BY <1>2 DEF AddBattery, Level, PollTarget
  <2> QED BY <2>1, LevelType
<1>3. CASE \E n \in Devices, u \in Times, r \in Advertisements : Message(n, u, r)
  BY <1>3, ConstantsAssumption DEF Message
<1> QED
  BY <1>1, <1>2, <1>3
  DEF Next, MqttLoop, GattPoller, Process, Tick, Connect, Disconnect, MqttDone, StartPoll,
      ReadBattery, ReadFails, Backfill, EndPoll, GattDone, Signal, vars

LEMMA LastSampledStep == Shape /\ LastSampled /\ PollTarget /\ [Next]_vars => LastSampled'
<1> SUFFICES ASSUME Shape, LastSampled, PollTarget, [Next]_vars,
                    NEW m \in Devices, NEW t \in Times, NEW k \in Metrics
             PROVE  windows'[m][t].last # Nil /\ windows'[m][t].last[k] # Nil => Held(m, t, k)'
  BY DEF LastSampled
<1>1. CASE UNCHANGED windows
  BY <1>1 DEF LastSampled, Held
<1>2. CASE \E written, failed : Flush(written, failed)
  BY <1>2, FlushCell
<1>3. CASE \E n \in Devices, u \in Times, r \in Reading : Add(n, u, r)
  BY <1>3, AddCell
<1>4. CASE Exit \/ Crash
  <2>1. windows'[m][t] = NoWindow
    BY <1>4 DEF Exit, Crash, Restart
  <2> QED BY <2>1 DEF NoWindow
<1> QED BY <1>1, <1>2, <1>3, <1>4, WindowsSteps

\* After the last flush both threads are gone, and what is left in a window is lost.
FlushedIsOver ==
    main = "flushed" => /\ mqtt = "done"
                        /\ gatt.pc = "done"
                        /\ Pending \subseteq excused

LEMMA FlushedStep == Shape /\ FlushedIsOver /\ [Next]_vars => FlushedIsOver'
<1> SUFFICES ASSUME Shape, FlushedIsOver, [Next]_vars PROVE FlushedIsOver'
  OBVIOUS
<1>1. CASE main = "flushed" /\ ~(Exit \/ Crash)
  <2>1. mqtt = "done" /\ gatt.pc = "done"
    BY <1>1 DEF FlushedIsOver
  <2>2. UNCHANGED <<main, windows, mqtt, gatt, excused>>
    BY <1>1, <2>1
    DEF Next, MqttLoop, GattPoller, Process, Tick, Connect, Disconnect, Message, FlushPending,
        MqttDone, StartPoll, ReadBattery, ReadFails, AddBattery, FlushPoll, Backfill, EndPoll,
        GattDone, Signal, FlushAll, vars
  <2> QED BY <2>2 DEF FlushedIsOver, Pending
<1>2. CASE Exit \/ Crash
  BY <1>2 DEF Exit, Crash, Restart, FlushedIsOver
<1>3. CASE FlushAll
  <2>1. PICK written, failed : /\ Outcome(Pending, FALSE, written, failed)
                               /\ Flush(written, failed)
                               /\ excused' = excused \cup failed
    BY <1>3 DEF FlushAll
  <2>2. ASSUME NEW p \in Pending'
        PROVE  p \in excused'
    <3>1. PICK m \in Devices, t \in Times : p = <<m, t>>
      BY DEF Pending
    <3>2. windows'[m][t] # NoWindow
      BY <3>1 DEF Pending
    <3>3. <<m, t>> \notin written \ failed /\ windows'[m][t] = windows[m][t]
      BY <2>1, <3>2 DEF Flush, Delete
    <3>4. <<m, t>> \in Pending
      BY <3>2, <3>3 DEF Pending
    <3> QED BY <2>1, <3>1, <3>3, <3>4 DEF Outcome
  <2> QED BY <1>3, <2>2 DEF FlushedIsOver, FlushAll
<1>4. CASE main # "flushed" /\ ~FlushAll
  <2>1. main' # "flushed"
    BY <1>4
    DEF Next, MqttLoop, GattPoller, Process, Tick, Connect, Disconnect, Message, FlushPending,
        MqttDone, StartPoll, ReadBattery, ReadFails, AddBattery, FlushPoll, Backfill, EndPoll,
        GattDone, Signal, Exit, Crash, Restart, vars
  <2> QED BY <2>1 DEF FlushedIsOver
<1> QED BY <1>1, <1>2, <1>3, <1>4

-----------------------------------------------------------------------------
(* Every reading is kept.                                                  *)

Known(m, t, k) == \E i \in 1..Len(heard[m][t].all) : heard[m][t].all[i][k] # Nil

New(m, t, k) == k \in heard[m][t].new

\* Only the reading that is added becomes known and new.
LEMMA AddKnown ==
    ASSUME Shape, NEW n \in Devices, NEW u \in Times, NEW r \in Reading, Add(n, u, r),
           NEW m \in Devices, NEW t \in Times, NEW k \in Metrics,
           ~(m = n /\ t = u /\ r[k] # Nil)
    PROVE  /\ Known(m, t, k)' => Known(m, t, k)
           /\ New(m, t, k)' => New(m, t, k)
<1>0. heard[m][t] \in Story
  BY DEF Shape, Heard
<1>1. CASE m # n \/ t # u
  <2>1. heard'[m][t] = heard[m][t]
    BY <1>1 DEF Add, Shape, Heard
  <2> QED BY <2>1 DEF Known, New
<1>2. CASE m = n /\ t = u
  <2>1. /\ heard'[m][t].all = Append(heard[m][t].all, r)
        /\ heard'[m][t].new = heard[m][t].new \cup {j \in Metrics : r[j] # Nil}
    BY <1>2 DEF Add, Shape, Heard
  <2>2. New(m, t, k)' => New(m, t, k)
    BY <1>2, <2>1 DEF New
  <2>3. ASSUME NEW i \in 1..Len(Append(heard[m][t].all, r)),
               Append(heard[m][t].all, r)[i][k] # Nil
        PROVE  Known(m, t, k)
    <3>1. i # Len(heard[m][t].all) + 1
      BY <1>0, <1>2, <2>3 DEF Story
    <3>2. i \in 1..Len(heard[m][t].all) /\ Append(heard[m][t].all, r)[i] = heard[m][t].all[i]
      BY <1>0, <2>3, <3>1 DEF Story
    <3> QED BY <2>3, <3>2 DEF Known
  <2> QED BY <2>1, <2>2, <2>3 DEF Known
<1> QED BY <1>1, <1>2

\* A write makes the metrics of its window old, and nothing new.
LEMMA FlushKnown ==
    ASSUME Shape, NEW written, NEW failed, Flush(written, failed),
           NEW m \in Devices, NEW t \in Times, NEW k \in Metrics
    PROVE  /\ Known(m, t, k)' => Known(m, t, k)
           /\ New(m, t, k)' => New(m, t, k) /\ <<m, t>> \notin written
<1>1. heard'[m][t] = IF <<m, t>> \in written THEN [heard[m][t] EXCEPT !.new = {}] ELSE heard[m][t]
  BY DEF Flush, Upsert
<1>2. heard[m][t] \in Story
  BY DEF Shape, Heard
<1> QED BY <1>1, <1>2 DEF Known, New, Story

LEMMA KeptStep ==
    Shape /\ LastSampled /\ PollTarget /\ FlushedIsOver /\ EveryReadingKept /\ [Next]_vars
    => EveryReadingKept'
<1> SUFFICES ASSUME Shape, LastSampled, PollTarget, FlushedIsOver, EveryReadingKept, [Next]_vars,
                    NEW m \in Devices, NEW t \in Times, NEW k \in Metrics, Known(m, t, k)'
             PROVE  \/ Held(m, t, k)'
                    \/ Stored(m, t, k)' /\ ~New(m, t, k)'
                    \/ <<m, t>> \in excused'
  BY DEF EveryReadingKept, Known, New, Stored, Held
<1>1. Known(m, t, k) => \/ Held(m, t, k)
                        \/ Stored(m, t, k) /\ ~New(m, t, k)
                        \/ <<m, t>> \in excused
  BY DEF EveryReadingKept, Known, New, Stored, Held
<1>2. Stored(m, t, k) => Stored(m, t, k)'
  BY CellStep
<1>3. excused \subseteq excused'
  BY DEF Next, MqttLoop, GattPoller, Process, Tick, Connect, Disconnect, Message, FlushPending,
         MqttDone, StartPoll, ReadBattery, ReadFails, AddBattery, FlushPoll, Backfill, EndPoll,
         GattDone, Signal, FlushAll, Exit, Crash, vars
<1>4. CASE \E n \in Devices, u \in Times, r \in Reading : Add(n, u, r)
  <2>1. PICK n \in Devices, u \in Times, r \in Reading : Add(n, u, r)
    BY <1>4
  <2>2. CASE m = n /\ t = u /\ r[k] # Nil
    BY <2>1, <2>2, AddCell
  <2>3. CASE ~(m = n /\ t = u /\ r[k] # Nil)
    <3>1. Known(m, t, k) /\ (New(m, t, k)' => New(m, t, k))
      BY <2>1, <2>3, AddKnown
    <3>2. Held(m, t, k) => Held(m, t, k)'
      BY <2>1, AddCell
    <3> QED BY <1>1, <1>2, <1>3, <3>1, <3>2
  <2> QED BY <2>2, <2>3
<1>5. CASE \E written, failed : Flush(written, failed)
  <2>1. PICK written, failed : Flush(written, failed)
    BY <1>5
  <2>2. /\ Known(m, t, k)
        /\ New(m, t, k)' => New(m, t, k) /\ <<m, t>> \notin written
    BY <2>1, FlushKnown
  <2>3. Held(m, t, k) => IF <<m, t>> \in written THEN Stored(m, t, k)' ELSE Held(m, t, k)'
    <3>1. <<m, t>> \notin written => windows'[m][t] = windows[m][t]
      BY <2>1 DEF Flush, Delete
    <3>2. <<m, t>> \in written /\ Held(m, t, k) => Stored(m, t, k)'
      BY <2>1, FlushCell
    <3> QED BY <3>1, <3>2 DEF Held
  <2> QED BY <1>1, <1>2, <1>3, <2>2, <2>3
<1>6. CASE UNCHANGED <<windows, heard>>
  <2>1. /\ Known(m, t, k)
        /\ Held(m, t, k)' <=> Held(m, t, k)
        /\ New(m, t, k)' <=> New(m, t, k)
    BY <1>6 DEF Known, Held, New
  <2> QED BY <1>1, <1>2, <1>3, <2>1
<1>7. CASE Exit \/ Crash
  <2>1. Known(m, t, k) /\ (New(m, t, k)' <=> New(m, t, k))
    BY <1>7 DEF Exit, Crash, Known, New
  <2>2. Held(m, t, k) => <<m, t>> \in Pending
    BY DEF Held, Pending, NoWindow
  <2>3. Pending \subseteq excused'
    BY <1>7 DEF Exit, Crash, FlushedIsOver
  <2> QED BY <1>1, <1>2, <1>3, <2>1, <2>2, <2>3
<1> QED BY <1>4, <1>5, <1>6, <1>7, WindowsSteps

-----------------------------------------------------------------------------
(* A successful poll is stored.                                            *)

\* The battery level is not lost between add and the flush, whoever flushes it.
PollKept ==
    gatt.pc = "added" => \/ Stored(gatt.mac, gatt.now, Battery)
                         \/ Held(gatt.mac, gatt.now, Battery)

LEMMA PollKeptStep ==
    Shape /\ LastSampled /\ PollTarget /\ PollKept /\ [Next]_vars => PollKept'
<1> SUFFICES ASSUME Shape, LastSampled, PollTarget, PollKept, [Next]_vars, (gatt.pc = "added")'
             PROVE  Stored(gatt.mac, gatt.now, Battery)' \/ Held(gatt.mac, gatt.now, Battery)'
  BY DEF PollKept
<1>0. gatt \in GattState /\ Battery \in Metrics
  BY ConstantsAssumption DEF Shape
<1>1. CASE AddBattery
  <2>1. /\ Add(gatt.mac, gatt.now, Level) /\ gatt.mac \in Devices
        /\ gatt.battery \in Values
        /\ gatt'.mac = gatt.mac /\ gatt'.now = gatt.now
    BY <1>0, <1>1 DEF AddBattery, Level, PollTarget, GattState
  <2>2. Level[Battery] # Nil
    BY <1>0, <2>1, ConstantsAssumption DEF Level
  <2>3. \A m \in Devices, t \in Times :
            m = gatt.mac /\ t = gatt.now => Held(m, t, Battery)'
    BY <1>0, <2>1, <2>2, LevelType, AddCell
  <2>4. windows'[gatt.mac][gatt.now].samples[Battery] # <<>>
    BY <2>1, <2>3, LevelType DEF Held
  <2> QED BY <2>1, <2>4 DEF Held
<1>2. CASE UNCHANGED gatt
  <2>1. gatt.pc = "added" /\ gatt.mac \in Devices /\ gatt.now \in Times
    BY <1>0, <1>2 DEF PollTarget, GattState
  <2>2. PICK m \in Devices, t \in Times : m = gatt.mac /\ t = gatt.now
    BY <2>1
  <2>3. Stored(m, t, Battery) \/ Held(m, t, Battery)
    BY <2>1, <2>2 DEF PollKept
  <2>4. Stored(m, t, Battery) => Stored(m, t, Battery)'
    BY <1>0, CellStep
  <2>5. Held(m, t, Battery) => Held(m, t, Battery)' \/ Stored(m, t, Battery)'
    <3>1. CASE UNCHANGED windows
      BY <3>1 DEF Held
    <3>2. CASE \E written, failed : Flush(written, failed)
      BY <1>0, <3>2, FlushCell
    <3>3. CASE \E n \in Devices, u \in Times, r \in Reading : Add(n, u, r)
      BY <1>0, <3>3, AddCell
    <3>4. CASE Exit \/ Crash
      BY <1>2, <2>1, <3>4 DEF Exit, Crash, Restart, NoPoll
    <3> QED BY <3>1, <3>2, <3>3, <3>4, WindowsSteps
  <2>6. Stored(m, t, Battery)' \/ Held(m, t, Battery)'
    BY <2>3, <2>4, <2>5
  <2> QED BY <1>2, <2>2, <2>6 DEF Stored, Held
<1>3. CASE FlushPoll
  <2>1. gatt.pc = "added" /\ gatt' \in {[gatt EXCEPT !.pc = "stored"], NoPoll}
    BY <1>3 DEF FlushPoll
  <2> QED BY <1>0, <2>1 DEF GattState, NoPoll
<1>4. CASE (\E m \in PolledDevices : StartPoll(m)) \/ (\E v \in Values : ReadBattery(v))
           \/ GattDone
  BY <1>0, <1>4 DEF StartPoll, ReadBattery, GattDone, GattState
<1>5. CASE ReadFails \/ EndPoll \/ Exit \/ Crash
  BY <1>5 DEF ReadFails, EndPoll, Exit, Crash, Restart, NoPoll
<1> QED
  BY <1>1, <1>2, <1>3, <1>4, <1>5
  DEF Next, MqttLoop, GattPoller, Process, Tick, Connect, Disconnect, Message, FlushPending,
      MqttDone, Backfill, Signal, FlushAll, vars

LEMMA PollStoredStep ==
    Shape /\ LastSampled /\ PollTarget /\ PollKept /\ PollSuccessMeansStored /\ [Next]_vars
    => PollSuccessMeansStored'
<1> SUFFICES ASSUME Shape, LastSampled, PollTarget, PollKept, PollSuccessMeansStored, [Next]_vars,
                    (gatt.pc = "stored")'
             PROVE  Stored(gatt.mac, gatt.now, Battery)'
  BY DEF PollSuccessMeansStored, Stored
<1>0. gatt \in GattState /\ Battery \in Metrics
  BY ConstantsAssumption DEF Shape
<1>1. CASE FlushPoll
  <2>1. PICK written, failed :
             /\ Outcome(Completed(gatt.now + 1), Cancelled, written, failed)
             /\ Flush(written, failed)
             /\ gatt' = IF failed = {} THEN [gatt EXCEPT !.pc = "stored"] ELSE NoPoll
    BY <1>1 DEF FlushPoll
  <2>2. failed = {} /\ written = Completed(gatt.now + 1)
    BY <2>1 DEF NoPoll, Outcome
  <2>3. PICK m \in Devices, t \in Times : m = gatt.mac /\ t = gatt.now
    BY <1>0, <1>1 DEF FlushPoll, PollTarget, GattState
  <2>4. gatt'.mac = m /\ gatt'.now = t
    BY <1>0, <2>1, <2>2, <2>3 DEF GattState
  <2>5. Stored(m, t, Battery) \/ Held(m, t, Battery)
    BY <1>1, <2>3 DEF PollKept, FlushPoll
  <2>6. Held(m, t, Battery) => <<m, t>> \in written
    <3>1. Held(m, t, Battery) => <<m, t>> \in Pending
      BY <1>0 DEF Held, Pending, NoWindow
    <3>2. t < gatt.now + 1
      BY <2>3, ConstantsAssumption DEF Times
    <3> QED BY <2>2, <3>1, <3>2 DEF Completed
  <2>7. Stored(m, t, Battery)'
    BY <1>0, <2>1, <2>5, <2>6, FlushCell
  <2> QED BY <2>4, <2>7 DEF Stored
<1>2. CASE UNCHANGED gatt
  <2>1. gatt.pc = "stored" /\ gatt.mac \in Devices /\ gatt.now \in Times
    BY <1>0, <1>2 DEF PollTarget, GattState
  <2>2. PICK m \in Devices, t \in Times : m = gatt.mac /\ t = gatt.now
    BY <2>1
  <2>3. Stored(m, t, Battery)
    BY <2>1, <2>2 DEF PollSuccessMeansStored, Stored
  <2>4. Stored(m, t, Battery)'
    BY <1>0, <2>3, CellStep
  <2> QED BY <1>2, <2>2, <2>4 DEF Stored
<1>3. CASE (\E m \in PolledDevices : StartPoll(m)) \/ (\E v \in Values : ReadBattery(v))
           \/ AddBattery \/ GattDone
  BY <1>0, <1>3 DEF StartPoll, ReadBattery, AddBattery, GattDone, GattState
<1>4. CASE ReadFails \/ EndPoll \/ Exit \/ Crash
  BY <1>4 DEF ReadFails, EndPoll, Exit, Crash, Restart, NoPoll
<1> QED
  BY <1>1, <1>2, <1>3, <1>4
  DEF Next, MqttLoop, GattPoller, Process, Tick, Connect, Disconnect, Message, FlushPending,
      MqttDone, Backfill, Signal, FlushAll, vars

-----------------------------------------------------------------------------
(* Rows of one window are medians.                                         *)

\* f names, for each sample, the reading it was taken from.
Origins(s, readings, k) ==
    {f \in [DOMAIN s -> Sampled(readings, k)] :
        /\ \A i, j \in DOMAIN s : f[i] = f[j] => i = j
        /\ \A p \in Sampled(readings, k) : \E i \in DOMAIN s : f[i] = p
        /\ \A i \in DOMAIN s : s[i] = readings[f[i]][k]}

RowOfMedians(minute, readings) == \A k \in Metrics : minute[k] = MedianHeard(readings, k)

LastOf(readings) == IF readings = <<>> THEN Nil ELSE readings[Len(readings)]

\* The window has exactly the samples of the readings, and its row nothing else.
Follows(window, minute, readings) ==
    /\ window.last = LastOf(readings)
    /\ \A k \in Metrics :
          /\ Origins(window.samples[k], readings, k) # {}
          /\ minute[k] # Nil => window.samples[k] # <<>>

Faithful(window, minute, readings) ==
    IF window = NoWindow /\ readings # <<>> THEN RowOfMedians(minute, readings)
    ELSE Follows(window, minute, readings)

\* What is said of a minute that one window collected.
MediansInv ==
    \A m \in Devices \ HistoryDevices, t \in Times :
        ~heard[m][t].reopened /\ <<m, t>> \notin excused
        => Faithful(windows[m][t], sensor_minute[m][t], heard[m][t].all)

\* Two sets that a function matches element by element have the same size.
LEMMA SameSize ==
    ASSUME NEW A, NEW B, IsFiniteSet(A), NEW f \in [A -> B],
           \A i, j \in A : f[i] = f[j] => i = j,
           \A p \in B : \E i \in A : f[i] = p
    PROVE  Cardinality(B) = Cardinality(A)
<1>1. f \in Bijection(A, B)
  BY DEF Bijection, Injection, Surjection, IsInjective
<1> QED BY <1>1, FS_Bijection DEF ExistsBijection

\* The median of the samples is that of the readings they were taken from.
LEMMA MedianOfOrigins ==
    ASSUME NEW readings \in Seq(Reading), NEW k \in Metrics, NEW s \in Seq(Values),
           NEW f \in Origins(s, readings, k)
    PROVE  NullableMedian(s) = MedianHeard(readings, k)
<1>1. PICK S : S = Sampled(readings, k)
  OBVIOUS
<1>2. PICK I : I = DOMAIN s
  OBVIOUS
<1>3. IsFiniteSet(I) /\ Cardinality(I) = Len(s) /\ (I = {} <=> s = <<>>)
  <2>1. PICK n \in Nat : n = Len(s)
    OBVIOUS
  <2>2. I = 1..n /\ (s = <<>> <=> n = 0)
    BY <1>2, <2>1
  <2>3. IsFiniteSet(1..n) /\ Cardinality(1..n) = IF 1 > n THEN 0 ELSE n - 1 + 1
    BY FS_Interval
  <2>4. Cardinality(1..n) = n
    BY <2>3
  <2>5. 1..n = {} <=> n = 0
    <3>1. n # 0 => 1 \in 1..n
      OBVIOUS
    <3>2. n = 0 => 1..n = {}
      OBVIOUS
    <3> QED BY <3>1, <3>2
  <2> QED BY <2>1, <2>2, <2>3, <2>4, <2>5
<1>4. /\ f \in [I -> S]
      /\ \A i, j \in I : f[i] = f[j] => i = j
      /\ \A p \in S : \E i \in I : f[i] = p
      /\ \A i \in I : s[i] = readings[f[i]][k]
  BY <1>1, <1>2 DEF Origins
<1>5. Cardinality(S) = Len(s) /\ (S = {} <=> s = <<>>)
  <2>1. Cardinality(S) = Cardinality(I)
    BY <1>3, <1>4, SameSize
  <2>2. S = {} <=> I = {}
    BY <1>4
  <2> QED BY <1>3, <2>1, <2>2
<1>6. ASSUME NEW A \in SUBSET I, NEW B \in SUBSET S, \A i \in I : i \in A <=> f[i] \in B
      PROVE  Cardinality(A) = Cardinality(B)
  <2>1. PICK g : g = [i \in A |-> f[i]]
    OBVIOUS
  <2>2. g \in [A -> B]
    BY <1>4, <1>6, <2>1
  <2>3. \A i, j \in A : g[i] = g[j] => i = j
    BY <1>4, <1>6, <2>1
  <2>4. \A p \in B : \E i \in A : g[i] = p
    BY <1>4, <1>6, <2>1
  <2>5. IsFiniteSet(A)
    BY <1>3, FS_Subset
  <2> QED BY <2>2, <2>3, <2>4, <2>5, SameSize
<1>7. ASSUME NEW v
      PROVE  /\ Cardinality({i \in I : s[i] < v}) = Cardinality({i \in S : readings[i][k] < v})
             /\ Cardinality({i \in I : s[i] > v}) = Cardinality({i \in S : readings[i][k] > v})
  <2>1. \A i \in I : i \in {q \in I : s[q] < v} <=> f[i] \in {q \in S : readings[q][k] < v}
    BY <1>4
  <2>2. \A i \in I : i \in {q \in I : s[q] > v} <=> f[i] \in {q \in S : readings[q][k] > v}
    BY <1>4
  <2> QED BY <1>6, <2>1, <2>2
<1>8. ToSet(s) = {readings[i][k] : i \in S}
  BY <1>2, <1>4 DEF ToSet
<1>9. Middle(s) = {v \in {readings[i][k] : i \in S} :
          /\ 2 * Cardinality({i \in S : readings[i][k] < v}) =< Cardinality(S)
          /\ 2 * Cardinality({i \in S : readings[i][k] > v}) =< Cardinality(S)}
  <2>1. Middle(s) = {v \in {readings[i][k] : i \in S} :
            /\ 2 * Cardinality({i \in I : s[i] < v}) =< Len(s)
            /\ 2 * Cardinality({i \in I : s[i] > v}) =< Len(s)}
    BY <1>2, <1>8, Zenon DEF Middle
  <2> QED BY <1>5, <1>7, <2>1, Zenon
<1> QED BY <1>1, <1>5, <1>9 DEF NullableMedian, MedianHeard

\* all is one reading longer: which of them count.
OneMore(readings, r, k, all) ==
    /\ Sampled(all, k) = IF r[k] = Nil \/ r = LastOf(readings) THEN Sampled(readings, k)
                         ELSE Sampled(readings, k) \cup {Len(readings) + 1}
    /\ Len(readings) + 1 \notin Sampled(readings, k)
    /\ \A i \in Sampled(readings, k) : all[i] = readings[i]

LEMMA SampledAppend ==
    ASSUME NEW readings \in Seq(Reading), NEW r \in Reading, NEW k \in Metrics,
           NEW all, all = Append(readings, r)
    PROVE  OneMore(readings, r, k, all)
<1>1. PICK n : n = Len(readings)
  OBVIOUS
<1>3. /\ n \in Nat /\ DOMAIN readings = 1..n /\ DOMAIN all = 1..(n + 1)
      /\ \A i \in 1..n : all[i] = readings[i]
      /\ all[n + 1] = r
      /\ readings = <<>> <=> n = 0
  BY <1>1
<1>4. ASSUME NEW i \in 1..n
      PROVE  i \in Sampled(all, k) <=> i \in Sampled(readings, k)
  <2>1. i \in 1..(n + 1) /\ all[i] = readings[i] /\ (i # 1 => i - 1 \in 1..n)
    BY <1>3
  <2>2. i # 1 => all[i - 1] = readings[i - 1]
    BY <1>3, <2>1
  <2> QED BY <1>3, <2>1, <2>2 DEF Sampled
<1>5. n + 1 \in Sampled(all, k) <=> r[k] # Nil /\ r # LastOf(readings)
  <2>1. n + 1 \in 1..(n + 1) /\ (n + 1 = 1 <=> n = 0) /\ n + 1 - 1 = n
    BY <1>3
  <2>2. CASE n = 0
    <3>1. LastOf(readings) = Nil /\ r # Nil
      BY <1>3, <2>2, ConstantsAssumption DEF LastOf
    <3> QED BY <1>3, <2>1, <2>2, <3>1 DEF Sampled
  <2>3. CASE n # 0
    <3>1. LastOf(readings) = readings[n] /\ all[n] = readings[n]
      BY <1>1, <1>3, <2>3 DEF LastOf
    <3> QED BY <1>3, <2>1, <2>3, <3>1 DEF Sampled
  <2> QED BY <2>2, <2>3
<1>6. Sampled(all, k) \subseteq 1..(n + 1) /\ Sampled(readings, k) \subseteq 1..n
  BY <1>3 DEF Sampled
<1>7. n + 1 \notin 1..n /\ \A i : i \in 1..(n + 1) <=> i \in 1..n \/ i = n + 1
  BY <1>3
<1>8. \A i \in Sampled(readings, k) : all[i] = readings[i]
  BY <1>3, <1>6
<1>9. Sampled(all, k) = IF r[k] = Nil \/ r = LastOf(readings) THEN Sampled(readings, k)
                        ELSE Sampled(readings, k) \cup {n + 1}
  <2>1. PICK A, B : A = Sampled(all, k) /\ B = Sampled(readings, k)
    OBVIOUS
  <2>2. \A i : i \in A => i \in B \/ i = n + 1
    BY <1>4, <1>6, <1>7, <2>1
  <2>3. \A i : i \in B => i \in A /\ i # n + 1
    BY <1>4, <1>6, <1>7, <2>1
  <2>4. ASSUME r[k] = Nil \/ r = LastOf(readings) PROVE A = B
    BY <1>5, <2>1, <2>2, <2>3, <2>4
  <2>5. ASSUME r[k] # Nil, r # LastOf(readings) PROVE A = B \cup {n + 1}
    BY <1>5, <2>1, <2>2, <2>3, <2>5
  <2> QED BY <2>1, <2>4, <2>5
<1> QED BY <1>1, <1>6, <1>7, <1>8, <1>9 DEF OneMore

\* add keeps a window faithful.
LEMMA FaithfulAdd ==
    ASSUME NEW window \in Window, NEW minute \in Row, NEW readings \in Seq(Reading),
           NEW r \in Reading,
           Faithful(window, minute, readings), window # NoWindow \/ readings = <<>>
    PROVE  Faithful(Extended(window, r), minute, Append(readings, r))
<1>1. Follows(window, minute, readings)
  BY DEF Faithful
<1>2. PICK w : w = Extended(window, r)
  OBVIOUS
<1>3. PICK all : all = Append(readings, r)
  OBVIOUS
<1>4. /\ all # <<>> /\ all[Len(all)] = r /\ all \in Seq(Reading)
      /\ r # Nil
  BY <1>3, AppendNotEmpty, ConstantsAssumption
<1>5. w.last = r
  BY <1>2 DEF Extended
<1>6. w # NoWindow
  BY <1>4, <1>5 DEF NoWindow
<1>7. ASSUME NEW k \in Metrics
      PROVE  /\ Origins(w.samples[k], all, k) # {}
             /\ minute[k] # Nil => w.samples[k] # <<>>
  <2>1. PICK s \in Seq(Values) : s = window.samples[k]
    BY DEF Window
  <2>2. PICK f \in Origins(s, readings, k) : TRUE
    BY <1>1, <2>1 DEF Follows
  <2>3. /\ f \in [DOMAIN s -> Sampled(readings, k)]
        /\ \A i, j \in DOMAIN s : f[i] = f[j] => i = j
        /\ \A p \in Sampled(readings, k) : \E i \in DOMAIN s : f[i] = p
        /\ \A i \in DOMAIN s : s[i] = readings[f[i]][k]
    BY DEF Origins
  <2>4. /\ Sampled(all, k) = IF r[k] = Nil \/ r = window.last THEN Sampled(readings, k)
                             ELSE Sampled(readings, k) \cup {Len(readings) + 1}
        /\ Len(readings) + 1 \notin Sampled(readings, k)
        /\ \A i \in Sampled(readings, k) : all[i] = readings[i]
    <3>1. window.last = LastOf(readings)
      BY <1>1 DEF Follows
    <3>2. OneMore(readings, r, k, all)
      BY <1>3, SampledAppend
    <3> QED BY <3>1, <3>2 DEF OneMore
  <2>5. ASSUME r[k] = Nil \/ r = window.last
        PROVE  w.samples[k] = s /\ f \in Origins(s, all, k)
    <3>1. w.samples[k] = s
      BY <1>2, <2>1, <2>5 DEF Extended
    <3>2. Sampled(all, k) = Sampled(readings, k)
      BY <2>4, <2>5
    <3>3. \A i \in DOMAIN s : s[i] = all[f[i]][k]
      BY <2>3, <2>4
    <3> QED BY <2>3, <3>1, <3>2, <3>3 DEF Origins
  <2>6. ASSUME r[k] # Nil, r # window.last
        PROVE  w.samples[k] # <<>> /\ Origins(w.samples[k], all, k) # {}
    <3>1. w.samples[k] = Append(s, r[k]) /\ r[k] \in Values
      BY <1>2, <2>1, <2>6 DEF Extended, Reading
    <3>2. PICK n : n = Len(readings) + 1
      OBVIOUS
    <3>3. PICK e : e = Append(s, r[k])
      OBVIOUS
    <3>4. PICK j : j = Len(s) + 1
      OBVIOUS
    <3>5. /\ DOMAIN e = DOMAIN s \cup {j} /\ j \notin DOMAIN s
          /\ \A i \in DOMAIN s : e[i] = s[i]
          /\ e[j] = r[k]
      BY <3>1, <3>3, <3>4
    <3>6. all[n] = r
      BY <1>3, <3>2
    <3>7. Sampled(all, k) = Sampled(readings, k) \cup {n} /\ n \notin Sampled(readings, k)
      BY <2>4, <2>6, <3>2
    <3>8. PICK g : g = [i \in DOMAIN e |-> IF i = j THEN n ELSE f[i]]
      OBVIOUS
    <3>9. g[j] = n /\ \A i \in DOMAIN s : g[i] = f[i] /\ f[i] \in Sampled(readings, k)
      BY <2>3, <3>5, <3>8
    <3>10. g \in [DOMAIN e -> Sampled(all, k)]
      BY <3>5, <3>7, <3>8, <3>9
    <3>11. \A i, h \in DOMAIN e : g[i] = g[h] => i = h
      BY <2>3, <3>5, <3>7, <3>9
    <3>12. \A p \in Sampled(all, k) : \E i \in DOMAIN e : g[i] = p
      BY <2>3, <3>5, <3>7, <3>9
    <3>13. \A i \in DOMAIN e : e[i] = all[g[i]][k]
      BY <2>3, <2>4, <3>5, <3>6, <3>9
    <3>14. g \in Origins(e, all, k)
      BY <3>10, <3>11, <3>12, <3>13 DEF Origins
    <3>15. e # <<>>
      BY <3>1, <3>3, AppendNotEmpty
    <3> QED BY <3>1, <3>3, <3>14, <3>15
  <2>7. minute[k] # Nil => s # <<>>
    BY <1>1, <2>1 DEF Follows
  <2> QED BY <2>5, <2>6, <2>7
<1>8. Follows(w, minute, all)
  BY <1>4, <1>5, <1>7 DEF Follows, LastOf
<1> QED BY <1>2, <1>3, <1>6, <1>8 DEF Faithful

\* A flush keeps a minute faithful, whether its window stays or goes.
LEMMA FaithfulFlush ==
    ASSUME NEW window \in Window, NEW minute \in Row, NEW readings \in Seq(Reading),
           Faithful(window, minute, readings)
    PROVE  LET written == Merged(minute, Medians(window))
           IN  /\ Faithful(window, written, readings)
               /\ Faithful(NoWindow, written, readings)
<1>1. PICK written : written = Merged(minute, Medians(window))
  OBVIOUS
<1>2. ASSUME NEW k \in Metrics
      PROVE  written[k] = IF NullableMedian(window.samples[k]) = Nil THEN minute[k]
                          ELSE NullableMedian(window.samples[k])
  BY <1>1 DEF Merged, Medians
<1>3. ASSUME NEW k \in Metrics
      PROVE  /\ window.samples[k] \in Seq(Values)
             /\ NullableMedian(window.samples[k]) = Nil <=> window.samples[k] = <<>>
  <2>1. window.samples[k] \in Seq(Values)
    BY DEF Window
  <2>2. NullableMedian(<<>>) = Nil
    BY DEF NullableMedian
  <2> QED BY <2>1, <2>2, MedianNotNil
<1>4. ASSUME window = NoWindow, readings # <<>>
      PROVE  Faithful(window, written, readings)
  <2>1. ASSUME NEW k \in Metrics PROVE written[k] = minute[k]
    BY <1>2, <1>3, <1>4 DEF NoWindow
  <2> QED BY <1>4, <2>1 DEF Faithful, RowOfMedians
<1>5. ASSUME ~(window = NoWindow /\ readings # <<>>)
      PROVE  RowOfMedians(written, readings) /\ Follows(window, written, readings)
  <2>1. Follows(window, minute, readings)
    BY <1>5 DEF Faithful
  <2>2. ASSUME NEW k \in Metrics
        PROVE  /\ written[k] = MedianHeard(readings, k)
               /\ written[k] # Nil => window.samples[k] # <<>>
    <3>1. PICK s \in Seq(Values) : s = window.samples[k]
      BY <1>3
    <3>2. PICK f \in Origins(s, readings, k) : TRUE
      BY <2>1, <3>1 DEF Follows
    <3>3. NullableMedian(s) = MedianHeard(readings, k)
      BY <3>2, MedianOfOrigins
    <3>4. minute[k] # Nil => s # <<>>
      BY <2>1, <3>1 DEF Follows
    <3> QED BY <1>2, <1>3, <3>1, <3>3, <3>4
  <2> QED BY <2>1, <2>2 DEF RowOfMedians, Follows
<1>6. Faithful(window, written, readings)
  BY <1>4, <1>5 DEF Faithful
<1>7. ASSUME readings # <<>> PROVE Faithful(NoWindow, written, readings)
  <2>1. RowOfMedians(written, readings)
    BY <1>4, <1>5, <1>7 DEF Faithful
  <2> QED BY <1>7, <2>1 DEF Faithful
<1>8. ASSUME readings = <<>> PROVE Faithful(NoWindow, written, readings)
  <2>1. ASSUME NEW k \in Metrics
        PROVE  /\ Origins(NoWindow.samples[k], readings, k) # {}
               /\ written[k] = Nil
    <3>1. DOMAIN readings = {} /\ Sampled(readings, k) = {}
      BY <1>8 DEF Sampled
    <3>2. PICK s : s = NoWindow.samples[k]
      OBVIOUS
    <3>3. s = <<>> /\ DOMAIN s = {}
      BY <3>2 DEF NoWindow
    <3>4. [i \in DOMAIN s |-> Nil] \in Origins(s, readings, k)
      BY <3>1, <3>3 DEF Origins
    <3>5. MedianHeard(readings, k) = Nil
      BY <3>1 DEF MedianHeard
    <3>6. written[k] = Nil
      BY <1>5, <1>8, <3>5 DEF RowOfMedians
    <3> QED BY <3>2, <3>4, <3>6
  <2>2. Follows(NoWindow, written, readings)
    BY <1>8, <2>1 DEF Follows, NoWindow, LastOf
  <2> QED BY <1>8, <2>2 DEF Faithful
<1> QED BY <1>1, <1>6, <1>7, <1>8

\* The steps that change what is said of the minutes of a device without history.
LEMMA MinutesSteps ==
    ASSUME Shape, PollTarget, [Next]_vars, NEW m \in Devices \ HistoryDevices
    PROVE  \/ UNCHANGED <<windows, heard>> /\ sensor_minute'[m] = sensor_minute[m]
           \/ \E written, failed : Flush(written, failed)
           \/ /\ \E n \in Devices, u \in Times, r \in Reading : Add(n, u, r)
              /\ UNCHANGED sensor_minute
           \/ Exit \/ Crash
<1>1. CASE FlushPending \/ FlushPoll \/ FlushAll
  BY <1>1 DEF FlushPending, FlushPoll, FlushAll
<1>2. CASE AddBattery
  <2>1. Add(gatt.mac, gatt.now, Level) /\ gatt.mac \in Devices /\ UNCHANGED sensor_minute
    BY <1>2 DEF AddBattery, Level, PollTarget
  <2> QED BY <2>1, LevelType
<1>3. CASE \E n \in Devices, u \in Times, r \in Advertisements : Message(n, u, r)
  BY <1>3, ConstantsAssumption DEF Message
<1>4. CASE \E u \in Times, r \in Advertisements : Backfill(u, r)
  <2>1. UNCHANGED <<windows, heard>> /\ gatt.mac # m
    BY <1>4 DEF Backfill
  <2>2. PICK u \in Times, r \in Advertisements : Backfill(u, r)
    BY <1>4
  <2>3. sensor_minute'[m] = sensor_minute[m]
    BY <2>1, <2>2 DEF Backfill, Shape, Rows
  <2> QED BY <2>1, <2>3
<1> QED
  BY <1>1, <1>2, <1>3, <1>4
  DEF Next, MqttLoop, GattPoller, Process, Tick, Connect, Disconnect, MqttDone, StartPoll,
      ReadBattery, ReadFails, EndPoll, GattDone, Signal, vars

LEMMA ExcusedGrows == [Next]_vars => excused \subseteq excused'
BY DEF Next, MqttLoop, GattPoller, Process, Tick, Connect, Disconnect, Message, FlushPending,
       MqttDone, StartPoll, ReadBattery, ReadFails, AddBattery, FlushPoll, Backfill, EndPoll,
       GattDone, Signal, FlushAll, Exit, Crash, vars

LEMMA MediansStep ==
    Shape /\ PollTarget /\ FlushedIsOver /\ MediansInv /\ [Next]_vars => MediansInv'
<1> SUFFICES ASSUME Shape, PollTarget, FlushedIsOver, MediansInv, [Next]_vars,
                    NEW m \in Devices \ HistoryDevices, NEW t \in Times,
                    ~heard'[m][t].reopened, <<m, t>> \notin excused'
             PROVE  Faithful(windows'[m][t], sensor_minute'[m][t], heard'[m][t].all)
  BY DEF MediansInv
<1>1. /\ windows[m][t] \in Window /\ sensor_minute[m][t] \in Row /\ heard[m][t] \in Story
      /\ heard[m][t].all \in Seq(Reading)
  BY DEF Shape, Windows, Rows, Heard, Story
<1>2. <<m, t>> \notin excused
  BY ExcusedGrows
<1>3. ~heard[m][t].reopened => Faithful(windows[m][t], sensor_minute[m][t], heard[m][t].all)
  BY <1>2 DEF MediansInv
<1>4. CASE UNCHANGED <<windows, heard>> /\ sensor_minute'[m] = sensor_minute[m]
  BY <1>3, <1>4
<1>5. CASE \E written, failed : Flush(written, failed)
  <2>1. PICK written, failed : Flush(written, failed)
    BY <1>5
  <2>2. windows'[m][t] = IF <<m, t>> \in written \ failed THEN NoWindow ELSE windows[m][t]
    BY <2>1 DEF Flush, Delete
  <2>3. sensor_minute'[m][t] =
            IF <<m, t>> \in written THEN Merged(sensor_minute[m][t], Medians(windows[m][t]))
            ELSE sensor_minute[m][t]
    BY <2>1 DEF Flush, Upsert, Medians
  <2>4. heard'[m][t].all = heard[m][t].all /\ heard'[m][t].reopened = heard[m][t].reopened
    <3>1. heard'[m][t] = IF <<m, t>> \in written THEN [heard[m][t] EXCEPT !.new = {}]
                         ELSE heard[m][t]
      BY <2>1 DEF Flush, Upsert
    <3> QED BY <1>1, <3>1 DEF Story
  <2>5. Faithful(windows[m][t], sensor_minute[m][t], heard[m][t].all)
    BY <1>3, <2>4
  <2>6. /\ Faithful(windows[m][t], Merged(sensor_minute[m][t], Medians(windows[m][t])),
                    heard[m][t].all)
        /\ Faithful(NoWindow, Merged(sensor_minute[m][t], Medians(windows[m][t])),
                    heard[m][t].all)
    BY <1>1, <2>5, FaithfulFlush
  <2> QED BY <2>2, <2>3, <2>4, <2>5, <2>6
<1>6. ASSUME NEW n \in Devices, NEW u \in Times, NEW r \in Reading, Add(n, u, r),
             UNCHANGED sensor_minute
      PROVE  Faithful(windows'[m][t], sensor_minute'[m][t], heard'[m][t].all)
  <2>1. ASSUME m # n \/ t # u
        PROVE  windows'[m][t] = windows[m][t] /\ heard'[m][t] = heard[m][t]
    BY <1>6, <2>1 DEF Add, Shape, Windows, Heard
  <2>2. ASSUME m = n, t = u
        PROVE  /\ windows'[m][t] = Extended(windows[m][t], r)
               /\ heard'[m][t].all = Append(heard[m][t].all, r)
               /\ ~heard[m][t].reopened
               /\ windows[m][t] # NoWindow \/ heard[m][t].all = <<>>
    <3>1. heard'[m][t] =
              [all      |-> Append(heard[m][t].all, r),
               new      |-> heard[m][t].new \cup {k \in Metrics : r[k] # Nil},
               reopened |-> heard[m][t].reopened
                            \/ (windows[m][t] = NoWindow /\ heard[m][t].all # <<>>)]
      BY <1>6, <2>2 DEF Add, Shape, Heard
    <3>2. windows'[m][t] = Extended(windows[m][t], r)
      BY <1>6, <2>2 DEF Add, Shape, Windows
    <3>3. PICK b : b = (heard[m][t].reopened
                        \/ (windows[m][t] = NoWindow /\ heard[m][t].all # <<>>))
      OBVIOUS
    <3>5. heard'[m][t].reopened = b
      BY <3>1, <3>3
    <3>6. /\ ~heard[m][t].reopened
          /\ windows[m][t] # NoWindow \/ heard[m][t].all = <<>>
      BY <3>3, <3>5, Zenon
    <3>4. heard'[m][t].all = Append(heard[m][t].all, r)
      BY <3>1
    <3> QED BY <3>2, <3>4, <3>6
  <2>3. ASSUME m = n, t = u
        PROVE  Faithful(windows'[m][t], sensor_minute'[m][t], heard'[m][t].all)
    BY <1>1, <1>3, <1>6, <2>2, <2>3, FaithfulAdd
  <2> QED BY <1>3, <1>6, <2>1, <2>3
<1>7. CASE Exit \/ Crash
  <2>1. UNCHANGED <<sensor_minute, heard>> /\ Pending \subseteq excused'
    BY <1>7 DEF Exit, Crash, FlushedIsOver
  <2>2. windows[m][t] = NoWindow
    BY <2>1 DEF Pending
  <2>3. windows'[m][t] = NoWindow
    BY <1>7 DEF Exit, Crash, Restart
  <2> QED BY <1>3, <2>1, <2>2, <2>3
<1> QED BY <1>4, <1>5, <1>6, <1>7, MinutesSteps

LEMMA MediansFirst == Init => MediansInv
<1> SUFFICES ASSUME Init, NEW m \in Devices \ HistoryDevices, NEW t \in Times
             PROVE  Faithful(windows[m][t], sensor_minute[m][t], heard[m][t].all)
  BY DEF MediansInv
<1>1. /\ windows[m][t] = NoWindow /\ heard[m][t].all = <<>>
      /\ \A k \in Metrics : sensor_minute[m][t][k] = Nil
  BY DEF Init
<1>2. ASSUME NEW k \in Metrics
      PROVE  Origins(NoWindow.samples[k], <<>>, k) # {}
  <2>1. PICK e : e = <<>> /\ DOMAIN e = {}
    OBVIOUS
  <2>2. Sampled(e, k) = {}
    BY <2>1 DEF Sampled
  <2>3. [i \in DOMAIN e |-> Nil] \in Origins(e, e, k)
    BY <2>1, <2>2 DEF Origins
  <2>4. NoWindow.samples[k] = e
    BY <2>1 DEF NoWindow
  <2> QED BY <2>1, <2>3, <2>4
<1>3. Follows(NoWindow, sensor_minute[m][t], <<>>)
  BY <1>1, <1>2 DEF Follows, NoWindow, LastOf
<1> QED BY <1>1, <1>3 DEF Faithful

\* What the invariant says when no window is open.
LEMMA RowsOfMedians ==
    ASSUME Shape, MediansInv
    PROVE  SingleWindowRowsAreMedians
<1> SUFFICES ASSUME NEW m \in Devices \ HistoryDevices, NEW t \in Times, NEW k \in Metrics,
                    windows[m][t] = NoWindow, ~heard[m][t].reopened, <<m, t>> \notin excused
             PROVE  sensor_minute[m][t][k] = MedianHeard(heard[m][t].all, k)
  BY DEF SingleWindowRowsAreMedians, RowIsMedian
<1>1. Faithful(NoWindow, sensor_minute[m][t], heard[m][t].all)
  BY DEF MediansInv
<1>2. ASSUME heard[m][t].all # <<>>
      PROVE  sensor_minute[m][t][k] = MedianHeard(heard[m][t].all, k)
  BY <1>1, <1>2 DEF Faithful, RowOfMedians
<1>3. ASSUME heard[m][t].all = <<>>
      PROVE  sensor_minute[m][t][k] = MedianHeard(heard[m][t].all, k)
  <2>1. Follows(NoWindow, sensor_minute[m][t], <<>>)
    BY <1>1, <1>3 DEF Faithful
  <2>2. sensor_minute[m][t][k] = Nil
    BY <2>1 DEF Follows, NoWindow
  <2>3. MedianHeard(<<>>, k) = Nil
    <3>1. PICK e : e = <<>> /\ DOMAIN e = {}
      OBVIOUS
    <3>2. Sampled(e, k) = {}
      BY <3>1 DEF Sampled
    <3> QED BY <3>1, <3>2 DEF MedianHeard
  <2> QED BY <1>3, <2>2, <2>3
<1> QED BY <1>2, <1>3

-----------------------------------------------------------------------------
(* The theorems.                                                           *)

\* The inductive invariant.
AggregationInv ==
    /\ Shape
    /\ LastSampled
    /\ PollTarget
    /\ FlushedIsOver
    /\ EveryReadingKept
    /\ PollKept
    /\ PollSuccessMeansStored
    /\ MediansInv

LEMMA AggregationInit == Init => AggregationInv
<1> SUFFICES ASSUME Init PROVE AggregationInv
  OBVIOUS
<1>1. Shape
  BY ShapeInit
<1>2. LastSampled /\ PollTarget /\ FlushedIsOver /\ PollKept /\ PollSuccessMeansStored
  BY DEF Init, LastSampled, NoWindow, PollTarget, NoPoll, FlushedIsOver, PollKept,
         PollSuccessMeansStored
<1>3. EveryReadingKept
  BY DEF Init, EveryReadingKept
<1> QED BY <1>1, <1>2, <1>3, MediansFirst DEF AggregationInv

LEMMA AggregationStep == AggregationInv /\ [Next]_vars => AggregationInv'
BY ShapeStep, LastSampledStep, PollTargetStep, FlushedStep, KeptStep, PollKeptStep, PollStoredStep,
   MediansStep
   DEF AggregationInv

\* A reading that was added is stored or still in a window, unless its window was
\* lost with a crash or with the failed writes of the last flush.
THEOREM ReadingsAlwaysKept == Spec => []EveryReadingKept
<1>1. AggregationInv => EveryReadingKept
  BY DEF AggregationInv
<1> QED BY <1>1, AggregationInit, AggregationStep, PTL DEF Spec

\* A GATT poll that reports success has its battery level in the table.
THEOREM PollsAlwaysStored == Spec => []PollSuccessMeansStored
<1>1. AggregationInv => PollSuccessMeansStored
  BY DEF AggregationInv
<1> QED BY <1>1, AggregationInit, AggregationStep, PTL DEF Spec

\* Where the readings of a minute came in one window and none was lost, the row that is
\* left when no window is open holds the medians of all that was heard: however often
\* the write failed or was repeated, and whichever thread did it.
THEOREM RowsOfOneWindowAlwaysMedians == Spec => []SingleWindowRowsAreMedians
<1>1. AggregationInv => SingleWindowRowsAreMedians
  BY RowsOfMedians DEF AggregationInv
<1> QED BY <1>1, AggregationInit, AggregationStep, PTL DEF Spec

\* No write, late, partial, repeated or from the history, erases a stored metric.
THEOREM NothingEverErased == Spec => NothingErased
<1> DEFINE A == \A m \in Devices, t \in Times, k \in Metrics :
                    sensor_minute[m][t][k] # Nil => sensor_minute'[m][t][k] # Nil
<1>1. AggregationInv /\ [Next]_vars => [A]_vars
  BY CellStep DEF AggregationInv, Stored
<1>2. Spec => [][A]_vars
  BY <1>1, AggregationInit, AggregationStep, PTL DEF Spec
<1> QED BY <1>2 DEF NothingErased

=============================================================================
