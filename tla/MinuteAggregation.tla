------------------------- MODULE MinuteAggregation -------------------------
(***************************************************************************)
(* cmd/hm-cisco-iot-orchestrator-collector: the minute windows that the    *)
(* MQTT loop and the GATT poller share under a mutex, their flushes into   *)
(* sensor_minute, and the shutdown of the process.                         *)
(*                                                                         *)
(* add and a whole flush hold the mutex, so each is one step; a crash in   *)
(* the middle of a flush is a flush whose other writes failed, and a       *)
(* crash.  The median of some samples stands as the set of the one or two  *)
(* samples in their middle, whose mean it is.                              *)
(***************************************************************************)
EXTENDS Integers, FiniteSets, SequencesExt

CONSTANTS
    Nil,                \* nil pointer / SQL NULL
    Devices,            \* enabled targets
    PolledDevices,      \* those with gattBatteryEnabled
    HistoryDevices,     \* those with gattHistoryBackfillEnabled
    Metrics,            \* metric columns
    Battery,            \* battery_percent
    Values,             \* metric values
    Advertisements,     \* what a decoded message may hold: metric -> value or Nil
    MaxDelay,           \* minutes a message's timestamp may be behind
    TelemetryMaxAge,    \* gattBatteryAdvertisementMaxAge
    MaxTime,            \* bound: the clock
    MaxMessages,        \* bound: messages received
    MaxPolls,           \* bound: GATT polls begun
    MaxFailures,        \* bound: flushes and backfills with a failed write
    MaxDisconnects,     \* bound: MQTT streams that end
    MaxSignals,         \* bound: SIGTERMs
    MaxCrashes          \* bound: crashes

Times   == 0..MaxTime
Reading == [Metrics -> Values \cup {Nil}]

ASSUME ConstantsAssumption ==
    /\ PolledDevices \subseteq Devices
    /\ HistoryDevices \subseteq PolledDevices
    /\ Battery \in Metrics
    /\ Values \subseteq Int
    /\ Nil \notin Values
    /\ \A S \in SUBSET Values : S # Nil
    /\ Nil \notin Reading
    /\ Nil \notin Devices
    /\ Advertisements \subseteq Reading
    /\ \A r \in Advertisements : \E k \in Metrics : r[k] # Nil
    /\ {MaxDelay, TelemetryMaxAge, MaxTime, MaxMessages, MaxPolls, MaxFailures,
        MaxDisconnects, MaxSignals, MaxCrashes} \subseteq Nat

VARIABLES
    clock,              \* minutes
    sensor_minute,      \* [Devices -> [Times -> row: metric -> median or Nil]]
    windows,            \* collector.windows, NoWindow when there is none
    mqtt,               \* the MQTT loop
    gatt,               \* the GATT poller
    main,               \* main itself
    used,               \* how often the bounded things happened
    heard,              \* history: per device and minute, the readings given to add, the
                        \* metrics not written since, whether a second window was opened
    excused             \* history: windows lost with a crash or a failed last write

vars == <<clock, sensor_minute, windows, mqtt, gatt, main, used, heard, excused>>

NoWindow == [last |-> Nil, samples |-> [k \in Metrics |-> <<>>]]

Window == [last : Reading \cup {Nil}, samples : [Metrics -> Seq(Values)]]

\* offline: connecting or waiting to reconnect; flush: readings of a message are
\* added, flushPending comes next.
MqttState == {"offline", "online", "flush", "done"}

NoPoll == [pc |-> "idle", mac |-> Nil, now |-> 0, battery |-> Nil]

GattState ==
    [pc      : {"idle", "reading", "read", "added", "stored", "done"},
     mac     : Devices \cup {Nil},
     now     : Times,
     battery : Values \cup {Nil}]

MainState == {"running", "stopping", "flushed"}

TypeOK ==
    /\ clock \in Times
    /\ sensor_minute \in [Devices -> [Times -> [Metrics -> {Nil} \cup SUBSET Values]]]
    /\ windows \in [Devices -> [Times -> Window]]
    /\ mqtt \in MqttState
    /\ gatt \in GattState
    /\ main \in MainState
    /\ used \in [messages : Nat, polls : Nat, failures : Nat, disconnects : Nat,
                signals : Nat, crashes : Nat]
    /\ heard \in [Devices -> [Times -> [all : Seq(Reading), new : SUBSET Metrics,
                                        reopened : BOOLEAN]]]
    /\ excused \subseteq Devices \X Times

Init ==
    /\ clock = 0
    /\ sensor_minute = [m \in Devices |-> [t \in Times |-> [k \in Metrics |-> Nil]]]
    /\ windows = [m \in Devices |-> [t \in Times |-> NoWindow]]
    /\ mqtt = "offline"
    /\ gatt = NoPoll
    /\ main = "running"
    /\ used = [messages |-> 0, polls |-> 0, failures |-> 0, disconnects |-> 0,
               signals |-> 0, crashes |-> 0]
    /\ heard = [m \in Devices |-> [t \in Times |-> [all |-> <<>>, new |-> {}, reopened |-> FALSE]]]
    /\ excused = {}

Tick ==
    /\ clock < MaxTime
    /\ clock' = clock + 1
    /\ UNCHANGED <<sensor_minute, windows, mqtt, gatt, main, used, heard, excused>>

-----------------------------------------------------------------------------
(* The windows.                                                            *)

\* Mutant: appendPtr without its nil check.
ExtendedWithNil(window, r) ==
    IF r = window.last THEN window
    ELSE [last |-> r, samples |-> [k \in Metrics |-> Append(window.samples[k], r[k])]]

\* A reading equal to the one before it adds nothing.
Extended(window, r) ==
    IF r = window.last THEN window
    ELSE [last    |-> r,
          samples |-> [k \in Metrics |-> IF r[k] = Nil THEN window.samples[k]
                                         ELSE Append(window.samples[k], r[k])]]

\* collector.add
Add(m, t, r) ==
    /\ windows' = [windows EXCEPT ![m][t] = Extended(@, r)]
    /\ heard' = [heard EXCEPT ![m][t] =
            [all      |-> Append(@.all, r),
             new      |-> @.new \cup {k \in Metrics : r[k] # Nil},
             reopened |-> @.reopened \/ (windows[m][t] = NoWindow /\ @.all # <<>>)]]

\* The middle sample, or both.
Middle(samples) ==
    {v \in ToSet(samples) :
        /\ 2 * Cardinality({i \in DOMAIN samples : samples[i] < v}) =< Len(samples)
        /\ 2 * Cardinality({i \in DOMAIN samples : samples[i] > v}) =< Len(samples)}

NullableMedian(samples) == IF samples = <<>> THEN Nil ELSE Middle(samples)

\* Mutant: ON CONFLICT DO UPDATE without COALESCE.
MergedWhole(row, values) == values

\* UpsertMinute's COALESCE.
Merged(row, values) == [k \in Metrics |-> IF values[k] = Nil THEN row[k] ELSE values[k]]

Pending == {p \in Devices \X Times : windows[p[1]][p[2]] # NoWindow}

\* The medians of the windows S are upserted.
Upsert(S) ==
    /\ sensor_minute' = [m \in Devices |-> [t \in Times |->
            IF <<m, t>> \in S
            THEN Merged(sensor_minute[m][t],
                        [k \in Metrics |-> NullableMedian(windows[m][t].samples[k])])
            ELSE sensor_minute[m][t]]]
    /\ heard' = [m \in Devices |-> [t \in Times |->
            IF <<m, t>> \in S THEN [heard[m][t] EXCEPT !.new = {}] ELSE heard[m][t]]]

Delete(S) ==
    windows' = [m \in Devices |-> [t \in Times |->
        IF <<m, t>> \in S THEN NoWindow ELSE windows[m][t]]]

\* Mutant: a window is deleted whether its write succeeded or not.
FlushDropsFailed(written, failed) == Upsert(written) /\ Delete(written \cup failed)

\* A window whose write returned an error stays, whether it was done or not.
Flush(written, failed) == Upsert(written) /\ Delete(written \ failed)

\* How the writes of the windows S may end.  Once the context is cancelled, all
\* fail; before, a write that reports an error may have been done.
Outcome(S, cancelled, written, failed) ==
    /\ written \cup failed = S
    /\ cancelled => written = {}
    /\ IF cancelled \/ failed = {}
       THEN UNCHANGED used
       ELSE /\ used.failures < MaxFailures
            /\ used' = [used EXCEPT !.failures = @ + 1]

\* The windows flushCompleted(current) takes.
Completed(current) == {p \in Pending : p[2] < current}

-----------------------------------------------------------------------------
(* runWithReconnect and runMQTT.                                           *)

Cancelled == main # "running"

\* Dialling ignores the context.
Connect ==
    /\ mqtt = "offline"
    /\ mqtt' = "online"
    /\ UNCHANGED <<clock, sensor_minute, windows, gatt, main, used, heard, excused>>

\* Nothing is flushed while the stream is down.
Disconnect ==
    /\ mqtt = "online"
    /\ used.disconnects < MaxDisconnects
    /\ used' = [used EXCEPT !.disconnects = @ + 1]
    /\ mqtt' = IF Cancelled THEN "done" ELSE "offline"
    /\ UNCHANGED <<clock, sensor_minute, windows, gatt, main, heard, excused>>

\* A reading of a message, perhaps not the first one of its batch.
Message(m, t, r) ==
    /\ mqtt \in {"online", "flush"}
    /\ t =< clock /\ clock - t =< MaxDelay
    /\ used.messages < MaxMessages
    /\ used' = [used EXCEPT !.messages = @ + 1]
    /\ Add(m, t, r)
    /\ mqtt' = "flush"
    /\ UNCHANGED <<clock, sensor_minute, gatt, main, excused>>

\* Mutant: the flush ticker does nothing.
FlushAfterMessage ==
    /\ mqtt = "flush"
    /\ \E written \in SUBSET Completed(clock) :
       \E failed \in SUBSET Completed(clock) :
          /\ Outcome(Completed(clock), Cancelled, written, failed)
          /\ Flush(written, failed)
    /\ mqtt' = "online"
    /\ UNCHANGED <<clock, gatt, main, excused>>

\* After a message and at the flush ticker.
FlushPending ==
    /\ mqtt \in {"online", "flush"}
    /\ \E written \in SUBSET Completed(clock) :
       \E failed \in SUBSET Completed(clock) :
          /\ Outcome(Completed(clock), Cancelled, written, failed)
          /\ Flush(written, failed)
    /\ mqtt' = "online"
    /\ UNCHANGED <<clock, gatt, main, excused>>

MqttDone ==
    /\ Cancelled
    /\ mqtt \in {"offline", "online"}
    /\ mqtt' = "done"
    /\ UNCHANGED <<clock, sensor_minute, windows, gatt, main, used, heard, excused>>

-----------------------------------------------------------------------------
(* runGATTBatteryPoller, one device at a time.                             *)

\* latestTelemetryAt is recent enough.
Advertised(m) ==
    \E t \in Times : /\ clock - t =< TelemetryMaxAge
                     /\ \E k \in Metrics : sensor_minute[m][t][k] # Nil

StartPoll(m) ==
    /\ gatt.pc = "idle"
    /\ ~Cancelled
    /\ Advertised(m)
    /\ used.polls < MaxPolls
    /\ used' = [used EXCEPT !.polls = @ + 1]
    /\ gatt' = [gatt EXCEPT !.pc = "reading", !.mac = m]
    /\ UNCHANGED <<clock, sensor_minute, windows, mqtt, main, heard, excused>>

\* The control session returned a value; time.Now() follows.
ReadBattery(v) ==
    /\ gatt.pc = "reading"
    /\ gatt' = [gatt EXCEPT !.pc = "read", !.now = clock, !.battery = v]
    /\ UNCHANGED <<clock, sensor_minute, windows, mqtt, main, used, heard, excused>>

ReadFails ==
    /\ gatt.pc = "reading"
    /\ gatt' = NoPoll
    /\ UNCHANGED <<clock, sensor_minute, windows, mqtt, main, used, heard, excused>>

\* c.add, which may have waited for a flush of the other thread.
AddBattery ==
    /\ gatt.pc = "read"
    /\ Add(gatt.mac, gatt.now, [k \in Metrics |-> IF k = Battery THEN gatt.battery ELSE Nil])
    /\ gatt' = [gatt EXCEPT !.pc = "added"]
    /\ UNCHANGED <<clock, sensor_minute, mqtt, main, used, excused>>

\* Mutant: only the windows before the current minute.
FlushPollCompleted ==
    /\ gatt.pc = "added"
    /\ \E written \in SUBSET Completed(gatt.now) :
       \E failed \in SUBSET Completed(gatt.now) :
          /\ Outcome(Completed(gatt.now), Cancelled, written, failed)
          /\ Flush(written, failed)
          /\ gatt' = IF failed = {} THEN [gatt EXCEPT !.pc = "stored"] ELSE NoPoll
    /\ UNCHANGED <<clock, mqtt, main, excused>>

\* flushCompleted of the next minute: the current window of every device goes.
\* An error of any of them makes the poll a failure.
FlushPoll ==
    /\ gatt.pc = "added"
    /\ \E written \in SUBSET Completed(gatt.now + 1) :
       \E failed \in SUBSET Completed(gatt.now + 1) :
          /\ Outcome(Completed(gatt.now + 1), Cancelled, written, failed)
          /\ Flush(written, failed)
          /\ gatt' = IF failed = {} THEN [gatt EXCEPT !.pc = "stored"] ELSE NoPoll
    /\ UNCHANGED <<clock, mqtt, main, excused>>

\* One row of backfillSensorMinuteReadings.
Backfill(t, r) ==
    /\ gatt.pc = "stored"
    /\ gatt.mac \in HistoryDevices
    /\ ~Cancelled
    /\ t =< clock
    /\ sensor_minute' = [sensor_minute EXCEPT ![gatt.mac][t] =
            Merged(@, [k \in Metrics |-> IF r[k] = Nil THEN Nil ELSE {r[k]}])]
    /\ UNCHANGED <<clock, windows, mqtt, gatt, main, used, heard, excused>>

\* The history is read and stored, has failed, or is not wanted; success has
\* been reported.
EndPoll ==
    /\ gatt.pc = "stored"
    /\ gatt' = NoPoll
    /\ UNCHANGED <<clock, sensor_minute, windows, mqtt, main, used, heard, excused>>

GattDone ==
    /\ Cancelled
    /\ gatt.pc = "idle"
    /\ gatt' = [gatt EXCEPT !.pc = "done"]
    /\ UNCHANGED <<clock, sensor_minute, windows, mqtt, main, used, heard, excused>>

-----------------------------------------------------------------------------
(* The process.                                                            *)

\* SIGTERM cancels the context.
Signal ==
    /\ main = "running"
    /\ used.signals < MaxSignals
    /\ used' = [used EXCEPT !.signals = @ + 1]
    /\ main' = "stopping"
    /\ UNCHANGED <<clock, sensor_minute, windows, mqtt, gatt, heard, excused>>

\* Mutant: main does not wait for the GATT poller.
FlushAllEarly ==
    /\ main = "stopping"
    /\ mqtt = "done"
    /\ \E written \in SUBSET Pending :
       \E failed \in SUBSET Pending :
          /\ Outcome(Pending, FALSE, written, failed)
          /\ Flush(written, failed)
          /\ excused' = excused \cup failed
    /\ main' = "flushed"
    /\ UNCHANGED <<clock, mqtt, gatt>>

\* workers.Wait, then flushAll with a context of its own.
FlushAll ==
    /\ main = "stopping"
    /\ mqtt = "done"
    /\ gatt.pc = "done"
    /\ \E written \in SUBSET Pending :
       \E failed \in SUBSET Pending :
          /\ Outcome(Pending, FALSE, written, failed)
          /\ Flush(written, failed)
          /\ excused' = excused \cup failed
    /\ main' = "flushed"
    /\ UNCHANGED <<clock, mqtt, gatt>>

\* What the next process starts with.
Restart ==
    /\ windows' = [m \in Devices |-> [t \in Times |-> NoWindow]]
    /\ mqtt' = "offline"
    /\ gatt' = NoPoll
    /\ main' = "running"

Exit ==
    /\ main = "flushed"
    /\ Restart
    /\ UNCHANGED <<clock, sensor_minute, used, heard, excused>>

\* SIGKILL or power loss.
Crash ==
    /\ used.crashes < MaxCrashes
    /\ used' = [used EXCEPT !.crashes = @ + 1]
    /\ excused' = excused \cup Pending
    /\ Restart
    /\ UNCHANGED <<clock, sensor_minute, heard>>

-----------------------------------------------------------------------------
MqttLoop ==
    \/ Connect
    \/ Disconnect
    \/ \E m \in Devices, t \in Times, r \in Advertisements : Message(m, t, r)
    \/ FlushPending
    \/ MqttDone

GattPoller ==
    \/ \E m \in PolledDevices : StartPoll(m)
    \/ \E v \in Values : ReadBattery(v)
    \/ ReadFails
    \/ AddBattery
    \/ FlushPoll
    \/ \E t \in Times, r \in Advertisements : Backfill(t, r)
    \/ EndPoll
    \/ GattDone

Process == Signal \/ FlushAll \/ Exit \/ Crash

Next == Tick \/ MqttLoop \/ GattPoller \/ Process

Spec == Init /\ [][Next]_vars

\* Time passes, the broker can be reached again, statements return, and a process
\* that is told to stop does.
Fairness ==
    /\ WF_vars(Tick)
    /\ WF_vars(Connect)
    /\ WF_vars(FlushPending)
    /\ WF_vars(MqttDone)
    /\ WF_vars(ReadFails \/ \E v \in Values : ReadBattery(v))
    /\ WF_vars(AddBattery)
    /\ WF_vars(FlushPoll)
    /\ WF_vars(EndPoll)
    /\ WF_vars(GattDone)
    /\ WF_vars(FlushAll)
    /\ WF_vars(Exit)

FairSpec == Spec /\ Fairness

-----------------------------------------------------------------------------
(* Properties.                                                             *)

\* What was added to a window is still in one, or was written after it was added:
\* failed writes, retries, reconnects, the two threads' flushes and shutdown lose
\* nothing, only a crash and the failed writes of the last flush do.
EveryReadingKept ==
    \A m \in Devices, t \in Times, k \in Metrics :
        (\E i \in 1..Len(heard[m][t].all) : heard[m][t].all[i][k] # Nil)
        => \/ windows[m][t].samples[k] # <<>>
           \/ sensor_minute[m][t][k] # Nil /\ k \notin heard[m][t].new
           \/ <<m, t>> \in excused

\* A poll that reports that data was written has its battery value in the table,
\* although the MQTT loop may have taken the window away in between.
PollSuccessMeansStored ==
    gatt.pc = "stored" => sensor_minute[gatt.mac][gatt.now][Battery] # Nil

\* docs/architecture.md: "A partial advertisement or GATT reading therefore cannot
\* erase a metric written earlier in that minute."
NothingErased ==
    [][\A m \in Devices, t \in Times, k \in Metrics :
        sensor_minute[m][t][k] # Nil => sensor_minute'[m][t][k] # Nil]_vars

\* The readings of the metric that are no repetition of the reading before.
Sampled(readings, k) ==
    {i \in DOMAIN readings :
        readings[i][k] # Nil /\ (i = 1 \/ readings[i] # readings[i - 1])}

\* The middle value of those readings, or both.
MedianHeard(readings, k) ==
    LET S == Sampled(readings, k)
    IN  IF S = {} THEN Nil
        ELSE {v \in {readings[i][k] : i \in S} :
                /\ 2 * Cardinality({i \in S : readings[i][k] < v}) =< Cardinality(S)
                /\ 2 * Cardinality({i \in S : readings[i][k] > v}) =< Cardinality(S)}

RowIsMedian(m, t) ==
    \A k \in Metrics : sensor_minute[m][t][k] = MedianHeard(heard[m][t].all, k)

\* README: what the collector writes are "minute-level median readings".  When no
\* window of a minute is open, its row holds the medians of all that was heard of
\* it, whatever was written twice, failed, or was taken by the other thread, where
\* the readings came in one window and no history was written over them.
SingleWindowRowsAreMedians ==
    \A m \in Devices \ HistoryDevices, t \in Times :
        windows[m][t] = NoWindow /\ ~heard[m][t].reopened /\ <<m, t>> \notin excused
        => RowIsMedian(m, t)

\* A window of a minute that is over is written before long, unless the process
\* is stopped, although writes fail and the stream ends.
WindowsGetFlushed ==
    \A m \in Devices, t \in Times \ {MaxTime} :
        windows[m][t] # NoWindow ~> windows[m][t] = NoWindow
=============================================================================
