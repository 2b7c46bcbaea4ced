# A TLA+ model of home-metrics

home-metrics collects readings of home sensors and energy meters, keeps them
per minute in PostgreSQL/TimescaleDB, aggregates them, and raises threshold
alerts that clients poll. This directory holds TLA+ modules of its logic, TLC
configurations that check them on small instances, and proofs for every
instance that TLAPS checks.

Run a check with `tlc -config <cfg> <module>` and the proofs with
`tlapm <module>.tla`, both in this directory.

## The system

All programs are separate processes that meet only in the database
(`db/schema.sql`).

| part | state it keeps | operations | how it meets the others |
|---|---|---|---|
| `internal/sensoralert` evaluator | none (pure) | `Evaluate(now, rule, deviceEnabled, state, observation)` | called by the alert worker |
| `hm-sensor-alert-worker` | the advisory lock, a batch of rules per cycle | every minute: load all rules, then per rule one transaction that reads the state row (`FOR UPDATE`), reads the newest measurement, saves the state, inserts at most one event | reads `sensor_alert_rules`, `devices`, `sensor_minute`; writes `sensor_alert_states`, `sensor_alert_events` |
| `hm-api-server` alert rules | none | create, replace, delete a rule; list alerts and events | writes `sensor_alert_rules`; deleting cascades to the state and detaches the events |
| `hm-api-server`, the rest | none | latest values, series, health, collector status | reads only |
| `hm-db-maint` | `rollup_accuracy_state` | hourly: fix the accuracy cutoff once, refresh the hourly, 12-hour and daily table, delete old minutes and events | reads and deletes `sensor_minute`, writes the rollups, deletes `sensor_alert_events` |
| `internal/sensorstore` | `devices`, `sensor_minute` | `SyncDevice` (ownership by ingest source), `UpsertMinute` (sparse merge) | called by every sensor collector |
| `internal/collectorstatus` | `collector_status` | success, data success, failure of a target | called by every collector, judged by the health handler |
| `hm-cisco-iot-orchestrator-collector` | minute windows under a mutex, reconnect backoff, poll times | MQTT loop (decode, add, flush), GATT poller (battery, history), shutdown flush | MQTT broker, GATT HTTP API, sensor store |
| `hm-ble-collector` | minute windows, outlier history per metric | poll BlueZ, add, flush completed windows through the outlier filter | D-Bus, sensor store |
| `hm-cisco-spaces-collector` | rolling windows, last medians, last uploads | per event: extract, median, upload interval, write; heartbeat goroutine; reconnect | Firehose stream, session lock, sensor store |
| `hm-echonet-collector`, `hm-nature-remo-collector`, `hm-apcupsd-collector`, `hm-energy-influx-import` | none between polls | request, parse, store readings one by one | `energy_readings`, whose rows a retention policy of the database drops after 14 days (`db/energy_optimization.sql`) |
| `hm-db-migrate` | `schema_migrations` | per file: compare checksum or apply in one transaction | runs before everything else |

What is hard in it, and what makes each part correct:

* **Alerting.** The worker takes its rules once per cycle outside any
  transaction, reads state and measurement in two statements, and writes two
  tables; clients edit and delete rules, collectors write (also late and again),
  maintenance deletes minutes and events, and workers crash and hand over a
  session lock, all between any two of those statements. Correct means: one
  evaluator at a time; the event log and the state table tell one story, event
  by event; nothing but a newer measurement or disabling ends an alert; a
  disabled alert does end; every newest measurement is evaluated; durations are
  measured as documented.
* **Rollups.** Each refresh is one statement with its own `now()`; minutes arrive
  late, runs fail half way, coarse tables are built from the hourly one, and the
  window moves. Correct means: rows become the exact average of their minutes,
  rows from before the cutoff are never written.
* **Minute windows** (the BLE and the Cisco IoT Orchestrator collector): in the
  second two goroutines share them; flushes fail and are retried; a window may be
  opened a second time.
  Correct means: a stored minute is the median of what arrived, written once.
* **Outlier filter**: keeps history across retries. Correct means: one spike is
  not stored.
* **Streams** (MQTT, Firehose, ECHONET): read deadlines inside packets, late and
  unsolicited answers, heartbeats against failures.
* **Energy readings**: answers come late, statements and batches fail, an import of
  years of records runs beside the collectors and the retention. Correct means: a
  poll reported well is stored, an answer goes to its own request, and no batch is
  stored by halves.
* **Sensor store and status**: owners never change; the health rule reports a
  collector that fails or is silent.
* **Migrations**: each file once, whole, unchanged.

`PROJECT.json` lists the components and the hazards, with their lines.

## The modules

| module | models |
|---|---|
| `AlertEvaluator` | `internal/sensoralert/evaluator.go`: `Evaluate`, its helpers and types, as operators |
| `AlertHistory` | one rule evaluated cycle after cycle, beside a definition of its alert that looks at all measurements at once; extends `AlertEvaluator` |
| `AlertLifecycle` | what alerting promises, without workers, locks or measurements: each rule is quiet or firing, each change adds exactly one event, events are in the order of time, and the log is cut only at its old end |
| `SensorAlerts` | the alert worker, the rule handlers, the tables, and what collectors and maintenance do to them; extends `AlertEvaluator`, implements `AlertLifecycle` |
| `SensorRollup` | `hm-db-maint`'s refreshes and minute retention between the collectors' upserts |
| `RollupHistory` | the same beside a record of the minutes that each table has not taken in yet; extends `SensorRollup` |
| `MinuteAggregation` | the minute windows of `hm-cisco-iot-orchestrator-collector`, its two threads, its flushes into `sensor_minute` and its shutdown |
| `Samples` | the median of samples and the trimming of a list, which the next two share |
| `CollectorStatus` | `internal/collectorstatus` and the rule by which `health/details` judges its rows, as operators |
| `BleCollector` | `hm-ble-collector`: polls, minute windows, outlier filter, flushes over one database session, shutdown; extends `Samples`, `CollectorStatus` |
| `CiscoSpaces` | `hm-cisco-spaces-collector`: from events to rows; extends `Samples` |
| `SensorCollectors` | the sensor collectors as processes beside each other: ownership of devices, the Firehose lock, the stream and its heartbeat, the move of a device, `health/details`; extends `CollectorStatus` |
| `EnergyCollectors` | the writers of `energy_readings`: ECHONET Lite, Nature Remo, apcupsd and the influx import, and the retention policy of the table; extends `CollectorStatus` |
| `MCAlertEvaluator`, `MCSensorAlerts`, `MCSensorRollup`, `MCRollupHistory`, `MCMinuteAggregation`, `MCBleCollector`, `MCCiscoSpaces`, `MCSensorCollectors`, `MCEnergyCollectors` | small instances for TLC; `MCAlertEvaluator` is one of `AlertHistory` |
| `SensorAlertsProofs` (of `SensorAlerts` and `AlertHistory`), `SensorRollupProofs` (of `SensorRollup` and `RollupHistory`), `MinuteAggregationProofs`, `BleCollectorProofs`, `SensorCollectorsProofs`, `CiscoSpacesProofs`, `EnergyCollectorsProofs` | theorems and proofs |
| `NumberLemmas` | lemmas that several of them need: least and greatest numbers, the median of `Samples`, sums over finite sets |

A definition that follows a comment `Mutant:` is a plausible mistake in the code
next to the definition it replaces; each property is known to fail for one of
them (`PROJECT.json`, "mutants"). They are no part of the specification.

### AlertEvaluator

One operator per branch of `Evaluate`: `Disable` (lines 73-83), the missing,
stale and already evaluated measurement (85-100), and `Transition` (102-152)
with `Fire`, `Resolve` and `Gap`. Pointers and NULLs are `Nil`. Times are
naturals counted in minutes, the resolution of `sensor_minute`; values are
integers, since the code only compares them. `LastEvaluatedAt` is left out: it is
written and displayed and never read by a decision. `ValidRule` is what
`validateSensorAlertRule` lets into the table.

### AlertHistory

What `evaluateDBRule` does with one rule that nobody edits, cycle after cycle: `row`
is its state row, `seen` the distinct measurements it was evaluated with, `start` how
many of them came before the device was last disabled. `EvaluateNew` finds a later
minute, `EvaluateAgain` the minute of the last cycle, perhaps with a value written
over it, `EvaluateNothing` none, `EvaluateDisabled` the device disabled. A minute that
came after the cycle took its time is ahead of it. An earlier minute than the last is
left out: it is the newest row of its device only when retention has removed all later
ones before it arrived. Below them
stands the reference: `Held` (a run beyond the trigger without a gap), `FiresAt`,
`Firing` and `Pending` are formulas about `seen`, not about the row.

### SensorAlerts

Variables are the tables (`rules`, `states`, `events`, `sensor_minute`,
`deviceEnabled`), the two id sequences, the owner of the advisory lock, and per
worker its program counter, the time of its cycle, the rest of its batch and what
the open transaction has read. `sensor_minute` has one metric, the one the rules
watch: `loadLatestObservation` filters on it, so rows without it do not count.

| action | code |
|---|---|
| `AcquireLock`, `StartCycle`, `LoadRules`, `LoadRulesFails`, `EndCycle` | `main`, `runCycle`, `evaluateRules`, `loadRules`; `now` is read before the rules are |
| `LoadState`, `LoadLatestObservation`, `CommitTx` | the statements of `evaluateDBRule`; `CommitTx` is `saveState`, `insertEvent` and `Commit`, atomic because nothing outside sees them earlier |
| `ForeignKeyViolation`, `TxFails` | its error returns: the transaction rolls back and the loop goes on |
| `Crash`, `DropLockSession` | the process ends (the container restarts it); the lock's session alone ends |
| `CreateRule`, `UpdateRule`, `DeleteRule` | the handlers; `DeleteRule` waits for a state row that a transaction has locked, cascades to it and sets the id of the events to NULL |
| `UpsertMinute`, `SyncDevice`, `RetainSensorMinute`, `RetainSensorAlertEvents`, `Tick` | collectors, maintenance and time |

A state row that does not exist locks nothing, as in PostgreSQL. A worker whose
lock session is lost does not notice, since `lockConn` is not used again.
`UpsertMinute` writes any minute up to the clock: new, late, or a second time.

### SensorRollup

`GROUP BY mac` and the metric columns are independent, so one metric of one
device stands for all. An average is kept as sum and count, which makes
`avg * count` exact; floating point rounding is left out. Rows of an older
version have no count (`OldRow`), and a bucket of nothing but such rows gets none either:
`sum` skips NULLs and is NULL where nothing else is left. The initial states are those of a first run
on an existing database: minutes from some time on, old rollups before it. The
three refreshes, retention and the cutoff are steps with their own clock; `Fail`
ends the run at any of them. The model assumes `Lookback =< RetainMinute`, true
of the defaults (48h, 336h) and of `compose.yaml` (336h both).

### RollupHistory

`unseen` holds for each table the minutes that were written since the table last read
them. `Write` adds a minute for all three tables; `Refresh` takes from the table it
writes what the statement reads (`Takes`): of the hourly table the minutes of the
window, of the other two the minutes of its hours, less those the hours have not taken
in themselves. No other step changes it, and no step is guarded by it.
`SeenBucketsAccurate` is the safety half of `CoveredBucketsBecomeAccurate`: when
nothing new is left to take in, a covered bucket is right, at every moment and not only
in the end.

### MinuteAggregation

`windows` is the map that the mutex protects. `collector.add` and a whole flush
hold the mutex, so each is one step; between them the two threads interleave
freely.

| action | code |
|---|---|
| `Connect`, `Disconnect`, `MqttDone` | `runWithReconnect` and the connection of `runMQTT` |
| `Message` | one reading of a decoded message; the `flush` state lasts until `flushPending` follows, so messages of several readings are interleaved with the poller |
| `FlushPending` | `flushPending`, after a message or at the tick |
| `StartPoll`, `ReadBattery`, `ReadFails`, `AddBattery`, `FlushPoll`, `Backfill`, `EndPoll`, `GattDone` | `pollGATTBattery` in its steps; when a poll is due is left open |
| `Signal`, `FlushAll`, `Exit`, `Crash` | the end of `main`, and the next process |

A write fails for any subset of the windows of a flush, and a write that reports
an error may have been done (`Outcome`); after the context is cancelled all
writes of the two threads fail, while the last flush has a context of its own. A
median is kept as the set of the one or two samples in the middle, whose mean the
code stores: this needs no sorting and no fractions, and equal sets are equal
medians. `heard` and `excused` are history: what was given to `add`, which
metrics have not been written since, whether the minute's window was opened a
second time, and which windows were lost where the program cannot help it.
`SingleWindowRowsAreMedians` is about minutes whose window was opened once and over
which no GATT history was written, because other rows are not the median of their
minute: a poll writes the window of the current minute, the readings after it open a
new one, and its median overwrites the row. A shutdown does the same, with
`flushAll` (`main.go:272`), although `docs/architecture.md` has it flush "final
completed aggregation windows". Timestamps of messages are at most `MaxDelay`
minutes old and never ahead of the clock. The median that a row is compared with
(`MedianHeard`) is that of all readings heard, less repetitions, and knows nothing of
windows.

### BleCollector

One loop, so there are no threads to interleave; what interleaves are the clock, the
server, the operator and the map order of the windows.

| action | code |
|---|---|
| `Poll`, `PollFails` | `poll`: `pollReadings`, `sanitizeReading`, `collector.add`, which skips a repetition |
| `FlushCompleted` | `flushCompleted` chooses the minutes that are over; they are written one by one in any order |
| `Written`, `WriteFails`, `WriteRefused` | `flush` of one window: medians, `filterMetric` of each metric, `UpsertMinute`; the filter's history is changed before the write, an error keeps the window |
| `Report` | the status report at the end of the round, over the same connection |
| `LoseSession`, `Signal`, `FlushAll`, `Exit`, `Crash` | the connection, which is never opened again; SIGTERM and the last flush, with a context of its own; the end of the process and the next one, which starts with nothing |

Samples are multiples of 4, so that the mean of two samples and the mean of two such
means are integers. The filter is modelled as it is: per metric the last accepted
values and one pending value with its minute. `log` is history: what was heard, what
the filter held back, which windows had a failed write, and which minutes a crash or a
restart cut in two.

### CiscoSpaces

`ProcessEvent` is the whole of `processEvent`: extraction with the check of
temperatures, the rolling windows, the last medians, the upload interval, the
freshness of each metric, and the recording of the upload, which comes before the
write. `Write` and `WriteFails` are `writeReading`; the handler takes no other event
until it is done. Timestamps are the records' own, up to `MaxSkew` behind or ahead of
the clock and in any order. `Restart` forgets everything. `uploaded` is history.

### SensorCollectors

`owner` is `devices.ingest_source`, `config` is `sensors.json`, `procs` the processes,
`lock` the session that holds the advisory lock, `status` one row per source. Times in
`status` are ticks before now, no more of them than the health rule tells apart, so
the clock is not bounded and liveness can be asked.

| action | code |
|---|---|
| `Load`, `EnsureDevice`, `EnsureFails`, `Started` | startup of the configured collectors: targets from `sensors.json`, `SyncDevice` of each, the end of the process when one belongs to another source |
| `FlushRow`, `Report` | a row is written and a success or a failure is reported |
| `StartFirehose` | `pg_try_advisory_lock` of the Cisco Spaces collector; a refused process ends |
| `Connect`, `ConnectFails`, `StreamEnds`, `Heartbeat`, `LateHeartbeat` | `streamWithReconnect` and its heartbeat goroutine; one that waits for the mutex when the stream ends reports success afterwards |
| `SyncReading`, `UpsertReading`, `UpsertFails` | `writeReading`: `SyncDevice`, then the row, under the mutex |
| `End`, `LoseSession`, `ServerDropsSession` | processes and connections end; the server frees the lock of a dead one later |
| `StopOld`, `UpdateOwner`, `EditConfig`, `StartNew` | the operator moves a device, in the order of `docs/architecture.md:85-95` |

### EnergyCollectors

A row is a time and a metric; what matters of it is who stored it last. Each collector
polls, decodes and stores one row per statement, over a connection of its own.
`Fetch` is the single answer of Nature Remo or apcupsd. ECHONET objects are asked in
turn (`Ask`), each with the next transaction id, of which there are `Tids` (65536 in
the code, a `uint16`) before they start again; the device answers late or never
(`Answer`), refuses, leaves properties out, or sends notifications (`Notify`);
`Receive` reads one frame of the socket and takes it, skips it or gives up. `End`
closes the socket, and the next process numbers its requests from the start, so that
answers to the old one may come to it. The import stores an export in batches, each
one transaction; it may stop at any of them and be run again, while the collectors
store the same rows. `DropChunks` is a run of the retention policy, between any two of
these steps: all rows before some chunk border go that is `Retention` or more before now;
where chunks end is left open. What a collector or the import stores afterwards under an
old time is there until the next run. `clock` is the latest time that a step has needed:
`Receive` and `DropChunks` read the time and let it pass, while a fetched time and those
of the export are anyone's.
`run`, `nr` and `eoj` of a request, and `used.asked`, are history: a request's number
says how late its answer is.

## What is checked

Every bound is a constant of a `.cfg`: `MaxTime` the clock, `MaxRules` the rules
ever created, `MaxFailures` failed statements, `MaxCrashes` worker crashes,
`MaxDrops` lost lock sessions, `MaxUpserts` minutes written, `MaxSeen`
measurements evaluated; `MaxMessages`, `MaxReadings` and `MaxEvents` what arrives;
`MaxPolls`, `MaxDisconnects`, `MaxSignals`, `MaxRestarts`, `MaxInfs` and `MaxImports`
polls, lost streams, shutdowns, restarts, notifications and runs of the import;
`MaxSkew` and `MaxDelay` how far a timestamp is off; `MaxFrames` the frames in a socket; `MaxFaults` everything that fails
in a module, counted together.

| run | shows |
|---|---|
| `AlertEvaluator_reference` | `StatusMatchesHistory`, `PendingSinceStartsRun`: built one measurement at a time, status and pending time are those of a definition over the whole sequence (a run *held* for the duration, with no gap, no dip and no clearing since). All sequences of up to 4 measurements in 5 minutes, three rules, fresh or stale, seen again, changed or missing, and the device disabled between any two cycles; a maximal age of 2 and durations 0, 2 and 4 make gaps, exact boundaries and restarts happen. |
| `SensorAlerts_lifecycle` | `EventsMatchState`, `EventsAlternate`, `FiringAlertHasEvent`, `FiringEndsByEvent`, `ResolvedAfterFired`, `StatesWellFormed`, `ImplementsLifecycle`, type invariant: a rule that is held for a minute, over three minutes with a hot and a cold value, with edits, delete, disabling, one failed statement, a worker that may lose its lock session, and retention of one minute for measurements and events, so that both are deleted under firing alerts. |
| `SensorAlerts_handover` | `SingleEvaluator`, `DisabledAlertResolves`, `EveryReadingEvaluated`: two workers and a crash, so the lock is handed over in every state of a cycle. |
| `RollupHistory_accuracy` | `CoveredBucketsBecomeAccurate`, `SeenBucketsAccurate`, `BeforeCutoffPreserved`, type invariant: hours of 2 minutes, a 12-hour table whose buckets are as long as the hourly ones, days of 4, a lookback and a retention of 4, two values, two late or new minutes with or without the metric, one failing run, 10 minutes: a minute is written between any two statements of a run, a run ends between any two of its tables, the window cuts every bucket size and retention cuts through hours and days. |
| `MinuteAggregation_windows` | `EveryReadingKept`, `PollSuccessMeansStored`, `SingleWindowRowsAreMedians`, `NothingErased`, `WindowsGetFlushed`, type invariant: two devices, the first one polled, two readings up to a minute late, one poll with history, one failing flush, one lost stream, one shutdown and one crash. |
| `BleCollector_filter` | `NoSampleLost`, `RowsAreMedians`, `SpikeNeedsFollowUpOrRetry`, type invariant: a metric with a threshold and one without, a usual value, a spike and a value out of range, three readings over four minutes, and any two of failed polls and writes, a lost session, a shutdown and a crash. The history is of two values and one is accepted unseen, so that a spike is judged at the second minute and confirmed or not at the third. |
| `CiscoSpaces_uploads` | `MediansAreCurrent`, `RowsUploadedOnce`, type invariant: five events in six ticks, a minute being two, each up to two ticks late or early, with a usual pair of values, a drop with the suspect humidity, a value alone and one out of range; a write that fails, done or not, and a restart. Windows of two samples fill and slide, so that a median of two samples of different times is uploaded, and one completed by an event of a later time is held back. |
| `SensorCollectors_collectors` | `OneFirehoseWriter`, `WritesOnlyByOwner`, `OwnerChangesByOperator`, `SilenceShows`, `DownStreamShows`, type invariant: a configured collector and two Cisco Spaces processes with one device, from every owner and every configuration, without a bound on the steps. |
| `EnergyCollectors_energy` | `SuccessIsStored`, `LateAnswersSkipped`, `ImportIsWhole`, type invariant: a collector that fetches two metrics, ECHONET with two objects, two polls, a notification, one fault, an export of three records with a duplicate in batches of two, imported twice, and a retention that may drop rows at any moment. Three transaction ids for four requests make them start again; rows of two minutes with a retention of no minutes are the two kinds there are, those it may have come to and those it has not, and the first batch has one of each. The socket holds one frame. |

Three runs end in a violation on purpose; each states a sentence of the
documentation that the code does not keep (`PROJECT.json`, "findings"):

* `SensorAlerts_moved_rule` (`DurationMeasuredOnDevice`): a `PUT` that moves a
  pending rule to another device lets it fire on that device's first measurement.
* `SensorRollup_partial_bucket` (`RebuildsOnlyCompleteBuckets`): the lookback is
  not aligned to buckets, so a refresh replaces a row by the average of its
  bucket's tail; as the window moves on, the last such value is what stays.
* `BleCollector_single_spike` (`SpikeNeedsFollowUp`): the filter judges a window
  again when its write is retried, finds the value it held back the first time, and
  takes it for the follow-up. `SpikeNeedsFollowUpOrRetry` is the part that holds.

Other things the code does, which the properties are worded around:

* The alert worker reads the newest row once per cycle, so an alert with a duration
  fires although a measurement in between was below its trigger.
* When the session of the worker's lock ends, its worker goes on and a second one may
  start (`docs/architecture.md:176` speaks of one evaluator). The properties of events
  are claimed only while no such session is lost; of more evaluators than one the
  theorem `RowsAlwaysWellFormed` alone speaks, and the run that checks
  `StatesWellFormed` has one worker.
* A firing alert is resolved by a measurement later than `last_value_at`, which is the
  last one looked at and not the latest: a `PUT` to another device, or a late row after
  retention has removed all newer ones, moves it back. `FiringEndsByEvent` compares
  with it, as the code does.
* A collector that has never reported has no row in `collector_status`, and
  `health/details` stays ok without it: `SilenceShows` is about those that have.
* While the Firehose is connected, a heartbeat clears a failed write within a minute.
* A configured collector ends at startup when Cisco Spaces has claimed one of its
  devices, and at every start after it.
* An event with a time far ahead holds back every upload of its device until then.
* The rolling windows of Cisco Spaces are of the last samples to arrive, whatever their
  times: with a window of two, samples of ticks 4 and 3 in this order give a median that
  is written under 3, and in a quiet metric an old sample stays in the window as long as
  no others come. `MediansAreCurrent` is about the event that completed the median.
* A notification of any ECHONET object is taken as the answer to the request that
  waits, and `SuccessIsStored` counts it as one. Transaction ids start again with the
  process, and within it after 65536 requests (`newTID`, a `uint16`): an answer that is
  that late, or comes to the next process, is taken for the one that waits.
  `LateAnswersSkipped` is about requests of one process and answers less late.
* The database of `compose.yaml` drops rows of `energy_readings` that are older than 14
  days, while the import by default starts in 1970: most of what it stores goes with the
  policy's next run, between two batches too, so that a batch may be there by halves and
  a finished import be gone. `ImportIsWhole` and `SuccessIsStored` are about the rows
  that are too young for it.

The bounds are small because the interesting cases are: an alert is created,
pending, firing and resolved within three measurements; one crash and one failed
statement reach every intermediate state of the worker; two workers are enough to
have one that holds the lock and one that waits; the rollup window crosses two
days and a bucket border of each size; two minutes have a window that is over,
a current one, and one that is flushed while a reading for it is still to come; a
window of the BLE collector fails once and is retried, before or after another one; two
requests are one that timed out and one that its answer may be mistaken for, and with
four of them and three ids the last gets the id of the first.
The socket of the ECHONET collector holds one frame in the run: a frame that would wait
behind it can stay with the device and arrive when the first is read, so that every
order in which frames are read occurs. The theorems have no such bound.
One rule is enough because a transaction touches only the rows of its own rule;
that a batch of several rules, and several workers that evaluate at once, change
nothing about it is what the theorems add. One device is enough for the collectors
because windows, history and rows of different devices never meet; of the ownership
of devices two sources are those that want a device and one of them has it.

`VIEW NewestRows` identifies states whose `sensor_minute` differs
only in rows that are not the newest of their device: the worker reads only the
newest row, an upsert of an older minute changes no newest row, and retention
deletes from the oldest on, so a deleted newest row leaves none. The run that uses
it checks no property that reads older rows. `VIEW WithoutStatus` leaves the status row
out of states of `BleCollector` and of `EnergyCollectors`, where nothing but the type
invariant reads it. `CHECK_DEADLOCK FALSE` is only in `CiscoSpaces_uploads` and `EnergyCollectors_energy`,
where all that may happen comes to its bounds: events, polls, faults, imports.

### Fairness

`FairSpec` of `SensorAlerts` assumes weak fairness of the worker's own steps: the
ticker keeps firing and a statement returns, and a crashed container is started
again (`restart: unless-stopped`). A state row that is locked belongs to a worker
that goes on. Nothing is assumed about clients, collectors or the clock, and
failures and crashes are bounded: a worker that crashes for ever evaluates
nothing. `FairSpec` of `SensorRollup`, and with
it `HistoryFairSpec`, assumes that `run-db-maint-loop` keeps
running the job. Runs may fail, a bounded number of times. `FairSpec` of
`MinuteAggregation` assumes that time passes, the broker is dialled again, the
flush ticker fires (`AggregateFlush`, 10 seconds by
default; 0 would switch it off) and
statements return; streams are lost and writes fail a bounded number of times,
without which nothing could be written. `FairSpec` of `SensorCollectors` assumes that
time passes and that `streamWithReconnect` tries again after its backoff, whether it
connects or not; nothing is assumed about processes, connections or the operator.

## What is proved

All of the safety properties the passing runs check are also theorems,
for all values of the constants, from the named assumptions of the
modules (`NilAssumption`, `HistoryAssumption`, `ConstantsAssumption`: `Nil` is no
value and no number, `NoRow` no number and no row, rules are ones the API validates, bounds are naturals, bucket sizes divide
each other, devices of `BleCollector` and objects of `EnergyCollectors` are finitely
many, samples of `BleCollector` and `CiscoSpaces` lie on a bounded grid).

| about | theorems | for |
|---|---|---|
| `SensorAlerts` | `TypeCorrect`, `RowsAlwaysWellFormed` | any number of workers, lost lock sessions included |
| | `OneEvaluator`, `EventsAlwaysMatchState`, `EventsAlwaysAlternate`, `FiringAlwaysHasEvent`, `ResolvedAlwaysAfterFired`, `FiringOnlyEndsByEvent`, `LifecycleImplemented` | the same under `LockKept` (`MaxDrops = 0`, no lock session is lost), without which two evaluators do insert two firing events |
| `AlertHistory` | `StatusAlwaysMatchesHistory`, `PendingAlwaysSinceRun` | any rule and any sequence of measurements |
| `SensorRollup` | `TypeCorrect`, `OldBucketsPreserved` | all values and bucket sizes that divide each other, any lookback and retention that is not shorter, any number of upserts and failed runs |
| `RollupHistory` | `HistoryTypeCorrect`, `SeenBucketsAlwaysAccurate`, `RecordOnlyWatches` | the same; the last says that every behaviour with the record is one of `SensorRollup` |
| `MinuteAggregation` | `AggregationTypeCorrect`, `ReadingsAlwaysKept`, `PollsAlwaysStored`, `RowsOfOneWindowAlwaysMedians`, `NothingEverErased` | any devices, metrics and values, any number of messages, polls, failed writes, lost streams, shutdowns and crashes |
| `BleCollector` | `TypeCorrect`, `SamplesNeverLost`, `RowsAlwaysMedians`, `SpikesNeedFollowUpOrRetry` | any devices, metrics, thresholds and history sizes, any number of faults |
| `CiscoSpaces` | `TypeCorrect`, `MediansAlwaysCurrent` | any devices, metrics, window sizes, intervals, events |
| | `EachRowUploadedOnce` | the same where the upload interval is a minute or more (the default is a minute) |
| `SensorCollectors` | `TypeCorrect`, `OneWriterOfFirehose`, `OwnersChangedByOperatorOnly`, `RowsWrittenByOwner`, `ShownDownStreamStays` | any processes, sources and devices |
| `EnergyCollectors` | `TypeCorrect`, `SuccessAlwaysStored`, `ImportAlwaysWhole`, `LateAnswersAlwaysSkipped` | any collectors, objects, exports, batch sizes and retention, any number of transaction ids, polls, answers, notifications and restarts |

The arguments, module by module:

**SensorAlerts.** `IInv` has six parts. The rows are well
formed (`RowsInv`), which includes what an open transaction has read. An active
worker holds the lock (`LockHeld`), so all others have nothing open. Ids of
events are below the sequence and unique, and a rule that does not exist has
neither state nor events (`KeysInv`). What the transaction has read is still the
state row (`TxInv`): the step that would break it, a delete, waits for the row's
lock, and when no row was there to lock, the rule's absence makes the commit
fail. Times of events lie in the past of the running cycle (`TimeInv`), which
makes retention cut the log at its old end. Then the log of each rule
alternates and its newest event fits the status (`Story`). The three event
invariants are not inductive without `TxInv`: a commit computed from an old row
would write a second firing event.

`ResolvedAlwaysAfterFired` adds that no alert has fired later than the cycle that is
running (`FiredInv`), and `FiringOnlyEndsByEvent` that a pending or firing alert has
the time of a measurement (`DatedInv`). The refinement maps `rules` and `states` to the abstract
`alert` and the events, less their payload, to the abstract `log`: each action is a
step of `AlertLifecycle` or leaves both unchanged.

**AlertHistory.** `HistoryInv` says that the measurements are in the order of their
times and the row names the last (`InOrder`), that the fresh ones have a last one
(`SomeLast`), and the two properties themselves, which need each other: whether the
next measurement fires is decided by the row's pending time, and the reference asks
for some run long enough. Since the row's run is the longest that is held, both say
the same. A gap or a cooler measurement ends all runs that are held at once.

**SensorRollup.** The cutoff starts a day, so it starts a bucket of every size, and no
row at or after it lies in an earlier bucket: integer arithmetic of buckets.

**RollupHistory.** `AccuracyInv` adds to `SeenBucketsAccurate` that the coarse tables
took in no minute the hours have not, and that nothing is taken in before the first
cutoff (`UnseenInv`), and that an hour with a counted row has minutes unless retention
may have removed them (`HoursHaveMinutes`; without it a day could count an hour whose
minutes nobody has). A refresh makes each bucket accurate that it covers and has taken
in (`HourRefreshed`, `CoarseRefreshed`), and a bucket stays accurate while none of its
minutes changes (`AccurateKept`); as the window moves on, what it covers was covered
before (`WindowMoves`). That a coarse row is right though no minute was read for it rests on `SumOfParts` of
`NumberLemmas`: the sum over a bucket is that of the sums over its hours, since hours
partition it (`BucketsNest`). `NumberLemmas` proves this of the community modules' fold:
any element may be taken first (`SumRemove`), so disjoint parts add up (`SumDisjoint`).
Induction over the subsets of a finite set is `AllSubsets`: the subsets for which a claim
holds are a set, of whose complement the smallest has all smaller ones in it. This needs
no theorem with an operator as its parameter.

**MinuteAggregation.** `AggregationInv` adds to the properties: what the last reading
of a window held has been sampled (`LastSampled`; without it a repeated reading,
which `add` skips, might never have been counted); after the last flush both
threads are gone and what is left in a window is lost (`FlushedIsOver`); and the
level of a poll is stored or in its window from `add` to the flush (`PollKept`),
whichever thread takes the window. For the medians, `MediansInv` keeps for every open
window a bijection from its samples to the readings that count (`Origins`), so that
both have the same number below and above each value, and says that its row has no
metric the window has not: a write that was done and reported an error stores a
median that the next write replaces.

**BleCollector.** `Sound` has seven parts, of which four carry the argument: a window
has exactly the samples heard since the last cut (`WindowHasAll`); no window is ahead
of the clock (`NoWindowAhead`), so one that is flushed gets no more samples
(`TodoClosed`) and a row that is written is final (`RowsClosed`); and each median that
is gone from the windows is in the table or with the filter (`NothingLost`). That a
value held back is judged by its own retry only where a write failed is
`PendingHeard`, which the run `BleCollector_single_spike` shows cannot be left out.
All of it needs that the median of samples exists and lies between them
(`MedianInBounds` of `NumberLemmas`).

**CiscoSpaces.** `UploadInv` keeps the uploaded rows in the minute of the last upload
or before, so that an upload an interval later has a row of its own. `SpacesInv` adds
`MetricsHeldBack`: a metric is measured by an event that uploads, or that an upload
less than an interval before holds back, and so is never as late as an interval after
the last upload. With the check of freshness this bounds from both sides the time of the
event that completed a median of the row (`MediansAreCurrent`), though not the times of
the other samples in the window.

**SensorCollectors.** `OneWriterOfFirehose` follows from `LockHeld` (a connected Cisco
Spaces process holds the lock, since it is its connection that does). `Owned` says that
what a process has synchronised, or is about to write, belongs to its source: claims
take only devices nobody owns, and the operator's `UPDATE` waits until the processes
of the old source are down. `ShownDownStreamStays` is the step that
`DownStreamShows` needs, the action property `DownStreamStaysShown`: rows are only
written by a handler of the stream (`RowsOfStream`), and of the processes that report
for Cisco Spaces the lock leaves one.

**EnergyCollectors.** `RequestInv` says of each request of the running process that its
transaction id and the number of requests since add up to the last id, but for whole
turns of `Tids` (`RequestOK`), so that one of fewer than `Tids` requests ago with the
last id is the last request; an answer that comes to the next process was asked by an
earlier run. `PollsSound` says of a poll under way that each of its rows is in the table,
still to be stored or old, and that each object was asked or is still to be. `ImportInv`
says that the import stands at the start of a batch (`AtBatch`), that all batches before
it are stored, by it or by whoever came after (`Through`), and that a batch of which one
row is in the table is there as a whole (`WholeBatches`); batches are disjoint.
`PollsSound` and the last two speak of the young rows. Since time does not go back, a row
that is young after a step was so before it (`YoungBefore`), and the retention drops no
young row (`Dropped`), so that no step takes one away (`Lasting`).

Only model-checked: the liveness properties (`DisabledAlertResolves`,
`EveryReadingEvaluated`, `CoveredBucketsBecomeAccurate`, `WindowsGetFlushed`,
`SilenceShows`, `DownStreamShows`; fairness and `ENABLED` are out of the prover's
reach), and the safety properties of the runs that end in a violation.

## Not modelled

* The MQTT client: the framing of packets under a read deadline of a second
  (`mqtt.go:56`) and the handshake without one (`mqtt.go:86`). `MinuteAggregation`
  has what they mean for the windows, a stream that ends or does not come up.
* Payload decoders (protobuf, BLE payloads, ECHONET properties): pure functions of
  one message that unit tests cover. The models choose what they may return.
* Migrations: a one-shot tool. It takes no lock between the check of
  `schema_migrations` and its transaction, so two migrators may apply one file.
* Read-only queries, but for the rule of `health/details`; operator tools, probes and
  web pages; the environment's configuration; dry runs and secondary processes of
  the Cisco Spaces collector; the discovery of ECHONET objects; GATT control sessions.
* Nature Remo labels every value of an appliance with the newest of its update times:
  `Fetch` gives one time to all rows, whichever it is.
* When a lasting drop of more than three degrees is accepted by Cisco Spaces
  (`processor.go:133-137`): the rule is modelled, no property says when it must.
* What else TimescaleDB does by its options: the continuous aggregates of
  `energy_readings` with their policies, and the columnstore (the retention policy of the
  table is modelled, `DropChunks`). Serialisation failures and clock steps backwards.
  Everything runs under READ COMMITTED with one statement per step. That a COMMIT
  was done and its answer lost is modelled where a write is retried, and not in the
  alert worker.

## Plan

The parts whose state can go wrong between two steps are modelled, and the safety
properties of the passing runs are proved. What is left:

1. `AlertHistory` joined to `SensorAlerts`: that the worker's steps on one rule, between
   two edits, are steps of `AlertHistory`. The measurements a rule was evaluated with
   would be a history variable of the composition.
2. `CiscoSpaces`: how long a lasting drop may stay rejected (`processor.go:137`), once
   the documentation says for how long it should.
