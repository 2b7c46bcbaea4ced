---------------------------- MODULE BleCollector ----------------------------
(***************************************************************************)
(* cmd/hm-ble-collector: one loop that polls BlueZ, collects the readings  *)
(* of a minute, filters the median of each metric and writes the row, over *)
(* one database connection that is never opened again.                     *)
(*                                                                         *)
(* Values are numbers scaled so that means of two samples, and of two such *)
(* means, are integers.                                                    *)
(***************************************************************************)
EXTENDS Samples, CollectorStatus

CONSTANTS
    Devices,            \* enabled targets
    Metrics,            \* metric columns
    Threshold,          \* metric -> outlier threshold, 0 where there is none
    Values,             \* what a payload may decode to
    Sensible,           \* the values within the range of sanitizeReading
    Advertisements,     \* what a payload may hold: metric -> value or Nil
    HistorySize,        \* BLE_OUTLIER_HISTORY_SIZE
    MinAccepted,        \* values accepted unseen before the filter judges, 3
    ConfirmWindow,      \* BLE_OUTLIER_CONFIRM_WINDOW, in minutes
    MaxTime,            \* bound: the clock
    MaxReadings,        \* bound: readings that are not repetitions
    MaxFaults           \* bound: failed polls and writes, lost sessions, SIGTERMs,
                        \* crashes, all together

Times   == 0..MaxTime
Reading == [Metrics -> Values \cup {Nil}]

ASSUME ConstantsAssumption ==
    /\ Values \subseteq {4 * n : n \in -100..100}
    /\ Sensible \subseteq Values
    /\ Threshold \in [Metrics -> Nat]
    /\ Advertisements \subseteq Reading
    /\ {HistorySize, MinAccepted} \subseteq Nat \ {0}
    /\ {ConfirmWindow, MaxTime, MaxReadings, MaxFaults} \subseteq Nat
    /\ Nil \notin Int /\ IsFiniteSet(Devices)

VARIABLES
    clock,              \* minutes
    sensor_minute,      \* [Devices -> [Times -> row: metric -> value or Nil]]
    status,             \* this collector's row of collector_status
    windows,            \* collector.windows, NoWindow when there is none
    history,            \* collector.metricHistory
    main,               \* the loop and the database session
    used,               \* how often the bounded things happened
    log                 \* history: what was heard, what the filter was given and
                        \* held back, whose writes failed, what a crash or a restart
                        \* cut short

vars == <<clock, sensor_minute, status, windows, history, main, used, log>>

Minutes == Devices \X Times

NoWindow == [last |-> Nil, samples |-> [k \in Metrics |-> <<>>]]

Window == [last : Reading \cup {Nil}, samples : [Metrics -> Seq(Sensible)]]

NoPending == [value |-> Nil, ts |-> Nil]

NoHistory == [accepted |-> <<>>, pending |-> NoPending]

\* waiting: in the select; polled: the readings of a poll are added; flushing and
\* stopping: the windows todo are left to flushCompleted and to flushAll.
MainState ==
    [pc        : {"waiting", "polled", "flushing", "stopping"},
     todo      : SUBSET Minutes,
     failed    : BOOLEAN,
     cancelled : BOOLEAN,
     session   : {"up", "lost"}]

Waiting == [pc |-> "waiting", todo |-> {}, failed |-> FALSE,
            cancelled |-> FALSE, session |-> "up"]

Numbers == -400..400

TypeOK ==
    /\ clock \in Times
    /\ sensor_minute \in [Devices -> [Times -> [Metrics -> Numbers \cup {Nil}]]]
    /\ status \in Row(Times) \cup {NoRow}
    /\ windows \in [Devices -> [Times -> Window]]
    /\ \A m \in Devices, k \in Metrics :
          /\ history[m][k].accepted \in Seq(Numbers)
          /\ Len(history[m][k].accepted) =< HistorySize
          /\ history[m][k].pending \in [value : Numbers, ts : Times] \cup {NoPending}
    /\ main \in MainState
    /\ used \in [readings : Nat, faults : Nat]
    /\ log \in [heard : [Devices -> [Times -> [Metrics -> Seq(Sensible)]]],
                held : SUBSET (Minutes \X Metrics), retried : SUBSET Minutes,
                cut : SUBSET Minutes]

Init ==
    /\ clock = 0
    /\ sensor_minute = [m \in Devices |-> [t \in Times |-> [k \in Metrics |-> Nil]]]
    /\ status = NoRow
    /\ windows = [m \in Devices |-> [t \in Times |-> NoWindow]]
    /\ history = [m \in Devices |-> [k \in Metrics |-> NoHistory]]
    /\ main = Waiting
    /\ used = [readings |-> 0, faults |-> 0]
    /\ log = [heard   |-> [m \in Devices |-> [t \in Times |-> [k \in Metrics |-> <<>>]]],
              held    |-> {}, retried |-> {}, cut |-> {}]

Tick ==
    /\ clock < MaxTime
    /\ clock' = clock + 1
    /\ UNCHANGED <<sensor_minute, status, windows, history, main, used, log>>

Fault == used.faults < MaxFaults /\ used' = [used EXCEPT !.faults = @ + 1]

-----------------------------------------------------------------------------
(* The outlier filter.                                                     *)

Near(v, w, k) == v - w \in -Threshold[k]..Threshold[k]

\* acceptMetric
Accept(h, v) ==
    [accepted |-> LastOf(Append(h.accepted, v), HistorySize), pending |-> NoPending]

Confirmed(h, k, t, v) ==
    /\ h.pending # NoPending
    /\ t - h.pending.ts =< ConfirmWindow
    /\ Near(v, h.pending.value, k)

\* Mutant: the value is made pending before it is compared with the pending one.
FilterMetricSwapped(h, k, t, v) ==
    LET held == [h EXCEPT !.pending = [value |-> v, ts |-> t]] IN
    IF v = Nil \/ Threshold[k] = 0 THEN [value |-> v, history |-> h]
    ELSE IF Len(h.accepted) < MinAccepted \/ Near(v, Median(h.accepted), k)
    THEN [value |-> v, history |-> Accept(h, v)]
    ELSE IF Confirmed(held, k, t, v)
    THEN [value |-> v, history |-> Accept(Accept(h, v), v)]
    ELSE [value |-> Nil, history |-> held]

FilterMetric(h, k, t, v) ==
    IF v = Nil \/ Threshold[k] = 0 THEN [value |-> v, history |-> h]
    ELSE IF Len(h.accepted) < MinAccepted \/ Near(v, Median(h.accepted), k)
    THEN [value |-> v, history |-> Accept(h, v)]
    ELSE IF Confirmed(h, k, t, v)
    THEN [value |-> v, history |-> Accept(Accept(h, h.pending.value), v)]
    ELSE [value |-> Nil, history |-> [h EXCEPT !.pending = [value |-> v, ts |-> t]]]

-----------------------------------------------------------------------------
(* Polls and windows.                                                      *)

\* Mutant: no range is checked.
SanitizeNothing(r) == r

SanitizeReading(r) == [k \in Metrics |-> IF r[k] \in Sensible THEN r[k] ELSE Nil]

Extended(samples, r) ==
    [k \in Metrics |-> IF r[k] = Nil THEN samples[k] ELSE Append(samples[k], r[k])]

\* Statements succeed: flushAll has a context of its own.
Connected == main.session = "up" /\ (main.pc = "stopping" \/ ~main.cancelled)

\* pollReadings, and add for each of its readings; a repetition adds nothing.
\* A select may prefer the ticker to a context that is done.
Poll(readings) ==
    LET r(m)   == SanitizeReading(readings[m])
        New    == {m \in Devices : readings[m] # Nil /\ r(m) # windows[m][clock].last}
    IN  /\ main.pc = "waiting"
        /\ used.readings + Cardinality(New) =< MaxReadings
        /\ used' = [used EXCEPT !.readings = @ + Cardinality(New)]
        /\ windows' = [m \in Devices |-> IF m \notin New THEN windows[m] ELSE
              [windows[m] EXCEPT ![clock] =
                    [last |-> r(m), samples |-> Extended(@.samples, r(m))]]]
        /\ log' = [log EXCEPT !.heard =
              [m \in Devices |-> IF m \notin New THEN log.heard[m] ELSE
                  [log.heard[m] EXCEPT ![clock] = Extended(@, r(m))]]]
        /\ main' = [main EXCEPT !.pc = "polled"]
        /\ UNCHANGED <<clock, sensor_minute, status, history>>

\* The failure is reported and nothing is flushed.
PollFails ==
    /\ main.pc = "waiting"
    /\ Fault
    /\ status' = IF Connected THEN MarkFailure(status, clock) ELSE status
    /\ UNCHANGED <<clock, sensor_minute, windows, history, main, log>>

Pending == {w \in Minutes : windows[w[1]][w[2]] # NoWindow}

\* Mutant: the current minute too.
CompletedOrCurrent == {w \in Pending : w[2] =< clock}

Completed == {w \in Pending : w[2] < clock}

\* time.Now() is read after the readings were added.
FlushCompleted ==
    /\ main.pc = "polled"
    /\ main' = [main EXCEPT !.pc = "flushing", !.todo = Completed, !.failed = FALSE]
    /\ UNCHANGED <<clock, sensor_minute, status, windows, history, used, log>>

Medians(w) ==
    [k \in Metrics |-> LET samples == windows[w[1]][w[2]].samples[k]
                       IN  IF samples = <<>> THEN Nil ELSE Median(samples)]

Filtered(w) == [k \in Metrics |-> FilterMetric(history[w[1]][k], k, w[2], Medians(w)[k])]

\* The filter leaves nothing to write.
Empty(w) == \A k \in Metrics : Filtered(w)[k].value = Nil

\* Mutant: a window is deleted although its write failed.
FlushAndDelete(w, done, error) ==
    LET m == w[1] t == w[2] f == Filtered(w) IN
    /\ history' = [history EXCEPT ![m] = [k \in Metrics |-> f[k].history]]
    /\ sensor_minute' = IF ~done THEN sensor_minute ELSE [sensor_minute EXCEPT ![m][t] =
            [k \in Metrics |-> IF f[k].value = Nil THEN @[k] ELSE f[k].value]]
    /\ windows' = [windows EXCEPT ![m][t] = NoWindow]
    /\ log' = [log EXCEPT
            !.held    = @ \cup {<<w, k>> : k \in {k \in Metrics : f[k].value # Medians(w)[k]}},
            !.retried = IF error THEN @ \cup {w} ELSE @]

\* flush: the filter has judged the values whether the write is done or not, and
\* an error keeps the window for a later flush.
Flush(w, done, error) ==
    LET m == w[1] t == w[2] f == Filtered(w) IN
    /\ history' = [history EXCEPT ![m] = [k \in Metrics |-> f[k].history]]
    /\ sensor_minute' = IF ~done THEN sensor_minute ELSE [sensor_minute EXCEPT ![m][t] =
            [k \in Metrics |-> IF f[k].value = Nil THEN @[k] ELSE f[k].value]]
    /\ windows' = IF error THEN windows ELSE [windows EXCEPT ![m][t] = NoWindow]
    /\ log' = [log EXCEPT
            !.held    = @ \cup {<<w, k>> : k \in {k \in Metrics : f[k].value # Medians(w)[k]}},
            !.retried = IF error THEN @ \cup {w} ELSE @]

Flushed(w, error) ==
    [main EXCEPT !.todo = @ \ {w}, !.failed = @ \/ error]

\* The next window in map order needs no write, or is written.
Written(w) ==
    /\ w \in main.todo
    /\ Empty(w) \/ Connected
    /\ Flush(w, ~Empty(w), FALSE)
    /\ main' = Flushed(w, FALSE)
    /\ UNCHANGED <<clock, status, used>>

\* The write reports an error, done or not.
WriteFails(w, done) ==
    /\ w \in main.todo
    /\ ~Empty(w)
    /\ Connected
    /\ Flush(w, done, TRUE)
    /\ Fault
    /\ \/ main' = Flushed(w, TRUE)
       \/ main' = [Flushed(w, TRUE) EXCEPT !.session = "lost"]
          \* pgx closes the connection when a context ends during a statement.
       \/ /\ ~main.cancelled
          /\ main' = [Flushed(w, TRUE) EXCEPT !.session = "lost", !.cancelled = TRUE]
    /\ UNCHANGED <<clock, status>>

\* Without a session, or with a context that is done, every write fails.
WriteRefused(w) ==
    /\ w \in main.todo
    /\ ~Empty(w)
    /\ ~Connected
    /\ Flush(w, FALSE, TRUE)
    /\ main' = Flushed(w, TRUE)
    /\ UNCHANGED <<clock, status, used>>

\* The report of a round, which needs the same session.
Report ==
    /\ main.pc = "flushing"
    /\ main.todo = {}
    /\ status' = IF ~Connected THEN status
                 ELSE IF main.failed THEN MarkFailure(status, clock)
                 ELSE MarkSuccess(status, clock)
    /\ main' = [main EXCEPT !.pc = "waiting"]
    /\ UNCHANGED <<clock, sensor_minute, windows, history, used, log>>

-----------------------------------------------------------------------------
(* The process and its session.                                            *)

\* The server ends the session between two statements.
LoseSession ==
    /\ main.session = "up"
    /\ Fault
    /\ main' = [main EXCEPT !.session = "lost"]
    /\ UNCHANGED <<clock, sensor_minute, status, windows, history, log>>

Signal ==
    /\ ~main.cancelled
    /\ Fault
    /\ main' = [main EXCEPT !.cancelled = TRUE]
    /\ UNCHANGED <<clock, sensor_minute, status, windows, history, log>>

\* flushAll, incomplete minutes included.
FlushAll ==
    /\ main.pc = "waiting"
    /\ main.cancelled
    /\ main' = [main EXCEPT !.pc = "stopping", !.todo = Pending]
    /\ UNCHANGED <<clock, sensor_minute, status, windows, history, used, log>>

\* The next process starts with nothing; what is open, and the current minute,
\* does not go through one window.
Restart ==
    /\ windows' = [m \in Devices |-> [t \in Times |-> NoWindow]]
    /\ history' = [m \in Devices |-> [k \in Metrics |-> NoHistory]]
    /\ main' = Waiting
    /\ log' = [log EXCEPT !.cut = @ \cup Pending \cup (Devices \X {clock})]
    /\ UNCHANGED <<clock, sensor_minute, status>>

Exit == main.pc = "stopping" /\ main.todo = {} /\ Restart /\ UNCHANGED used

Crash == Fault /\ Restart

-----------------------------------------------------------------------------
FlushStep ==
    \E w \in main.todo : Written(w) \/ WriteRefused(w) \/ \E done \in BOOLEAN : WriteFails(w, done)

PollStep == \E readings \in [Devices -> Advertisements \cup {Nil}] : Poll(readings)

Next ==
    \/ Tick
    \/ PollStep \/ PollFails
    \/ FlushCompleted \/ FlushStep \/ Report
    \/ LoseSession \/ Signal \/ FlushAll \/ Exit \/ Crash

Spec == Init /\ [][Next]_vars

-----------------------------------------------------------------------------
(* Properties.                                                             *)

\* A sample of a metric is in its window, was written, or was held back by the
\* filter: failed writes and a shutdown whose writes succeed lose none.
NoSampleLost ==
    \A w \in Minutes, k \in Metrics :
        log.heard[w[1]][w[2]][k] # <<>> /\ w \notin log.cut
        => \/ windows[w[1]][w[2]].samples[k] # <<>>
           \/ sensor_minute[w[1]][w[2]][k] # Nil
           \/ <<w, k>> \in log.held

\* A stored value is the median of all that was heard in its minute, however often
\* the minute was flushed, unless the process changed in it.
RowsAreMedians ==
    \A w \in Minutes \ log.cut, k \in Metrics :
        sensor_minute[w[1]][w[2]][k] # Nil
        => sensor_minute[w[1]][w[2]][k] = Median(log.heard[w[1]][w[2]][k])

\* Another minute, not too long before, was similar.
FollowsUp(w, k, v) ==
    \E u \in Times \ {w[2]} :
        /\ w[2] - u =< ConfirmWindow
        /\ log.heard[w[1]][u][k] # <<>>
        /\ Near(v, Median(log.heard[w[1]][u][k]), k) \/ <<w[1], u>> \in log.cut

\* Row w of metric k is written with a value far from what was accepted before.
StoresOutlier(w, k) ==
    LET v == sensor_minute'[w[1]][w[2]][k] IN
    /\ v # sensor_minute[w[1]][w[2]][k]
    /\ Threshold[k] > 0
    /\ Len(history[w[1]][k].accepted) >= MinAccepted
    /\ ~Near(v, Median(history[w[1]][k].accepted), k)

\* docs/architecture.md: a value beyond its threshold is "held as pending and
\* accepted only when a similar follow-up arrives within the confirmation window".
SpikeNeedsFollowUp ==
    [][\A w \in Minutes, k \in Metrics :
        StoresOutlier(w, k) => FollowsUp(w, k, sensor_minute'[w[1]][w[2]][k])]_vars

\* So it is where no write of that minute has failed.
SpikeNeedsFollowUpOrRetry ==
    [][\A w \in Minutes, k \in Metrics :
        StoresOutlier(w, k) =>
            w \in log.retried \/ FollowsUp(w, k, sensor_minute'[w[1]][w[2]][k])]_vars
=============================================================================
