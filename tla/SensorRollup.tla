---------------------------- MODULE SensorRollup ----------------------------
(***************************************************************************)
(* cmd/hm-db-maint: the hourly job that aggregates sensor_minute into      *)
(* sensor_1hour, and that into sensor_12hour and sensor_1day, and then     *)
(* removes old minutes.  Every statement is a step of its own with its own *)
(* now(), between the upserts of the collectors.                           *)
(*                                                                         *)
(* GROUP BY mac and the metric columns are independent: one metric of one  *)
(* device stands for all.  An average is kept as sum and count, so that    *)
(* avg * count is exact; rounding is left out.                             *)
(***************************************************************************)
EXTENDS Integers, FiniteSets, FiniteSetsExt

CONSTANTS
    Nil,              \* SQL NULL
    NoRow,            \* no row with this ts
    Values,           \* metric values of a minute
    Hour,             \* minutes per bucket of the three tables
    HalfDay,
    Day,
    Lookback,         \* DB_MAINT_REFRESH_LOOKBACK
    RetainMinute,     \* DB_MAINT_RETAIN_MINUTE
    Start,            \* the clock when the first run starts
    MaxTime,          \* bound: the clock
    MaxUpserts,       \* bound: minutes written from then on
    MaxFailures       \* bound: runs that end with an error

Times   == 0..MaxTime
Targets == {"sensor_1hour", "sensor_12hour", "sensor_1day"}
Length  == [sensor_1hour |-> Hour, sensor_12hour |-> HalfDay, sensor_1day |-> Day]

\* time_bucket
Bucket(length, t) == t - (t % length)

Row == [sum : Int, count : Nat]

\* The sizes nest, and no refresh looks further back than retention keeps:
\* 48h and 336h by default, 336h both in compose.yaml.
ASSUME ConstantsAssumption ==
    /\ Hour \in Nat \ {0} /\ HalfDay \in Nat \ {0} /\ Day \in Nat \ {0}
    /\ HalfDay % Hour = 0 /\ Day % Hour = 0 /\ Day % HalfDay = 0
    /\ Values \subseteq Int /\ Nil \notin Int /\ NoRow \notin Int \cup Row /\ NoRow # Nil
    /\ Lookback \in Nat /\ RetainMinute \in Nat /\ Lookback =< RetainMinute
    /\ MaxTime \in Nat /\ Start \in Times
    /\ MaxUpserts \in Nat /\ MaxFailures \in Nat

VARIABLES
    clock,            \* minutes
    sensor_minute,    \* [Times -> Values, Nil (row without the metric) or NoRow]
    rollup,           \* [Targets -> [Times -> row or NoRow]]
    accuracy_cutoff,  \* rollup_accuracy_state, Nil before the first run
    pc,               \* what hm-db-maint does next
    upserts, failures

vars == <<clock, sensor_minute, rollup, accuracy_cutoff, pc, upserts, failures>>

\* An average of an older version of the program, which kept no counts, and what
\* is merged from such rows alone.
OldRow == [sum |-> Nil, count |-> Nil]

Step == {"sleep", "cutoff"} \cup Targets \cup {"retain"}

TypeOK ==
    /\ clock \in Times
    /\ sensor_minute \in [Times -> Values \cup {Nil, NoRow}]
    /\ \A target \in Targets, t \in Times :
          /\ rollup[target][t] \in Row \cup {OldRow, NoRow}
          /\ rollup[target][t] # NoRow => t % Length[target] = 0
    /\ accuracy_cutoff \in Nat \cup {Nil}
    /\ pc \in Step
    /\ upserts \in 0..MaxUpserts
    /\ failures \in 0..MaxFailures

\* The first run finds minutes from some time on, and rollups of the older
\* version for everything before them.
Init ==
    /\ clock = Start
    /\ \E oldest \in 0..Start, v \in Values :
          /\ sensor_minute = [t \in Times |-> IF t = oldest THEN v ELSE NoRow]
          /\ rollup = [target \in Targets |-> [t \in Times |->
                          IF t < oldest /\ t % Length[target] = 0 THEN OldRow ELSE NoRow]]
    /\ accuracy_cutoff = Nil
    /\ pc = "sleep"
    /\ upserts = 0
    /\ failures = 0

-----------------------------------------------------------------------------
Tick ==
    /\ clock < MaxTime
    /\ clock' = clock + 1
    /\ UNCHANGED <<sensor_minute, rollup, accuracy_cutoff, pc, upserts, failures>>

\* sensorstore.UpsertMinute, at any minute up to now: COALESCE keeps the value
\* of a row when the new reading lacks the metric.
UpsertMinute(t, v) ==
    /\ t =< clock
    /\ upserts < MaxUpserts
    /\ upserts' = upserts + 1
    /\ sensor_minute' = [sensor_minute EXCEPT ![t] = IF v = Nil /\ @ # NoRow THEN @ ELSE v]
    /\ UNCHANGED <<clock, rollup, accuracy_cutoff, pc, failures>>

-----------------------------------------------------------------------------
\* run-db-maint-loop starts the program again.
Wake ==
    /\ pc = "sleep"
    /\ pc' = "cutoff"
    /\ UNCHANGED <<clock, sensor_minute, rollup, accuracy_cutoff, upserts, failures>>

MinuteRows == {t \in Times : sensor_minute[t] # NoRow}

\* COALESCE(min(ts), now())
IsOldest(t) ==
    IF MinuteRows = {} THEN t = clock ELSE t \in MinuteRows /\ \A u \in MinuteRows : t =< u

\* Mutant: the cutoff is the oldest minute itself.
EnsureCutoffAtOldest ==
    /\ pc = "cutoff"
    /\ \E oldest \in Times :
          /\ IsOldest(oldest)
          /\ accuracy_cutoff' = IF accuracy_cutoff = Nil THEN oldest ELSE accuracy_cutoff
    /\ pc' = "sensor_1hour"
    /\ UNCHANGED <<clock, sensor_minute, rollup, upserts, failures>>

\* The first full day after the oldest minute; set once.
EnsureAccuracyCutoff ==
    /\ pc = "cutoff"
    /\ \E oldest \in Times :
          /\ IsOldest(oldest)
          /\ accuracy_cutoff' = IF accuracy_cutoff = Nil THEN Bucket(Day, oldest) + Day
                                                         ELSE accuracy_cutoff
    /\ pc' = "sensor_1hour"
    /\ UNCHANGED <<clock, sensor_minute, rollup, upserts, failures>>

\* A source row as sum and count: avg(column) and count(column) skip NULLs.
Sample(v) == IF v = Nil THEN [sum |-> 0, count |-> 0] ELSE [sum |-> v, count |-> 1]

Source(target) ==
    IF target = "sensor_1hour"
    THEN [t \in Times |-> IF sensor_minute[t] = NoRow THEN NoRow ELSE Sample(sensor_minute[t])]
    ELSE rollup["sensor_1hour"]

Counted(source, S) == {t \in S : source[t].count # Nil}

\* Mutant: the rows of the source count, not their samples.
MergedUnweighted(source, S) ==
    IF Counted(source, S) = {} THEN OldRow
    ELSE [sum   |-> MapThenSumSet(LAMBDA t : source[t].sum, Counted(source, S)),
          count |-> Cardinality(S)]

\* The average over the rows S of source, each weighted by its count: sum()
\* skips NULLs, and is NULL where there is nothing else.
Merged(source, S) ==
    IF Counted(source, S) = {} THEN OldRow
    ELSE [sum   |-> MapThenSumSet(LAMBDA t : source[t].sum, Counted(source, S)),
          count |-> MapThenSumSet(LAMBDA t : source[t].count, Counted(source, S))]

\* GREATEST(now() - lookback, cutoff), which cuts through buckets.
From ==
    IF clock - Lookback > accuracy_cutoff THEN clock - Lookback ELSE accuracy_cutoff

\* Mutant: rows keep their own ts instead of time_bucket's.
InBucketUngrouped(target, b) ==
    {t \in Times : Source(target)[t] # NoRow /\ t >= From /\ t = b}

\* Mutant: the window starts after its first minute.
InBucketAfterFrom(target, b) ==
    {t \in Times : /\ Source(target)[t] # NoRow
                   /\ t > From
                   /\ Bucket(Length[target], t) = b}

\* The source rows of bucket b that the WHERE clause lets through.
InBucket(target, b) ==
    {t \in Times : /\ Source(target)[t] # NoRow
                   /\ t >= From
                   /\ Bucket(Length[target], t) = b}

NextStep ==
    [sensor_1hour |-> "sensor_12hour", sensor_12hour |-> "sensor_1day", sensor_1day |-> "retain"]

\* INSERT ... SELECT ... GROUP BY bucket ... ON CONFLICT DO UPDATE
RefreshRollup(target) ==
    /\ pc = target
    /\ rollup' = [rollup EXCEPT ![target] = [b \in Times |->
                    IF InBucket(target, b) = {} THEN @[b]
                    ELSE Merged(Source(target), InBucket(target, b))]]
    /\ pc' = NextStep[target]
    /\ UNCHANGED <<clock, sensor_minute, accuracy_cutoff, upserts, failures>>

RetainSensorMinute ==
    /\ pc = "retain"
    /\ sensor_minute' = [t \in Times |-> IF t < clock - RetainMinute THEN NoRow
                                                                     ELSE sensor_minute[t]]
    /\ pc' = "sleep"
    /\ UNCHANGED <<clock, rollup, accuracy_cutoff, upserts, failures>>

\* Any statement fails, or the process is stopped: nothing else of the run is
\* done, and the loop starts over.
Fail ==
    /\ pc # "sleep"
    /\ failures < MaxFailures
    /\ failures' = failures + 1
    /\ pc' = "sleep"
    /\ UNCHANGED <<clock, sensor_minute, rollup, accuracy_cutoff, upserts>>

Maintain ==
    \/ Wake
    \/ EnsureAccuracyCutoff
    \/ \E target \in Targets : RefreshRollup(target)
    \/ RetainSensorMinute

Next ==
    \/ Tick
    \/ \E t \in Times, v \in Values \cup {Nil} : UpsertMinute(t, v)
    \/ Maintain
    \/ Fail

Spec == Init /\ [][Next]_vars

\* The loop keeps running the job, and its statements return.
FairSpec == Spec /\ WF_vars(Maintain)

-----------------------------------------------------------------------------
(* Properties.                                                             *)

\* Buckets before the cutoff, whose counts cannot be reconstructed, are never
\* written again, although late minutes keep arriving in them and the window of
\* every refresh moves and cuts through buckets of three sizes.
BeforeCutoffPreserved ==
    [][accuracy_cutoff # Nil =>
        \A target \in Targets, b \in Times :
            b < accuracy_cutoff => rollup'[target][b] = rollup[target][b]]_vars

MinutesOf(target, b) == {t \in MinuteRows : Bucket(Length[target], t) = b}

\* The bucket's row is the average and count of its non-null minutes.
Accurate(target, b) ==
    LET values == {t \in MinutesOf(target, b) : sensor_minute[t] # Nil}
    IN  MinutesOf(target, b) # {} =>
            rollup[target][b] = [sum   |-> MapThenSumSet(LAMBDA t : sensor_minute[t], values),
                                 count |-> Cardinality(values)]

\* A bucket that the next refresh still covers from its first minute on.
Covered(b) == accuracy_cutoff # Nil /\ b >= From

\* "Accuracy means the average of non-null normalized sensor_minute values":
\* when nothing is written any more, every covered bucket of the three tables
\* comes to be, and stays, the average and count of its minutes, although the
\* coarse tables never look at a minute and runs fail half way.
CoveredBucketsBecomeAccurate ==
    <>[](\A target \in Targets, b \in Times :
            (b % Length[target] = 0 /\ Covered(b)) => Accurate(target, b))

\* What a refresh writes into a bucket covers all that its source has for it.
\* docs/release.md: "rebuilds only complete retained buckets at or after it".
RebuildsOnlyCompleteBuckets ==
    [][\A target \in Targets, b \in Times :
        (RefreshRollup(target) /\ rollup'[target][b] # rollup[target][b]) =>
            rollup'[target][b] =
                Merged(Source(target),
                       {t \in Times : Source(target)[t] # NoRow
                                      /\ Bucket(Length[target], t) = b})]_vars
=============================================================================
