---------------------------- MODULE AlertHistory ----------------------------
(***************************************************************************)
(* One rule, evaluated cycle after cycle: what the evaluator keeps in the  *)
(* state row, against a definition of the alert that looks at the whole    *)
(* sequence of measurements at once.                                       *)
(***************************************************************************)
EXTENDS AlertEvaluator, Sequences

CONSTANTS
    Rules,            \* the rules considered, all of them enabled
    RuleValues,       \* metric values a measurement may have
    MaxNow,           \* bound: the clock
    MaxSeen           \* bound: measurements evaluated

ASSUME HistoryAssumption ==
    /\ \A r \in Rules :
        /\ r.enabled
        /\ r.direction \in Direction
        /\ r.trigger \in Int /\ r.clear \in Int
        /\ r.forDuration \in Nat /\ r.maxDataAge \in Nat
        /\ ValidRule(r)
    /\ RuleValues \subseteq Int
    /\ MaxNow \in Nat
    /\ MaxSeen \in Nat

VARIABLES
    watched,          \* the rule, chosen once
    time,             \* time of the last evaluation
    seen,             \* distinct measurements evaluated, oldest first
    start,            \* how many of them before the device was last disabled
    row               \* the stored state

historyVars == <<watched, time, seen, start, row>>

Measurement == [ts : Nat, value : Int, fresh : BOOLEAN]

HistoryInit ==
    /\ watched \in Rules
    /\ time = 0
    /\ seen = <<>>
    /\ start = 0
    /\ row = FirstState

LastTs == IF seen = <<>> THEN -1 ELSE seen[Len(seen)].ts

\* A cycle that finds a measurement it has not evaluated yet, fresh or stale; one that
\* came after the cycle took its time may be ahead of it.
EvaluateNew(n, t, v) ==
    LET obs == [ts |-> t, value |-> v]
    IN  /\ LastTs < t
        /\ Len(seen) < MaxSeen
        /\ seen' = Append(seen, [ts |-> t, value |-> v, fresh |-> ~Stale(n, watched, obs)])
        /\ row' = Evaluate(n, watched, TRUE, row, obs).state
        /\ UNCHANGED start

\* A cycle that finds the row it evaluated last, perhaps with another value.
EvaluateAgain(n, v) ==
    /\ seen # <<>>
    /\ row' = Evaluate(n, watched, TRUE, row, [ts |-> LastTs, value |-> v]).state
    /\ UNCHANGED <<seen, start>>

\* A cycle that finds no row at all.
EvaluateNothing(n) ==
    /\ row' = Evaluate(n, watched, TRUE, row, Nil).state
    /\ UNCHANGED <<seen, start>>

\* A cycle that finds the device disabled.
EvaluateDisabled(n) ==
    /\ row' = Evaluate(n, watched, FALSE, row, Nil).state
    /\ start' = Len(seen)
    /\ UNCHANGED seen

HistoryNext ==
    \E n \in time..MaxNow :
        /\ time' = n
        /\ UNCHANGED watched
        /\ \/ \E t \in 0..MaxNow, v \in RuleValues : EvaluateNew(n, t, v)
           \/ \E v \in RuleValues : EvaluateAgain(n, v)
           \/ EvaluateNothing(n)
           \/ EvaluateDisabled(n)

HistorySpec == HistoryInit /\ [][HistoryNext]_historyVars

-----------------------------------------------------------------------------
(* The alert, defined by the measurements since the device was enabled.    *)

Measured == (start + 1)..Len(seen)

Hot(k)  == seen[k].fresh /\ Triggers(watched, seen[k].value)
Cold(k) == seen[k].fresh /\ Clears(watched, seen[k].value)

\* From i to j every fresh measurement is beyond the trigger and none comes
\* more than max_data_age after the one before it.
Held(i, j) ==
    /\ Hot(i) /\ Hot(j)
    /\ \A k \in (i + 1)..j :
          seen[k].fresh => Hot(k) /\ seen[k].ts - seen[k - 1].ts =< watched.maxDataAge

FiresAt(j) ==
    \E i \in Measured : i =< j /\ Held(i, j) /\ seen[j].ts - seen[i].ts >= watched.forDuration

Firing == \E j \in Measured : FiresAt(j) /\ \A k \in Measured : k > j => ~Cold(k)

LastFresh(k) == seen[k].fresh /\ \A q \in Measured : q > k => ~seen[q].fresh

Pending == ~Firing /\ \E k \in Measured : LastFresh(k) /\ Hot(k)

-----------------------------------------------------------------------------
(* Properties.                                                             *)

\* The stored status, built one measurement at a time, is the status that the
\* documented rule gives for the whole sequence: firing since some measurement
\* that ended a run held for for_duration, with no clearing one since.
\* Re-evaluating a row, losing the data and stale rows change nothing.
StatusMatchesHistory ==
    /\ (row.status = "firing") <=> Firing
    /\ (row.status = "pending") <=> Pending

\* The pending time counts from the first measurement of the run that is held
\* now, so a gap in the data or a measurement below the trigger restarts it.
PendingSinceStartsRun ==
    row.status = "pending" =>
        \E i, j \in Measured :
            /\ i =< j /\ LastFresh(j) /\ Held(i, j)
            /\ seen[i].ts = row.pendingSince
            /\ \A h \in Measured : h < i => ~Held(h, j)
=============================================================================
