--------------------------- MODULE RollupHistory ---------------------------
(***************************************************************************)
(* SensorRollup beside a record of which minutes each table has not taken  *)
(* in yet.  Upserts come between the statements of a run, a run fails half *)
(* way, and the tables of half days and days are built from the hours, so  *)
(* that they miss what the hours miss.                                     *)
(***************************************************************************)
EXTENDS SensorRollup

VARIABLE
    unseen            \* [Targets -> minutes written since the table last read them]

historyVars == <<vars, unseen>>

HistoryTypeOK == TypeOK /\ unseen \in [Targets -> SUBSET Times]

\* A refresh of the hours reads the minutes of its window; the other two read
\* what the hours of the window have read.
Takes(target, t) ==
    IF target = "sensor_1hour"
    THEN t >= From
    ELSE Bucket(Hour, t) >= From /\ t \notin unseen["sensor_1hour"]

HistoryInit ==
    /\ Init
    /\ unseen = [target \in Targets |-> MinuteRows]

Write ==
    \E t \in Times, v \in Values \cup {Nil} :
        /\ UpsertMinute(t, v)
        /\ unseen' = [target \in Targets |-> unseen[target] \cup {t}]

Refresh ==
    \E target \in Targets :
        /\ RefreshRollup(target)
        /\ unseen' = [unseen EXCEPT ![target] = {t \in @ : ~Takes(target, t)}]

Other ==
    /\ Tick \/ Wake \/ EnsureAccuracyCutoff \/ RetainSensorMinute \/ Fail
    /\ UNCHANGED unseen

HistoryNext == Write \/ Refresh \/ Other

HistorySpec == HistoryInit /\ [][HistoryNext]_historyVars

\* As FairSpec: the loop keeps running the job.
HistoryFairSpec == HistorySpec /\ WF_vars(Maintain)

-----------------------------------------------------------------------------
(* Properties.                                                             *)

\* Bucket b of target has taken in all that was written to its minutes.
TakenIn(target, b) == \A t \in unseen[target] : Bucket(Length[target], t) # b

\* "Accuracy means the average of non-null normalized sensor_minute values":
\* at every moment, and not only when all is quiet, a row of a bucket that the
\* next refresh covers is the average and count of its minutes unless one of
\* them was written since.  The window moves on and cuts through buckets,
\* minutes are removed, and runs end between two statements meanwhile.
SeenBucketsAccurate ==
    \A target \in Targets, b \in Times :
        (b % Length[target] = 0 /\ Covered(b) /\ TakenIn(target, b)) => Accurate(target, b)
=============================================================================
