--------------------------- MODULE AlertEvaluator ---------------------------
(***************************************************************************)
(* The pure threshold evaluator, internal/sensoralert/evaluator.go:        *)
(* one call of Evaluate turns the stored state of a rule and the newest    *)
(* measurement into the next state and at most one transition event.       *)
(*                                                                         *)
(* Times are naturals (one unit is one minute of sensor_minute), values    *)
(* are integers, and Nil is Go's nil pointer and SQL's NULL.               *)
(* LastEvaluatedAt, which only the API displays, is left out.              *)
(***************************************************************************)
EXTENDS Integers

CONSTANT Nil                      \* nil pointer / SQL NULL

Direction  == {"above", "below"}
Status     == {"normal", "pending", "firing"}
Evaluation == {"ok", "stale", "no_data", "disabled"}
Reason     == {"threshold_crossed", "threshold_cleared", "rule_disabled", "device_disabled"}

OptTime  == Nat \cup {Nil}
OptValue == Int \cup {Nil}

AlertState ==
    [status       : Status,
     pendingSince : OptTime,
     firedAt      : OptTime,
     resolvedAt   : OptTime,
     lastValue    : OptValue,
     lastValueAt  : OptTime,
     evaluation   : Evaluation]

\* What loadState returns for a rule that has no row in sensor_alert_states.
FirstState ==
    [status |-> "normal", pendingSince |-> Nil, firedAt |-> Nil, resolvedAt |-> Nil,
     lastValue |-> Nil, lastValueAt |-> Nil, evaluation |-> "no_data"]

Observation == [ts : Nat, value : Int]

AlertEvent ==
    [type : {"firing", "resolved"}, reason : Reason, value : OptValue, valueAt : OptTime]

ASSUME NilAssumption ==
    /\ Nil \notin Int
    /\ Nil \notin AlertState
    /\ Nil \notin Observation
    /\ Nil \notin AlertEvent

\* What validateSensorAlertRule accepts: hysteresis between the thresholds.
ValidRule(c) ==
    /\ c.direction = "above" => c.clear < c.trigger
    /\ c.direction = "below" => c.clear > c.trigger
    /\ c.maxDataAge >= 1

-----------------------------------------------------------------------------
\* Inclusive comparisons, mirrored for a "below" rule.
Triggers(rule, v) ==
    IF rule.direction = "below" THEN v =< rule.trigger ELSE v >= rule.trigger

Clears(rule, v) ==
    IF rule.direction = "below" THEN v >= rule.clear ELSE v =< rule.clear

Stale(now, rule, obs) == rule.maxDataAge > 0 /\ now - obs.ts > rule.maxDataAge

\* Mutant: gaps are not looked at.
NoGap(rule, lastAt, obs) == FALSE

\* The measurement follows the last evaluated one by more than max_data_age.
Gap(rule, lastAt, obs) ==
    lastAt # Nil /\ rule.maxDataAge > 0 /\ obs.ts - lastAt > rule.maxDataAge

Newer(lastAt, obs) == lastAt = Nil \/ obs.ts > lastAt

-----------------------------------------------------------------------------
NoEvent(state) == [state |-> state, event |-> Nil]

\* Mutant: an event type the table does not allow.
FireUnknownType(now, state, obs) ==
    [state |-> [state EXCEPT !.status = "firing", !.firedAt = now, !.resolvedAt = Nil],
     event |-> [type |-> "fired", reason |-> "threshold_crossed",
                value |-> obs.value, valueAt |-> obs.ts]]

Fire(now, state, obs) ==
    [state |-> [state EXCEPT !.status = "firing", !.firedAt = now, !.resolvedAt = Nil],
     event |-> [type |-> "firing", reason |-> "threshold_crossed",
                value |-> obs.value, valueAt |-> obs.ts]]

Resolve(now, state, obs) ==
    [state |-> [state EXCEPT !.status = "normal", !.pendingSince = Nil, !.resolvedAt = now],
     event |-> [type |-> "resolved", reason |-> "threshold_cleared",
                value |-> obs.value, valueAt |-> obs.ts]]

\* Mutant: the alert stays pending since.
DisableStaysPending(now, rule, state) ==
    NoEvent([state EXCEPT !.status = "normal", !.evaluation = "disabled"])

\* Mutant: resolved at the time of the last measurement.
DisableAtLastValue(now, rule, state) ==
    LET off == [state EXCEPT !.status = "normal", !.pendingSince = Nil,
                             !.evaluation = "disabled"]
    IN  IF state.status = "firing"
        THEN [state |-> [off EXCEPT !.resolvedAt = state.lastValueAt],
              event |-> [type    |-> "resolved",
                         reason  |-> IF rule.enabled THEN "device_disabled" ELSE "rule_disabled",
                         value   |-> state.lastValue,
                         valueAt |-> state.lastValueAt]]
        ELSE NoEvent(off)

\* A disabled rule or device: the alert goes back to normal whatever it was,
\* and only a firing one leaves a resolved event with its last value.
Disable(now, rule, state) ==
    LET off == [state EXCEPT !.status = "normal", !.pendingSince = Nil,
                             !.evaluation = "disabled"]
    IN  IF state.status = "firing"
        THEN [state |-> [off EXCEPT !.resolvedAt = now],
              event |-> [type    |-> "resolved",
                         reason  |-> IF rule.enabled THEN "device_disabled" ELSE "rule_disabled",
                         value   |-> state.lastValue,
                         valueAt |-> state.lastValueAt]]
        ELSE NoEvent(off)

\* Mutant: a measurement beyond the trigger fires whatever the status is.
TransitionRefires(now, rule, lastAt, state, obs) ==
    IF Triggers(rule, obs.value) THEN Fire(now, state, obs)
    ELSE IF state.status = "firing" /\ Clears(rule, obs.value) THEN Resolve(now, state, obs)
    ELSE NoEvent(state)

\* A fresh measurement newer than the last one: lastAt is the time of that one,
\* state already holds the new one.
Transition(now, rule, lastAt, state, obs) ==
    LET hot   == Triggers(rule, obs.value)
        since == IF state.pendingSince = Nil THEN obs.ts ELSE state.pendingSince
        pend  == [state EXCEPT !.status = "pending", !.pendingSince = since]
    IN  CASE state.status = "firing" /\ Clears(rule, obs.value) -> Resolve(now, state, obs)
          [] state.status = "pending" /\ ~hot ->
                NoEvent([state EXCEPT !.status = "normal", !.pendingSince = Nil])
          [] state.status = "pending" /\ hot /\ Gap(rule, lastAt, obs) ->
                NoEvent([pend EXCEPT !.pendingSince = obs.ts])
          [] state.status = "pending" /\ hot /\ ~Gap(rule, lastAt, obs) ->
                IF obs.ts - since >= rule.forDuration THEN Fire(now, pend, obs)
                                                      ELSE NoEvent(pend)
          [] state.status = "normal" /\ hot ->
                IF rule.forDuration =< 0 THEN Fire(now, state, obs)
                ELSE NoEvent([state EXCEPT !.status = "pending", !.pendingSince = obs.ts])
          [] OTHER -> NoEvent(state)

\* Mutant: a row is evaluated again when it is seen again.
EvaluateRepeatedly(now, rule, deviceEnabled, current, obs) ==
    IF ~rule.enabled \/ ~deviceEnabled THEN Disable(now, rule, current)
    ELSE IF obs = Nil THEN NoEvent([current EXCEPT !.evaluation = "no_data"])
    ELSE LET seen(e) == [current EXCEPT !.lastValue = obs.value, !.lastValueAt = obs.ts,
                                        !.evaluation = e]
         IN  IF Stale(now, rule, obs) THEN NoEvent(seen("stale"))
             ELSE Transition(now, rule, current.lastValueAt, seen("ok"), obs)

Evaluate(now, rule, deviceEnabled, current, obs) ==
    IF ~rule.enabled \/ ~deviceEnabled THEN Disable(now, rule, current)
    ELSE IF obs = Nil THEN NoEvent([current EXCEPT !.evaluation = "no_data"])
    ELSE LET seen(e) == [current EXCEPT !.lastValue = obs.value, !.lastValueAt = obs.ts,
                                        !.evaluation = e]
         IN  IF Stale(now, rule, obs) THEN NoEvent(seen("stale"))
             ELSE IF ~Newer(current.lastValueAt, obs) THEN NoEvent(seen("ok"))
             ELSE Transition(now, rule, current.lastValueAt, seen("ok"), obs)
=============================================================================
