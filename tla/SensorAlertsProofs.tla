------------------------- MODULE SensorAlertsProofs -------------------------
(***************************************************************************)
(* Theorems about SensorAlerts, for every number of workers, devices,      *)
(* rules and values, and every bound; and at the end about AlertHistory,   *)
(* the evaluator alone.                                                    *)
(***************************************************************************)
EXTENDS SensorAlerts, AlertHistory, TLAPS

-----------------------------------------------------------------------------
(* The evaluator.                                                          *)

\* A result of the evaluator: a state row and at most one event.
EvaluatorResult == [state : AlertState, event : AlertEvent \cup {Nil}]

\* What every evaluation at time now of a rule in state cur comes to: no event
\* and the alert firing as before, or one event and the matching transition.
Correct(now, cur, res) ==
    /\ WellFormed(cur) => WellFormed(res.state)
    /\ \/ /\ res.event = Nil
          /\ (res.state.status = "firing") <=> (cur.status = "firing")
          /\ res.state.firedAt = cur.firedAt
       \/ /\ res.event # Nil
          /\ res.event.type = "firing"
          /\ cur.status # "firing" /\ res.state.status = "firing"
          /\ res.state.firedAt = now
       \/ /\ res.event # Nil
          /\ res.event.type = "resolved"
          /\ cur.status = "firing" /\ res.state.status # "firing"
          /\ res.state.firedAt = cur.firedAt

\* Firing is a correct result for an alert that is not firing.
LEMMA FireLemma ==
    ASSUME NEW now \in Nat, NEW s \in AlertState, NEW obs \in Observation,
           s.status # "firing"
    PROVE  /\ Fire(now, s, obs) \in EvaluatorResult
           /\ Correct(now, s, Fire(now, s, obs))
<1>1. Fire(now, s, obs) \in EvaluatorResult
  BY DEF Fire, EvaluatorResult, AlertState, AlertEvent, OptTime, OptValue, Status, Evaluation,
         Reason, Observation
<1>2. Fire(now, s, obs).event # Nil
  BY NilAssumption DEF Fire, AlertEvent, OptTime, OptValue, Reason, Observation
<1>3. /\ Fire(now, s, obs).state.status = "firing"
      /\ Fire(now, s, obs).state.firedAt = now
      /\ Fire(now, s, obs).state.resolvedAt = Nil
      /\ Fire(now, s, obs).event.type = "firing"
  BY DEF Fire, AlertState
<1>4. now # Nil
  BY NilAssumption
<1>5. Correct(now, s, Fire(now, s, obs))
  BY <1>2, <1>3, <1>4 DEF Correct, WellFormed
<1> QED BY <1>1, <1>5

\* Resolving is a correct result for an alert that is firing.
LEMMA ResolveLemma ==
    ASSUME NEW now \in Nat, NEW s \in AlertState, NEW obs \in Observation,
           s.status = "firing"
    PROVE  /\ Resolve(now, s, obs) \in EvaluatorResult
           /\ Correct(now, s, Resolve(now, s, obs))
<1>1. Resolve(now, s, obs) \in EvaluatorResult
  BY DEF Resolve, EvaluatorResult, AlertState, AlertEvent, OptTime, OptValue, Status, Evaluation,
         Reason, Observation
<1>2. Resolve(now, s, obs).event # Nil
  BY NilAssumption DEF Resolve, AlertEvent, OptTime, OptValue, Reason, Observation
<1>3. /\ Resolve(now, s, obs).state.status = "normal"
      /\ Resolve(now, s, obs).state.pendingSince = Nil
      /\ Resolve(now, s, obs).state.firedAt = s.firedAt
      /\ Resolve(now, s, obs).state.resolvedAt = now
      /\ Resolve(now, s, obs).event.type = "resolved"
  BY DEF Resolve, AlertState
<1>4. now # Nil
  BY NilAssumption
<1>5. Correct(now, s, Resolve(now, s, obs))
  BY <1>2, <1>3, <1>4 DEF Correct, WellFormed
<1> QED BY <1>1, <1>5

\* What a disabled rule or device does to the alert is correct.
LEMMA DisableLemma ==
    ASSUME NEW now \in Nat, NEW rule \in RuleBody, NEW s \in AlertState
    PROVE  /\ Disable(now, rule, s) \in EvaluatorResult
           /\ Correct(now, s, Disable(now, rule, s))
<1>1. Disable(now, rule, s) \in EvaluatorResult
  BY DEF Disable, NoEvent, EvaluatorResult, AlertState, AlertEvent, OptTime, OptValue, Status,
         Evaluation, Reason, RuleBody
<1>2. s.status = "firing" => Disable(now, rule, s).event # Nil
  BY NilAssumption DEF Disable, AlertState, AlertEvent, OptTime, OptValue, Reason, RuleBody
<1>3. Correct(now, s, Disable(now, rule, s))
  BY <1>2, NilAssumption DEF Disable, NoEvent, Correct, WellFormed, AlertState
<1> QED BY <1>1, <1>3

\* Any change of a state that neither enters nor leaves firing is correct.
LEMMA QuietLemma ==
    ASSUME NEW now \in Nat, NEW s \in AlertState, NEW t \in AlertState,
           WellFormed(s) => WellFormed(t),
           (s.status = "firing") <=> (t.status = "firing"),
           s.firedAt = t.firedAt
    PROVE  /\ NoEvent(t) \in EvaluatorResult
           /\ Correct(now, s, NoEvent(t))
BY DEF NoEvent, EvaluatorResult, Correct

\* A new, fresh measurement has a correct result, whatever the alert is in.
LEMMA TransitionLemma ==
    ASSUME NEW now \in Nat, NEW rule \in RuleBody, NEW lastAt \in OptTime,
           NEW s \in AlertState, NEW obs \in Observation
    PROVE  /\ Transition(now, rule, lastAt, s, obs) \in EvaluatorResult
           /\ Correct(now, s, Transition(now, rule, lastAt, s, obs))
<1> DEFINE hot   == Triggers(rule, obs.value)
           since == IF s.pendingSince = Nil THEN obs.ts ELSE s.pendingSince
           pend  == [s EXCEPT !.status = "pending", !.pendingSince = since]
           T     == Transition(now, rule, lastAt, s, obs)
<1>0. /\ obs.ts \in Nat /\ obs.ts # Nil
      /\ s.status \in Status /\ s.pendingSince \in OptTime
  BY NilAssumption DEF Observation, AlertState
<1>1. CASE s.status = "firing"
  <2>1. CASE Clears(rule, obs.value)
    <3>1. T = Resolve(now, s, obs)
      BY <1>1, <2>1 DEF Transition
    <3> QED BY <3>1, <1>1, ResolveLemma
  <2>2. CASE ~Clears(rule, obs.value)
    <3>1. T = NoEvent(s)
      BY <1>1, <2>2 DEF Transition
    <3> QED BY <3>1, QuietLemma
  <2> QED BY <2>1, <2>2
<1>2. CASE s.status = "pending"
  <2>1. CASE ~hot
    <3> DEFINE t == [s EXCEPT !.status = "normal", !.pendingSince = Nil]
    <3>1. T = NoEvent(t)
      BY <1>2, <2>1 DEF Transition
    <3>2. t \in AlertState
      BY DEF AlertState, Status, OptTime
    <3>3. /\ t.status = "normal" /\ t.pendingSince = Nil
          /\ t.firedAt = s.firedAt /\ t.resolvedAt = s.resolvedAt
      BY DEF AlertState
    <3>4. WellFormed(s) => WellFormed(t)
      BY <3>3, <1>2 DEF WellFormed
    <3> QED BY <3>1, <3>2, <3>3, <3>4, <1>2, QuietLemma
  <2>2. CASE hot
    <3>1. /\ pend \in AlertState
          /\ pend.status = "pending" /\ pend.pendingSince = since /\ since # Nil
          /\ pend.firedAt = s.firedAt /\ pend.resolvedAt = s.resolvedAt
      BY <1>0 DEF AlertState, Status, OptTime
    <3>2. WellFormed(s) => WellFormed(pend)
      BY <3>1, <1>2 DEF WellFormed
    <3>3. CASE Gap(rule, lastAt, obs)
      <4> DEFINE t == [pend EXCEPT !.pendingSince = obs.ts]
      <4>1. T = NoEvent(t)
        BY <1>2, <2>2, <3>3 DEF Transition
      <4>2. /\ t \in AlertState
            /\ t.status = "pending" /\ t.pendingSince = obs.ts
            /\ t.firedAt = s.firedAt /\ t.resolvedAt = s.resolvedAt
        BY <1>0, <3>1 DEF AlertState, OptTime
      <4>3. WellFormed(s) => WellFormed(t)
        BY <4>2, <1>0, <1>2 DEF WellFormed
      <4> HIDE DEF t
      <4> QED BY <4>1, <4>2, <4>3, <1>2, QuietLemma
    <3>4. CASE ~Gap(rule, lastAt, obs) /\ obs.ts - since >= rule.forDuration
      <4>1. T = Fire(now, pend, obs)
        BY <1>2, <2>2, <3>4 DEF Transition
      <4>2. /\ Fire(now, pend, obs) \in EvaluatorResult
            /\ Correct(now, pend, Fire(now, pend, obs))
        BY <3>1, FireLemma
      <4> HIDE DEF pend
      <4>3. Correct(now, s, Fire(now, pend, obs))
        BY <4>2, <3>1, <3>2, <1>2 DEF Correct
      <4> QED BY <4>1, <4>2, <4>3
    <3>5. CASE ~Gap(rule, lastAt, obs) /\ ~(obs.ts - since >= rule.forDuration)
      <4>1. T = NoEvent(pend)
        BY <1>2, <2>2, <3>5 DEF Transition
      <4> HIDE DEF pend
      <4> QED BY <4>1, <3>1, <3>2, <1>2, QuietLemma
    <3> QED BY <3>3, <3>4, <3>5
  <2> QED BY <2>1, <2>2
<1>3. CASE s.status = "normal"
  <2>1. CASE ~hot
    <3>1. T = NoEvent(s)
      BY <1>3, <2>1 DEF Transition
    <3> QED BY <3>1, QuietLemma
  <2>2. CASE hot /\ rule.forDuration =< 0
    <3>1. T = Fire(now, s, obs)
      BY <1>3, <2>2 DEF Transition
    <3> QED BY <3>1, <1>3, FireLemma
  <2>3. CASE hot /\ ~(rule.forDuration =< 0)
    <3> DEFINE t == [s EXCEPT !.status = "pending", !.pendingSince = obs.ts]
    <3>1. T = NoEvent(t)
      BY <1>3, <2>3 DEF Transition
    <3>2. /\ t \in AlertState
          /\ t.status = "pending" /\ t.pendingSince = obs.ts
          /\ t.firedAt = s.firedAt /\ t.resolvedAt = s.resolvedAt
      BY <1>0 DEF AlertState, Status, OptTime
    <3>3. WellFormed(s) => WellFormed(t)
      BY <3>2, <1>0, <1>3 DEF WellFormed
    <3> HIDE DEF t
    <3> QED BY <3>1, <3>2, <3>3, <1>3, QuietLemma
  <2> QED BY <2>1, <2>2, <2>3
<1> QED BY <1>0, <1>1, <1>2, <1>3 DEF Status

\* Evaluate turns a state row into a state row and at most one event, keeps the
\* row well-formed, and the event is there exactly when the alert starts or
\* stops firing.
LEMMA EvaluateLemma ==
    ASSUME NEW now \in Nat, NEW rule \in RuleBody, NEW dev \in BOOLEAN,
           NEW cur \in AlertState, NEW obs \in Observation \cup {Nil}
    PROVE  /\ Evaluate(now, rule, dev, cur, obs) \in EvaluatorResult
           /\ Correct(now, cur, Evaluate(now, rule, dev, cur, obs))
<1> DEFINE E == Evaluate(now, rule, dev, cur, obs)
           noted(e) == [cur EXCEPT !.lastValue = obs.value, !.lastValueAt = obs.ts,
                                  !.evaluation = e]
<1>1. CASE ~rule.enabled \/ ~dev
  <2>1. E = Disable(now, rule, cur)
    BY <1>1 DEF Evaluate
  <2> QED BY <2>1, DisableLemma
<1>2. CASE ~(~rule.enabled \/ ~dev) /\ obs = Nil
  <2> DEFINE t == [cur EXCEPT !.evaluation = "no_data"]
  <2>1. E = NoEvent(t)
    BY <1>2 DEF Evaluate
  <2>2. /\ t \in AlertState
        /\ t.status = cur.status /\ t.pendingSince = cur.pendingSince
        /\ t.firedAt = cur.firedAt /\ t.resolvedAt = cur.resolvedAt
    BY DEF AlertState, Evaluation
  <2>3. WellFormed(cur) => WellFormed(t)
    BY <2>2 DEF WellFormed
  <2> HIDE DEF t
  <2> QED BY <2>1, <2>2, <2>3, QuietLemma
<1>3. CASE ~(~rule.enabled \/ ~dev) /\ obs # Nil
  <2>1. obs \in Observation
    BY <1>3
  <2>2. ASSUME NEW e \in {"ok", "stale"}
        PROVE  /\ noted(e) \in AlertState
               /\ noted(e).status = cur.status /\ noted(e).pendingSince = cur.pendingSince
               /\ noted(e).firedAt = cur.firedAt /\ noted(e).resolvedAt = cur.resolvedAt
    BY <2>1 DEF AlertState, Evaluation, Observation, OptTime, OptValue
  <2>3. ASSUME NEW e \in {"ok", "stale"}
        PROVE  WellFormed(cur) <=> WellFormed(noted(e))
    BY <2>2 DEF WellFormed
  <2>4. cur.lastValueAt \in OptTime
    BY DEF AlertState
  <2>5. \/ E = NoEvent(noted("stale"))
        \/ E = NoEvent(noted("ok"))
        \/ E = Transition(now, rule, cur.lastValueAt, noted("ok"), obs)
    BY <1>3 DEF Evaluate
  <2> HIDE DEF noted
  <2>6. CASE E = NoEvent(noted("stale"))
    BY <2>6, <2>2, <2>3, QuietLemma
  <2>7. CASE E = NoEvent(noted("ok"))
    BY <2>7, <2>2, <2>3, QuietLemma
  <2>8. CASE E = Transition(now, rule, cur.lastValueAt, noted("ok"), obs)
    <3>1. /\ E \in EvaluatorResult
          /\ Correct(now, noted("ok"), E)
      BY <2>8, <2>1, <2>2, <2>4, TransitionLemma
    <3>2. Correct(now, cur, E)
      BY <3>1, <2>2, <2>3 DEF Correct
    <3> QED BY <3>1, <3>2
  <2> QED BY <2>5, <2>6, <2>7, <2>8
<1> QED BY <1>1, <1>2, <1>3

-----------------------------------------------------------------------------
(* Types.                                                                  *)

\* The state a transaction evaluates.
Current(w) == IF worker[w].read = Nil THEN FirstState ELSE worker[w].read

\* A rule without a state row starts from a well-formed state.
LEMMA FirstStateType == FirstState \in AlertState /\ WellFormed(FirstState)
BY DEF FirstState, AlertState, WellFormed, OptTime, OptValue, Status, Evaluation

\* What a cycle has loaded is a rule of a known device.
LEMMA BatchType ==
    ASSUME TypeOK, NEW w \in Workers, NEW r \in RuleId, worker[w].batch[r] # Nil
    PROVE  /\ worker[w].batch[r] \in LoadedRule
           /\ worker[w].batch[r].rule \in RuleBody
           /\ worker[w].batch[r].rule.mac \in Devices
BY ConstantsAssumption DEF TypeOK, WorkerState, LoadedRule, RuleBody

\* The result of the open transaction is typed and correct.
LEMMA ResultLemma ==
    ASSUME TypeOK, NEW w \in Workers, NEW r \in RuleId, InTx(w, r)
    PROVE  /\ Current(w) \in AlertState
           /\ Result(w, r) \in EvaluatorResult
           /\ Correct(worker[w].now, Current(w), Result(w, r))
<1>1. worker[w].batch[r] # Nil
  BY DEF InTx, IsNext, Todo
<1>2. /\ worker[w].batch[r].rule \in RuleBody
      /\ worker[w].batch[r].deviceEnabled \in BOOLEAN
  BY <1>1, BatchType DEF LoadedRule
<1>3. /\ worker[w].now \in Nat
      /\ worker[w].obs \in Observation \cup {Nil}
      /\ worker[w].read \in AlertState \cup {Nil}
  BY DEF TypeOK, WorkerState
<1>4. Current(w) \in AlertState
  BY <1>3, FirstStateType DEF Current
<1>5. Result(w, r) = Evaluate(worker[w].now, worker[w].batch[r].rule,
                              worker[w].batch[r].deviceEnabled, Current(w), worker[w].obs)
  BY DEF Result, Current
<1> QED BY <1>2, <1>3, <1>4, <1>5, EvaluateLemma

\* What insertEvent writes is an event row.
LEMMA RowForType ==
    ASSUME TypeOK, NEW w \in Workers, NEW r \in RuleId, InTx(w, r), NEW ev \in AlertEvent
    PROVE  RowFor(w, r, ev) \in EventRow
<1>1. worker[w].batch[r].rule.mac \in Devices
  BY BatchType DEF InTx, IsNext, Todo
<1>2. /\ worker[w].now \in Nat
      /\ lastEvent + 1 \in Nat
  BY DEF TypeOK, WorkerState
<1> QED BY <1>1, <1>2 DEF RowFor, EventRow, AlertEvent

\* A worker between cycles has its type.
LEMMA IdleType ==
    ASSUME NEW pc \in {"waiting", "idle", "cycle"}
    PROVE  Idle(pc) \in WorkerState
BY DEF Idle, WorkerState, NoBatch

\* Ending a rule, committed or not, keeps the types of the workers.
LEMMA RuleDoneType ==
    ASSUME TypeOK, NEW w \in Workers, NEW r \in RuleId, RuleDone(w, r)
    PROVE  worker' \in [Workers -> WorkerState]
<1>1. worker[w] \in WorkerState
  BY DEF TypeOK
<1>2. [worker[w] EXCEPT !.pc = "cycle", !.batch[r] = Nil, !.read = Nil, !.obs = Nil]
         \in WorkerState
  BY <1>1 DEF WorkerState
<1> QED BY <1>2 DEF RuleDone, TypeOK

\* The empty database has the right types.
LEMMA TypeInit == Init => TypeOK
<1> SUFFICES ASSUME Init PROVE TypeOK
  OBVIOUS
<1>1. worker \in [Workers -> WorkerState]
  BY IdleType DEF Init
<1> QED BY <1>1, ConstantsAssumption DEF Init, TypeOK, Times, RuleId

\* Every action keeps the types.
LEMMA TypeStep == TypeOK /\ [Next]_vars => TypeOK'
<1> SUFFICES ASSUME TypeOK, [Next]_vars PROVE TypeOK'
  OBVIOUS
<1> USE ConstantsAssumption
<1>1. CASE Tick
  BY <1>1 DEF Tick, TypeOK, dbVars, Times
<1>2. ASSUME NEW m \in Devices, NEW t \in Times, NEW v \in Values, UpsertMinute(m, t, v)
      PROVE  TypeOK'
  BY <1>2 DEF UpsertMinute, TypeOK
<1>3. ASSUME NEW m \in Devices, NEW b \in BOOLEAN, SyncDevice(m, b)
      PROVE  TypeOK'
  BY <1>3 DEF SyncDevice, TypeOK
<1>4. ASSUME NEW c \in RuleConfigs, CreateRule(c)
      PROVE  TypeOK'
  BY <1>4 DEF CreateRule, TypeOK, RuleId
<1>5. ASSUME NEW r \in RuleId, NEW c \in RuleConfigs, UpdateRule(r, c)
      PROVE  TypeOK'
  BY <1>5 DEF UpdateRule, TypeOK
<1>6. ASSUME NEW r \in RuleId, DeleteRule(r)
      PROVE  TypeOK'
  <2>1. ASSUME NEW e \in EventRow
        PROVE  [e EXCEPT !.rule = Nil] \in EventRow
    BY DEF EventRow
  <2>2. events' \in SUBSET EventRow
    BY <1>6, <2>1 DEF DeleteRule, TypeOK
  <2> QED BY <1>6, <2>2 DEF DeleteRule, TypeOK
<1>7. CASE RetainSensorMinute
  BY <1>7 DEF RetainSensorMinute, TypeOK
<1>8. CASE RetainSensorAlertEvents
  BY <1>8 DEF RetainSensorAlertEvents, TypeOK
<1>9. ASSUME NEW w \in Workers, AcquireLock(w)
      PROVE  TypeOK'
  BY <1>9, IdleType DEF AcquireLock, TypeOK, dbVars
<1>10. ASSUME NEW w \in Workers, StartCycle(w)
       PROVE  TypeOK'
  <2>1. clock \in Nat /\ worker[w] \in WorkerState
    BY DEF TypeOK, Times
  <2>2. [worker[w] EXCEPT !.pc = "loading", !.now = clock] \in WorkerState
    BY <2>1 DEF WorkerState
  <2>3. worker' \in [Workers -> WorkerState]
    BY <1>10, <2>2 DEF StartCycle, TypeOK
  <2> QED BY <1>10, <2>3 DEF StartCycle, TypeOK, dbVars
<1>10a. ASSUME NEW w \in Workers, LoadRules(w)
        PROVE  TypeOK'
  <2> DEFINE b == [r \in RuleId |->
                    IF rules[r] = Nil THEN Nil
                    ELSE [rule |-> rules[r], deviceEnabled |-> deviceEnabled[rules[r].mac]]]
             s == [worker[w] EXCEPT !.pc = "cycle", !.batch = b]
  <2>1. ASSUME NEW r \in RuleId, rules[r] # Nil
        PROVE  [rule |-> rules[r], deviceEnabled |-> deviceEnabled[rules[r].mac]] \in LoadedRule
    <3>1. rules[r] \in RuleConfigs /\ rules[r].mac \in Devices
      BY <2>1 DEF TypeOK, RuleBody
    <3> QED BY <3>1 DEF TypeOK, LoadedRule
  <2>2. b \in [RuleId -> LoadedRule \cup {Nil}]
    BY <2>1
  <2>3. worker[w] \in WorkerState
    BY DEF TypeOK
  <2>4. s \in WorkerState
    <3> HIDE DEF b
    <3> QED BY <2>2, <2>3 DEF WorkerState
  <2>5. worker' = [worker EXCEPT ![w] = s]
    BY <1>10a DEF LoadRules
  <2> HIDE DEF s
  <2>6. worker' \in [Workers -> WorkerState]
    BY <2>4, <2>5 DEF TypeOK
  <2> QED BY <1>10a, <2>6 DEF LoadRules, TypeOK, dbVars
<1>10b. ASSUME NEW w \in Workers, LoadRulesFails(w)
        PROVE  TypeOK'
  BY <1>10b, IdleType DEF LoadRulesFails, TypeOK, dbVars
<1>11. ASSUME NEW w \in Workers, NEW r \in RuleId, LoadState(w, r)
       PROVE  TypeOK'
  <2>1. /\ states[r] \in AlertState \cup {Nil}
        /\ worker[w] \in WorkerState
    BY DEF TypeOK
  <2>2. \A pc \in {"tx", "ready"} :
           [worker[w] EXCEPT !.pc = pc, !.read = states[r]] \in WorkerState
    BY <2>1 DEF WorkerState
  <2>3. worker' \in [Workers -> WorkerState]
    BY <1>11, <2>2 DEF LoadState, TypeOK
  <2> QED BY <1>11, <2>3 DEF LoadState, TypeOK, dbVars
<1>11b. ASSUME NEW w \in Workers, NEW r \in RuleId, LoadLatestObservation(w, r)
        PROVE  TypeOK'
  <2>1. PICK t \in Times, v \in Values \cup {Nil} :
          worker' = [worker EXCEPT ![w].pc = "ready",
                        ![w].obs = IF v = Nil THEN Nil ELSE [ts |-> t, value |-> v]]
    BY <1>11b DEF LoadLatestObservation
  <2>2. (IF v = Nil THEN Nil ELSE [ts |-> t, value |-> v]) \in Observation \cup {Nil}
    BY DEF Observation, Times
  <2>3. worker[w] \in WorkerState
    BY DEF TypeOK
  <2>4. [worker[w] EXCEPT !.pc = "ready",
            !.obs = IF v = Nil THEN Nil ELSE [ts |-> t, value |-> v]] \in WorkerState
    BY <2>2, <2>3 DEF WorkerState
  <2>5. worker' \in [Workers -> WorkerState]
    BY <2>1, <2>4 DEF TypeOK
  <2> QED BY <1>11b, <2>5 DEF LoadLatestObservation, TypeOK, dbVars
<1>12. ASSUME NEW w \in Workers, NEW r \in RuleId, CommitTx(w, r)
       PROVE  TypeOK'
  <2>1. InTx(w, r)
    BY <1>12 DEF CommitTx
  <2>2. Result(w, r).state \in AlertState /\ Result(w, r).event \in AlertEvent \cup {Nil}
    BY <2>1, ResultLemma DEF EvaluatorResult
  <2>3. states' \in [RuleId -> AlertState \cup {Nil}]
    BY <1>12, <2>2 DEF CommitTx, TypeOK
  <2>4. worker' \in [Workers -> WorkerState]
    BY <1>12, RuleDoneType DEF CommitTx
  <2>5. events' \in SUBSET EventRow /\ lastEvent' \in Nat
    <3>1. CASE Result(w, r).event = Nil
      BY <1>12, <3>1 DEF CommitTx, InsertEvent, TypeOK
    <3>2. CASE Result(w, r).event # Nil
      BY <1>12, <3>2, <2>1, <2>2, RowForType DEF CommitTx, InsertEvent, TypeOK
    <3> QED BY <3>1, <3>2
  <2> QED BY <1>12, <2>3, <2>4, <2>5 DEF CommitTx, TypeOK
<1>13. ASSUME NEW w \in Workers, NEW r \in RuleId, ForeignKeyViolation(w, r)
       PROVE  TypeOK'
  BY <1>13, RuleDoneType DEF ForeignKeyViolation, TypeOK, dbVars
<1>14. ASSUME NEW w \in Workers, NEW r \in RuleId, TxFails(w, r)
       PROVE  TypeOK'
  BY <1>14, RuleDoneType DEF TxFails, TypeOK, dbVars
<1>15. ASSUME NEW w \in Workers, EndCycle(w)
       PROVE  TypeOK'
  BY <1>15, IdleType DEF EndCycle, TypeOK, dbVars
<1>16. ASSUME NEW w \in Workers, Crash(w)
       PROVE  TypeOK'
  BY <1>16, IdleType DEF Crash, TypeOK, dbVars
<1>17. CASE DropLockSession
  BY <1>17 DEF DropLockSession, TypeOK, dbVars
<1>18. CASE UNCHANGED vars
  BY <1>18 DEF vars, dbVars, TypeOK
<1> QED BY <1>1, <1>2, <1>3, <1>4, <1>5, <1>6, <1>7, <1>8, <1>9, <1>10, <1>10a, <1>10b, <1>11, <1>11b, <1>12,
           <1>13, <1>14, <1>15, <1>16, <1>17, <1>18
        DEF Next, Collectors, Api, Maintenance, WorkerStep, EvaluateDBRule

\* Every variable keeps its type, whatever the faults.
THEOREM TypeCorrect == Spec => []TypeOK
BY TypeInit, TypeStep, PTL DEF Spec

-----------------------------------------------------------------------------
(* Well-formed rows.                                                       *)

\* What is stored is well-formed, and so is what an open transaction has read:
\* that copy is stored later, perhaps over another worker's row.
RowsInv ==
    /\ TypeOK
    /\ StatesWellFormed
    /\ \A w \in Workers : worker[w].read # Nil => WellFormed(worker[w].read)

\* Every action keeps stored and read rows well-formed.
LEMMA RowsStep == RowsInv /\ [Next]_vars => RowsInv'
<1> SUFFICES ASSUME RowsInv, [Next]_vars PROVE RowsInv'
  OBVIOUS
<1>0. TypeOK /\ TypeOK'
  BY TypeStep DEF RowsInv
<1> DEFINE Read == \A w \in Workers : worker[w].read # Nil => WellFormed(worker[w].read)
<1>1. StatesWellFormed /\ Read
  BY DEF RowsInv
<1> SUFFICES StatesWellFormed' /\ Read'
  BY <1>0 DEF RowsInv
<1>2. UNCHANGED states => StatesWellFormed'
  BY <1>1 DEF StatesWellFormed
<1>3. UNCHANGED worker => Read'
  BY <1>1
<1>4. ASSUME NEW w \in Workers, NEW r \in RuleId, RuleDone(w, r)
      PROVE  Read'
  BY <1>0, <1>1, <1>4 DEF RuleDone, TypeOK, WorkerState
<1>5. ASSUME NEW w \in Workers, NEW pc \in {"waiting", "idle"},
             worker' = [worker EXCEPT ![w] = Idle(pc)]
      PROVE  Read'
  BY <1>0, <1>1, <1>5 DEF Idle, TypeOK
<1>6. ASSUME NEW r \in RuleId, DeleteRule(r)
      PROVE  StatesWellFormed' /\ Read'
  BY <1>0, <1>1, <1>3, <1>6 DEF DeleteRule, StatesWellFormed, TypeOK
<1>7. ASSUME NEW w \in Workers, StartCycle(w) \/ LoadRules(w)
      PROVE  StatesWellFormed' /\ Read'
  <2>1. \A v \in Workers : worker'[v].read = worker[v].read
    <3>1. CASE StartCycle(w)
      BY <1>0, <3>1 DEF StartCycle, TypeOK, WorkerState
    <3>2. CASE LoadRules(w)
      BY <1>0, <3>2 DEF LoadRules, TypeOK, WorkerState
    <3> QED BY <1>7, <3>1, <3>2
  <2>2. Read'
    BY <2>1, <1>1
  <2> QED BY <2>2, <1>2, <1>7 DEF StartCycle, LoadRules, dbVars
<1>8. ASSUME NEW w \in Workers, NEW r \in RuleId, LoadState(w, r)
      PROVE  StatesWellFormed' /\ Read'
  <2>1. worker'[w].read = states[r]
    BY <1>0, <1>8 DEF LoadState, TypeOK, WorkerState
  <2>2. \A v \in Workers : v # w => worker'[v] = worker[v]
    BY <1>0, <1>8 DEF LoadState, TypeOK
  <2>3. Read'
    BY <2>1, <2>2, <1>1 DEF StatesWellFormed
  <2> QED BY <2>3, <1>2, <1>8 DEF LoadState, dbVars
<1>8b. ASSUME NEW w \in Workers, NEW r \in RuleId, LoadLatestObservation(w, r)
       PROVE  StatesWellFormed' /\ Read'
  <2>1. \A v \in Workers : worker'[v].read = worker[v].read
    BY <1>0, <1>8b DEF LoadLatestObservation, TypeOK, WorkerState
  <2>2. Read'
    BY <2>1, <1>1
  <2> QED BY <2>2, <1>2, <1>8b DEF LoadLatestObservation, dbVars
<1>9. ASSUME NEW w \in Workers, NEW r \in RuleId, CommitTx(w, r)
      PROVE  StatesWellFormed' /\ Read'
  <2>1. Correct(worker[w].now, Current(w), Result(w, r))
    BY <1>0, <1>9, ResultLemma DEF CommitTx
  <2>2. WellFormed(Current(w))
    BY <1>1, FirstStateType DEF Current
  <2>3. WellFormed(Result(w, r).state)
    BY <2>1, <2>2 DEF Correct
  <2>4. \A q \in RuleId : states'[q] = IF q = r THEN Result(w, r).state ELSE states[q]
    BY <1>0, <1>9 DEF CommitTx, TypeOK
  <2>5. StatesWellFormed'
    BY <2>3, <2>4, <1>1 DEF StatesWellFormed
  <2> QED BY <2>5, <1>4, <1>9 DEF CommitTx
<1>10. CASE Tick
  BY <1>10, <1>2, <1>3 DEF Tick, dbVars
<1>11. CASE Collectors
  BY <1>11, <1>2, <1>3 DEF Collectors, UpsertMinute, SyncDevice
<1>12. CASE Api
  BY <1>12, <1>2, <1>3, <1>6 DEF Api, CreateRule, UpdateRule
<1>13. CASE Maintenance
  BY <1>13, <1>2, <1>3 DEF Maintenance, RetainSensorMinute, RetainSensorAlertEvents
<1>14. ASSUME NEW w \in Workers, WorkerStep(w)
       PROVE  StatesWellFormed' /\ Read'
  <2>1. CASE AcquireLock(w) \/ LoadRulesFails(w) \/ EndCycle(w) \/ Crash(w)
    BY <2>1, <1>2, <1>5 DEF AcquireLock, LoadRulesFails, EndCycle, Crash, dbVars
  <2>2. ASSUME NEW r \in RuleId, ForeignKeyViolation(w, r) \/ TxFails(w, r)
        PROVE  StatesWellFormed' /\ Read'
    BY <2>2, <1>2, <1>4 DEF ForeignKeyViolation, TxFails, dbVars
  <2> QED BY <1>14, <2>1, <2>2, <1>7, <1>8, <1>8b, <1>9 DEF WorkerStep, EvaluateDBRule
<1>15. CASE DropLockSession
  BY <1>15, <1>2, <1>3 DEF DropLockSession, dbVars
<1>16. CASE UNCHANGED vars
  BY <1>16, <1>2, <1>3 DEF vars, dbVars
<1> QED BY <1>10, <1>11, <1>12, <1>13, <1>14, <1>15, <1>16 DEF Next

\* Stored alert rows are well-formed, with any number of evaluators at work.
THEOREM RowsAlwaysWellFormed == Spec => []StatesWellFormed
<1>1. Init => RowsInv
  BY TypeInit DEF Init, RowsInv, StatesWellFormed, Idle
<1>2. RowsInv => StatesWellFormed
  BY DEF RowsInv
<1> QED BY <1>1, <1>2, RowsStep, PTL DEF Spec

-----------------------------------------------------------------------------
(* One evaluator, one story.  From here on the session that holds the      *)
(* advisory lock is not lost while its worker runs.                        *)

LockKept == MaxDrops = 0

\* Whoever is past pg_advisory_lock owns it.
LockHeld == \A w \in Workers : Active(w) => lock = w

\* Foreign keys and sequences: rows of a rule that does not exist are gone, ids
\* are handed out in order and identify an event.
KeysInv ==
    /\ \A r \in RuleId : rules[r] = Nil => states[r] = Nil
    /\ \A r \in RuleId : r > lastRule => rules[r] = Nil
    /\ \A w \in Workers, r \in RuleId : worker[w].batch[r] # Nil => r =< lastRule
    /\ \A e \in events : e.rule # Nil => states[e.rule] # Nil
    /\ \A e \in events : e.id =< lastEvent
    /\ \A e, f \in events : e.id = f.id => e = f

\* What the open transaction has read is still what is stored.
TxInv ==
    \A w \in Workers, r \in RuleId :
        (InTx(w, r) /\ rules[r] # Nil) => worker[w].read = states[r]

\* Events are logged in the order of their times, and a cycle's time is not
\* before any of them.
TimeInv ==
    /\ \A e \in events : e.at =< clock
    /\ \A w \in Workers : worker[w].now =< clock
    /\ \A w \in Workers, e \in events : worker[w].pc \in {"loading", "cycle", "tx", "ready"} => e.at =< worker[w].now
    /\ \A e, f \in events : e.id < f.id => e.at =< f.at

\* A worker step by w: every other worker's state stays.
Moves(w) == \A v \in Workers : v # w => worker'[v] = worker[v]

\* A worker changes no other worker.
LEMMA WorkerFrame ==
    ASSUME TypeOK, NEW w \in Workers, WorkerStep(w)
    PROVE  Moves(w)
BY DEF Moves, WorkerStep, EvaluateDBRule, AcquireLock, StartCycle, LoadRules, LoadRulesFails,
       LoadState, LoadLatestObservation, CommitTx,
       ForeignKeyViolation, TxFails, RuleDone, EndCycle, Crash, TypeOK

\* Every action but the loss of a session keeps the lock with the active worker.
LEMMA LockStep == LockKept /\ TypeOK /\ LockHeld /\ [Next]_vars => LockHeld'
<1> SUFFICES ASSUME LockKept, TypeOK, LockHeld, [Next]_vars PROVE LockHeld'
  OBVIOUS
<1>1. CASE UNCHANGED <<worker, lock>>
  BY <1>1 DEF LockHeld, Active
<1>2. ASSUME NEW w \in Workers, AcquireLock(w)
      PROVE  LockHeld'
  BY <1>2, ConstantsAssumption DEF AcquireLock, LockHeld, Active, TypeOK
<1>3. ASSUME NEW w \in Workers, Crash(w)
      PROVE  LockHeld'
  BY <1>3 DEF Crash, LockHeld, Active, TypeOK, Idle
<1>4. ASSUME NEW w \in Workers, WorkerStep(w), UNCHANGED lock, Active(w)
      PROVE  LockHeld'
  BY <1>4, WorkerFrame DEF LockHeld, Active, Moves
<1>5. ASSUME NEW w \in Workers, WorkerStep(w)
      PROVE  LockHeld'
  <2>1. \/ AcquireLock(w) \/ Crash(w)
        \/ UNCHANGED lock /\ Active(w)
    BY <1>5 DEF WorkerStep, EvaluateDBRule, StartCycle, LoadRules, LoadRulesFails,
       LoadState, LoadLatestObservation, CommitTx,
                ForeignKeyViolation, TxFails, InTx, EndCycle, Active
  <2> QED BY <2>1, <1>2, <1>3, <1>4, <1>5
<1>6. CASE DropLockSession
  BY <1>6 DEF DropLockSession, LockKept, TypeOK
<1>7. CASE Tick \/ Collectors \/ Api \/ Maintenance \/ UNCHANGED vars
  BY <1>1, <1>7 DEF Tick, Collectors, UpsertMinute, SyncDevice, Api, CreateRule, UpdateRule,
                    DeleteRule, Maintenance, RetainSensorMinute, RetainSensorAlertEvents, vars
<1> QED BY <1>5, <1>6, <1>7 DEF Next

\* No two alert workers evaluate at the same time.
THEOREM OneEvaluator ==
    ASSUME LockKept
    PROVE  Spec => []SingleEvaluator
<1>1. Init => LockHeld
  BY DEF Init, LockHeld, Active, Idle
<1>2. LockHeld => SingleEvaluator
  BY DEF LockHeld, SingleEvaluator
<1>3. TypeOK /\ LockHeld /\ [Next]_vars => LockHeld'
  BY LockStep
<1> QED BY <1>1, <1>2, <1>3, TypeInit, TypeStep, PTL DEF Spec

\* A worker step by an active worker is the only one possible.
LEMMA OthersWait ==
    ASSUME LockHeld, NEW w \in Workers, Active(w), NEW v \in Workers, v # w
    PROVE  worker[v].pc = "waiting"
BY DEF LockHeld, Active

\* After DELETE the events of other rules stay as they are, and the deleted
\* rule's stay without it.
LEMMA Orphaned ==
    ASSUME TypeOK, NEW r \in RuleId, DeleteRule(r)
    PROVE  /\ \A e \in events' : e.rule # Nil => e \in events /\ e.rule # r
           /\ \A e \in events : e.rule # r => e \in events'
           /\ \A e \in events' : \E d \in events :
                 /\ d.id = e.id /\ d.at = e.at
                 /\ e = IF d.rule = r THEN [d EXCEPT !.rule = Nil] ELSE d
<1>1. events' = {IF e.rule = r THEN [e EXCEPT !.rule = Nil] ELSE e : e \in events}
  BY DEF DeleteRule
<1>2. \A e \in events : /\ [e EXCEPT !.rule = Nil].rule = Nil
                        /\ [e EXCEPT !.rule = Nil].id = e.id
                        /\ [e EXCEPT !.rule = Nil].at = e.at
  BY DEF TypeOK, EventRow
<1> QED BY <1>1, <1>2

\* NULL is no rule id.
LEMMA NilNotRule == Nil \notin RuleId
BY NilAssumption, ConstantsAssumption DEF RuleId

\* What InsertEvent does to the log.
LEMMA Inserted ==
    ASSUME TypeOK, NEW w \in Workers, NEW r \in RuleId, CommitTx(w, r)
    PROVE  /\ Result(w, r).event = Nil => UNCHANGED <<events, lastEvent>>
           /\ Result(w, r).event # Nil =>
                /\ lastEvent' = lastEvent + 1
                /\ events' = events \cup {RowFor(w, r, Result(w, r).event)}
                /\ RowFor(w, r, Result(w, r).event) \in EventRow
<1>1. Result(w, r).event \in AlertEvent \cup {Nil}
  BY ResultLemma DEF CommitTx, EvaluatorResult
<1> QED BY <1>1, RowForType DEF CommitTx, InsertEvent

\* Every action keeps foreign keys and sequences.
LEMMA KeysStep == TypeOK /\ KeysInv /\ [Next]_vars => KeysInv'
<1> SUFFICES ASSUME TypeOK, KeysInv, [Next]_vars PROVE KeysInv'
  OBVIOUS
<1> DEFINE Batch == \A w \in Workers, r \in RuleId : worker[w].batch[r] # Nil => r =< lastRule
<1>1. CASE UNCHANGED <<rules, lastRule, states, events, lastEvent, worker>>
  BY <1>1 DEF KeysInv
<1>2. ASSUME NEW c \in RuleConfigs, CreateRule(c)
      PROVE  KeysInv'
  BY <1>2, ConstantsAssumption DEF CreateRule, KeysInv, TypeOK, RuleId
<1>3. ASSUME NEW r \in RuleId, NEW c \in RuleConfigs, UpdateRule(r, c)
      PROVE  KeysInv'
  BY <1>3, ConstantsAssumption DEF UpdateRule, KeysInv, TypeOK
<1>4. ASSUME NEW r \in RuleId, DeleteRule(r)
      PROVE  KeysInv'
  <2>1. /\ \A q \in RuleId : rules'[q] = IF q = r THEN Nil ELSE rules[q]
        /\ \A q \in RuleId : states'[q] = IF q = r THEN Nil ELSE states[q]
        /\ UNCHANGED <<lastRule, lastEvent, worker>>
    BY <1>4 DEF DeleteRule, TypeOK
  <2>2. \A e \in events' : e.rule # Nil => states'[e.rule] # Nil
    BY <2>1, <1>4, Orphaned DEF KeysInv, TypeOK, EventRow
  <2>3. /\ \A e \in events' : e.id =< lastEvent'
        /\ \A e, f \in events' : e.id = f.id => e = f
    BY <2>1, <1>4, Orphaned DEF KeysInv
  <2> QED BY <2>1, <2>2, <2>3 DEF KeysInv
<1>5. CASE RetainSensorAlertEvents
  BY <1>5 DEF RetainSensorAlertEvents, KeysInv
<1>6. ASSUME NEW w \in Workers, NEW r \in RuleId, RuleDone(w, r), UNCHANGED lastRule
      PROVE  Batch'
  BY <1>6 DEF RuleDone, KeysInv, TypeOK, WorkerState
<1>7. ASSUME NEW w \in Workers, WorkerStep(w), UNCHANGED <<rules, lastRule>>
      PROVE  Batch'
  <2>1. CASE AcquireLock(w) \/ LoadRulesFails(w) \/ EndCycle(w) \/ Crash(w)
    BY <2>1, <1>7 DEF AcquireLock, LoadRulesFails, EndCycle, Crash, Idle, NoBatch, KeysInv, TypeOK
  <2>1a. CASE StartCycle(w)
    <3>1. worker'[w].batch = worker[w].batch
      BY <2>1a DEF StartCycle, TypeOK, WorkerState
    <3>2. Moves(w)
      BY <1>7, WorkerFrame
    <3> QED BY <3>1, <3>2, <1>7 DEF Moves, KeysInv
  <2>2. CASE LoadRules(w)
    <3>1. \A r \in RuleId : worker'[w].batch[r] # Nil => rules[r] # Nil
      BY <2>2 DEF LoadRules, TypeOK, WorkerState
    <3>2. lastRule' = lastRule /\ lastRule \in Nat /\ RuleId \subseteq Nat
      BY <1>7, ConstantsAssumption DEF TypeOK, RuleId
    <3>3. ASSUME NEW r \in RuleId, worker'[w].batch[r] # Nil
          PROVE  r =< lastRule
      <4>1. ~(r > lastRule)
        BY <3>1, <3>3 DEF KeysInv
      <4> QED BY <4>1, <3>2
    <3>4. Moves(w)
      BY <1>7, WorkerFrame
    <3> QED BY <3>2, <3>3, <3>4 DEF Moves, KeysInv
  <2>3. ASSUME NEW r \in RuleId, LoadState(w, r) \/ LoadLatestObservation(w, r)
        PROVE  Batch'
    <3>1. worker'[w].batch = worker[w].batch
      <4>1. CASE LoadState(w, r)
        BY <4>1 DEF LoadState, TypeOK, WorkerState
      <4>2. CASE LoadLatestObservation(w, r)
        BY <4>2 DEF LoadLatestObservation, TypeOK, WorkerState
      <4> QED BY <2>3, <4>1, <4>2
    <3>2. Moves(w)
      BY <1>7, WorkerFrame
    <3> QED BY <3>1, <3>2, <1>7 DEF Moves, KeysInv
  <2>4. ASSUME NEW r \in RuleId, CommitTx(w, r) \/ ForeignKeyViolation(w, r) \/ TxFails(w, r)
        PROVE  Batch'
    BY <2>4, <1>6, <1>7 DEF CommitTx, ForeignKeyViolation, TxFails
  <2> QED BY <1>7, <2>1, <2>1a, <2>2, <2>3, <2>4 DEF WorkerStep, EvaluateDBRule
<1>8. ASSUME NEW w \in Workers, NEW r \in RuleId, CommitTx(w, r)
      PROVE  KeysInv'
  <2>1. /\ UNCHANGED <<rules, lastRule>> /\ rules[r] # Nil
        /\ \A q \in RuleId : states'[q] = IF q = r THEN Result(w, r).state ELSE states[q]
    BY <1>8 DEF CommitTx, TypeOK
  <2>2. Result(w, r).state \in AlertState /\ Result(w, r).state # Nil
    BY <1>8, ResultLemma, NilAssumption DEF CommitTx, EvaluatorResult
  <2>3. Batch'
    BY <1>7, <1>8, <2>1 DEF WorkerStep, EvaluateDBRule
  <2>4. \A e \in events : e.rule # Nil => e.rule \in RuleId /\ states'[e.rule] # Nil
    BY <2>1, <2>2 DEF KeysInv, TypeOK, EventRow
  <2>5. CASE Result(w, r).event = Nil
    BY <2>1, <2>2, <2>3, <2>4, <2>5, <1>8, Inserted DEF KeysInv
  <2>6. CASE Result(w, r).event # Nil
    <3> DEFINE n == RowFor(w, r, Result(w, r).event)
    <3>1. n.id = lastEvent + 1 /\ n.rule = r
      BY DEF RowFor
    <3>2. events' = events \cup {n} /\ lastEvent' = lastEvent + 1 /\ lastEvent \in Nat
      BY <2>6, <1>8, Inserted DEF TypeOK
    <3>3. \A e \in events : e.id \in Nat /\ e.id =< lastEvent
      BY DEF KeysInv, TypeOK, EventRow
    <3> HIDE DEF n
    <3>4. /\ \A e \in events' : e.id =< lastEvent'
          /\ \A e, f \in events' : e.id = f.id => e = f
      BY <3>1, <3>2, <3>3 DEF KeysInv
    <3>5. \A e \in events' : e.rule # Nil => states'[e.rule] # Nil
      BY <3>1, <3>2, <2>1, <2>2, <2>4
    <3> QED BY <3>4, <3>5, <2>1, <2>2, <2>3 DEF KeysInv
  <2> QED BY <2>5, <2>6
<1>9. ASSUME NEW w \in Workers, WorkerStep(w)
      PROVE  KeysInv'
  <2>1. \/ \E r \in RuleId : CommitTx(w, r)
        \/ UNCHANGED <<rules, lastRule, states, events, lastEvent>>
    BY <1>9 DEF WorkerStep, EvaluateDBRule, AcquireLock, StartCycle, LoadRules, LoadRulesFails,
       LoadState, LoadLatestObservation,
                ForeignKeyViolation, TxFails, EndCycle, Crash, dbVars
  <2> QED BY <2>1, <1>7, <1>8, <1>9 DEF KeysInv
<1> QED BY <1>1, <1>2, <1>3, <1>4, <1>5, <1>9
        DEF Next, Tick, Collectors, UpsertMinute, SyncDevice, Api, Maintenance,
            RetainSensorMinute, DropLockSession, vars, dbVars

\* ORDER BY picks one rule.
LEMMA NextIsUnique ==
    ASSUME NEW w \in Workers, NEW q \in RuleId, NEW r \in RuleId, IsNext(w, q), IsNext(w, r)
    PROVE  q = r
BY ConstantsAssumption DEF IsNext, RuleId

\* While one worker steps, the others ask for the lock.
LEMMA OnlyOneMoves ==
    ASSUME TypeOK, LockHeld, NEW w \in Workers, WorkerStep(w), NEW v \in Workers, v # w
    PROVE  worker'[v] = worker[v] /\ worker[v].pc = "waiting"
<1>1. worker'[v] = worker[v]
  BY WorkerFrame DEF Moves
<1>2. Active(w) \/ lock = Nil
  BY DEF WorkerStep, EvaluateDBRule, AcquireLock, StartCycle, LoadRules, LoadRulesFails,
       LoadState, LoadLatestObservation, CommitTx,
         ForeignKeyViolation, TxFails, InTx, EndCycle, Crash, Active
<1>3. worker[v].pc = "waiting"
  BY <1>2, ConstantsAssumption DEF LockHeld, Active
<1> QED BY <1>1, <1>3

\* Every action leaves the open transaction with a current copy of the state row.
LEMMA TxStep == TypeOK /\ LockHeld /\ KeysInv /\ TxInv /\ [Next]_vars => TxInv'
<1> SUFFICES ASSUME TypeOK, LockHeld, KeysInv, TxInv, [Next]_vars PROVE TxInv'
  OBVIOUS
<1>1. CASE UNCHANGED <<rules, states, worker>>
  BY <1>1 DEF TxInv, InTx, IsNext, Todo
<1>2. ASSUME NEW c \in RuleConfigs, CreateRule(c)
      PROVE  TxInv'
  <2>1. UNCHANGED <<states, worker>>
    BY <1>2 DEF CreateRule
  <2>2. \A r \in RuleId : r =< lastRule => rules'[r] = rules[r]
    BY <1>2, ConstantsAssumption DEF CreateRule, TypeOK, RuleId
  <2>3. \A w \in Workers, r \in RuleId : InTx(w, r)' => InTx(w, r) /\ r =< lastRule
    BY <2>1 DEF InTx, IsNext, Todo, KeysInv
  <2> QED BY <2>1, <2>2, <2>3 DEF TxInv
<1>3. ASSUME NEW r \in RuleId, NEW c \in RuleConfigs, UpdateRule(r, c)
      PROVE  TxInv'
  <2>1. /\ UNCHANGED <<states, worker>>
        /\ \A q \in RuleId : rules'[q] # Nil => rules[q] # Nil
    BY <1>3 DEF UpdateRule, TypeOK
  <2> QED BY <2>1 DEF TxInv, InTx, IsNext, Todo
<1>4. ASSUME NEW r \in RuleId, DeleteRule(r)
      PROVE  TxInv'
  <2>1. /\ UNCHANGED worker
        /\ \A q \in RuleId : rules'[q] # Nil => rules[q] # Nil /\ states'[q] = states[q]
    BY <1>4 DEF DeleteRule, TypeOK
  <2> QED BY <2>1 DEF TxInv, InTx, IsNext, Todo
<1>5. ASSUME NEW w \in Workers, WorkerStep(w), worker'[w].pc \notin {"tx", "ready"}
      PROVE  TxInv'
  BY <1>5, OnlyOneMoves DEF TxInv, InTx
<1>6. ASSUME NEW w \in Workers, NEW r \in RuleId, WorkerStep(w), IsNext(w, r),
             worker'[w].batch = worker[w].batch, UNCHANGED <<rules, states>>,
             rules[r] # Nil => worker'[w].read = states[r]
      PROVE  TxInv'
  <2>1. ASSUME NEW v \in Workers, NEW q \in RuleId, InTx(v, q)'
        PROVE  v = w /\ q = r
    <3>1. v = w
      BY <2>1, <1>6, OnlyOneMoves DEF InTx
    <3>2. IsNext(w, q)
      BY <1>6, <2>1, <3>1 DEF InTx, IsNext, Todo
    <3> QED BY <1>6, <3>1, <3>2, NextIsUnique
  <2> QED BY <1>6, <2>1 DEF TxInv
<1>6a. ASSUME NEW w \in Workers, NEW r \in RuleId, LoadState(w, r)
       PROVE  TxInv'
  <2>1. /\ worker'[w].read = states[r]
        /\ worker'[w].batch = worker[w].batch
    BY <1>6a DEF LoadState, TypeOK, WorkerState
  <2>2. UNCHANGED <<rules, states>> /\ IsNext(w, r)
    BY <1>6a DEF LoadState, dbVars
  <2>3. WorkerStep(w)
    BY <1>6a DEF WorkerStep, EvaluateDBRule
  <2> QED BY <2>1, <2>2, <2>3, <1>6
<1>6b. ASSUME NEW w \in Workers, NEW r \in RuleId, LoadLatestObservation(w, r)
       PROVE  TxInv'
  <2>1. /\ worker'[w].read = worker[w].read
        /\ worker'[w].batch = worker[w].batch
    BY <1>6b DEF LoadLatestObservation, TypeOK, WorkerState
  <2>2. UNCHANGED <<rules, states>> /\ InTx(w, r)
    BY <1>6b DEF LoadLatestObservation, dbVars
  <2>3. WorkerStep(w)
    BY <1>6b DEF WorkerStep, EvaluateDBRule
  <2>4. rules[r] # Nil => worker'[w].read = states[r]
    BY <2>1, <2>2 DEF TxInv
  <2> QED BY <2>1, <2>2, <2>3, <2>4, <1>6 DEF InTx
<1>7. ASSUME NEW w \in Workers, WorkerStep(w)
      PROVE  TxInv'
  <2>1. \/ \E r \in RuleId : LoadState(w, r) \/ LoadLatestObservation(w, r)
        \/ worker'[w].pc \notin {"tx", "ready"}
    <3>1. ASSUME NEW r \in RuleId, RuleDone(w, r)
          PROVE  worker'[w].pc \notin {"tx", "ready"}
      BY <3>1 DEF RuleDone, TypeOK, WorkerState
    <3>2. AcquireLock(w) \/ LoadRulesFails(w) \/ EndCycle(w) \/ Crash(w)
            => worker'[w].pc \notin {"tx", "ready"}
      BY DEF AcquireLock, LoadRulesFails, EndCycle, Crash, Idle, TypeOK
    <3>3. /\ StartCycle(w) => worker'[w].pc \notin {"tx", "ready"}
          /\ LoadRules(w) => worker'[w].pc \notin {"tx", "ready"}
      BY DEF StartCycle, LoadRules, TypeOK, WorkerState
    <3>4. ASSUME NEW r \in RuleId, CommitTx(w, r) \/ ForeignKeyViolation(w, r) \/ TxFails(w, r)
          PROVE  worker'[w].pc \notin {"tx", "ready"}
      BY <3>1, <3>4 DEF CommitTx, ForeignKeyViolation, TxFails
    <3> QED BY <1>7, <3>2, <3>3, <3>4 DEF WorkerStep, EvaluateDBRule
  <2> QED BY <2>1, <1>5, <1>6a, <1>6b, <1>7
<1> QED BY <1>1, <1>2, <1>3, <1>4, <1>7
        DEF Next, Tick, Collectors, UpsertMinute, SyncDevice, Api, Maintenance,
            RetainSensorMinute, RetainSensorAlertEvents, DropLockSession, vars, dbVars

\* Every action keeps the order of times.
LEMMA TimeStep == TypeOK /\ LockHeld /\ KeysInv /\ TimeInv /\ [Next]_vars => TimeInv'
<1> SUFFICES ASSUME TypeOK, LockHeld, KeysInv, TimeInv, [Next]_vars PROVE TimeInv'
  OBVIOUS
<1>0. /\ clock \in Nat
      /\ \A w \in Workers : worker[w].now \in Nat
      /\ \A e \in events : e.at \in Nat /\ e.id \in Nat
  BY ConstantsAssumption DEF TypeOK, Times, WorkerState, EventRow
<1>1. CASE UNCHANGED <<clock, events, worker>>
  BY <1>1 DEF TimeInv
<1>2. CASE Tick
  <2>1. UNCHANGED <<events, worker>> /\ clock' = clock + 1
    BY <1>2 DEF Tick, dbVars
  <2> QED BY <2>1, <1>0 DEF TimeInv
<1>3. ASSUME NEW r \in RuleId, DeleteRule(r)
      PROVE  TimeInv'
  <2>1. UNCHANGED <<clock, worker>>
    BY <1>3 DEF DeleteRule
  <2>2. \A e \in events' : \E d \in events : d.id = e.id /\ d.at = e.at
    BY <1>3, Orphaned
  <2> QED BY <2>1, <2>2 DEF TimeInv
<1>4. CASE RetainSensorAlertEvents
  <2>1. UNCHANGED <<clock, worker>> /\ events' \subseteq events
    BY <1>4 DEF RetainSensorAlertEvents
  <2> QED BY <2>1 DEF TimeInv
<1>5. ASSUME NEW w \in Workers, WorkerStep(w), UNCHANGED <<clock, events>>,
             worker'[w].now =< clock,
             worker'[w].pc \in {"loading", "cycle", "tx", "ready"} =>
                 \/ worker'[w].now = clock
                 \/ worker'[w].now = worker[w].now /\ worker[w].pc \in {"loading", "cycle", "tx", "ready"}
      PROVE  TimeInv'
  BY <1>5, OnlyOneMoves DEF TimeInv
<1>6. ASSUME NEW w \in Workers, NEW r \in RuleId, RuleDone(w, r)
      PROVE  worker'[w].now = worker[w].now
  BY <1>6 DEF RuleDone, TypeOK, WorkerState
<1>7. ASSUME NEW w \in Workers, AcquireLock(w) \/ LoadRulesFails(w) \/ EndCycle(w) \/ Crash(w)
      PROVE  TimeInv'
  <2>1. /\ worker'[w].now = 0 /\ worker'[w].pc \in {"waiting", "idle"}
        /\ UNCHANGED <<clock, events>> /\ WorkerStep(w)
    BY <1>7 DEF AcquireLock, LoadRulesFails, EndCycle, Crash, Idle, TypeOK, dbVars, WorkerStep
  <2> QED BY <2>1, <1>0, <1>5
<1>8. ASSUME NEW w \in Workers, StartCycle(w)
      PROVE  TimeInv'
  <2>1. worker'[w].now = clock
    BY <1>8 DEF StartCycle, TypeOK, WorkerState
  <2>2. UNCHANGED <<clock, events>> /\ WorkerStep(w)
    BY <1>8 DEF StartCycle, dbVars, WorkerStep
  <2> QED BY <2>1, <2>2, <1>0, <1>5
<1>8a. ASSUME NEW w \in Workers, LoadRules(w)
       PROVE  TimeInv'
  <2>1. worker'[w].now = worker[w].now
    BY <1>8a DEF LoadRules, TypeOK, WorkerState
  <2>2. worker[w].pc = "loading" /\ UNCHANGED <<clock, events>> /\ WorkerStep(w)
    BY <1>8a DEF LoadRules, dbVars, WorkerStep
  <2> QED BY <2>1, <2>2, <1>5 DEF TimeInv
<1>9. ASSUME NEW w \in Workers, NEW r \in RuleId,
             LoadState(w, r) \/ LoadLatestObservation(w, r)
      PROVE  TimeInv'
  <2>1. worker'[w].now = worker[w].now
    <3>1. CASE LoadState(w, r)
      BY <3>1 DEF LoadState, TypeOK, WorkerState
    <3>2. CASE LoadLatestObservation(w, r)
      BY <3>2 DEF LoadLatestObservation, TypeOK, WorkerState
    <3> QED BY <1>9, <3>1, <3>2
  <2>2. worker[w].pc \in {"cycle", "tx"} /\ UNCHANGED <<clock, events>>
    BY <1>9 DEF LoadState, LoadLatestObservation, dbVars
  <2>3. WorkerStep(w)
    BY <1>9 DEF WorkerStep, EvaluateDBRule
  <2> QED BY <2>1, <2>2, <2>3, <1>5 DEF TimeInv
<1>10. ASSUME NEW w \in Workers, NEW r \in RuleId, ForeignKeyViolation(w, r) \/ TxFails(w, r)
       PROVE  TimeInv'
  <2>1. /\ RuleDone(w, r) /\ worker[w].pc \in {"tx", "ready"}
        /\ UNCHANGED <<clock, events>> /\ WorkerStep(w)
    BY <1>10 DEF ForeignKeyViolation, TxFails, InTx, dbVars, WorkerStep, EvaluateDBRule
  <2> QED BY <2>1, <1>5, <1>6 DEF TimeInv
<1>11. ASSUME NEW w \in Workers, NEW r \in RuleId, CommitTx(w, r)
       PROVE  TimeInv'
  <2>1. /\ RuleDone(w, r) /\ worker[w].pc \in {"tx", "ready"}
        /\ UNCHANGED clock /\ WorkerStep(w)
    BY <1>11 DEF CommitTx, InTx, WorkerStep, EvaluateDBRule
  <2>2. worker'[w].now = worker[w].now
    BY <2>1, <1>6
  <2>3. CASE Result(w, r).event = Nil
    <3>1. UNCHANGED events
      BY <2>3, <1>11, Inserted
    <3> QED BY <3>1, <2>1, <2>2, <1>5 DEF TimeInv
  <2>4. CASE Result(w, r).event # Nil
    <3> DEFINE n == RowFor(w, r, Result(w, r).event)
    <3>1. n.id = lastEvent + 1 /\ n.at = worker[w].now
      BY DEF RowFor
    <3>2. events' = events \cup {n} /\ lastEvent \in Nat
      BY <2>4, <1>11, Inserted DEF TypeOK
    <3> HIDE DEF n
    <3>3. \A e \in events : e.id < n.id /\ e.at =< n.at
      BY <3>1, <3>2, <1>0, <2>1 DEF KeysInv, TimeInv
    <3>4. \A e \in events' : e.at =< clock
      BY <3>1, <3>2 DEF TimeInv
    <3>5. \A v \in Workers : worker'[v].now =< clock
      BY <2>1, <2>2, OnlyOneMoves DEF TimeInv
    <3>6. \A v \in Workers, e \in events' :
             worker'[v].pc \in {"loading", "cycle", "tx", "ready"} => e.at =< worker'[v].now
      BY <3>1, <3>2, <3>3, <2>1, <2>2, <1>0, OnlyOneMoves DEF TimeInv
    <3>7. \A e, f \in events' : e.id < f.id => e.at =< f.at
      BY <3>1, <3>2, <3>3, <1>0 DEF TimeInv
    <3> QED BY <3>4, <3>5, <3>6, <3>7, <2>1 DEF TimeInv
  <2> QED BY <2>3, <2>4
<1> QED BY <1>1, <1>2, <1>3, <1>4, <1>7, <1>8, <1>8a, <1>9, <1>10, <1>11
        DEF Next, Collectors, UpsertMinute, SyncDevice, Api, CreateRule, UpdateRule,
            Maintenance, RetainSensorMinute, WorkerStep, EvaluateDBRule, DropLockSession,
            vars, dbVars

\* EventsMatchState, EventsAlternate and FiringAlertHasEvent: the log and the
\* state table tell one story.
Story == EventsMatchState /\ EventsAlternate /\ FiringAlertHasEvent

\* Deleting a rule does not touch the story of any other rule.
LEMMA StoryDelete ==
    ASSUME TypeOK, Story, NEW r \in RuleId, DeleteRule(r)
    PROVE  Story'
<1>1. /\ \A q \in RuleId : q # r => states'[q] = states[q]
      /\ states'[r] = Nil
      /\ UNCHANGED clock
  BY DEF DeleteRule, TypeOK
<1>2. \A e \in events : e.rule \in RuleId \cup {Nil}
  BY DEF TypeOK, EventRow
<1>3. /\ \A e \in events' : e.rule # Nil => e \in events /\ e.rule # r
      /\ \A e \in events : e.rule # r => e \in events'
  BY Orphaned
<1>4. EventsMatchState'
  <2> SUFFICES ASSUME NEW e \in events', e.rule # Nil, NewestOfRule(e)'
               PROVE  /\ states'[e.rule] # Nil
                      /\ (e.type = "firing") <=> (states'[e.rule].status = "firing")
    BY DEF EventsMatchState
  <2>1. e \in events /\ e.rule # r /\ e.rule \in RuleId
    BY <1>2, <1>3
  <2>2. NewestOfRule(e)
    BY <2>1, <1>3 DEF NewestOfRule
  <2> QED BY <2>1, <2>2, <1>1 DEF Story, EventsMatchState
<1>5. EventsAlternate'
  BY <1>3 DEF Story, EventsAlternate
<1>6. FiringAlertHasEvent'
  <2> SUFFICES ASSUME NEW q \in RuleId, states'[q] # Nil, states'[q].status = "firing",
                      states'[q].firedAt >= clock - RetainEvents
               PROVE  \E e \in events' : e.rule = q /\ e.type = "firing"
                                         /\ e.at = states'[q].firedAt
    BY <1>1 DEF FiringAlertHasEvent
  <2>1. q # r /\ states'[q] = states[q]
    BY <1>1
  <2>2. PICK e \in events : e.rule = q /\ e.type = "firing" /\ e.at = states[q].firedAt
    BY <2>1 DEF Story, FiringAlertHasEvent
  <2> QED BY <2>1, <2>2, <1>3
<1> QED BY <1>4, <1>5, <1>6 DEF Story

\* Retention removes the oldest events, so the newest of each rule and the
\* neighbours of what stays are what they were.
LEMMA StoryRetain ==
    ASSUME TypeOK, TimeInv, Story, RetainSensorAlertEvents
    PROVE  Story'
<1>1. /\ events' = {e \in events : e.at >= clock - RetainEvents}
      /\ UNCHANGED <<clock, states>>
  BY DEF RetainSensorAlertEvents
<1>2. /\ clock \in Nat /\ RetainEvents \in Nat
      /\ \A e \in events : e.at \in Nat /\ e.id \in Nat
  BY ConstantsAssumption DEF TypeOK, Times, EventRow
<1>3. ASSUME NEW e \in events', NEW f \in events, e.id < f.id
      PROVE  f \in events'
  BY <1>1, <1>2, <1>3 DEF TimeInv
<1>4. EventsMatchState'
  <2> SUFFICES ASSUME NEW e \in events', e.rule # Nil, NewestOfRule(e)'
               PROVE  /\ states[e.rule] # Nil
                      /\ (e.type = "firing") <=> (states[e.rule].status = "firing")
    BY <1>1 DEF EventsMatchState
  <2>1. NewestOfRule(e)
    BY <1>1, <1>2, <1>3 DEF NewestOfRule
  <2> QED BY <2>1, <1>1 DEF Story, EventsMatchState
<1>5. EventsAlternate'
  BY <1>1, <1>3 DEF Story, EventsAlternate
<1>6. FiringAlertHasEvent'
  BY <1>1 DEF Story, FiringAlertHasEvent
<1> QED BY <1>4, <1>5, <1>6 DEF Story

\* A commit by the only evaluator adds the event of the very transition it
\* stores, or neither.
LEMMA StoryCommit ==
    ASSUME TypeOK, KeysInv, TxInv, Story, NEW w \in Workers, NEW r \in RuleId, CommitTx(w, r)
    PROVE  Story'
<1> DEFINE cur == Current(w)
           new == Result(w, r).state
           ev  == Result(w, r).event
           n   == RowFor(w, r, ev)
<1>1. /\ states'[r] = new
      /\ \A q \in RuleId : q # r => states'[q] = states[q]
      /\ UNCHANGED clock
  BY DEF CommitTx, TypeOK
<1>2. /\ new # Nil
      /\ Correct(worker[w].now, cur, Result(w, r))
  BY ResultLemma, NilAssumption DEF CommitTx, EvaluatorResult
<1>3. /\ states[r] # Nil => cur = states[r]
      /\ states[r] = Nil => cur.status = "normal"
  BY DEF CommitTx, TxInv, Current, FirstState
<1>4. \A e \in events : e.rule \in RuleId \cup {Nil} /\ e.id \in Nat
                        /\ e.id =< lastEvent /\ e.type \in {"firing", "resolved"}
  BY DEF TypeOK, EventRow, KeysInv
<1>5. \A e \in events : e.rule # Nil => states[e.rule] # Nil
  BY DEF KeysInv
<1>6. r # Nil
  BY NilNotRule
<1>7. CASE ev = Nil
  <2>1. UNCHANGED events
    BY <1>7, Inserted
  <2>2. /\ (new.status = "firing") <=> (cur.status = "firing")
        /\ new.firedAt = cur.firedAt
    BY <1>2, <1>7 DEF Correct
  <2> HIDE DEF cur, new, ev, n
  <2>3. EventsMatchState'
    <3> SUFFICES ASSUME NEW e \in events, e.rule # Nil, NewestOfRule(e)
                 PROVE  /\ states'[e.rule] # Nil
                        /\ (e.type = "firing") <=> (states'[e.rule].status = "firing")
      BY <2>1 DEF EventsMatchState, NewestOfRule
    <3>1. /\ states[e.rule] # Nil
          /\ (e.type = "firing") <=> (states[e.rule].status = "firing")
      BY DEF Story, EventsMatchState
    <3> QED BY <3>1, <1>1, <1>2, <1>3, <1>4, <2>2
  <2>4. EventsAlternate'
    BY <2>1 DEF Story, EventsAlternate
  <2>5. FiringAlertHasEvent'
    <3> SUFFICES ASSUME NEW q \in RuleId, states'[q] # Nil, states'[q].status = "firing",
                        states'[q].firedAt >= clock - RetainEvents
                 PROVE  \E e \in events : e.rule = q /\ e.type = "firing"
                                          /\ e.at = states'[q].firedAt
      BY <1>1, <2>1 DEF FiringAlertHasEvent
    <3>1. /\ states[q] # Nil /\ states[q].status = "firing"
          /\ states[q].firedAt = states'[q].firedAt
      BY <1>1, <1>3, <2>2
    <3> QED BY <3>1 DEF Story, FiringAlertHasEvent
  <2> QED BY <2>3, <2>4, <2>5 DEF Story
<1>8. CASE ev # Nil
  <2>1. events' = events \cup {n} /\ lastEvent \in Nat
    BY <1>8, Inserted DEF TypeOK
  <2>2. /\ n.id = lastEvent + 1 /\ n.rule = r
        /\ n.at = worker[w].now /\ n.type = ev.type
    BY DEF RowFor
  <2>3. \/ /\ ev.type = "firing"
           /\ cur.status # "firing" /\ new.status = "firing"
           /\ new.firedAt = worker[w].now
        \/ /\ ev.type = "resolved"
           /\ cur.status = "firing" /\ new.status # "firing"
    BY <1>2, <1>8 DEF Correct
  <2> HIDE DEF cur, new, ev, n
  <2>4. \A e \in events : e.id < n.id
    BY <1>4, <2>1, <2>2
  <2>5. EventsMatchState'
    <3> SUFFICES ASSUME NEW e \in events', e.rule # Nil, NewestOfRule(e)'
                 PROVE  /\ states'[e.rule] # Nil
                        /\ (e.type = "firing") <=> (states'[e.rule].status = "firing")
      BY DEF EventsMatchState
    <3>1. CASE e = n
      BY <3>1, <1>1, <1>2, <2>2, <2>3
    <3>2. CASE e # n
      <4>1. e \in events /\ e.rule # r
        BY <3>2, <2>1, <2>2, <2>4, <1>4 DEF NewestOfRule
      <4>2. NewestOfRule(e)
        BY <2>1 DEF NewestOfRule
      <4> QED BY <4>1, <4>2, <1>1, <1>4 DEF Story, EventsMatchState
    <3> QED BY <3>1, <3>2
  <2>6. EventsAlternate'
    <3> SUFFICES ASSUME NEW e \in events', NEW f \in events',
                        e.rule = f.rule, e.rule # Nil, e.id < f.id,
                        ~\E g \in events' : g.rule = e.rule /\ e.id < g.id /\ g.id < f.id
                 PROVE  e.type # f.type
      BY DEF EventsAlternate
    <3>1. e \in events
      BY <2>1, <2>2, <2>4, <1>4
    <3>2. CASE f \in events
      BY <3>1, <3>2, <2>1 DEF Story, EventsAlternate
    <3>3. CASE f = n
      <4>1. ASSUME NEW g \in events, g.rule = e.rule
            PROVE  g.id =< e.id
        BY <4>1, <3>1, <3>3, <2>1, <2>4, <1>4
      <4>2. NewestOfRule(e)
        BY <4>1 DEF NewestOfRule
      <4>3. /\ states[r] # Nil
            /\ (e.type = "firing") <=> (states[r].status = "firing")
        BY <3>1, <3>3, <4>2, <2>2 DEF Story, EventsMatchState
      <4> QED BY <4>3, <3>3, <1>3, <2>2, <2>3
    <3> QED BY <3>2, <3>3, <2>1
  <2>7. FiringAlertHasEvent'
    <3> SUFFICES ASSUME NEW q \in RuleId, states'[q] # Nil, states'[q].status = "firing",
                        states'[q].firedAt >= clock - RetainEvents
                 PROVE  \E e \in events' : e.rule = q /\ e.type = "firing"
                                           /\ e.at = states'[q].firedAt
      BY <1>1 DEF FiringAlertHasEvent
    <3>1. CASE q = r
      BY <3>1, <1>1, <2>1, <2>2, <2>3
    <3>2. CASE q # r
      BY <3>2, <1>1, <2>1 DEF Story, FiringAlertHasEvent
    <3> QED BY <3>1, <3>2
  <2> QED BY <2>5, <2>6, <2>7 DEF Story
<1> QED BY <1>7, <1>8

\* Every action keeps the log and the state table in agreement.
LEMMA StoryStep ==
    RowsInv /\ KeysInv /\ TxInv /\ TimeInv /\ Story /\ [Next]_vars => Story'
<1> SUFFICES ASSUME RowsInv, KeysInv, TxInv, TimeInv, Story, [Next]_vars PROVE Story'
  OBVIOUS
<1>0. TypeOK /\ StatesWellFormed
  BY DEF RowsInv
<1>1. CASE UNCHANGED <<events, states>> /\ clock' \in {clock, clock + 1}
  <2>1. clock \in Nat /\ RetainEvents \in Nat
    BY <1>0, ConstantsAssumption DEF TypeOK, Times
  <2>2. EventsMatchState' /\ EventsAlternate'
    BY <1>1 DEF Story, EventsMatchState, NewestOfRule, EventsAlternate
  <2>3. FiringAlertHasEvent'
    <3> SUFFICES ASSUME NEW q \in RuleId, states[q] # Nil, states[q].status = "firing",
                        states[q].firedAt >= clock' - RetainEvents
                 PROVE  \E e \in events : e.rule = q /\ e.type = "firing"
                                          /\ e.at = states[q].firedAt
      BY <1>1 DEF FiringAlertHasEvent
    <3>1. states[q].firedAt \in Nat
      <4>1. states[q] \in AlertState /\ WellFormed(states[q])
        BY <1>0 DEF TypeOK, StatesWellFormed
      <4> QED BY <4>1 DEF AlertState, OptTime, WellFormed
    <3>2. states[q].firedAt >= clock - RetainEvents
      BY <3>1, <2>1, <1>1
    <3> QED BY <3>2 DEF Story, FiringAlertHasEvent
  <2> QED BY <2>2, <2>3 DEF Story
<1>2. ASSUME NEW w \in Workers, WorkerStep(w)
      PROVE  \/ \E r \in RuleId : CommitTx(w, r)
             \/ UNCHANGED <<events, states, clock>>
  BY <1>2 DEF WorkerStep, EvaluateDBRule, AcquireLock, StartCycle, LoadRules, LoadRulesFails,
       LoadState, LoadLatestObservation,
              ForeignKeyViolation, TxFails, EndCycle, Crash, dbVars
<1>3. CASE Tick
  BY <1>3, <1>1 DEF Tick, dbVars
<1>4. CASE Collectors \/ Api
  BY <1>0, <1>4, <1>1, StoryDelete
     DEF Collectors, UpsertMinute, SyncDevice, Api, CreateRule, UpdateRule
<1>5. CASE Maintenance
  BY <1>0, <1>5, <1>1, StoryRetain DEF Maintenance, RetainSensorMinute
<1>6. CASE DropLockSession \/ UNCHANGED vars
  BY <1>6, <1>1 DEF DropLockSession, vars, dbVars
<1> QED BY <1>0, <1>1, <1>2, <1>3, <1>4, <1>5, <1>6, StoryCommit DEF Next

\* The inductive invariant.
IInv == RowsInv /\ LockHeld /\ KeysInv /\ TxInv /\ TimeInv /\ Story

\* The inductive invariant holds of the empty database.
LEMMA IInvInit == Init => IInv
<1> SUFFICES ASSUME Init PROVE IInv
  OBVIOUS
<1>1. \A w \in Workers : /\ worker[w].pc = "waiting" /\ worker[w].now = 0
                         /\ worker[w].read = Nil
                         /\ \A r \in RuleId : worker[w].batch[r] = Nil
  BY DEF Init, Idle, NoBatch
<1>2. RowsInv
  BY <1>1, TypeInit DEF Init, RowsInv, StatesWellFormed
<1>3. LockHeld /\ KeysInv /\ TxInv
  BY <1>1 DEF Init, LockHeld, Active, KeysInv, TxInv, InTx
<1>4. TimeInv
  BY <1>1 DEF Init, TimeInv
<1>5. Story
  BY DEF Init, Story, EventsMatchState, EventsAlternate, FiringAlertHasEvent
<1> QED BY <1>2, <1>3, <1>4, <1>5 DEF IInv

\* The inductive invariant is inductive.
LEMMA IInvStep == LockKept /\ IInv /\ [Next]_vars => IInv'
BY RowsStep, LockStep, KeysStep, TxStep, TimeStep, StoryStep DEF IInv, RowsInv

\* While the lock's session lives, the newest event of a rule tells whether it
\* is firing: the log and the state table never disagree.
THEOREM EventsAlwaysMatchState ==
    ASSUME LockKept
    PROVE  Spec => []EventsMatchState
<1>1. IInv /\ [Next]_vars => IInv'
  BY IInvStep
<1>2. IInv => EventsMatchState
  BY DEF IInv, Story
<1> QED BY <1>1, <1>2, IInvInit, PTL DEF Spec

\* While the lock's session lives, firing and resolved events of a rule
\* alternate.
THEOREM EventsAlwaysAlternate ==
    ASSUME LockKept
    PROVE  Spec => []EventsAlternate
<1>1. IInv /\ [Next]_vars => IInv'
  BY IInvStep
<1>2. IInv => EventsAlternate
  BY DEF IInv, Story
<1> QED BY <1>1, <1>2, IInvInit, PTL DEF Spec

\* While the lock's session lives, a firing alert has its firing event until
\* retention removes it.
THEOREM FiringAlwaysHasEvent ==
    ASSUME LockKept
    PROVE  Spec => []FiringAlertHasEvent
<1>1. IInv /\ [Next]_vars => IInv'
  BY IInvStep
<1>2. IInv => FiringAlertHasEvent
  BY DEF IInv, Story
<1> QED BY <1>1, <1>2, IInvInit, PTL DEF Spec

-----------------------------------------------------------------------------
(* How an alert ends.                                                      *)

\* What an evaluation leaves of the times of a row: only a measurement moves
\* last_value_at, and resolved_at is cleared by firing, set by resolving and
\* kept by everything else.
Stamped(now, cur, res) ==
    \/ res.event = Nil /\ res.state.resolvedAt = cur.resolvedAt
    \/ res.event # Nil /\ res.event.type = "firing" /\ res.state.resolvedAt = Nil
    \/ res.event # Nil /\ res.event.type = "resolved" /\ res.state.resolvedAt = now

\* Firing and resolving stamp the row and report the measurement.
LEMMA EventStamps ==
    ASSUME NEW now \in Nat, NEW s \in AlertState, NEW obs \in Observation
    PROVE  /\ Stamped(now, s, Fire(now, s, obs))
           /\ Stamped(now, s, Resolve(now, s, obs))
           /\ Fire(now, s, obs).state.lastValueAt = s.lastValueAt
           /\ Resolve(now, s, obs).state.lastValueAt = s.lastValueAt
           /\ Fire(now, s, obs).event.valueAt = obs.ts
           /\ Resolve(now, s, obs).event.valueAt = obs.ts
<1>1. Fire(now, s, obs).event # Nil /\ Resolve(now, s, obs).event # Nil
  BY NilAssumption DEF Fire, Resolve, AlertEvent, OptTime, OptValue, Reason, Observation
<1>2. /\ Fire(now, s, obs).event.type = "firing"
      /\ Fire(now, s, obs).state.resolvedAt = Nil
      /\ Resolve(now, s, obs).event.type = "resolved"
      /\ Resolve(now, s, obs).state.resolvedAt = now
  BY DEF Fire, Resolve, AlertState
<1> QED BY <1>1, <1>2 DEF Stamped, Fire, Resolve, AlertState

\* A new measurement stamps the row, and an event of it reports it.
LEMMA TransitionStamps ==
    ASSUME NEW now \in Nat, NEW rule \in RuleBody, NEW lastAt \in OptTime,
           NEW s \in AlertState, NEW obs \in Observation
    PROVE  LET T == Transition(now, rule, lastAt, s, obs)
           IN  /\ Stamped(now, s, T)
               /\ T.state.lastValueAt = s.lastValueAt
               /\ T.event # Nil => T.event.valueAt = obs.ts
<1> DEFINE since == IF s.pendingSince = Nil THEN obs.ts ELSE s.pendingSince
           pend  == [s EXCEPT !.status = "pending", !.pendingSince = since]
           T     == Transition(now, rule, lastAt, s, obs)
           ok(R) == /\ Stamped(now, s, R)
                    /\ R.state.lastValueAt = s.lastValueAt
                    /\ R.event # Nil => R.event.valueAt = obs.ts
           quiet(st, p) == NoEvent([s EXCEPT !.status = st, !.pendingSince = p])
           late  == NoEvent([pend EXCEPT !.pendingSince = obs.ts])
<1>1. /\ pend \in AlertState
      /\ pend.resolvedAt = s.resolvedAt /\ pend.lastValueAt = s.lastValueAt
  BY DEF AlertState, Status, OptTime, Observation
<1>2. \A st \in Status, p \in OptTime : ok(quiet(st, p))
  BY DEF NoEvent, Stamped, AlertState
<1>3. ok(NoEvent(s)) /\ ok(NoEvent(pend))
  BY <1>1 DEF NoEvent, Stamped
<1>4. ok(late)
  BY DEF NoEvent, Stamped, AlertState
<1>5. ok(Fire(now, s, obs)) /\ ok(Resolve(now, s, obs))
  BY EventStamps
<1>6. ok(Fire(now, pend, obs))
  <2> HIDE DEF pend
  <2> QED BY <1>1, EventStamps DEF Stamped
<1>7. \/ T = Resolve(now, s, obs)
      \/ T = quiet("normal", Nil)
      \/ T = late
      \/ T = Fire(now, pend, obs)
      \/ T = NoEvent(pend)
      \/ T = Fire(now, s, obs)
      \/ T = quiet("pending", obs.ts)
      \/ T = NoEvent(s)
  BY DEF Transition
<1>8. obs.ts \in OptTime /\ Nil \in OptTime /\ {"normal", "pending"} \subseteq Status
  BY DEF Observation, OptTime, Status
<1>9. ok(T)
  <2> HIDE DEF ok, pend, quiet, late, T
  <2> QED BY <1>2, <1>3, <1>4, <1>5, <1>6, <1>7, <1>8
<1> QED BY <1>9

\* A pending or firing alert has been measured.
Dated(s) == s.status # "normal" => s.lastValueAt # Nil

\* What a resolved event says of a threshold that was cleared: it names a
\* measurement newer than the last one of the row.
ClearedByNewer(cur, res) ==
    (res.event # Nil /\ res.event.type = "resolved" /\ res.event.reason = "threshold_cleared")
    => /\ res.event.valueAt \in Nat
       /\ cur.lastValueAt # Nil => res.event.valueAt > cur.lastValueAt

\* Disabling stamps a row that was firing, and clears no threshold.
LEMMA DisableStamps ==
    ASSUME NEW now \in Nat, NEW rule \in RuleBody, NEW s \in AlertState
    PROVE  LET D == Disable(now, rule, s)
           IN  /\ Stamped(now, s, D)
               /\ D.state.status = "normal"
               /\ D.event # Nil => D.event.reason # "threshold_cleared"
<1> DEFINE D == Disable(now, rule, s)
<1>1. CASE s.status = "firing"
  <2>1. D.event # Nil
    BY <1>1, NilAssumption
       DEF Disable, AlertState, AlertEvent, OptTime, OptValue, Reason, RuleBody
  <2>2. /\ D.state.resolvedAt = now /\ D.state.status = "normal"
        /\ D.event.type = "resolved" /\ D.event.reason # "threshold_cleared"
    BY <1>1 DEF Disable, AlertState
  <2> QED BY <2>1, <2>2 DEF Stamped
<1>2. CASE s.status # "firing"
  <2>1. /\ D.event = Nil
        /\ D.state.resolvedAt = s.resolvedAt /\ D.state.status = "normal"
    BY <1>2 DEF Disable, NoEvent, AlertState
  <2> QED BY <2>1 DEF Stamped
<1> QED BY <1>1, <1>2

\* Evaluate stamps the row, keeps it measured, and clears an alert only on a
\* newer measurement.
LEMMA EvaluateStamps ==
    ASSUME NEW now \in Nat, NEW rule \in RuleBody, NEW dev \in BOOLEAN,
           NEW cur \in AlertState, NEW obs \in Observation \cup {Nil}
    PROVE  LET E == Evaluate(now, rule, dev, cur, obs)
           IN  /\ Stamped(now, cur, E)
               /\ Dated(cur) => Dated(E.state)
               /\ ClearedByNewer(cur, E)
<1> DEFINE E == Evaluate(now, rule, dev, cur, obs)
           noted(e) == [cur EXCEPT !.lastValue = obs.value, !.lastValueAt = obs.ts,
                                  !.evaluation = e]
<1>1. CASE ~rule.enabled \/ ~dev
  <2>1. E = Disable(now, rule, cur)
    BY <1>1 DEF Evaluate
  <2> QED BY <2>1, DisableStamps DEF Dated, ClearedByNewer
<1>2. CASE ~(~rule.enabled \/ ~dev) /\ obs = Nil
  <2>1. E = NoEvent([cur EXCEPT !.evaluation = "no_data"])
    BY <1>2 DEF Evaluate
  <2> QED BY <2>1 DEF NoEvent, Stamped, Dated, ClearedByNewer, AlertState
<1>3. CASE ~(~rule.enabled \/ ~dev) /\ obs # Nil
  <2>1. obs \in Observation /\ obs.ts \in Nat /\ obs.ts # Nil
    BY <1>3, NilAssumption DEF Observation
  <2>2. ASSUME NEW e \in {"ok", "stale"}
        PROVE  /\ noted(e) \in AlertState
               /\ noted(e).resolvedAt = cur.resolvedAt
               /\ noted(e).lastValueAt = obs.ts
    BY <2>1 DEF AlertState, Evaluation, Observation, OptTime, OptValue
  <2>3. cur.lastValueAt \in OptTime
    BY DEF AlertState
  <2>4. \/ E = NoEvent(noted("stale"))
        \/ E = NoEvent(noted("ok"))
        \/ /\ Newer(cur.lastValueAt, obs)
           /\ E = Transition(now, rule, cur.lastValueAt, noted("ok"), obs)
    BY <1>3 DEF Evaluate
  <2> HIDE DEF noted
  <2>5. ASSUME NEW e \in {"ok", "stale"}, E = NoEvent(noted(e))
        PROVE  Stamped(now, cur, E) /\ Dated(E.state) /\ ClearedByNewer(cur, E)
    BY <2>1, <2>2, <2>5 DEF NoEvent, Stamped, Dated, ClearedByNewer
  <2>6. ASSUME Newer(cur.lastValueAt, obs),
               E = Transition(now, rule, cur.lastValueAt, noted("ok"), obs)
        PROVE  Stamped(now, cur, E) /\ Dated(E.state) /\ ClearedByNewer(cur, E)
    <3> HIDE DEF E
    <3>1. /\ Stamped(now, noted("ok"), E)
          /\ E.state.lastValueAt = obs.ts
          /\ E.event # Nil => E.event.valueAt = obs.ts
      BY <2>6, <2>1, <2>2, <2>3, TransitionStamps
    <3>2. Stamped(now, cur, E) /\ Dated(E.state)
      BY <3>1, <2>1, <2>2 DEF Stamped, Dated
    <3>3. ClearedByNewer(cur, E)
      <4>1. cur.lastValueAt # Nil => obs.ts > cur.lastValueAt
        BY <2>6 DEF Newer
      <4> QED BY <4>1, <3>1, <2>1 DEF ClearedByNewer
    <3> QED BY <3>2, <3>3
  <2> QED BY <2>4, <2>5, <2>6
<1> QED BY <1>1, <1>2, <1>3

\* The same of the open transaction.
LEMMA ResultStamps ==
    ASSUME TypeOK, NEW w \in Workers, NEW r \in RuleId, InTx(w, r)
    PROVE  /\ Stamped(worker[w].now, Current(w), Result(w, r))
           /\ Dated(Current(w)) => Dated(Result(w, r).state)
           /\ ClearedByNewer(Current(w), Result(w, r))
<1>1. worker[w].batch[r] # Nil
  BY DEF InTx, IsNext, Todo
<1>2. /\ worker[w].batch[r].rule \in RuleBody
      /\ worker[w].batch[r].deviceEnabled \in BOOLEAN
  BY <1>1, BatchType DEF LoadedRule
<1>3. /\ worker[w].now \in Nat
      /\ worker[w].obs \in Observation \cup {Nil}
  BY DEF TypeOK, WorkerState
<1>4. Current(w) \in AlertState
  BY ResultLemma
<1>5. Result(w, r) = Evaluate(worker[w].now, worker[w].batch[r].rule,
                              worker[w].batch[r].deviceEnabled, Current(w), worker[w].obs)
  BY DEF Result, Current
<1> QED BY <1>2, <1>3, <1>4, <1>5, EvaluateStamps

\* A state row stays, goes with its rule, or is written by a commit.
LEMMA RowMoves ==
    ASSUME TypeOK, [Next]_vars, NEW r \in RuleId
    PROVE  \/ states'[r] = states[r]
           \/ states'[r] = Nil
           \/ \E w \in Workers : CommitTx(w, r) /\ states'[r] = Result(w, r).state
<1>1. ASSUME NEW q \in RuleId, DeleteRule(q)
      PROVE  states'[r] = states[r] \/ states'[r] = Nil
  BY <1>1 DEF DeleteRule, TypeOK
<1>2. ASSUME NEW w \in Workers, NEW q \in RuleId, CommitTx(w, q)
      PROVE  \/ states'[r] = states[r]
             \/ CommitTx(w, r) /\ states'[r] = Result(w, r).state
  BY <1>2 DEF CommitTx, TypeOK
<1>3. ASSUME NEW w \in Workers, WorkerStep(w)
      PROVE  UNCHANGED states \/ \E q \in RuleId : CommitTx(w, q)
  BY <1>3 DEF WorkerStep, EvaluateDBRule, AcquireLock, StartCycle, LoadRules, LoadRulesFails,
              LoadState, LoadLatestObservation, ForeignKeyViolation, TxFails, EndCycle, Crash,
              dbVars
<1> QED BY <1>1, <1>2, <1>3
        DEF Next, Tick, Collectors, UpsertMinute, SyncDevice, Api, CreateRule, UpdateRule,
            Maintenance, RetainSensorMinute, RetainSensorAlertEvents, DropLockSession,
            vars, dbVars

\* What a transaction has read stays, is dropped, or was the stored row.
LEMMA ReadMoves ==
    ASSUME TypeOK, [Next]_vars, NEW v \in Workers
    PROVE  \/ worker'[v].read \in {worker[v].read, Nil}
           \/ \E r \in RuleId : worker'[v].read = states[r]
<1>1. CASE UNCHANGED worker
  BY <1>1
<1>2. ASSUME NEW w \in Workers, WorkerStep(w), v # w
      PROVE  worker'[v].read = worker[v].read
  BY <1>2, WorkerFrame DEF Moves
<1>3. ASSUME AcquireLock(v) \/ LoadRulesFails(v) \/ EndCycle(v) \/ Crash(v)
      PROVE  worker'[v].read = Nil
  BY <1>3 DEF AcquireLock, LoadRulesFails, EndCycle, Crash, Idle, TypeOK
<1>4. ASSUME StartCycle(v) \/ LoadRules(v)
      PROVE  worker'[v].read = worker[v].read
  <2>1. CASE StartCycle(v)
    BY <2>1 DEF StartCycle, TypeOK, WorkerState
  <2>2. CASE LoadRules(v)
    BY <2>2 DEF LoadRules, TypeOK, WorkerState
  <2> QED BY <1>4, <2>1, <2>2
<1>5. ASSUME NEW r \in RuleId, LoadState(v, r)
      PROVE  worker'[v].read = states[r]
  BY <1>5 DEF LoadState, TypeOK, WorkerState
<1>6. ASSUME NEW r \in RuleId, LoadLatestObservation(v, r)
      PROVE  worker'[v].read = worker[v].read
  BY <1>6 DEF LoadLatestObservation, TypeOK, WorkerState
<1>7. ASSUME NEW r \in RuleId, RuleDone(v, r)
      PROVE  worker'[v].read = Nil
  BY <1>7 DEF RuleDone, TypeOK, WorkerState
<1>8. ASSUME WorkerStep(v)
      PROVE  \/ worker'[v].read \in {worker[v].read, Nil}
             \/ \E r \in RuleId : worker'[v].read = states[r]
  BY <1>3, <1>4, <1>5, <1>6, <1>7, <1>8
     DEF WorkerStep, EvaluateDBRule, CommitTx, ForeignKeyViolation, TxFails
<1> QED BY <1>1, <1>2, <1>8
        DEF Next, Tick, Collectors, UpsertMinute, SyncDevice, Api, CreateRule, UpdateRule,
            DeleteRule, Maintenance, RetainSensorMinute, RetainSensorAlertEvents,
            DropLockSession, vars

\* Stored and read rows that are pending or firing have been measured.
DatedInv ==
    /\ \A r \in RuleId : states[r] # Nil => Dated(states[r])
    /\ \A w \in Workers : worker[w].read # Nil => Dated(worker[w].read)

\* Every action keeps the rows measured.
LEMMA DatedStep == TypeOK /\ DatedInv /\ [Next]_vars => DatedInv'
<1> SUFFICES ASSUME TypeOK, DatedInv, [Next]_vars PROVE DatedInv'
  OBVIOUS
<1>1. ASSUME NEW r \in RuleId, states'[r] # Nil
      PROVE  Dated(states'[r])
  <2>1. ASSUME NEW w \in Workers, CommitTx(w, r), states'[r] = Result(w, r).state
        PROVE  Dated(states'[r])
    <3>1. Dated(Current(w))
      BY DEF DatedInv, Current, FirstState, Dated
    <3> QED BY <2>1, <3>1, ResultStamps DEF CommitTx
  <2> QED BY <1>1, <2>1, RowMoves DEF DatedInv
<1>2. ASSUME NEW w \in Workers, worker'[w].read # Nil
      PROVE  Dated(worker'[w].read)
  BY <1>2, ReadMoves DEF DatedInv
<1> QED BY <1>1, <1>2 DEF DatedInv

-----------------------------------------------------------------------------
(* The times of an alert.                                                  *)

Working(w) == worker[w].pc \in {"loading", "cycle", "tx", "ready"}

\* An alert fired in the past, and not after the time of a cycle under way:
\* what that cycle resolves, it resolves later.
FiredInv ==
    \A r \in RuleId :
        (states[r] # Nil /\ states[r].firedAt # Nil) =>
            /\ states[r].firedAt =< clock
            /\ \A w \in Workers : Working(w) => states[r].firedAt =< worker[w].now

\* The time of a cycle is taken once, when it begins.
LEMMA NowMoves ==
    ASSUME TypeOK, [Next]_vars, NEW v \in Workers, Working(v)'
    PROVE  \/ worker'[v].now = clock
           \/ worker'[v].now = worker[v].now /\ Working(v)
<1>1. CASE UNCHANGED worker
  BY <1>1 DEF Working
<1>2. ASSUME NEW w \in Workers, WorkerStep(w), v # w
      PROVE  worker'[v] = worker[v]
  BY <1>2, WorkerFrame DEF Moves
<1>3. ~(AcquireLock(v) \/ LoadRulesFails(v) \/ EndCycle(v) \/ Crash(v))
  BY DEF Working, AcquireLock, LoadRulesFails, EndCycle, Crash, Idle, TypeOK
<1>4. ASSUME StartCycle(v)
      PROVE  worker'[v].now = clock
  BY <1>4 DEF StartCycle, TypeOK, WorkerState
<1>5. ASSUME LoadRules(v)
      PROVE  worker'[v].now = worker[v].now /\ Working(v)
  BY <1>5 DEF LoadRules, Working, TypeOK, WorkerState
<1>6. ASSUME NEW r \in RuleId, LoadState(v, r)
      PROVE  worker'[v].now = worker[v].now /\ Working(v)
  BY <1>6 DEF LoadState, Working, TypeOK, WorkerState
<1>7. ASSUME NEW r \in RuleId, LoadLatestObservation(v, r)
      PROVE  worker'[v].now = worker[v].now /\ Working(v)
  BY <1>7 DEF LoadLatestObservation, Working, TypeOK, WorkerState
<1>8. ASSUME NEW r \in RuleId, RuleDone(v, r), InTx(v, r)
      PROVE  worker'[v].now = worker[v].now /\ Working(v)
  BY <1>8 DEF RuleDone, InTx, Working, TypeOK, WorkerState
<1>9. ASSUME WorkerStep(v)
      PROVE  \/ worker'[v].now = clock
             \/ worker'[v].now = worker[v].now /\ Working(v)
  BY <1>3, <1>4, <1>5, <1>6, <1>7, <1>8, <1>9
     DEF WorkerStep, EvaluateDBRule, CommitTx, ForeignKeyViolation, TxFails
<1> QED BY <1>1, <1>2, <1>9
        DEF Working, Next, Tick, Collectors, UpsertMinute, SyncDevice, Api, CreateRule,
            UpdateRule, DeleteRule, Maintenance, RetainSensorMinute, RetainSensorAlertEvents,
            DropLockSession, vars

\* The clock does not go back, and stands still in a commit.
LEMMA ClockMoves ==
    ASSUME TypeOK, [Next]_vars
    PROVE  /\ clock' \in {clock, clock + 1}
           /\ \A w \in Workers, r \in RuleId : CommitTx(w, r) => clock' = clock
BY DEF Next, Tick, Collectors, UpsertMinute, SyncDevice, Api, CreateRule, UpdateRule,
       DeleteRule, Maintenance, RetainSensorMinute, RetainSensorAlertEvents, DropLockSession,
       WorkerStep, EvaluateDBRule, AcquireLock, StartCycle, LoadRules, LoadRulesFails, LoadState,
       LoadLatestObservation, CommitTx, ForeignKeyViolation, TxFails, EndCycle, Crash, vars

\* A commit writes what the evaluator makes of the stored row, or of no row.
LEMMA CommitEvaluates ==
    ASSUME TypeOK, TxInv, NEW w \in Workers, NEW r \in RuleId, CommitTx(w, r)
    PROVE  /\ states[r] # Nil => Current(w) = states[r]
           /\ states[r] = Nil => Current(w) = FirstState
           /\ Correct(worker[w].now, Current(w), Result(w, r))
           /\ Stamped(worker[w].now, Current(w), Result(w, r))
           /\ ClearedByNewer(Current(w), Result(w, r))
           /\ Working(w) /\ Working(w)' /\ worker'[w].now = worker[w].now
<1>1. InTx(w, r) /\ rules[r] # Nil /\ RuleDone(w, r)
  BY DEF CommitTx
<1>2. worker[w].read = states[r]
  BY <1>1 DEF TxInv
<1>3. /\ Correct(worker[w].now, Current(w), Result(w, r))
      /\ Stamped(worker[w].now, Current(w), Result(w, r))
      /\ ClearedByNewer(Current(w), Result(w, r))
  BY <1>1, ResultLemma, ResultStamps
<1>4. Working(w) /\ Working(w)' /\ worker'[w].now = worker[w].now
  BY <1>1 DEF InTx, Working, RuleDone, TypeOK, WorkerState
<1> QED BY <1>2, <1>3, <1>4 DEF Current

\* Every action keeps fired_at before the cycles under way.
LEMMA FiredStep ==
    TypeOK /\ LockHeld /\ TxInv /\ TimeInv /\ FiredInv /\ [Next]_vars /\ TypeOK' => FiredInv'
<1> SUFFICES ASSUME TypeOK, LockHeld, TxInv, TimeInv, FiredInv, [Next]_vars, TypeOK',
                    NEW r \in RuleId, states'[r] # Nil, states'[r].firedAt # Nil
             PROVE  /\ states'[r].firedAt =< clock'
                    /\ \A v \in Workers : Working(v)' => states'[r].firedAt =< worker'[v].now
  BY DEF FiredInv
<1>1. /\ clock \in Nat /\ clock' \in {clock, clock + 1}
      /\ states'[r].firedAt \in Nat
      /\ \A v \in Workers : worker[v].now \in Nat
  BY ClockMoves, ConstantsAssumption DEF TypeOK, Times, AlertState, OptTime, WorkerState
<1>2. CASE states'[r] = states[r]
  BY <1>1, <1>2, NowMoves DEF FiredInv
<1>3. ASSUME NEW w \in Workers, CommitTx(w, r), states'[r] = Result(w, r).state
      PROVE  /\ states'[r].firedAt =< clock'
             /\ \A v \in Workers : Working(v)' => states'[r].firedAt =< worker'[v].now
  <2>1. /\ Correct(worker[w].now, Current(w), Result(w, r))
        /\ Working(w) /\ worker'[w].now = worker[w].now
        /\ states[r] # Nil => Current(w) = states[r]
        /\ states[r] = Nil => Current(w).firedAt = Nil
    BY <1>3, CommitEvaluates DEF FirstState
  <2>2. states'[r].firedAt \in {worker[w].now, Current(w).firedAt}
    BY <1>3, <2>1 DEF Correct
  <2>3. states'[r].firedAt =< worker[w].now
    BY <1>1, <2>1, <2>2 DEF FiredInv
  <2>4. clock' = clock /\ worker[w].now =< clock
    BY <1>3, ClockMoves DEF TimeInv
  <2>5. ASSUME NEW v \in Workers, v # w
        PROVE  ~Working(v)'
    BY <1>3, <2>5, OnlyOneMoves DEF WorkerStep, EvaluateDBRule, Working
  <2> QED BY <1>1, <2>1, <2>3, <2>4, <2>5
<1> QED BY <1>2, <1>3, RowMoves

\* Every action keeps resolved_at after fired_at.
LEMMA ResolvedStep ==
    TypeOK /\ TxInv /\ FiredInv /\ ResolvedAfterFired /\ [Next]_vars => ResolvedAfterFired'
<1> SUFFICES ASSUME TypeOK, TxInv, FiredInv, ResolvedAfterFired, [Next]_vars, NEW r \in RuleId,
                    states'[r] # Nil, states'[r].firedAt # Nil, states'[r].resolvedAt # Nil
             PROVE  states'[r].firedAt =< states'[r].resolvedAt
  BY DEF ResolvedAfterFired
<1>1. CASE states'[r] = states[r]
  BY <1>1 DEF ResolvedAfterFired
<1>2. ASSUME NEW w \in Workers, CommitTx(w, r), states'[r] = Result(w, r).state
      PROVE  states'[r].firedAt =< states'[r].resolvedAt
  <2>1. /\ Correct(worker[w].now, Current(w), Result(w, r))
        /\ Stamped(worker[w].now, Current(w), Result(w, r))
        /\ Working(w)
        /\ states[r] # Nil => Current(w) = states[r]
        /\ states[r] = Nil => Current(w).firedAt = Nil
    BY <1>2, CommitEvaluates DEF FirstState
  <2>2. /\ states'[r].firedAt = Current(w).firedAt
        /\ states'[r].resolvedAt \in {Current(w).resolvedAt, worker[w].now}
    BY <1>2, <2>1 DEF Correct, Stamped
  <2>3. states[r] # Nil /\ Current(w) = states[r]
    BY <2>1, <2>2
  <2> QED BY <2>1, <2>2, <2>3 DEF FiredInv, ResolvedAfterFired
<1> QED BY <1>1, <1>2, RowMoves

\* While the lock's session lives, no alert is resolved before it fired.
THEOREM ResolvedAlwaysAfterFired ==
    ASSUME LockKept
    PROVE  Spec => []ResolvedAfterFired
<1> DEFINE J == IInv /\ FiredInv /\ ResolvedAfterFired
<1>1. Init => J
  BY IInvInit DEF Init, FiredInv, ResolvedAfterFired
<1>2. J /\ [Next]_vars => J'
  <2>1. IInv => TypeOK /\ LockHeld /\ TxInv /\ TimeInv
    BY DEF IInv, RowsInv
  <2> QED BY <2>1, IInvStep, TypeStep, FiredStep, ResolvedStep
<1> QED BY <1>1, <1>2, PTL DEF Spec

\* While the lock's session lives, a firing alert whose rule stays ends by a
\* resolved event of the same step, and a cleared threshold names a measurement
\* later than the last one the alert was looked at with, whose time is last_value_at.
THEOREM FiringOnlyEndsByEvent ==
    ASSUME LockKept
    PROVE  Spec => FiringEndsByEvent
<1> DEFINE J == IInv /\ DatedInv
           Ends == \A r \in RuleId :
                (/\ states[r] # Nil /\ states[r].status = "firing"
                 /\ states'[r] # Nil /\ states'[r].status # "firing")
                => \E e \in events' \ events :
                      /\ e.rule = r /\ e.type = "resolved" /\ e.at = states'[r].resolvedAt
                      /\ e.reason = "threshold_cleared" => e.valueAt > states[r].lastValueAt
<1>1. Init => J
  BY IInvInit DEF Init, DatedInv, Idle
<1>2. J /\ [Next]_vars => J'
  <2>1. IInv => TypeOK
    BY DEF IInv, RowsInv
  <2> QED BY <2>1, IInvStep, DatedStep
<1>3. J /\ [Next]_vars => [Ends]_vars
  <2> SUFFICES ASSUME J, [Next]_vars, NEW r \in RuleId,
                      states[r] # Nil, states[r].status = "firing",
                      states'[r] # Nil, states'[r].status # "firing"
               PROVE  \E e \in events' \ events :
                      /\ e.rule = r /\ e.type = "resolved" /\ e.at = states'[r].resolvedAt
                      /\ e.reason = "threshold_cleared" => e.valueAt > states[r].lastValueAt
    OBVIOUS
  <2>0. TypeOK /\ TxInv /\ KeysInv /\ DatedInv
    BY DEF IInv, RowsInv
  <2>1. PICK w \in Workers : CommitTx(w, r) /\ states'[r] = Result(w, r).state
    BY <2>0, RowMoves
  <2> DEFINE ev == Result(w, r).event
             n  == RowFor(w, r, ev)
  <2>2. /\ Correct(worker[w].now, states[r], Result(w, r))
        /\ Stamped(worker[w].now, states[r], Result(w, r))
        /\ ClearedByNewer(states[r], Result(w, r))
    BY <2>0, <2>1, CommitEvaluates
  <2>3. /\ ev # Nil /\ ev.type = "resolved"
        /\ states'[r].resolvedAt = worker[w].now
    BY <2>1, <2>2 DEF Correct, Stamped
  <2>4. states[r].lastValueAt # Nil
    BY <2>0 DEF DatedInv, Dated
  <2>5. events' = events \cup {n} /\ lastEvent \in Nat
    BY <2>0, <2>1, <2>3, Inserted DEF TypeOK
  <2>6. /\ n.id = lastEvent + 1 /\ n.rule = r /\ n.type = ev.type
        /\ n.at = worker[w].now /\ n.reason = ev.reason /\ n.valueAt = ev.valueAt
    BY DEF RowFor
  <2>7. n \notin events
    <3> HIDE DEF n
    <3> QED BY <2>0, <2>5, <2>6 DEF KeysInv
  <2>8. ev.reason = "threshold_cleared" => ev.valueAt > states[r].lastValueAt
    BY <2>2, <2>3, <2>4 DEF ClearedByNewer
  <2> HIDE DEF n, ev
  <2>9. n \in events' \ events
    BY <2>5, <2>7
  <2> QED BY <2>3, <2>6, <2>8, <2>9
<1>4. Spec => [][Ends]_vars
  <2> HIDE DEF Ends
  <2> QED BY <1>1, <1>2, <1>3, PTL DEF Spec
<1> QED BY <1>4 DEF FiringEndsByEvent

-----------------------------------------------------------------------------
(* Refinement of AlertLifecycle.                                           *)

\* The values the refinement mapping gives to AlertLifecycle's variables.
alertBar == [r \in RuleId |-> AlertOf(r)]
logBar   == {LogRow(e) : e \in events}

\* A row of the abstract log keeps id, rule, type and time.
LEMMA LogRowFields ==
    ASSUME NEW e
    PROVE  /\ LogRow(e).id = e.id /\ LogRow(e).rule = e.rule
           /\ LogRow(e).type = e.type /\ LogRow(e).at = e.at
BY DEF LogRow

\* Only rules and states decide what an alert looks like.
LEMMA AlertFrame ==
    ASSUME UNCHANGED <<events, states>>,
           \A r \in RuleId : (rules'[r] = Nil) <=> (rules[r] = Nil)
    PROVE  UNCHANGED <<alertBar, logBar>>
BY DEF alertBar, logBar, AlertOf

\* POST of a rule adds a quiet alert.
LEMMA CreateRefines ==
    ASSUME TypeOK, KeysInv, NEW c \in RuleConfigs, CreateRule(c)
    PROVE  \E r \in RuleId : Lifecycle!Add(r)
<1>0. PICK r \in RuleId : r = lastRule + 1
  BY ConstantsAssumption DEF CreateRule, TypeOK, RuleId
<1>1. /\ rules[r] = Nil /\ states[r] = Nil
      /\ rules'[r] # Nil
      /\ \A q \in RuleId : q # r => rules'[q] = rules[q]
      /\ UNCHANGED <<states, events>>
  <2>1. r > lastRule
    BY <1>0, ConstantsAssumption DEF TypeOK
  <2>2. rules[r] = Nil /\ states[r] = Nil
    BY <2>1 DEF KeysInv
  <2> QED BY <1>0, <2>2, ConstantsAssumption DEF CreateRule, TypeOK
<1>2. AlertOf(r) = "none" /\ AlertOf(r)' = "quiet"
  BY <1>1 DEF AlertOf
<1>3. \A q \in RuleId : q # r => AlertOf(q)' = AlertOf(q)
  BY <1>1 DEF AlertOf
<1>4. alertBar' = [alertBar EXCEPT ![r] = "quiet"]
  BY <1>1, <1>2, <1>3 DEF alertBar
<1>5. UNCHANGED logBar
  BY <1>1 DEF logBar
<1> QED BY <1>1, <1>2, <1>4, <1>5 DEF Lifecycle!Add, alertBar, logBar

\* DELETE of a rule removes its alert and keeps its events.
LEMMA DeleteRefines ==
    ASSUME TypeOK, NEW r \in RuleId, DeleteRule(r)
    PROVE  Lifecycle!Remove(r)
<1>1. /\ rules[r] # Nil /\ rules'[r] = Nil
      /\ \A q \in RuleId : q # r => rules'[q] = rules[q] /\ states'[q] = states[q]
      /\ events' = {IF e.rule = r THEN [e EXCEPT !.rule = Nil] ELSE e : e \in events}
  BY DEF DeleteRule, TypeOK
<1>2. AlertOf(r) # "none" /\ AlertOf(r)' = "none"
  BY <1>1 DEF AlertOf
<1>3. \A q \in RuleId : q # r => AlertOf(q)' = AlertOf(q)
  BY <1>1 DEF AlertOf
<1>4. alertBar' = [alertBar EXCEPT ![r] = "none"]
  BY <1>2, <1>3 DEF alertBar
<1>5. ASSUME NEW e \in events
      PROVE  LogRow(IF e.rule = r THEN [e EXCEPT !.rule = Nil] ELSE e)
               = IF LogRow(e).rule = r THEN [LogRow(e) EXCEPT !.rule = Nil] ELSE LogRow(e)
  BY DEF LogRow, TypeOK, EventRow
<1>6. logBar' = {IF d.rule = r THEN [d EXCEPT !.rule = Nil] ELSE d : d \in logBar}
  <2> DEFINE orphan(d) == IF d.rule = r THEN [d EXCEPT !.rule = Nil] ELSE d
  <2>1. events' = {orphan(e) : e \in events}
    BY <1>1
  <2>2. \A e \in events : LogRow(orphan(e)) = orphan(LogRow(e))
    BY <1>5
  <2> HIDE DEF orphan
  <2>3. logBar' = {orphan(d) : d \in logBar}
    BY <2>1, <2>2 DEF logBar
  <2> QED BY <2>3 DEF orphan
<1> QED BY <1>2, <1>4, <1>6 DEF Lifecycle!Remove, alertBar, logBar

\* Retention expires the oldest events.
LEMMA RetainRefines ==
    ASSUME TypeOK, RetainSensorAlertEvents
    PROVE  Lifecycle!Expire
<1>1. /\ events' = {e \in events : e.at >= clock - RetainEvents}
      /\ UNCHANGED <<rules, states>>
  BY DEF RetainSensorAlertEvents
<1>2. /\ clock \in Nat /\ RetainEvents \in Nat
      /\ \A e \in events : e.at \in Nat
  BY ConstantsAssumption DEF TypeOK, Times, EventRow
<1>3. UNCHANGED alertBar
  BY <1>1 DEF alertBar, AlertOf
<1>4. logBar' \subseteq logBar
  BY <1>1 DEF logBar
<1>5. ASSUME NEW c \in logBar \ logBar', NEW d \in logBar'
      PROVE  c.at < d.at
  <2>1. PICK e \in events : c = LogRow(e)
    BY DEF logBar
  <2>2. PICK f \in events' : d = LogRow(f)
    BY DEF logBar
  <2>3. e \notin events'
    BY <2>1 DEF logBar
  <2>4. e.at < f.at
    BY <2>2, <2>3, <1>1, <1>2
  <2> QED BY <2>1, <2>2, <2>4, LogRowFields
<1> QED BY <1>3, <1>4, <1>5 DEF Lifecycle!Expire, alertBar, logBar

\* A commit fires the alert, resolves it or stutters.
LEMMA CommitRefines ==
    ASSUME TypeOK, KeysInv, TxInv, TimeInv, NEW w \in Workers, NEW r \in RuleId, CommitTx(w, r)
    PROVE  \/ Lifecycle!Fire(r)
           \/ Lifecycle!Resolve(r)
           \/ UNCHANGED <<alertBar, logBar>>
<1> DEFINE cur == Current(w)
           new == Result(w, r).state
           ev  == Result(w, r).event
           n   == RowFor(w, r, ev)
<1>1. /\ rules[r] # Nil /\ UNCHANGED rules
      /\ states'[r] = new
      /\ \A q \in RuleId : q # r => states'[q] = states[q]
  BY DEF CommitTx, TypeOK
<1>2. /\ new # Nil
      /\ Correct(worker[w].now, cur, Result(w, r))
  BY ResultLemma, NilAssumption DEF CommitTx, EvaluatorResult
<1>3. /\ states[r] # Nil => cur = states[r]
      /\ states[r] = Nil => cur.status = "normal"
  BY DEF CommitTx, TxInv, Current, FirstState
<1>4. worker[w].pc \in {"tx", "ready"}
  BY DEF CommitTx, InTx
<1>5. \A q \in RuleId : q # r => AlertOf(q)' = AlertOf(q)
  BY <1>1 DEF AlertOf
<1>6. /\ AlertOf(r) = IF cur.status = "firing" THEN "firing" ELSE "quiet"
      /\ AlertOf(r)' = IF new.status = "firing" THEN "firing" ELSE "quiet"
  <2> HIDE DEF cur, new
  <2> QED BY <1>1, <1>2, <1>3 DEF AlertOf
<1>7. CASE ev = Nil
  <2>1. (new.status = "firing") <=> (cur.status = "firing")
    BY <1>2, <1>7 DEF Correct
  <2>2. UNCHANGED events
    BY <1>7, Inserted
  <2> HIDE DEF cur, new, ev, n
  <2>3. \A q \in RuleId : AlertOf(q)' = AlertOf(q)
    BY <1>5, <1>6, <2>1
  <2> QED BY <2>2, <2>3 DEF alertBar, logBar
<1>8. CASE ev # Nil
  <2>1. events' = events \cup {n} /\ lastEvent \in Nat
    BY <1>8, Inserted DEF TypeOK
  <2>2. /\ n.id = lastEvent + 1 /\ n.rule = r
        /\ n.at = worker[w].now /\ n.type = ev.type
    BY DEF RowFor
  <2>3. \/ ev.type = "firing" /\ cur.status # "firing" /\ new.status = "firing"
        \/ ev.type = "resolved" /\ cur.status = "firing" /\ new.status # "firing"
    BY <1>2, <1>8 DEF Correct
  <2>4. \A e \in events : e.id \in Nat /\ e.id =< lastEvent /\ e.at =< worker[w].now
    BY <1>4 DEF TypeOK, EventRow, KeysInv, TimeInv
  <2> HIDE DEF cur, new, ev, n
  <2>5. alertBar' = [alertBar EXCEPT ![r] = AlertOf(r)']
    BY <1>5 DEF alertBar
  <2>6. logBar' = logBar \cup {LogRow(n)}
    BY <2>1 DEF logBar
  <2>7. \A c \in logBar : c.id < LogRow(n).id /\ c.at =< LogRow(n).at
    BY <2>1, <2>2, <2>4, LogRowFields DEF logBar
  <2>8. LogRow(n).rule = r /\ LogRow(n).type = ev.type
    BY <2>2, LogRowFields
  <2>9. Lifecycle!Logged(r, ev.type)
    BY <2>6, <2>7, <2>8 DEF Lifecycle!Logged, logBar
  <2>10. alertBar[r] = AlertOf(r)
    BY DEF alertBar
  <2>11. CASE ev.type = "firing" /\ cur.status # "firing" /\ new.status = "firing"
    BY <2>11, <2>5, <2>9, <2>10, <1>6 DEF Lifecycle!Fire, alertBar
  <2>12. CASE ev.type = "resolved" /\ cur.status = "firing" /\ new.status # "firing"
    BY <2>12, <2>5, <2>9, <2>10, <1>6 DEF Lifecycle!Resolve, alertBar
  <2> QED BY <2>3, <2>11, <2>12
<1> QED BY <1>7, <1>8

\* Every step is a step of AlertLifecycle or a stutter.
LEMMA StepRefines == IInv /\ [Next]_vars => [Lifecycle!Next]_<<alertBar, logBar>>
<1> SUFFICES ASSUME IInv, [Next]_vars, ~UNCHANGED <<alertBar, logBar>>
             PROVE  Lifecycle!Next
  OBVIOUS
<1>0. TypeOK /\ KeysInv /\ TxInv /\ TimeInv
  BY DEF IInv, RowsInv
<1>1. ~UNCHANGED <<events, states, rules>>
  BY AlertFrame
<1>2. ASSUME NEW r \in RuleId, NEW c \in RuleConfigs, UpdateRule(r, c)
      PROVE  FALSE
  <2>1. /\ UNCHANGED <<events, states>>
        /\ \A q \in RuleId : (rules'[q] = Nil) <=> (rules[q] = Nil)
    BY <1>0, <1>2, ConstantsAssumption DEF UpdateRule, TypeOK
  <2> QED BY <2>1, AlertFrame
<1>3. ASSUME NEW w \in Workers, WorkerStep(w)
      PROVE  \E r \in RuleId : CommitTx(w, r)
  BY <1>1, <1>3 DEF WorkerStep, EvaluateDBRule, AcquireLock, StartCycle, LoadRules, LoadRulesFails,
       LoadState, LoadLatestObservation,
                    ForeignKeyViolation, TxFails, EndCycle, Crash, dbVars
<1>4. CASE \E w \in Workers : WorkerStep(w)
  BY <1>0, <1>3, <1>4, CommitRefines DEF Lifecycle!Next
<1>5. CASE Api
  BY <1>0, <1>2, <1>5, CreateRefines, DeleteRefines DEF Api, Lifecycle!Next
<1>6. CASE Maintenance
  BY <1>0, <1>1, <1>6, RetainRefines DEF Maintenance, RetainSensorMinute, Lifecycle!Next
<1>7. ~(Tick \/ Collectors \/ DropLockSession \/ UNCHANGED vars)
  BY <1>1 DEF Tick, Collectors, UpsertMinute, SyncDevice, DropLockSession, vars, dbVars
<1> QED BY <1>4, <1>5, <1>6, <1>7 DEF Next

\* While the lock's session lives, the workers, the handlers and the retention
\* passes implement AlertLifecycle: every change of an alert is logged once, in
\* the step that makes it, in the order of the times.
THEOREM LifecycleImplemented ==
    ASSUME LockKept
    PROVE  Spec => ImplementsLifecycle
<1>1. Init => Lifecycle!Init
  BY DEF Init, Lifecycle!Init, AlertOf
<1>2. IInv /\ [Next]_vars => IInv'
  BY IInvStep
<1>3. IInv /\ [Next]_vars => [Lifecycle!Next]_<<alertBar, logBar>>
  BY StepRefines
<1> QED BY <1>1, <1>2, <1>3, IInvInit, PTL
        DEF Spec, ImplementsLifecycle, Lifecycle!Spec, alertBar, logBar

-----------------------------------------------------------------------------
(* AlertHistory: one rule, for every rule the API accepts and every        *)
(* sequence of measurements.                                               *)

HistoryTypes ==
    /\ watched \in Rules /\ time \in Nat
    /\ seen \in Seq(Measurement)
    /\ start \in Nat /\ start =< Len(seen)
    /\ row \in AlertState

\* Measurements come in the order of their times, and the row names the last one.
InOrder ==
    /\ \A i, j \in 1..Len(seen) : i < j => seen[i].ts < seen[j].ts
    /\ row.lastValueAt = IF seen = <<>> THEN Nil ELSE seen[Len(seen)].ts

\* The fresh measurements have a last one.
SomeLast == (\E k \in Measured : seen[k].fresh) => \E k \in Measured : LastFresh(k)

HistoryInv ==
    HistoryTypes /\ InOrder /\ SomeLast /\ StatusMatchesHistory /\ PendingSinceStartsRun

\* What the assumptions say of a rule.
LEMMA RuleFacts ==
    ASSUME NEW r \in Rules
    PROVE  /\ r.enabled /\ r.forDuration \in Nat /\ r.maxDataAge \in Nat \ {0}
           /\ \A v \in Int : Triggers(r, v) => ~Clears(r, v)
<1>1. /\ r.enabled /\ r.direction \in Direction /\ r.trigger \in Int /\ r.clear \in Int
      /\ r.forDuration \in Nat /\ r.maxDataAge \in Nat
      /\ r.direction = "above" => r.clear < r.trigger
      /\ r.direction = "below" => r.clear > r.trigger
      /\ r.maxDataAge >= 1
  BY HistoryAssumption DEF ValidRule
<1>2. r.direction = "above" \/ r.direction = "below"
  BY <1>1 DEF Direction
<1> QED BY <1>1, <1>2 DEF Triggers, Clears

\* A fresh and newer measurement, by the status it meets.
FreshMove(s, r, obs, e) ==
    LET hot == Triggers(r, obs.value)
        gap == s.lastValueAt # Nil /\ obs.ts - s.lastValueAt > r.maxDataAge
        held == obs.ts - s.pendingSince >= r.forDuration
    IN  /\ s.status = "firing" => e.status = IF Clears(r, obs.value) THEN "normal" ELSE "firing"
        /\ s.status # "firing" /\ ~hot => e.status = "normal"
        /\ s.status = "normal" /\ hot =>
              IF r.forDuration = 0 THEN e.status = "firing"
              ELSE e.status = "pending" /\ e.pendingSince = obs.ts
        /\ s.status = "pending" /\ hot /\ gap => e.status = "pending" /\ e.pendingSince = obs.ts
        /\ s.status = "pending" /\ hot /\ ~gap /\ s.pendingSince # Nil =>
              IF held THEN e.status = "firing"
              ELSE e.status = "pending" /\ e.pendingSince = s.pendingSince

LEMMA FreshMoves ==
    ASSUME NEW s \in AlertState, NEW r \in Rules, NEW n \in Nat, NEW obs \in Observation,
           Newer(s.lastValueAt, obs), ~Stale(n, r, obs)
    PROVE  LET e == Evaluate(n, r, TRUE, s, obs).state
           IN  e \in AlertState /\ e.lastValueAt = obs.ts /\ FreshMove(s, r, obs, e)
<1>1. PICK c : c = [s EXCEPT !.lastValue = obs.value, !.lastValueAt = obs.ts, !.evaluation = "ok"]
  OBVIOUS
<1>2. /\ c \in AlertState /\ c.status = s.status /\ c.pendingSince = s.pendingSince
      /\ c.lastValueAt = obs.ts
  BY <1>1 DEF AlertState, OptTime, OptValue, Evaluation, Observation
<1>3. obs # Nil
  BY NilAssumption
<1>4. Evaluate(n, r, TRUE, s, obs) = Transition(n, r, s.lastValueAt, c, obs)
  BY <1>1, <1>3, RuleFacts DEF Evaluate
<1>5. PICK e : e = Transition(n, r, s.lastValueAt, c, obs).state
  OBVIOUS
<1>6. obs.ts \in Nat /\ obs.value \in Int /\ Nil \notin Int
  BY NilAssumption DEF Observation
<1>7. r.forDuration \in Nat /\ r.maxDataAge \in Nat \ {0}
  BY RuleFacts
<1>8. s.status \in {"normal", "pending", "firing"} /\ s.pendingSince \in Nat \cup {Nil}
      /\ s.lastValueAt \in Nat \cup {Nil}
  BY DEF AlertState, Status, OptTime
<1>9. ASSUME NEW st \in Status, NEW p \in OptTime
      PROVE  LET d == [c EXCEPT !.status = st, !.pendingSince = p]
             IN  d \in AlertState /\ d.lastValueAt = obs.ts /\ d.status = st /\ d.pendingSince = p
  BY <1>2 DEF AlertState
<1>10. ASSUME NEW p \in OptTime, NEW st \in Status
       PROVE  LET d == [[c EXCEPT !.status = "pending", !.pendingSince = p]
                          EXCEPT !.status = st, !.firedAt = n, !.resolvedAt = Nil]
              IN  d \in AlertState /\ d.lastValueAt = obs.ts /\ d.status = st
  BY <1>2 DEF AlertState, OptTime, Status
<1>11. Gap(r, s.lastValueAt, obs) <=> s.lastValueAt # Nil /\ obs.ts - s.lastValueAt > r.maxDataAge
  BY <1>7 DEF Gap
<1>12. CASE s.status = "firing"
  <2>1. CASE Clears(r, obs.value)
    <3>1. e = [c EXCEPT !.status = "normal", !.pendingSince = Nil, !.resolvedAt = n]
      BY <1>2, <1>5, <1>12, <2>1 DEF Transition, Resolve
    <3>2. e \in AlertState /\ e.lastValueAt = obs.ts /\ e.status = "normal"
      BY <1>2, <3>1 DEF AlertState, OptTime, Status
    <3> QED BY <1>4, <1>5, <1>12, <2>1, <3>2 DEF FreshMove
  <2>2. CASE ~Clears(r, obs.value)
    <3>1. e = c
      BY <1>2, <1>5, <1>12, <2>2 DEF Transition, NoEvent
    <3> QED BY <1>2, <1>4, <1>5, <1>12, <2>2, <3>1 DEF FreshMove
  <2> QED BY <2>1, <2>2
<1>13. CASE s.status = "pending"
  <2>1. CASE ~Triggers(r, obs.value)
    <3>1. e = [c EXCEPT !.status = "normal", !.pendingSince = Nil]
      BY <1>2, <1>5, <1>13, <2>1 DEF Transition, NoEvent
    <3>2. e \in AlertState /\ e.lastValueAt = obs.ts /\ e.status = "normal"
      BY <3>1, <1>9 DEF Status, OptTime
    <3> QED BY <1>4, <1>5, <1>13, <2>1, <3>2 DEF FreshMove
  <2>2. CASE Triggers(r, obs.value)
    <3> DEFINE since == IF c.pendingSince = Nil THEN obs.ts ELSE c.pendingSince
    <3>0. since \in Nat /\ (s.pendingSince # Nil => since = s.pendingSince)
      BY <1>2, <1>6, <1>8
    <3>1. CASE Gap(r, s.lastValueAt, obs)
      <4>1. e = [c EXCEPT !.status = "pending", !.pendingSince = obs.ts]
        BY <1>2, <1>5, <1>13, <2>2, <3>1 DEF Transition, NoEvent
      <4>2. e \in AlertState /\ e.lastValueAt = obs.ts /\ e.status = "pending" /\ e.pendingSince = obs.ts
        BY <4>1, <1>6, <1>9 DEF Status, OptTime
      <4> QED BY <1>4, <1>5, <1>11, <1>13, <2>2, <3>1, <4>2 DEF FreshMove
    <3>2. CASE ~Gap(r, s.lastValueAt, obs) /\ obs.ts - since >= r.forDuration
      <4>1. e = [[c EXCEPT !.status = "pending", !.pendingSince = since]
                    EXCEPT !.status = "firing", !.firedAt = n, !.resolvedAt = Nil]
        BY <1>2, <1>5, <1>13, <2>2, <3>2 DEF Transition, Fire
      <4>2. e \in AlertState /\ e.lastValueAt = obs.ts /\ e.status = "firing"
        <5>1. since \in OptTime /\ "firing" \in Status
          BY <3>0 DEF Status, OptTime
        <5> HIDE DEF since
        <5> QED BY <4>1, <5>1, <1>10
      <4> QED BY <1>4, <1>5, <1>11, <1>13, <2>2, <3>0, <3>2, <4>2 DEF FreshMove
    <3>3. CASE ~Gap(r, s.lastValueAt, obs) /\ ~(obs.ts - since >= r.forDuration)
      <4>1. e = [c EXCEPT !.status = "pending", !.pendingSince = since]
        BY <1>2, <1>5, <1>13, <2>2, <3>3 DEF Transition, NoEvent
      <4>2. e \in AlertState /\ e.lastValueAt = obs.ts /\ e.status = "pending" /\ e.pendingSince = since
        <5>1. since \in OptTime /\ "pending" \in Status
          BY <3>0 DEF Status, OptTime
        <5> HIDE DEF since
        <5> QED BY <4>1, <5>1, <1>9
      <4> QED BY <1>4, <1>5, <1>11, <1>13, <2>2, <3>0, <3>3, <4>2 DEF FreshMove
    <3> QED BY <3>1, <3>2, <3>3
  <2> QED BY <2>1, <2>2
<1>14. CASE s.status = "normal"
  <2>1. CASE ~Triggers(r, obs.value)
    <3>1. e = c
      BY <1>2, <1>5, <1>14, <2>1 DEF Transition, NoEvent
    <3> QED BY <1>2, <1>4, <1>5, <1>14, <2>1, <3>1 DEF FreshMove
  <2>2. CASE Triggers(r, obs.value) /\ r.forDuration = 0
    <3>1. e = [c EXCEPT !.status = "firing", !.firedAt = n, !.resolvedAt = Nil]
      BY <1>2, <1>5, <1>14, <2>2 DEF Transition, Fire
    <3>2. e \in AlertState /\ e.lastValueAt = obs.ts /\ e.status = "firing"
      BY <1>2, <3>1 DEF AlertState, OptTime, Status
    <3> QED BY <1>4, <1>5, <1>14, <2>2, <3>2 DEF FreshMove
  <2>3. CASE Triggers(r, obs.value) /\ r.forDuration # 0
    <3>1. e = [c EXCEPT !.status = "pending", !.pendingSince = obs.ts]
      BY <1>2, <1>5, <1>7, <1>14, <2>3 DEF Transition, NoEvent
    <3>2. e \in AlertState /\ e.lastValueAt = obs.ts /\ e.status = "pending" /\ e.pendingSince = obs.ts
      BY <3>1, <1>6, <1>9 DEF Status, OptTime
    <3> QED BY <1>4, <1>5, <1>14, <2>3, <3>2 DEF FreshMove
  <2> QED BY <2>1, <2>2, <2>3
<1> QED BY <1>8, <1>12, <1>13, <1>14

-----------------------------------------------------------------------------
(* One measurement more.                                                   *)

\* A new measurement m, in position n.
Extends(m, n) ==
    /\ n = Len(seen) + 1 /\ m \in Measurement
    /\ seen' = Append(seen, m) /\ UNCHANGED <<watched, start>>

\* What is said of the earlier measurements does not change.
LEMMA OldPart ==
    ASSUME HistoryTypes, NEW m, NEW n, Extends(m, n)
    PROVE  /\ n \in Nat \ {0} /\ Len(seen') = n /\ seen'[n] = m
           /\ seen' \in Seq(Measurement)
           /\ Measured' = Measured \cup {n}
           /\ \A k \in Measured : k \in 1..Len(seen) /\ k \in Nat /\ k < n
           /\ \A k \in 1..Len(seen) : seen'[k] = seen[k] /\ seen[k] \in Measurement
           /\ \A k \in Measured : (Hot(k)' <=> Hot(k)) /\ (Cold(k)' <=> Cold(k))
           /\ \A i, j \in Measured : Held(i, j)' <=> Held(i, j)
           /\ \A j \in Measured : FiresAt(j)' <=> FiresAt(j)
<1>1. /\ n \in Nat \ {0} /\ Len(seen') = n /\ seen'[n] = m /\ seen' \in Seq(Measurement)
      /\ \A k \in 1..Len(seen) : seen'[k] = seen[k] /\ seen[k] \in Measurement
      /\ Len(seen) \in Nat /\ n = Len(seen) + 1
  BY DEF HistoryTypes, Extends
<1>2. start \in Nat /\ start =< Len(seen) /\ start' = start /\ watched' = watched
  BY DEF HistoryTypes, Extends
<1>3. \A k \in Measured : k \in 1..Len(seen) /\ k \in Nat /\ k < n
  BY <1>1, <1>2 DEF Measured
<1>4. Measured' = Measured \cup {n}
  BY <1>1, <1>2 DEF Measured
<1>5. \A k \in 1..Len(seen) : (Hot(k)' <=> Hot(k)) /\ (Cold(k)' <=> Cold(k))
  <2> SUFFICES ASSUME NEW k \in 1..Len(seen)
               PROVE  (Hot(k)' <=> Hot(k)) /\ (Cold(k)' <=> Cold(k))
    OBVIOUS
  <2>1. seen'[k] = seen[k]
    BY <1>1
  <2> QED BY <1>2, <2>1 DEF Hot, Cold
<1>6. \A i, j \in Measured : Held(i, j)' <=> Held(i, j)
  <2> SUFFICES ASSUME NEW i \in Measured, NEW j \in Measured
               PROVE  Held(i, j)' <=> Held(i, j)
    OBVIOUS
  <2>1. (Hot(i)' <=> Hot(i)) /\ (Hot(j)' <=> Hot(j))
    BY <1>3, <1>5
  <2>2. ASSUME NEW k \in (i + 1)..j
        PROVE  /\ k \in 1..Len(seen) /\ seen'[k] = seen[k] /\ seen'[k - 1] = seen[k - 1]
               /\ Hot(k)' <=> Hot(k)
    <3>1. i \in 1..Len(seen) /\ j \in 1..Len(seen)
      BY <1>3
    <3>2. k \in 1..Len(seen) /\ k - 1 \in 1..Len(seen)
      BY <3>1, <1>1
    <3> QED BY <3>2, <1>1, <1>5
  <2>3. \A k \in (i + 1)..j :
          (seen[k].fresh => Hot(k) /\ seen[k].ts - seen[k - 1].ts =< watched.maxDataAge)
          <=> (seen'[k].fresh => Hot(k)' /\ seen'[k].ts - seen'[k - 1].ts =< watched'.maxDataAge)
    BY <1>2, <2>2
  <2> QED BY <2>1, <2>3 DEF Held
<1>7. \A j \in Measured : FiresAt(j)' <=> FiresAt(j)
  <2> SUFFICES ASSUME NEW j \in Measured PROVE FiresAt(j)' <=> FiresAt(j)
    OBVIOUS
  <2>1. \A i \in Measured : seen'[i] = seen[i] /\ seen'[j] = seen[j]
    BY <1>1, <1>3
  <2>2. ASSUME NEW i \in Measured', i =< j PROVE i \in Measured
    BY <1>1, <1>3, <1>4, <2>2
  <2> QED BY <1>2, <1>4, <1>6, <2>1, <2>2 DEF FiresAt
<1> QED BY <1>1, <1>3, <1>4, <1>5, <1>6, <1>7

LEMMA TypesAndOrder ==
    ASSUME HistoryTypes, InOrder, NEW m, NEW n, Extends(m, n), LastTs < m.ts,
           time' \in Nat, row' \in AlertState, row'.lastValueAt = m.ts
    PROVE  /\ HistoryTypes' /\ InOrder'
           /\ \A k \in 1..Len(seen) : seen[k].ts < m.ts
<1>1. /\ n \in Nat \ {0} /\ Len(seen') = n /\ seen'[n] = m
      /\ \A k \in 1..Len(seen) : seen'[k] = seen[k] /\ seen[k].ts \in Nat
      /\ Len(seen) \in Nat /\ n = Len(seen) + 1 /\ m.ts \in Nat
  BY OldPart DEF HistoryTypes, Extends, Measurement
<1>2. HistoryTypes'
  BY <1>1, OldPart DEF HistoryTypes, Extends
<1>3. \A k \in 1..Len(seen) : seen[k].ts =< seen[n - 1].ts /\ seen[k].ts < m.ts
  <2> SUFFICES ASSUME NEW k \in 1..Len(seen)
               PROVE  seen[k].ts =< seen[n - 1].ts /\ seen[k].ts < m.ts
    OBVIOUS
  <2>1. seen # <<>> /\ n - 1 = Len(seen) /\ Len(seen) \in 1..Len(seen)
    BY <1>1
  <2>2. seen[Len(seen)].ts < m.ts /\ seen[Len(seen)].ts \in Nat /\ seen[k].ts \in Nat
    BY <1>1, <2>1 DEF LastTs
  <2>3. seen[k].ts =< seen[Len(seen)].ts
    BY <2>1, <2>2 DEF InOrder
  <2> QED BY <1>1, <2>1, <2>2, <2>3
<1>4. \A i, j \in 1..n : i < j => seen'[i].ts < seen'[j].ts
  <2> SUFFICES ASSUME NEW i \in 1..n, NEW j \in 1..n, i < j PROVE seen'[i].ts < seen'[j].ts
    OBVIOUS
  <2>1. i \in 1..Len(seen) /\ seen'[i] = seen[i]
    BY <1>1
  <2>2. CASE j = n
    BY <1>1, <1>3, <2>1, <2>2
  <2>3. CASE j # n
    <3>1. j \in 1..Len(seen) /\ seen'[j] = seen[j]
      BY <1>1, <2>3
    <3> QED BY <2>1, <3>1 DEF InOrder
  <2> QED BY <2>2, <2>3
<1>5. seen' # <<>>
  BY <1>1
<1> QED BY <1>1, <1>2, <1>3, <1>4, <1>5 DEF InOrder

\* A stale measurement changes nothing but the times.
LEMMA StaleKeeps ==
    ASSUME HistoryInv, NEW m, NEW n, Extends(m, n), LastTs < m.ts, ~m.fresh,
           time' \in Nat, row' \in AlertState, row'.lastValueAt = m.ts,
           row'.status = row.status, row'.pendingSince = row.pendingSince
    PROVE  HistoryInv'
<1>1. HistoryTypes' /\ InOrder'
  BY TypesAndOrder DEF HistoryInv
<1>2. /\ n \in Nat /\ seen'[n] = m /\ Measured' = Measured \cup {n}
      /\ \A k \in Measured : k \in Nat /\ k < n /\ seen'[k] = seen[k]
      /\ \A k \in Measured : (Hot(k)' <=> Hot(k)) /\ (Cold(k)' <=> Cold(k))
      /\ \A i, j \in Measured : Held(i, j)' <=> Held(i, j)
      /\ \A j \in Measured : FiresAt(j)' <=> FiresAt(j)
  BY OldPart DEF HistoryInv
<1>3. ~Hot(n)' /\ ~Cold(n)' /\ ~FiresAt(n)' /\ ~LastFresh(n)'
  BY <1>2 DEF Hot, Cold, FiresAt, Held, LastFresh
<1>4. \A k \in Measured : LastFresh(k)' <=> LastFresh(k)
  BY <1>2 DEF LastFresh
<1>5. Firing' <=> Firing
  BY <1>2, <1>3 DEF Firing
<1>6. Pending' <=> Pending
  BY <1>2, <1>3, <1>4, <1>5 DEF Pending
<1>7. StatusMatchesHistory'
  BY <1>5, <1>6 DEF HistoryInv, StatusMatchesHistory
<1>8. SomeLast'
  BY <1>2, <1>4 DEF HistoryInv, SomeLast
<1>9. PendingSinceStartsRun'
  <2> SUFFICES ASSUME row'.status = "pending"
               PROVE  \E i, j \in Measured' :
                          /\ i =< j /\ LastFresh(j)' /\ Held(i, j)'
                          /\ seen'[i].ts = row'.pendingSince
                          /\ \A h \in Measured' : h < i => ~Held(h, j)'
    BY DEF PendingSinceStartsRun
  <2>1. PICK i \in Measured, j \in Measured :
            /\ i =< j /\ LastFresh(j) /\ Held(i, j)
            /\ seen[i].ts = row.pendingSince
            /\ \A h \in Measured : h < i => ~Held(h, j)
    BY DEF HistoryInv, PendingSinceStartsRun
  <2>2. \A h \in Measured' : h < i => h \in Measured
    BY <1>2
  <2>3. /\ i \in Measured' /\ j \in Measured' /\ LastFresh(j)' /\ Held(i, j)'
        /\ seen'[i].ts = row'.pendingSince
        /\ \A h \in Measured' : h < i => ~Held(h, j)'
    BY <1>2, <1>4, <2>1, <2>2
  <2> QED BY <2>1, <2>3
<1> QED BY <1>1, <1>7, <1>8, <1>9 DEF HistoryInv

\* A fresh one ends every run or continues the one that is held: what the definitions
\* say of it, by its own value and what they said before.
LEMMA FreshPart ==
    ASSUME HistoryInv, NEW m, NEW n, Extends(m, n), LastTs < m.ts, m.fresh
    PROVE  /\ \A k \in Measured' : LastFresh(k)' <=> k = n
           /\ Hot(n)' <=> Triggers(watched, m.value)
           /\ Cold(n)' <=> Clears(watched, m.value)
           /\ ~(Hot(n)' /\ Cold(n)')
           /\ Hot(n)' <=> Held(n, n)'
           /\ \A h \in Measured : Held(h, n)' =>
                 /\ Hot(n)' /\ m.ts - seen[n - 1].ts =< watched.maxDataAge
                 /\ \E j \in Measured : LastFresh(j)
                 /\ \A j \in Measured : LastFresh(j) => h =< j /\ Held(h, j)
           /\ \A i, j \in Measured :
                 /\ i =< j /\ LastFresh(j) /\ Held(i, j)
                 /\ Hot(n)' /\ m.ts - seen[n - 1].ts =< watched.maxDataAge
                 => Held(i, n)'
           /\ Firing' <=> FiresAt(n)' \/ (Firing /\ ~Cold(n)')
           /\ Pending' <=> ~Firing' /\ Hot(n)'
<1>1. /\ n \in Nat \ {0} /\ seen'[n] = m /\ Measured' = Measured \cup {n}
      /\ n = Len(seen) + 1 /\ Len(seen) \in Nat
      /\ \A k \in Measured : k \in Nat /\ k \in 1..Len(seen) /\ k < n
      /\ \A k \in 1..Len(seen) : seen'[k] = seen[k]
      /\ \A k \in Measured : (Hot(k)' <=> Hot(k)) /\ (Cold(k)' <=> Cold(k))
      /\ \A i, j \in Measured : Held(i, j)' <=> Held(i, j)
      /\ \A j \in Measured : FiresAt(j)' <=> FiresAt(j)
  BY OldPart DEF HistoryInv, HistoryTypes, Extends
<1>2. \A k \in Measured' : LastFresh(k)' <=> k = n
  BY <1>1 DEF LastFresh
<1>3. /\ Hot(n)' <=> Triggers(watched, m.value)
      /\ Cold(n)' <=> Clears(watched, m.value)
  <2>1. watched' = watched
    BY DEF Extends
  <2> QED BY <1>1, <2>1 DEF Hot, Cold, Triggers, Clears
<1>4. ~(Hot(n)' /\ Cold(n)')
  <2>1. watched \in Rules /\ m.value \in Int
    BY DEF HistoryInv, HistoryTypes, Extends, Measurement
  <2> QED BY <1>3, <2>1, RuleFacts
<1>5. Hot(n)' <=> Held(n, n)'
  BY <1>1 DEF Held
<1>6. ASSUME NEW h \in Measured, Held(h, n)'
      PROVE  /\ Hot(n)' /\ m.ts - seen[n - 1].ts =< watched.maxDataAge
             /\ \E j \in Measured : LastFresh(j)
             /\ \A j \in Measured : LastFresh(j) => h =< j /\ Held(h, j)
  <2>1. /\ Hot(h)' /\ Hot(n)'
        /\ \A k \in (h + 1)..n :
              seen'[k].fresh => Hot(k)' /\ seen'[k].ts - seen'[k - 1].ts =< watched'.maxDataAge
    BY <1>6 DEF Held
  <2>2. h \in Nat /\ h \in 1..Len(seen) /\ h < n /\ n \in (h + 1)..n /\ n - 1 \in 1..Len(seen)
    BY <1>1
  <2>3. seen'[n].ts - seen'[n - 1].ts =< watched'.maxDataAge
    BY <1>1, <2>1, <2>2
  <2>4. m.ts - seen[n - 1].ts =< watched.maxDataAge
    BY <1>1, <2>2, <2>3 DEF Extends
  <2>5. Hot(h) /\ seen[h].fresh
    BY <1>1, <2>1 DEF Hot
  <2>6. \E j \in Measured : LastFresh(j)
    BY <2>5 DEF HistoryInv, SomeLast
  <2>7. ASSUME NEW j \in Measured, LastFresh(j) PROVE h =< j /\ Held(h, j)
    <3>1. h =< j /\ seen[j].fresh /\ j \in Nat /\ j < n /\ j \in 1..Len(seen)
      BY <1>1, <2>5, <2>7 DEF LastFresh
    <3>2. Hot(j)
      <4>1. CASE j = h
        BY <2>5, <4>1
      <4>2. CASE j # h
        <5>1. j \in (h + 1)..n /\ seen'[j].fresh
          BY <1>1, <2>2, <3>1, <4>2
        <5> QED BY <1>1, <2>1, <5>1
      <4> QED BY <4>1, <4>2
    <3>3. ASSUME NEW k \in (h + 1)..j, seen[k].fresh
          PROVE  Hot(k) /\ seen[k].ts - seen[k - 1].ts =< watched.maxDataAge
      <4>1. k \in (h + 1)..n /\ k \in 1..Len(seen) /\ k - 1 \in 1..Len(seen) /\ k \in Measured
        BY <1>1, <2>2, <3>1 DEF Measured, HistoryInv, HistoryTypes
      <4>2. seen'[k] = seen[k] /\ seen'[k - 1] = seen[k - 1] /\ watched' = watched
        BY <1>1, <4>1 DEF Extends
      <4> QED BY <1>1, <2>1, <3>3, <4>1, <4>2
    <3> QED BY <2>5, <3>1, <3>2, <3>3 DEF Held
  <2> QED BY <2>1, <2>4, <2>6, <2>7
<1>7. ASSUME NEW i \in Measured, NEW j \in Measured, i =< j, LastFresh(j), Held(i, j),
             Hot(n)', m.ts - seen[n - 1].ts =< watched.maxDataAge
      PROVE  Held(i, n)'
  <2>1. Hot(i)' /\ i \in Nat /\ j \in Nat /\ i \in 1..Len(seen) /\ watched' = watched
    BY <1>1, <1>7 DEF Held, Extends
  <2>2. ASSUME NEW k \in (i + 1)..n, seen'[k].fresh
        PROVE  Hot(k)' /\ seen'[k].ts - seen'[k - 1].ts =< watched'.maxDataAge
    <3>1. CASE k = n
      <4>1. n - 1 \in 1..Len(seen)
        BY <1>1, <2>1, <3>1
      <4> QED BY <1>1, <1>7, <2>1, <3>1, <4>1
    <3>2. CASE k # n
      <4>1. k \in 1..Len(seen) /\ k - 1 \in 1..Len(seen) /\ k \in Measured /\ k \in Nat
        BY <1>1, <2>1, <3>2 DEF Measured, HistoryInv, HistoryTypes
      <4>2. seen'[k] = seen[k] /\ seen'[k - 1] = seen[k - 1] /\ seen[k].fresh
        BY <1>1, <2>2, <4>1
      <4>3. k =< j
        BY <1>7, <2>1, <4>1, <4>2 DEF LastFresh
      <4>4. Hot(k) /\ seen[k].ts - seen[k - 1].ts =< watched.maxDataAge
        BY <1>7, <2>1, <4>1, <4>2, <4>3 DEF Held
      <4> QED BY <1>1, <2>1, <4>1, <4>2, <4>4
    <3> QED BY <3>1, <3>2
  <2> QED BY <1>7, <2>1, <2>2 DEF Held
<1>8. Firing' <=> FiresAt(n)' \/ (Firing /\ ~Cold(n)')
  <2>2. FiresAt(n)' => Firing'
    <3>1. \A k \in Measured' : ~(k > n)
      BY <1>1
    <3> QED BY <1>1, <3>1 DEF Firing
  <2>3. ASSUME Firing, ~Cold(n)' PROVE Firing'
    <3>1. PICK j \in Measured : FiresAt(j) /\ \A k \in Measured : k > j => ~Cold(k)
      BY <2>3 DEF Firing
    <3>2. j \in Measured' /\ FiresAt(j)' /\ \A k \in Measured' : k > j => ~Cold(k)'
      BY <1>1, <2>3, <3>1
    <3> QED BY <3>2 DEF Firing
  <2>4. ASSUME Firing', ~FiresAt(n)' PROVE Firing /\ ~Cold(n)'
    <3>1. PICK j \in Measured' : FiresAt(j)' /\ \A k \in Measured' : k > j => ~Cold(k)'
      BY <2>4 DEF Firing
    <3>2. j \in Measured
      BY <1>1, <2>4, <3>1
    <3>3. FiresAt(j) /\ (\A k \in Measured : k > j => ~Cold(k)) /\ ~Cold(n)'
      BY <1>1, <3>1, <3>2
    <3> QED BY <3>2, <3>3 DEF Firing
  <2> QED BY <2>2, <2>3, <2>4
<1>9. Pending' <=> ~Firing' /\ Hot(n)'
  BY <1>1, <1>2 DEF Pending
<1> QED BY <1>2, <1>3, <1>4, <1>5, <1>6, <1>7, <1>8, <1>9

LEMMA LongerSinceEarlier ==
    ASSUME NEW a \in Nat, NEW b \in Nat, NEW c \in Nat, NEW d \in Nat, a =< b, c - b >= d
    PROVE  c - a >= d
OBVIOUS

\* A fresh measurement, whatever the status and the measurements before.
LEMMA FreshKeeps ==
    ASSUME HistoryInv, NEW m, NEW n, Extends(m, n), LastTs < m.ts, m.fresh,
           time' \in Nat, row' \in AlertState, row'.lastValueAt = m.ts,
           FreshMove(row, watched, [ts |-> m.ts, value |-> m.value], row')
    PROVE  HistoryInv'
<1>1. /\ HistoryTypes' /\ InOrder'
      /\ \A k \in 1..Len(seen) : seen[k].ts < m.ts
  BY TypesAndOrder DEF HistoryInv
<1>2. /\ n \in Nat \ {0} /\ seen'[n] = m /\ Measured' = Measured \cup {n}
      /\ n = Len(seen) + 1 /\ Len(seen) \in Nat
      /\ \A k \in Measured : k \in Nat /\ k \in 1..Len(seen) /\ k < n /\ seen'[k] = seen[k]
      /\ \A k \in 1..Len(seen) : seen[k].ts \in Nat
      /\ m.ts \in Nat
  BY OldPart DEF HistoryInv, HistoryTypes, Extends, Measurement
<1>3. /\ \A k \in Measured' : LastFresh(k)' <=> k = n
      /\ Hot(n)' <=> Triggers(watched, m.value)
      /\ Cold(n)' <=> Clears(watched, m.value)
      /\ ~(Hot(n)' /\ Cold(n)')
      /\ Hot(n)' <=> Held(n, n)'
      /\ \A h \in Measured : Held(h, n)' =>
            /\ Hot(n)' /\ m.ts - seen[n - 1].ts =< watched.maxDataAge
            /\ \E j \in Measured : LastFresh(j)
            /\ \A j \in Measured : LastFresh(j) => h =< j /\ Held(h, j)
      /\ \A i, j \in Measured :
            /\ i =< j /\ LastFresh(j) /\ Held(i, j)
            /\ Hot(n)' /\ m.ts - seen[n - 1].ts =< watched.maxDataAge
            => Held(i, n)'
      /\ Firing' <=> FiresAt(n)' \/ (Firing /\ ~Cold(n)')
      /\ Pending' <=> ~Firing' /\ Hot(n)'
  BY FreshPart
<1>4. watched.forDuration \in Nat /\ watched.maxDataAge \in Nat \ {0} /\ watched' = watched
  BY RuleFacts DEF HistoryInv, HistoryTypes, Extends
<1>5. /\ row.status \in {"normal", "pending", "firing"}
      /\ (row.status = "firing") <=> Firing
      /\ (row.status = "pending") <=> Pending
  BY DEF HistoryInv, HistoryTypes, StatusMatchesHistory, AlertState, Status
<1>6. FiresAt(n)' <=> \/ Hot(n)' /\ watched.forDuration = 0
                     \/ \E h \in Measured : Held(h, n)' /\ m.ts - seen[h].ts >= watched.forDuration
  <2>1. FiresAt(n)' <=> \E h \in Measured \cup {n} :
            h =< n /\ Held(h, n)' /\ seen'[n].ts - seen'[h].ts >= watched.forDuration
    BY <1>2, <1>4 DEF FiresAt
  <2>2. seen'[n].ts - seen'[n].ts = 0 /\ n =< n
    BY <1>2
  <2>3. 0 >= watched.forDuration <=> watched.forDuration = 0
    BY <1>4
  <2>4. \A h \in Measured : h =< n /\ seen'[n].ts - seen'[h].ts = m.ts - seen[h].ts
    BY <1>2
  <2> QED BY <1>3, <2>1, <2>2, <2>3, <2>4
<1>7. SomeLast'
  BY <1>2, <1>3 DEF SomeLast
<1>8. FiresAt(n)' => Hot(n)'
  BY <1>3, <1>6
<1> DEFINE gap == row.lastValueAt # Nil /\ m.ts - row.lastValueAt > watched.maxDataAge
           StartsAt(i) == /\ i \in Measured' /\ Held(i, n)' /\ seen'[i].ts = row'.pendingSince
                          /\ \A h \in Measured' : h < i => ~Held(h, n)'
           Done == /\ (row'.status = "firing") <=> Firing'
                   /\ (row'.status = "pending") <=> Pending'
                   /\ row'.status = "pending" => \E i : StartsAt(i)
<1>9. Done => HistoryInv'
  <2> SUFFICES ASSUME Done PROVE HistoryInv'
    OBVIOUS
  <2>1. StatusMatchesHistory'
    BY DEF StatusMatchesHistory
  <2>2. ASSUME row'.status = "pending"
        PROVE  \E i, j \in Measured' :
                   /\ i =< j /\ LastFresh(j)' /\ Held(i, j)'
                   /\ seen'[i].ts = row'.pendingSince
                   /\ \A h \in Measured' : h < i => ~Held(h, j)'
    <3>1. PICK i : StartsAt(i)
      BY <2>2
    <3>2. n \in Measured' /\ LastFresh(n)' /\ i =< n
      BY <1>2, <1>3, <3>1
    <3> QED BY <3>1, <3>2
  <2>3. PendingSinceStartsRun'
    BY <2>2 DEF PendingSinceStartsRun
  <2> QED BY <1>1, <1>7, <2>1, <2>3 DEF HistoryInv
<1>10. ASSUME \A h \in Measured : ~Held(h, n)', Hot(n)', row'.pendingSince = m.ts
       PROVE  StartsAt(n)
  BY <1>2, <1>3, <1>10
<1>11. CASE row.status = "firing"
  <2>1. row'.status = IF Clears(watched, m.value) THEN "normal" ELSE "firing"
    BY <1>11 DEF FreshMove
  <2> QED BY <1>3, <1>5, <1>8, <1>9, <1>11, <2>1
<1>12. CASE row.status = "normal"
  <2>1. \A h \in Measured : ~Held(h, n)'
    <3> SUFFICES ASSUME NEW h \in Measured, Held(h, n)' PROVE FALSE
      OBVIOUS
    <3>1. PICK j \in Measured : LastFresh(j) /\ Held(h, j)
      BY <1>3
    <3>2. Pending
      BY <1>5, <1>12, <3>1 DEF Pending, Held
    <3> QED BY <1>5, <1>12, <3>2
  <2>2. CASE ~Hot(n)'
    <3>1. row'.status = "normal"
      BY <1>3, <1>12, <2>2 DEF FreshMove
    <3> QED BY <1>3, <1>5, <1>8, <1>9, <1>12, <2>2, <3>1
  <2>3. CASE Hot(n)' /\ watched.forDuration = 0
    <3>1. row'.status = "firing"
      BY <1>3, <1>12, <2>3 DEF FreshMove
    <3> QED BY <1>3, <1>5, <1>6, <1>9, <1>12, <2>3, <3>1
  <2>4. CASE Hot(n)' /\ watched.forDuration # 0
    <3>1. row'.status = "pending" /\ row'.pendingSince = m.ts
      BY <1>3, <1>12, <2>4 DEF FreshMove
    <3>2. ~Firing' /\ Pending'
      BY <1>3, <1>5, <1>6, <1>12, <2>1, <2>4
    <3>3. StartsAt(n)
      BY <1>10, <2>1, <2>4, <3>1
    <3> QED BY <1>9, <3>1, <3>2, <3>3
  <2> QED BY <2>2, <2>3, <2>4
<1>13. CASE row.status = "pending"
  <2>1. PICK i \in Measured, j \in Measured :
            /\ i =< j /\ LastFresh(j) /\ Held(i, j)
            /\ seen[i].ts = row.pendingSince
            /\ \A h \in Measured : h < i => ~Held(h, j)
    BY <1>13 DEF HistoryInv, PendingSinceStartsRun
  <2>2. /\ row.pendingSince \in Nat /\ row.pendingSince # Nil
        /\ row.lastValueAt = seen[n - 1].ts /\ row.lastValueAt # Nil
        /\ m.ts > seen[i].ts
    <3>1. i \in 1..Len(seen) /\ seen[i].ts \in Nat /\ m.ts > seen[i].ts
      BY <1>1, <1>2
    <3>2. seen # <<>> /\ n - 1 = Len(seen) /\ seen[n - 1].ts \in Nat
      BY <1>2, <3>1
    <3> QED BY <2>1, <3>1, <3>2, NilAssumption DEF HistoryInv, InOrder
  <2>3. watched.forDuration # 0
    <3> SUFFICES ASSUME watched.forDuration = 0 PROVE FALSE
      OBVIOUS
    <3>1. Held(j, j) /\ j \in Nat /\ seen[j].ts \in Nat
      BY <1>2, <2>1 DEF Held
    <3>2. FiresAt(j)
      BY <3>1 DEF FiresAt
    <3>3. \A k \in Measured : k > j => ~Cold(k)
      BY <2>1 DEF LastFresh, Cold
    <3> QED BY <1>5, <1>13, <3>2, <3>3 DEF Firing, Pending
  <2>4. CASE ~Hot(n)'
    <3>1. row'.status = "normal"
      BY <1>3, <1>13, <2>4 DEF FreshMove
    <3> QED BY <1>3, <1>5, <1>8, <1>9, <1>13, <2>4, <3>1
  <2>5. CASE Hot(n)' /\ gap
    <3>1. row'.status = "pending" /\ row'.pendingSince = m.ts
      BY <1>3, <1>13, <2>5 DEF FreshMove
    <3>2. \A h \in Measured : ~Held(h, n)'
      <4>1. ~(m.ts - seen[n - 1].ts =< watched.maxDataAge)
        <5>1. m.ts - seen[n - 1].ts > watched.maxDataAge /\ m.ts \in Int /\ watched.maxDataAge \in Int
          BY <1>2, <1>4, <2>2, <2>5
        <5>2. n - 1 \in 1..Len(seen)
          BY <1>2
        <5> QED BY <1>2, <5>1, <5>2
      <4> QED BY <1>3, <4>1
    <3>3. ~Firing' /\ Pending'
      BY <1>3, <1>5, <1>6, <1>13, <2>3, <2>5, <3>2
    <3>4. StartsAt(n)
      BY <1>10, <2>5, <3>1, <3>2
    <3> QED BY <1>9, <3>1, <3>3, <3>4
  <2>6. CASE Hot(n)' /\ ~gap
    <3>1. m.ts - seen[n - 1].ts =< watched.maxDataAge
      <4>1. n - 1 \in 1..Len(seen)
        BY <1>2
      <4> QED BY <1>2, <1>4, <2>2, <2>6, <4>1
    <3>2. Held(i, n)'
      BY <1>3, <2>1, <2>6, <3>1
    <3>3. \A h \in Measured : Held(h, n)' => ~(h < i)
      BY <1>3, <2>1
    <3>4. \A h \in Measured : Held(h, n)' => seen[i].ts =< seen[h].ts
      <4> SUFFICES ASSUME NEW h \in Measured, Held(h, n)' PROVE seen[i].ts =< seen[h].ts
        OBVIOUS
      <4>1. h \in 1..Len(seen) /\ i \in 1..Len(seen) /\ ~(h < i)
        BY <1>2, <3>3
      <4>2. CASE h = i
        BY <1>2, <4>1, <4>2
      <4>3. CASE h # i
        <5>1. i < h
          BY <4>1, <4>3
        <5>2. seen[i].ts < seen[h].ts
          BY <4>1, <5>1 DEF HistoryInv, InOrder
        <5> QED BY <1>2, <4>1, <5>2
      <4> QED BY <4>2, <4>3
    <3>5. FiresAt(n)' <=> m.ts - row.pendingSince >= watched.forDuration
      <4>1. \A h \in Measured : seen[h].ts \in Nat
        BY <1>2
      <4>2. \A h \in Measured : Held(h, n)' /\ m.ts - seen[h].ts >= watched.forDuration
                => m.ts - seen[i].ts >= watched.forDuration
        <5> SUFFICES ASSUME NEW h \in Measured, Held(h, n)',
                            m.ts - seen[h].ts >= watched.forDuration
                     PROVE  m.ts - seen[i].ts >= watched.forDuration
          OBVIOUS
        <5>1. seen[i].ts \in Nat /\ seen[h].ts \in Nat /\ seen[i].ts =< seen[h].ts
          BY <3>4, <4>1
        <5> QED BY <1>2, <1>4, <5>1, LongerSinceEarlier
      <4> QED BY <1>6, <2>1, <2>3, <3>2, <4>2
    <3>6. CASE m.ts - row.pendingSince >= watched.forDuration
      <4>1. row'.status = "firing"
        BY <1>3, <1>13, <2>2, <2>6, <3>6 DEF FreshMove
      <4> QED BY <1>3, <1>9, <3>5, <3>6, <4>1
    <3>7. CASE ~(m.ts - row.pendingSince >= watched.forDuration)
      <4>1. row'.status = "pending" /\ row'.pendingSince = row.pendingSince
        BY <1>3, <1>13, <2>2, <2>6, <3>7 DEF FreshMove
      <4>2. ~Firing' /\ Pending'
        BY <1>3, <1>5, <1>13, <2>6, <3>5, <3>7
      <4>3. StartsAt(i)
        <5>1. \A h \in Measured' : h < i => h \in Measured
          BY <1>2
        <5>2. \A h \in Measured' : h < i => ~Held(h, n)'
          BY <3>3, <5>1
        <5>3. i \in Measured' /\ seen'[i].ts = row'.pendingSince
          BY <1>2, <2>1, <4>1
        <5> QED BY <3>2, <5>2, <5>3
      <4> QED BY <1>9, <4>1, <4>2, <4>3
    <3> QED BY <3>6, <3>7
  <2> QED BY <2>4, <2>5, <2>6
<1> QED BY <1>5, <1>11, <1>12, <1>13

LEMMA LastType ==
    ASSUME HistoryTypes, seen # <<>>
    PROVE  LastTs = seen[Len(seen)].ts /\ LastTs \in Nat
<1>1. Len(seen) \in 1..Len(seen) /\ \A k \in 1..Len(seen) : seen[k] \in Measurement
  BY DEF HistoryTypes
<1>2. seen[Len(seen)].ts \in Nat
  BY <1>1 DEF Measurement
<1> QED BY <1>2 DEF LastTs

\* A measurement is evaluated for the first time.
LEMMA NewKeeps ==
    ASSUME HistoryInv, NEW k \in Nat, NEW t \in Nat, NEW v \in RuleValues, EvaluateNew(k, t, v),
           time' \in Nat, UNCHANGED watched
    PROVE  HistoryInv'
<1>1. PICK obs, m, n :
        /\ obs = [ts |-> t, value |-> v] /\ n = Len(seen) + 1
        /\ m = [ts |-> t, value |-> v, fresh |-> ~Stale(k, watched, obs)]
  OBVIOUS
<1>2. obs \in Observation /\ m.ts = t /\ m.value = v /\ m \in Measurement
  <2>1. v \in Int
    BY HistoryAssumption
  <2> QED BY <1>1, <2>1 DEF Observation, Measurement, Stale
<1>3. Extends(m, n) /\ LastTs < m.ts /\ row' = Evaluate(k, watched, TRUE, row, obs).state
  BY <1>1, <1>2 DEF EvaluateNew, Extends
<1>4. Newer(row.lastValueAt, obs)
  <2>1. seen # <<>> => LastTs = seen[Len(seen)].ts
    BY LastType DEF HistoryInv
  <2> QED BY <1>1, <1>2, <1>3, <2>1 DEF Newer, HistoryInv, InOrder
<1>5. row \in AlertState /\ watched \in Rules
  BY DEF HistoryInv, HistoryTypes
<1>6. CASE Stale(k, watched, obs)
  <2>1. row' = [row EXCEPT !.lastValue = obs.value, !.lastValueAt = obs.ts, !.evaluation = "stale"]
    BY <1>2, <1>3, <1>5, <1>6, NilAssumption, RuleFacts DEF Evaluate, NoEvent
  <2>2. /\ row' \in AlertState /\ row'.lastValueAt = m.ts
        /\ row'.status = row.status /\ row'.pendingSince = row.pendingSince
    BY <1>1, <1>2, <1>5, <2>1 DEF AlertState, Observation, OptTime, OptValue, Evaluation
  <2>3. ~m.fresh
    BY <1>1, <1>6
  <2> QED BY <1>3, <2>2, <2>3, StaleKeeps
<1>7. CASE ~Stale(k, watched, obs)
  <2>1. /\ row' \in AlertState /\ row'.lastValueAt = obs.ts
        /\ FreshMove(row, watched, obs, row')
    BY <1>2, <1>3, <1>4, <1>5, <1>7, FreshMoves
  <2>2. m.fresh /\ obs = [ts |-> m.ts, value |-> m.value] /\ obs.ts = m.ts
    BY <1>1, <1>2, <1>7
  <2> QED BY <1>3, <2>1, <2>2, FreshKeeps
<1> QED BY <1>6, <1>7

\* Nothing that the history is about changes.
LEMMA QuietKeeps ==
    ASSUME HistoryInv, UNCHANGED <<watched, seen, start>>, time' \in Nat, row' \in AlertState,
           row'.status = row.status, row'.pendingSince = row.pendingSince,
           row'.lastValueAt = row.lastValueAt
    PROVE  HistoryInv'
<1>1. /\ Measured' = Measured
      /\ \A k : (Hot(k)' <=> Hot(k)) /\ (Cold(k)' <=> Cold(k)) /\ (LastFresh(k)' <=> LastFresh(k))
  BY DEF Measured, Hot, Cold, LastFresh
<1>2. \A i, j : Held(i, j)' <=> Held(i, j)
  BY <1>1 DEF Held
<1>3. \A j : FiresAt(j)' <=> FiresAt(j)
  BY <1>1, <1>2 DEF FiresAt
<1>4. (Firing' <=> Firing) /\ (Pending' <=> Pending)
  BY <1>1, <1>3 DEF Firing, Pending
<1>5. HistoryTypes' /\ InOrder' /\ SomeLast' /\ StatusMatchesHistory'
  BY <1>1, <1>4 DEF HistoryInv, HistoryTypes, InOrder, SomeLast, StatusMatchesHistory
<1>6. PendingSinceStartsRun'
  BY <1>1, <1>2 DEF HistoryInv, PendingSinceStartsRun
<1> QED BY <1>5, <1>6 DEF HistoryInv

\* A row that was evaluated is found again, or none.
LEMMA OldKeeps ==
    ASSUME HistoryInv, NEW k \in Nat, time' \in Nat, UNCHANGED watched,
           EvaluateNothing(k) \/ \E v \in RuleValues : EvaluateAgain(k, v)
    PROVE  HistoryInv'
<1>1. row \in AlertState /\ watched \in Rules
  BY DEF HistoryInv, HistoryTypes
<1>2. CASE EvaluateNothing(k)
  <2>1. row' = [row EXCEPT !.evaluation = "no_data"]
    BY <1>1, <1>2, RuleFacts DEF EvaluateNothing, Evaluate, NoEvent
  <2>2. /\ row' \in AlertState /\ row'.lastValueAt = row.lastValueAt
        /\ row'.status = row.status /\ row'.pendingSince = row.pendingSince
    BY <1>1, <2>1 DEF AlertState, Evaluation
  <2> QED BY <1>2, <2>2, QuietKeeps DEF EvaluateNothing
<1>3. ASSUME NEW v \in RuleValues, EvaluateAgain(k, v) PROVE HistoryInv'
  <2>1. PICK obs : obs = [ts |-> LastTs, value |-> v]
    OBVIOUS
  <2>2. seen # <<>> /\ LastTs = seen[Len(seen)].ts /\ LastTs \in Nat /\ v \in Int
    BY <1>3, HistoryAssumption, LastType DEF EvaluateAgain, HistoryInv
  <2>3. obs \in Observation /\ obs.ts = LastTs /\ obs # Nil
    BY <2>1, <2>2, NilAssumption DEF Observation
  <2>4. row.lastValueAt = obs.ts /\ obs.ts \in Nat
    BY <2>2, <2>3 DEF HistoryInv, InOrder
  <2>5. ~Newer(row.lastValueAt, obs)
    BY <2>4, NilAssumption DEF Newer
  <2>6. PICK e \in {"stale", "ok"} :
            row' = [row EXCEPT !.lastValue = obs.value, !.lastValueAt = obs.ts, !.evaluation = e]
    BY <1>1, <1>3, <2>1, <2>3, <2>5, RuleFacts DEF EvaluateAgain, Evaluate, NoEvent
  <2>7. /\ row' \in AlertState /\ row'.lastValueAt = row.lastValueAt
        /\ row'.status = row.status /\ row'.pendingSince = row.pendingSince
    BY <1>1, <2>3, <2>4, <2>6 DEF AlertState, Evaluation, Observation, OptTime, OptValue
  <2> QED BY <1>3, <2>7, QuietKeeps DEF EvaluateAgain
<1> QED BY <1>2, <1>3

\* The device is disabled: the definitions start again with nothing.
LEMMA DisabledKeeps ==
    ASSUME HistoryInv, NEW k \in Nat, time' \in Nat, UNCHANGED watched, EvaluateDisabled(k)
    PROVE  HistoryInv'
<1>1. row \in AlertState /\ watched \in Rules /\ seen' = seen /\ start' = Len(seen) /\ Len(seen) \in Nat
  BY DEF HistoryInv, HistoryTypes, EvaluateDisabled
<1>2. /\ row' \in AlertState /\ row'.status = "normal" /\ row'.lastValueAt = row.lastValueAt
  <2>1. row' = Disable(k, watched, row).state
    BY DEF EvaluateDisabled, Evaluate
  <2>2. PICK off : off = [row EXCEPT !.status = "normal", !.pendingSince = Nil, !.evaluation = "disabled"]
    OBVIOUS
  <2>3. off \in AlertState /\ off.status = "normal" /\ off.lastValueAt = row.lastValueAt
    BY <1>1, <2>2 DEF AlertState, OptTime, Status, Evaluation
  <2>4. row' = off \/ row' = [off EXCEPT !.resolvedAt = k]
    BY <2>1, <2>2 DEF Disable, NoEvent
  <2> QED BY <2>3, <2>4 DEF AlertState, OptTime
<1>3. Measured' = {}
  BY <1>1 DEF Measured
<1>4. ~Firing' /\ ~Pending' /\ SomeLast'
  BY <1>3 DEF Firing, Pending, SomeLast
<1>5. HistoryTypes' /\ InOrder'
  BY <1>1, <1>2 DEF HistoryInv, HistoryTypes, InOrder
<1> QED BY <1>2, <1>4, <1>5 DEF HistoryInv, StatusMatchesHistory, PendingSinceStartsRun

LEMMA HistoryStarts == HistoryInit => HistoryInv
<1> SUFFICES ASSUME HistoryInit PROVE HistoryInv
  OBVIOUS
<1>1. HistoryTypes /\ row.status = "normal" /\ row.lastValueAt = Nil /\ seen = <<>>
  BY DEF HistoryInit, HistoryTypes, FirstState, AlertState, OptTime, OptValue, Status, Evaluation
<1>2. Measured = {}
  BY DEF HistoryInit, Measured
<1>3. ~Firing /\ ~Pending /\ SomeLast
  BY <1>2 DEF Firing, Pending, SomeLast
<1> QED BY <1>1, <1>3 DEF HistoryInv, InOrder, StatusMatchesHistory, PendingSinceStartsRun

LEMMA HistoryStep == HistoryInv /\ [HistoryNext]_historyVars => HistoryInv'
<1> SUFFICES ASSUME HistoryInv, [HistoryNext]_historyVars PROVE HistoryInv'
  OBVIOUS
<1>1. CASE HistoryNext
  <2>1. PICK n \in time..MaxNow :
            /\ time' = n /\ UNCHANGED watched
            /\ \/ \E t \in 0..MaxNow, v \in RuleValues : EvaluateNew(n, t, v)
               \/ \E v \in RuleValues : EvaluateAgain(n, v)
               \/ EvaluateNothing(n)
               \/ EvaluateDisabled(n)
    BY <1>1 DEF HistoryNext
  <2>2. n \in Nat /\ time' \in Nat /\ \A t \in 0..MaxNow : t \in Nat
    BY <2>1, HistoryAssumption DEF HistoryInv, HistoryTypes
  <2>3. ASSUME NEW t \in 0..MaxNow, NEW v \in RuleValues, EvaluateNew(n, t, v) PROVE HistoryInv'
    BY <2>1, <2>2, <2>3, NewKeeps
  <2> QED BY <2>1, <2>2, <2>3, OldKeeps, DisabledKeeps
<1>2. CASE UNCHANGED historyVars
  BY <1>2, QuietKeeps DEF historyVars, HistoryInv, HistoryTypes
<1> QED BY <1>1, <1>2

\* For every rule the API accepts and every sequence of measurements, fresh or stale, seen
\* again or not at all, and a device that is disabled now and then: the stored status is
\* the one that the definition over the whole sequence gives.
THEOREM StatusAlwaysMatchesHistory == HistorySpec => []StatusMatchesHistory
<1>1. HistoryInv => StatusMatchesHistory
  BY DEF HistoryInv
<1> QED BY <1>1, HistoryStarts, HistoryStep, PTL DEF HistorySpec

\* And the stored pending time is that of the first measurement of the run held now.
THEOREM PendingAlwaysSinceRun == HistorySpec => []PendingSinceStartsRun
<1>1. HistoryInv => PendingSinceStartsRun
  BY DEF HistoryInv
<1> QED BY <1>1, HistoryStarts, HistoryStep, PTL DEF HistorySpec
=============================================================================
