---------------------------- MODULE SensorAlerts ----------------------------
(***************************************************************************)
(* Threshold alerting end to end: the alert workers                        *)
(* (cmd/hm-sensor-alert-worker), the rule handlers of the API              *)
(* (cmd/hm-api-server/alerts.go), the collectors' minute upserts and       *)
(* device syncs (internal/sensorstore), the retention passes of            *)
(* hm-db-maint, and the PostgreSQL tables of db/schema.sql they share.     *)
(*                                                                         *)
(* A step is one SQL statement or one transaction boundary, so that a      *)
(* handler may run between any two statements of a worker's cycle.         *)
(* One metric stands for all: sensor_minute[mac] is the column the rules   *)
(* of that device watch.                                                   *)
(***************************************************************************)
EXTENDS AlertEvaluator, FiniteSets

CONSTANTS
    Workers,          \* hm-sensor-alert-worker processes
    Devices,          \* devices.mac
    Values,           \* metric values a minute row may hold
    RuleConfigs,      \* the rule bodies clients POST and PUT
    RetainMinute,     \* DB_MAINT_RETAIN_MINUTE
    RetainEvents,     \* DB_MAINT_RETAIN_ALERT_EVENTS
    MaxRules,         \* bound: rules ever created
    MaxTime,          \* bound: the clock
    MaxFailures,      \* bound: cycles and transactions lost to database errors
    MaxCrashes,       \* bound: worker crashes
    MaxDrops          \* bound: lost sessions of the advisory lock

\* A rule id; bigserial hands them out in order and never twice.
RuleId == 1..MaxRules
Times  == 0..MaxTime

RuleBody ==
    [mac : Devices, direction : Direction, trigger : Int, clear : Int,
     forDuration : Nat, maxDataAge : Nat, enabled : BOOLEAN]

\* A row of loadRules.
LoadedRule == [rule : RuleConfigs, deviceEnabled : BOOLEAN]

ASSUME ConstantsAssumption ==
    /\ Nil \notin Workers
    /\ Nil \notin Devices
    /\ Values \subseteq Int
    /\ RuleConfigs \subseteq RuleBody
    /\ \A c \in RuleConfigs : ValidRule(c)
    /\ Nil \notin RuleConfigs
    /\ Nil \notin LoadedRule
    /\ RetainMinute \in Nat
    /\ RetainEvents \in Nat
    /\ MaxRules \in Nat
    /\ MaxTime \in Nat
    /\ MaxFailures \in Nat
    /\ MaxCrashes \in Nat
    /\ MaxDrops \in Nat

VARIABLES
    clock,            \* minutes
    sensor_minute,    \* [Devices -> [Times -> Values \cup {Nil}]]
    deviceEnabled,    \* devices.enabled
    rules,            \* sensor_alert_rules: id -> body, Nil when there is no row
    lastRule,         \* sequence of sensor_alert_rules.id
    states,           \* sensor_alert_states: id -> row, Nil when there is no row
    events,           \* sensor_alert_events
    lastEvent,        \* sequence of sensor_alert_events.id
    lock,             \* owner of the advisory lock, or Nil
    worker,           \* the workers' local state
    faults            \* failures, crashes and drops so far

dbVars == <<sensor_minute, deviceEnabled, rules, lastRule, states, events, lastEvent>>
vars   == <<clock, dbVars, lock, worker, faults>>

-----------------------------------------------------------------------------
(* A worker's local state.                                                 *)
(*   waiting  in main, asking for the advisory lock                        *)
(*   idle     holds (or believes to hold) it, waiting for the ticker       *)
(*   loading  a cycle has begun, its time is taken                         *)
(*   cycle    between two rules of evaluateRules                           *)
(*   tx       inside evaluateDBRule, state row read and locked             *)
(*   ready    measurement read too, or not needed                          *)
(* batch is the result of loadRules less the rules already done.           *)

NoBatch    == [r \in RuleId |-> Nil]

Idle(pc) == [pc |-> pc, now |-> 0, batch |-> NoBatch, read |-> Nil, obs |-> Nil]

WorkerState ==
    [pc    : {"waiting", "idle", "loading", "cycle", "tx", "ready"},
     now   : Nat,
     batch : [RuleId -> LoadedRule \cup {Nil}],
     read  : AlertState \cup {Nil},
     obs   : Observation \cup {Nil}]

Todo(w) == {r \in RuleId : worker[w].batch[r] # Nil}

\* ORDER BY r.id
IsNext(w, r) == r \in Todo(w) /\ \A q \in Todo(w) : r =< q

InTx(w, r) == worker[w].pc \in {"tx", "ready"} /\ IsNext(w, r)

\* SELECT ... FOR UPDATE locks the state row of r, when there is one.
RowLocked(r) == \E w \in Workers : InTx(w, r) /\ worker[w].read # Nil

EventRow ==
    [id : Nat, rule : RuleId \cup {Nil}, mac : Devices, at : Nat,
     type : {"firing", "resolved"}, reason : Reason, value : OptValue, valueAt : OptTime]

TypeOK ==
    /\ clock \in Times
    /\ sensor_minute \in [Devices -> [Times -> Values \cup {Nil}]]
    /\ deviceEnabled \in [Devices -> BOOLEAN]
    /\ rules \in [RuleId -> RuleConfigs \cup {Nil}]
    /\ lastRule \in 0..MaxRules
    /\ states \in [RuleId -> AlertState \cup {Nil}]
    /\ events \in SUBSET EventRow
    /\ lastEvent \in Nat
    /\ lock \in Workers \cup {Nil}
    /\ worker \in [Workers -> WorkerState]
    /\ faults \in [failures : Nat, crashes : Nat, drops : Nat]

Init ==
    /\ clock = 0
    /\ sensor_minute = [m \in Devices |-> [t \in Times |-> Nil]]
    /\ deviceEnabled = [m \in Devices |-> TRUE]
    /\ rules = [r \in RuleId |-> Nil]
    /\ lastRule = 0
    /\ states = [r \in RuleId |-> Nil]
    /\ events = {}
    /\ lastEvent = 0
    /\ lock = Nil
    /\ worker = [w \in Workers |-> Idle("waiting")]
    /\ faults = [failures |-> 0, crashes |-> 0, drops |-> 0]

-----------------------------------------------------------------------------
(* The environment of the worker: time, collectors, API and maintenance.   *)

Tick ==
    /\ clock < MaxTime
    /\ clock' = clock + 1
    /\ UNCHANGED <<dbVars, lock, worker, faults>>

\* sensorstore.UpsertMinute with a value for the watched metric: a new row, a
\* late one, or the same minute written again.
UpsertMinute(m, t, v) ==
    /\ t =< clock
    /\ sensor_minute' = [sensor_minute EXCEPT ![m][t] = v]
    /\ UNCHANGED <<clock, deviceEnabled, rules, lastRule, states, events, lastEvent,
                   lock, worker, faults>>

\* sensorstore.SyncDevice by the collector that owns the device: enabled is
\* overwritten from its target registry.
SyncDevice(m, enabled) ==
    /\ deviceEnabled' = [deviceEnabled EXCEPT ![m] = enabled]
    /\ UNCHANGED <<clock, sensor_minute, rules, lastRule, states, events, lastEvent,
                   lock, worker, faults>>

CreateRule(c) ==
    /\ lastRule < MaxRules
    /\ lastRule' = lastRule + 1
    /\ rules' = [rules EXCEPT ![lastRule + 1] = c]
    /\ UNCHANGED <<clock, sensor_minute, deviceEnabled, states, events, lastEvent,
                   lock, worker, faults>>

\* A full replacement of the body; the state row is not touched.
UpdateRule(r, c) ==
    /\ rules[r] # Nil
    /\ rules' = [rules EXCEPT ![r] = c]
    /\ UNCHANGED <<clock, sensor_minute, deviceEnabled, lastRule, states, events, lastEvent,
                   lock, worker, faults>>

\* Mutant: the events keep the id of the deleted rule.
DeleteRuleKeepsId(r) ==
    /\ rules[r] # Nil
    /\ ~RowLocked(r)
    /\ rules' = [rules EXCEPT ![r] = Nil]
    /\ states' = [states EXCEPT ![r] = Nil]
    /\ UNCHANGED <<clock, sensor_minute, deviceEnabled, lastRule, events, lastEvent,
                   lock, worker, faults>>

\* DELETE cascades to the state row, so it waits for a transaction that holds
\* that row's lock, and sets the alert_rule_id of the events to NULL.
DeleteRule(r) ==
    /\ rules[r] # Nil
    /\ ~RowLocked(r)
    /\ rules' = [rules EXCEPT ![r] = Nil]
    /\ states' = [states EXCEPT ![r] = Nil]
    /\ events' = {IF e.rule = r THEN [e EXCEPT !.rule = Nil] ELSE e : e \in events}
    /\ UNCHANGED <<clock, sensor_minute, deviceEnabled, lastRule, lastEvent,
                   lock, worker, faults>>

RetainSensorMinute ==
    /\ sensor_minute' = [m \in Devices |-> [t \in Times |->
                            IF t < clock - RetainMinute THEN Nil ELSE sensor_minute[m][t]]]
    /\ UNCHANGED <<clock, deviceEnabled, rules, lastRule, states, events, lastEvent,
                   lock, worker, faults>>

RetainSensorAlertEvents ==
    /\ events' = {e \in events : e.at >= clock - RetainEvents}
    /\ UNCHANGED <<clock, sensor_minute, deviceEnabled, rules, lastRule, states, lastEvent,
                   lock, worker, faults>>

-----------------------------------------------------------------------------
(* The worker.                                                             *)

\* Mutant: pg_try_advisory_lock whose result is not looked at.
AcquireLockUnchecked(w) ==
    /\ worker[w].pc = "waiting"
    /\ lock' = w
    /\ worker' = [worker EXCEPT ![w] = Idle("idle")]
    /\ UNCHANGED <<clock, dbVars, faults>>

\* pg_advisory_lock blocks until the lock is free.
AcquireLock(w) ==
    /\ worker[w].pc = "waiting"
    /\ lock = Nil
    /\ lock' = w
    /\ worker' = [worker EXCEPT ![w] = Idle("idle")]
    /\ UNCHANGED <<clock, dbVars, faults>>

\* One tick of the ticker (the first cycle needs none): time.Now(), the time of
\* everything the cycle writes.
StartCycle(w) ==
    /\ worker[w].pc = "idle"
    /\ worker' = [worker EXCEPT ![w].pc = "loading", ![w].now = clock]
    /\ UNCHANGED <<clock, dbVars, lock, faults>>

\* Mutant: the query leaves disabled rules and devices out.
LoadRulesEnabledOnly(w) ==
    /\ worker[w].pc = "loading"
    /\ worker' = [worker EXCEPT ![w].pc = "cycle",
            ![w].batch = [r \in RuleId |->
                IF rules[r] = Nil THEN Nil
                ELSE IF ~rules[r].enabled \/ ~deviceEnabled[rules[r].mac] THEN Nil
                ELSE [rule |-> rules[r], deviceEnabled |-> TRUE]]]
    /\ UNCHANGED <<clock, dbVars, lock, faults>>

\* Every rule joined with its device, read outside any transaction.
LoadRules(w) ==
    /\ worker[w].pc = "loading"
    /\ worker' = [worker EXCEPT ![w].pc = "cycle",
            ![w].batch = [r \in RuleId |->
                IF rules[r] = Nil THEN Nil
                ELSE [rule          |-> rules[r],
                      deviceEnabled |-> deviceEnabled[rules[r].mac]]]]
    /\ UNCHANGED <<clock, dbVars, lock, faults>>

\* The query fails: the cycle is logged and over.
LoadRulesFails(w) ==
    /\ worker[w].pc = "loading"
    /\ faults.failures < MaxFailures
    /\ faults' = [faults EXCEPT !.failures = @ + 1]
    /\ worker' = [worker EXCEPT ![w] = Idle("idle")]
    /\ UNCHANGED <<clock, dbVars, lock>>

\* The newest row of the device that has a value, or Nil.
IsLatest(m, obs) ==
    \/ /\ obs = Nil
       /\ \A t \in Times : sensor_minute[m][t] = Nil
    \/ \E t \in Times :
          /\ sensor_minute[m][t] # Nil
          /\ \A u \in Times : u > t => sensor_minute[m][u] = Nil
          /\ obs = [ts |-> t, value |-> sensor_minute[m][t]]

Watched(loaded) == loaded.rule.enabled /\ loaded.deviceEnabled

\* Begin and loadState, which waits for the row lock and keeps it.  A disabled
\* rule needs no measurement.
LoadState(w, r) ==
    /\ worker[w].pc = "cycle"
    /\ IsNext(w, r)
    /\ ~RowLocked(r)
    /\ worker' = [worker EXCEPT ![w].pc   = IF Watched(worker[w].batch[r]) THEN "tx" ELSE "ready",
                                ![w].read = states[r]]
    /\ UNCHANGED <<clock, dbVars, lock, faults>>

\* A statement of its own: the newest row may have come after loadState.
LoadLatestObservation(w, r) ==
    /\ InTx(w, r)
    /\ worker[w].pc = "tx"
    /\ \E t \in Times, v \in Values \cup {Nil} :
          LET obs == IF v = Nil THEN Nil ELSE [ts |-> t, value |-> v]
          IN  /\ IsLatest(worker[w].batch[r].rule.mac, obs)
              /\ worker' = [worker EXCEPT ![w].pc = "ready", ![w].obs = obs]
    /\ UNCHANGED <<clock, dbVars, lock, faults>>

\* evaluateDBRule is over for r, whatever its result; the loop goes on.
RuleDone(w, r) ==
    worker' = [worker EXCEPT ![w].pc = "cycle", ![w].batch[r] = Nil,
                             ![w].read = Nil, ![w].obs = Nil]

Result(w, r) ==
    LET loaded == worker[w].batch[r]
    IN  Evaluate(worker[w].now, loaded.rule, loaded.deviceEnabled,
                 IF worker[w].read = Nil THEN FirstState ELSE worker[w].read,
                 worker[w].obs)

\* Mutant: occurred_at is the time of the insert, its column default.
RowForAtInsert(w, r, ev) ==
    [id |-> lastEvent + 1, rule |-> r, mac |-> worker[w].batch[r].rule.mac,
     at |-> clock, type |-> ev.type, reason |-> ev.reason,
     value |-> ev.value, valueAt |-> ev.valueAt]

\* insertEvent: the row carries a snapshot of the rule as it was loaded.
RowFor(w, r, ev) ==
    [id |-> lastEvent + 1, rule |-> r, mac |-> worker[w].batch[r].rule.mac,
     at |-> worker[w].now, type |-> ev.type, reason |-> ev.reason,
     value |-> ev.value, valueAt |-> ev.valueAt]

InsertEvent(w, r, ev) ==
    IF ev = Nil
    THEN UNCHANGED <<events, lastEvent>>
    ELSE /\ events' = events \cup {RowFor(w, r, ev)}
         /\ lastEvent' = lastEvent + 1

\* saveState, insertEvent and Commit.  The upsert of the state needs the rule
\* row to exist, and overwrites a state row another worker inserted meanwhile.
CommitTx(w, r) ==
    /\ InTx(w, r)
    /\ worker[w].pc = "ready"
    /\ rules[r] # Nil
    /\ states' = [states EXCEPT ![r] = Result(w, r).state]
    /\ InsertEvent(w, r, Result(w, r).event)
    /\ RuleDone(w, r)
    /\ UNCHANGED <<clock, sensor_minute, deviceEnabled, rules, lastRule, lock, faults>>

\* The rule was deleted after loadRules: the insert breaks the foreign key.
ForeignKeyViolation(w, r) ==
    /\ InTx(w, r)
    /\ worker[w].pc = "ready"
    /\ rules[r] = Nil
    /\ RuleDone(w, r)
    /\ UNCHANGED <<clock, dbVars, lock, faults>>

\* Mutant: the state is saved on its own before the event insert fails.
TxFailsAfterSave(w, r) ==
    /\ InTx(w, r)
    /\ rules[r] # Nil
    /\ faults.failures < MaxFailures
    /\ faults' = [faults EXCEPT !.failures = @ + 1]
    /\ states' = [states EXCEPT ![r] = Result(w, r).state]
    /\ RuleDone(w, r)
    /\ UNCHANGED <<clock, sensor_minute, deviceEnabled, rules, lastRule, events, lastEvent, lock>>

\* Any statement of the transaction fails: it rolls back, the error is joined
\* to the others and the next rule is evaluated.
TxFails(w, r) ==
    /\ InTx(w, r)
    /\ faults.failures < MaxFailures
    /\ faults' = [faults EXCEPT !.failures = @ + 1]
    /\ RuleDone(w, r)
    /\ UNCHANGED <<clock, dbVars, lock>>

EndCycle(w) ==
    /\ worker[w].pc = "cycle"
    /\ Todo(w) = {}
    /\ worker' = [worker EXCEPT ![w] = Idle("idle")]
    /\ UNCHANGED <<clock, dbVars, lock, faults>>

\* Mutant: the advisory lock outlives the crashed worker.
CrashKeepsLock(w) ==
    /\ worker[w].pc # "waiting"
    /\ faults.crashes < MaxCrashes
    /\ faults' = [faults EXCEPT !.crashes = @ + 1]
    /\ worker' = [worker EXCEPT ![w] = Idle("waiting")]
    /\ UNCHANGED <<clock, dbVars, lock>>

\* SIGTERM, SIGKILL or a fatal error: the sessions end, the open transaction
\* rolls back, the advisory lock is free, and the container starts again.
Crash(w) ==
    /\ worker[w].pc # "waiting"
    /\ faults.crashes < MaxCrashes
    /\ faults' = [faults EXCEPT !.crashes = @ + 1]
    /\ lock' = IF lock = w THEN Nil ELSE lock
    /\ worker' = [worker EXCEPT ![w] = Idle("waiting")]
    /\ UNCHANGED <<clock, dbVars>>

\* The session of lockConn ends on the server.  The worker never uses that
\* connection again before it exits, so it does not notice.
DropLockSession ==
    /\ lock # Nil
    /\ faults.drops < MaxDrops
    /\ faults' = [faults EXCEPT !.drops = @ + 1]
    /\ lock' = Nil
    /\ UNCHANGED <<clock, dbVars, worker>>

-----------------------------------------------------------------------------
Collectors ==
    \/ \E m \in Devices, t \in Times, v \in Values : UpsertMinute(m, t, v)
    \/ \E m \in Devices, b \in BOOLEAN : SyncDevice(m, b)

Api ==
    \/ \E c \in RuleConfigs : CreateRule(c)
    \/ \E r \in RuleId, c \in RuleConfigs : UpdateRule(r, c)
    \/ \E r \in RuleId : DeleteRule(r)

Maintenance == RetainSensorMinute \/ RetainSensorAlertEvents

EvaluateDBRule(w, r) ==
    \/ LoadState(w, r)
    \/ LoadLatestObservation(w, r)
    \/ CommitTx(w, r)
    \/ ForeignKeyViolation(w, r)
    \/ TxFails(w, r)

WorkerStep(w) ==
    \/ AcquireLock(w)
    \/ StartCycle(w)
    \/ LoadRules(w)
    \/ LoadRulesFails(w)
    \/ \E r \in RuleId : EvaluateDBRule(w, r)
    \/ EndCycle(w)
    \/ Crash(w)

Next ==
    \/ Tick
    \/ Collectors
    \/ Api
    \/ Maintenance
    \/ \E w \in Workers : WorkerStep(w)
    \/ DropLockSession

Spec == Init /\ [][Next]_vars

\* A running worker keeps taking its steps: the ticker keeps ticking and every
\* statement returns.  Nothing is assumed of clients, collectors or time.
Fairness ==
    \A w \in Workers :
        /\ WF_vars(AcquireLock(w))
        /\ WF_vars(StartCycle(w))
        /\ WF_vars(LoadRules(w))
        /\ WF_vars(EndCycle(w))
        /\ \A r \in RuleId : /\ WF_vars(LoadState(w, r) \/ LoadLatestObservation(w, r))
                             /\ WF_vars(CommitTx(w, r) \/ ForeignKeyViolation(w, r))

FairSpec == Spec /\ Fairness

-----------------------------------------------------------------------------
(* Properties.                                                             *)

Active(w) == worker[w].pc # "waiting"

\* At most one worker is past main's pg_advisory_lock at any time.
SingleEvaluator ==
    \A v, w \in Workers : Active(v) /\ Active(w) => v = w

\* A stored state is one the evaluator's machine has: a normal alert is not
\* pending since anything, a pending one is, a firing one has fired and is not
\* resolved, and an alert that fired and is over was resolved.  It is computed
\* with a rule that may have been edited or disabled since.
WellFormed(s) ==
    /\ s.status = "normal" => s.pendingSince = Nil
    /\ s.status = "pending" => s.pendingSince # Nil
    /\ s.status = "firing" => s.firedAt # Nil /\ s.resolvedAt = Nil
    /\ s.status # "firing" => (s.firedAt = Nil <=> s.resolvedAt = Nil)

StatesWellFormed == \A r \in RuleId : states[r] # Nil => WellFormed(states[r])

\* An alert is not resolved before it fired: the two times come from the clock
\* readings of two cycles, perhaps of two workers, one after the other.
ResolvedAfterFired ==
    \A r \in RuleId :
        (states[r] # Nil /\ states[r].firedAt # Nil /\ states[r].resolvedAt # Nil)
        => states[r].firedAt =< states[r].resolvedAt

NewestOfRule(e) == \A f \in events : f.rule = e.rule => f.id =< e.id

\* The event log and the state table, two tables written in one transaction,
\* tell the same story: the newest event of a rule is a firing one exactly
\* when the rule is firing now.
EventsMatchState ==
    \A e \in events :
        (e.rule # Nil /\ NewestOfRule(e)) =>
            /\ states[e.rule] # Nil
            /\ (e.type = "firing") <=> (states[e.rule].status = "firing")

\* No rule has two firing or two resolved events in a row, over worker
\* crashes, failed transactions, rule edits and retention.
EventsAlternate ==
    \A e, f \in events :
        (/\ e.rule = f.rule /\ e.rule # Nil /\ e.id < f.id
         /\ ~\E g \in events : g.rule = e.rule /\ e.id < g.id /\ g.id < f.id)
        => e.type # f.type

\* A firing alert has the firing event of that very transition, until
\* retention removes it: fired_at and occurred_at are one reading of the clock.
FiringAlertHasEvent ==
    \A r \in RuleId :
        (/\ states[r] # Nil /\ states[r].status = "firing"
         /\ states[r].firedAt >= clock - RetainEvents)
        => \E e \in events : e.rule = r /\ e.type = "firing" /\ e.at = states[r].firedAt

\* A firing alert ends, other than with its rule, only by a resolved event of
\* that same step, and one that says threshold_cleared names a measurement
\* later than the last one looked at (last_value_at, which a PUT to another device
\* or a late row after retention may move back): losing data, stale data, a restart
\* or the same row seen again never ends it.
FiringEndsByEvent ==
    [][\A r \in RuleId :
        (/\ states[r] # Nil /\ states[r].status = "firing"
         /\ states'[r] # Nil /\ states'[r].status # "firing")
        => \E e \in events' \ events :
              /\ e.rule = r /\ e.type = "resolved" /\ e.at = states'[r].resolvedAt
              /\ e.reason = "threshold_cleared" => e.valueAt > states[r].lastValueAt]_vars

\* The abstract view of a rule: what the firing and resolved events speak of.
AlertOf(r) ==
    IF rules[r] = Nil THEN "none"
    ELSE IF states[r] # Nil /\ states[r].status = "firing" THEN "firing" ELSE "quiet"

LogRow(e) == [id |-> e.id, rule |-> e.rule, type |-> e.type, at |-> e.at]

Lifecycle == INSTANCE AlertLifecycle WITH
    alert <- [r \in RuleId |-> AlertOf(r)],
    log   <- {LogRow(e) : e \in events}

\* The worker, the handlers and the retention passes implement AlertLifecycle.
ImplementsLifecycle == Lifecycle!Spec

\* Whatever a client or a collector disables is acted upon: a firing rule that
\* stays disabled is resolved, unless it is deleted.  Needs the worker to come
\* back after a crash, to get the lock back and to load the rules again.
Off(r) == rules[r] # Nil /\ ~(rules[r].enabled /\ deviceEnabled[rules[r].mac])

DisabledAlertResolves ==
    \A r \in RuleId :
        (Off(r) /\ AlertOf(r) = "firing") ~> (~Off(r) \/ AlertOf(r) = "quiet")

\* The newest measurement of a watched device reaches the state: a row newer
\* than last_value_at is evaluated, unless it stops being the newest row of the
\* rule (a newer row, retention) or the rule is edited, disabled or deleted.
Unseen(r, m, t) ==
    /\ rules[r] # Nil /\ rules[r].mac = m
    /\ rules[r].enabled /\ deviceEnabled[m]
    /\ sensor_minute[m][t] # Nil
    /\ \A u \in Times : u > t => sensor_minute[m][u] = Nil
    /\ \/ states[r] = Nil
       \/ states[r] # Nil /\ (states[r].lastValueAt = Nil \/ states[r].lastValueAt # t)

EveryReadingEvaluated ==
    \A r \in RuleId, m \in Devices, t \in Times :
        Unseen(r, m, t) ~> ~Unseen(r, m, t)

\* What the open transaction has read makes the rule fire.
WillFire(w, r) ==
    /\ InTx(w, r)
    /\ worker[w].pc = "ready"
    /\ Result(w, r).event # Nil
    /\ Result(w, r).event.type = "firing"

\* docs/sensor-alerts.md: "for_duration_seconds requires fresh, distinct
\* measurements to remain beyond the trigger for that duration".  When a rule is
\* about to fire, its device has had a row for_duration or more before the one it
\* fires on.
DurationMeasuredOnDevice ==
    [][\A w \in Workers, r \in RuleId :
        (LoadLatestObservation(w, r) /\ WillFire(w, r)') =>
            LET rule == worker[w].batch[r].rule
            IN  \E t \in Times :
                    /\ t + rule.forDuration =< worker'[w].obs.ts
                    /\ sensor_minute[rule.mac][t] # Nil]_vars
=============================================================================
