-------------------------- MODULE SensorCollectors --------------------------
(***************************************************************************)
(* The sensor collectors together: who may write a device's rows, and what *)
(* health/details shows of them.  They share the devices table, whose       *)
(* ingest_source owns a device; sensors.json, which the configured           *)
(* collectors read at startup; the lock of the Cisco Spaces collectors; and *)
(* one row of collector_status per collector.  Times are ticks from now.    *)
(***************************************************************************)
EXTENDS CollectorStatus, FiniteSets

CONSTANTS
    Devices,
    Procs,          \* the processes
    Source,         \* [Procs -> Sources], the ingest_source a process writes for
    Spaces,         \* the ingest_source of the Cisco Spaces collectors
    StaleAfter      \* COLLECTOR_STATUS_STALE_AFTER

Sources == {Source[p] : p \in Procs}
Firehose == {p \in Procs : Source[p] = Spaces}
Configured == Procs \ Firehose
Ages == -(StaleAfter + 1)..0

ASSUME ConstantsAssumption ==
    /\ Source \in [Procs -> Sources]
    /\ StaleAfter \in Nat
    /\ Nil \notin Sources \cup Procs \cup Devices \cup Int

VARIABLES
    owner,      \* devices.ingest_source, Nil where it is NULL or there is no row
    config,     \* sensors.json: [Devices -> Sources]
    move,       \* the move of a device the operator is doing
    procs,      \* [Procs -> the state of the process]
    lock,       \* whose session holds the advisory lock
    status      \* [Sources -> row of collector_status]

vars == <<owner, config, move, procs, lock, status>>

NoMove == [step |-> "none"]

\* todo: the devices ensureDevices has still to synchronise.  syncing: the device whose
\* row writeReading will write.  late: a heartbeat that began before the stream ended.
Down == [phase |-> "down", todo |-> {}, targets |-> {}, session |-> FALSE,
         stream |-> FALSE, syncing |-> Nil, late |-> FALSE]

Process == [phase : {"down", "starting", "up"}, todo : SUBSET Devices,
            targets : SUBSET Devices, session : BOOLEAN, stream : BOOLEAN,
            syncing : Devices \cup {Nil}, late : BOOLEAN]

TypeOK ==
    /\ owner \in [Devices -> Sources \cup {Nil}]
    /\ config \in [Devices -> Sources]
    /\ move = NoMove \/ move \in [step : {"stop", "sql", "config"}, mac : Devices,
                                  from : Sources, to : Sources]
    /\ procs \in [Procs -> Process]
    /\ \A p \in Procs : procs[p].phase = "up" => procs[p].todo = {}
    /\ lock \in Firehose \cup {Nil}
    /\ status \in [Sources -> Row(Ages) \cup {NoRow}]

Init ==
    /\ owner \in [Devices -> Sources \cup {Nil}]
    /\ config \in [Devices -> Sources]
    /\ move = NoMove
    /\ procs = [p \in Procs |-> Down]
    /\ lock = Nil
    /\ status = [s \in Sources |-> NoRow]

Up(p) == procs[p].phase = "up"

\* systemd starts a process that ended, unless the operator stopped it.
Stopped(p) == move # NoMove /\ Source[p] = move.from

Tick ==
    /\ status' = [s \in Sources |->
         IF status[s].updated \in Ages \ {-(StaleAfter + 1)}
         THEN [status[s] EXCEPT !.updated = @ - 1] ELSE status[s]]
    /\ UNCHANGED <<owner, config, move, procs, lock>>

\* What a process reports is lost with its connection.
Mark(p, row) ==
    status' = IF procs[p].session THEN [status EXCEPT ![Source[p]] = row] ELSE status

Success(p) == Mark(p, MarkSuccess(status[Source[p]], 0))
Failure(p) == Mark(p, MarkFailure(status[Source[p]], 0))

-----------------------------------------------------------------------------
(* SyncDevice, and the startup of the configured collectors.               *)

\* Mutant: the WHERE clause of the statement is missing.
MayOwnAny(d, s) == TRUE

MayOwn(d, s) == owner[d] \in {Nil, s}

Claim(d, s) == owner' = [owner EXCEPT ![d] = IF @ = Nil THEN s ELSE @]

\* Mutant: the last source to start has the device.
SyncUpsert(d, s) == owner' = [owner EXCEPT ![d] = s]

SyncDevice(d, s) == MayOwn(d, s) /\ Claim(d, s)

\* The devices of other sources are not a collector's business.
LoadTargets(p) == {d \in Devices : config[d] = Source[p]}

Load(p) ==
    /\ p \in Configured /\ ~Stopped(p)
    /\ procs[p] = Down /\ LoadTargets(p) # {}
    /\ procs' = [procs EXCEPT ![p].phase = "starting", ![p].session = TRUE,
                              ![p].todo = LoadTargets(p), ![p].targets = LoadTargets(p)]
    /\ UNCHANGED <<owner, config, move, lock, status>>

EnsureDevice(p, d) ==
    /\ procs[p].phase = "starting" /\ d \in procs[p].todo
    /\ SyncDevice(d, Source[p])
    /\ procs' = [procs EXCEPT ![p].todo = @ \ {d}]
    /\ UNCHANGED <<config, move, lock, status>>

\* The device of another owner ends the process.
EnsureFails(p) ==
    /\ procs[p].phase = "starting"
    /\ \E d \in procs[p].todo : ~MayOwn(d, Source[p])
    /\ procs' = [procs EXCEPT ![p] = Down]
    /\ UNCHANGED <<owner, config, move, lock, status>>

\* Mutant: the devices are synchronised while it runs.
StartedAtOnce(p) ==
    /\ procs[p].phase = "starting"
    /\ procs' = [procs EXCEPT ![p].phase = "up"]
    /\ UNCHANGED <<owner, config, move, lock, status>>

Started(p) ==
    /\ procs[p].phase = "starting" /\ procs[p].todo = {}
    /\ procs' = [procs EXCEPT ![p].phase = "up"]
    /\ UNCHANGED <<owner, config, move, lock, status>>

\* A flush writes a row, without another look at the owner.
FlushRow(p, d) ==
    /\ p \in Configured /\ Up(p) /\ procs[p].session
    /\ d \in procs[p].targets
    /\ Success(p)
    /\ UNCHANGED <<owner, config, move, procs, lock>>

\* A poll, a flush or a stream went wrong; for a collector without a connection too.
Report(p) ==
    /\ p \in Configured /\ Up(p)
    /\ Success(p) \/ Failure(p)
    /\ UNCHANGED <<owner, config, move, procs, lock>>

-----------------------------------------------------------------------------
(* The Cisco Spaces collector.                                             *)

\* Mutant: what pg_try_advisory_lock returns is not looked at.
AcquireUnchecked(p) == lock' = IF lock = Nil THEN p ELSE lock

\* Refused, a process ends, and tries again when it is started the next time.
Acquire(p) == lock = Nil /\ lock' = p

StartFirehose(p) ==
    /\ p \in Firehose /\ ~Stopped(p)
    /\ procs[p] = Down
    /\ Acquire(p)
    /\ procs' = [procs EXCEPT ![p].phase = "up", ![p].session = TRUE]
    /\ UNCHANGED <<owner, config, move, status>>

Idle(p) == p \in Firehose /\ Up(p) /\ procs[p].syncing = Nil

Connect(p) ==
    /\ Idle(p) /\ ~procs[p].stream
    /\ procs' = [procs EXCEPT ![p].stream = TRUE]
    /\ Success(p)
    /\ UNCHANGED <<owner, config, move, lock>>

ConnectFails(p) ==
    /\ Idle(p) /\ ~procs[p].stream
    /\ Failure(p)
    /\ UNCHANGED <<owner, config, move, procs, lock>>

Heartbeat(p) ==
    /\ Idle(p) /\ procs[p].stream
    /\ Success(p)
    /\ UNCHANGED <<owner, config, move, procs, lock>>

\* The handler runs in the stream's goroutine, and the mutex keeps its statements
\* together.  A heartbeat that waits for the mutex is not cancelled.
StreamEnds(p) ==
    /\ Idle(p) /\ procs[p].stream
    /\ \E late \in BOOLEAN :
         procs' = [procs EXCEPT ![p].stream = FALSE, ![p].late = late]
    /\ Failure(p)
    /\ UNCHANGED <<owner, config, move, lock>>

\* Mutant: the end of the stream does not end its heartbeat.
HeartbeatGoesOn(p) ==
    /\ Idle(p) /\ procs[p].late
    /\ Success(p)
    /\ UNCHANGED <<owner, config, move, procs, lock>>

\* It reports success after the failure.
LateHeartbeat(p) ==
    /\ Idle(p) /\ procs[p].late
    /\ procs' = [procs EXCEPT ![p].late = FALSE]
    /\ Success(p)
    /\ UNCHANGED <<owner, config, move, lock>>

\* writeReading: the device, whatever sensors.json says of it, and then the row.
SyncReading(p, d) ==
    /\ Idle(p) /\ procs[p].stream /\ procs[p].session
    /\ \/ /\ SyncDevice(d, Spaces)
          /\ procs' = [procs EXCEPT ![p].syncing = d]
          /\ UNCHANGED status
       \/ ~MayOwn(d, Spaces) /\ Failure(p) /\ UNCHANGED <<owner, procs>>
    /\ UNCHANGED <<config, move, lock>>

UpsertReading(p, d) ==
    /\ p \in Firehose /\ procs[p].syncing = d /\ procs[p].session
    /\ procs' = [procs EXCEPT ![p].syncing = Nil]
    /\ Success(p)
    /\ UNCHANGED <<owner, config, move, lock>>

UpsertFails(p) ==
    /\ p \in Firehose /\ procs[p].syncing # Nil
    /\ procs' = [procs EXCEPT ![p].syncing = Nil]
    /\ Failure(p)
    /\ UNCHANGED <<owner, config, move, lock>>

-----------------------------------------------------------------------------
(* Processes end, connections are lost, and devices are moved.             *)

\* By SIGTERM, or by a crash, after which the server may find out later.
End(p) ==
    /\ procs[p] # Down
    /\ procs' = [procs EXCEPT ![p] = Down]
    /\ \/ UNCHANGED lock
       \/ lock = p /\ lock' = Nil
    /\ UNCHANGED <<owner, config, move, status>>

\* The process goes on without its connection, and never opens another; the pool of
\* the Cisco IoT Orchestrator collector does, so that it never is without one.
LoseSession(p) ==
    /\ Up(p) /\ procs[p].session
    /\ procs' = [procs EXCEPT ![p].session = FALSE]
    /\ UNCHANGED <<owner, config, move, lock, status>>

ServerDropsSession ==
    /\ lock # Nil /\ ~procs[lock].session
    /\ lock' = Nil
    /\ UNCHANGED <<owner, config, move, procs, status>>

\* The steps of docs/architecture.md, which the operator takes in this order.
StopOld(d, s) ==
    /\ move = NoMove /\ owner[d] \notin {Nil, s}
    /\ move' = [step |-> "stop", mac |-> d, from |-> owner[d], to |-> s]
    /\ UNCHANGED <<owner, config, procs, lock, status>>

UpdateOwner ==
    /\ move.step = "stop" /\ owner[move.mac] = move.from
    /\ \A p \in Procs : Source[p] = move.from => procs[p] = Down
    /\ owner' = [owner EXCEPT ![move.mac] = move.to]
    /\ move' = [move EXCEPT !.step = "sql"]
    /\ UNCHANGED <<config, procs, lock, status>>

EditConfig ==
    /\ move.step = "sql"
    /\ config' = [config EXCEPT ![move.mac] = move.to]
    /\ move' = [move EXCEPT !.step = "config"]
    /\ UNCHANGED <<owner, procs, lock, status>>

StartNew ==
    /\ move.step = "config"
    /\ procs' = [p \in Procs |-> IF Source[p] = move.to THEN Down ELSE procs[p]]
    /\ move' = NoMove
    /\ UNCHANGED <<owner, config, lock, status>>

Write(p, d) == FlushRow(p, d) \/ UpsertReading(p, d)

Next ==
    \/ Tick \/ ServerDropsSession \/ UpdateOwner \/ EditConfig \/ StartNew
    \/ \E d \in Devices, s \in Sources : StopOld(d, s)
    \/ \E p \in Procs :
         \/ Load(p) \/ EnsureFails(p) \/ Started(p) \/ Report(p)
         \/ StartFirehose(p) \/ Connect(p) \/ ConnectFails(p) \/ Heartbeat(p)
         \/ StreamEnds(p) \/ LateHeartbeat(p) \/ UpsertFails(p)
         \/ End(p) \/ LoseSession(p)
         \/ \E d \in Devices :
              EnsureDevice(p, d) \/ FlushRow(p, d) \/ SyncReading(p, d) \/ UpsertReading(p, d)

Spec == Init /\ [][Next]_vars

\* Time passes, and the loop of streamWithReconnect tries again.
Fairness ==
    /\ WF_vars(Tick)
    /\ \A p \in Firehose : WF_vars(Connect(p) \/ ConnectFails(p))

FairSpec == Spec /\ Fairness

-----------------------------------------------------------------------------
(* Properties.                                                             *)

\* No row is written for a device that belongs to another source, though the
\* configured collectors look at the owner only when they start.
WritesOnlyByOwner ==
    [][\A p \in Procs, d \in Devices : Write(p, d) => owner[d] = Source[p]]_vars

\* A device with an owner changes hands only by the operator's UPDATE.
OwnerChangesByOperator ==
    [][\A d \in Devices : owner[d] # Nil => owner'[d] = owner[d] \/ UpdateOwner]_vars

\* Two processes never write what the Firehose sends, with connections and sessions
\* that end in any order.
OneFirehoseWriter ==
    \A p, q \in Firehose : procs[p].session /\ procs[q].session => p = q

Shows(s) == Stale(status[s], 0, StaleAfter)

\* A collector that reported once and can do so no longer, because its processes are
\* down or have lost their connection, makes health/details degraded.
SilenceShows ==
    \A s \in Sources :
        LET Served == \E p \in Procs : Source[p] = s /\ Up(p) /\ procs[p].session
        IN  status[s] # NoRow /\ ~Served ~> Served \/ Shows(s)

\* Step by step: what is shown of a Firehose that is away stays shown, whichever
\* processes start, end and lose their connections meanwhile.  Only the one heartbeat
\* that was under way when the stream ended can hide it, until the next attempt.
DownStreamStaysShown ==
    [][\A p \in Firehose :
        (Shows(Spaces) /\ procs[p].session /\ ~procs[p].stream /\ ~procs'[p].stream)
        => Shows(Spaces)' \/ (procs[p].late /\ ~procs'[p].late)]_vars

\* A Firehose that stays away is shown for good, whatever heartbeat comes late.
DownStreamShows ==
    \A p \in Firehose :
        <>[](procs[p].session /\ ~procs[p].stream) => <>[]Shows(Spaces)
=============================================================================
