----------------------- MODULE SensorCollectorsProofs -----------------------
(***************************************************************************)
(* Theorems about SensorCollectors, for any processes, sources and devices, *)
(* and any sequence of starts, crashes, lost connections and moves.        *)
(***************************************************************************)
EXTENDS SensorCollectors, TLAPS

-----------------------------------------------------------------------------
(* Types.                                                                  *)

ProcOK(q) == q \in Process /\ (q.phase = "up" => q.todo = {})

ProcsOK == procs \in [Procs -> Process] /\ \A p \in Procs : ProcOK(procs[p])

StatusOK == status \in [Sources -> Row(Ages) \cup {NoRow}]

MoveOK == move = NoMove \/ move \in [step : {"stop", "sql", "config"}, mac : Devices,
                                     from : Sources, to : Sources]

TablesOK ==
    /\ owner \in [Devices -> Sources \cup {Nil}]
    /\ config \in [Devices -> Sources]
    /\ lock \in Firehose \cup {Nil}

LEMMA TypeParts == TypeOK <=> ProcsOK /\ StatusOK /\ MoveOK /\ TablesOK
BY DEF TypeOK, ProcsOK, ProcOK, StatusOK, MoveOK, TablesOK

\* No process starts with anything.
LEMMA DownOK == ProcOK(Down)
BY DEF ProcOK, Down, Process

\* A step that changes one process leaves all of them well formed.
LEMMA OneProc ==
    ASSUME ProcsOK, NEW p \in Procs, NEW q, ProcOK(q), procs' = [procs EXCEPT ![p] = q]
    PROVE  ProcsOK'
BY DEF ProcsOK, ProcOK

\* The source of a process is one, and it is not Nil.
LEMMA SourceOfProc ==
    ASSUME NEW p \in Procs
    PROVE  Source[p] \in Sources /\ Source[p] # Nil
BY ConstantsAssumption DEF Sources

\* A report on a row is one.
LEMMA Marked ==
    ASSUME NEW row \in Row(Ages) \cup {NoRow}
    PROVE  MarkSuccess(row, 0) \in Row(Ages) /\ MarkFailure(row, 0) \in Row(Ages)
<1>1. 0 \in Ages
  BY ConstantsAssumption DEF Ages
<1>2. CASE row \in Row(Ages)
  BY <1>1, <1>2 DEF MarkSuccess, MarkFailure, Row
<1>3. CASE row = NoRow
  BY <1>1, <1>3 DEF MarkSuccess, MarkFailure, Row, NoRow
<1> QED BY <1>2, <1>3

LEMMA Reports ==
    ASSUME StatusOK, NEW p \in Procs, Success(p) \/ Failure(p)
    PROVE  StatusOK'
<1>1. status[Source[p]] \in Row(Ages) \cup {NoRow}
  BY SourceOfProc DEF StatusOK
<1> QED BY <1>1, Marked, SourceOfProc DEF StatusOK, Success, Failure, Mark

\* Rows get older, to an age at which they stay.
LEMMA Aging == StatusOK /\ Tick => StatusOK'
<1> SUFFICES ASSUME StatusOK, Tick PROVE StatusOK'
  OBVIOUS
<1>1. ASSUME NEW s \in Sources,
             status[s].updated \in Ages \ {-(StaleAfter + 1)}
      PROVE  [status[s] EXCEPT !.updated = @ - 1] \in Row(Ages)
  <2>1. status[s] \in Row(Ages)
    BY <1>1, ConstantsAssumption DEF StatusOK, NoRow, Ages
  <2>2. status[s].updated - 1 \in Ages
    BY <1>1, ConstantsAssumption DEF Ages
  <2> QED BY <2>1, <2>2 DEF Row
<1> QED BY <1>1 DEF Tick, StatusOK

\* SyncDevice keeps every owner there is.
LEMMA SyncKeepsOwners ==
    ASSUME TablesOK, NEW d \in Devices, NEW s \in Sources, SyncDevice(d, s), s # Nil
    PROVE  /\ owner' \in [Devices -> Sources \cup {Nil}]
           /\ owner'[d] = s
           /\ \A e \in Devices : owner[e] # Nil => owner'[e] = owner[e]
BY DEF TablesOK, SyncDevice, MayOwn, Claim

-----------------------------------------------------------------------------
(* Type correctness.                                                       *)

LEMMA TypeInit == Init => TypeOK
BY DEF Init, TypeOK, NoMove, Down, Process

LEMMA TypeStep == TypeOK /\ [Next]_vars => TypeOK'
<1> SUFFICES ASSUME TypeOK, [Next]_vars PROVE TypeOK'
  OBVIOUS
<1> USE TypeParts
<1>types. ProcsOK /\ StatusOK /\ MoveOK /\ TablesOK
  OBVIOUS
<1>sources. Spaces \in Sources \/ Firehose = {}
  BY DEF Sources, Firehose
<1>parts. ProcsOK' /\ StatusOK' /\ MoveOK' /\ TablesOK' => TypeOK'
  BY DEF TypeOK, ProcsOK, ProcOK, StatusOK, MoveOK, TablesOK
<1> SUFFICES ProcsOK' /\ StatusOK' /\ MoveOK' /\ TablesOK'
  BY <1>parts
<1> DEFINE KeepProcs  == UNCHANGED procs
           KeepStatus == UNCHANGED status
           KeepMove   == UNCHANGED move
           KeepTables == UNCHANGED <<owner, config, lock>>
<1>kept. /\ KeepProcs => ProcsOK'
         /\ KeepStatus => StatusOK'
         /\ KeepMove => MoveOK'
         /\ KeepTables => TablesOK'
  BY <1>types DEF ProcsOK, ProcOK, StatusOK, MoveOK, TablesOK
<1>1. CASE UNCHANGED vars
  BY <1>1, <1>kept DEF vars
<1>2. CASE Tick
  BY <1>2, <1>kept, <1>types, Aging DEF Tick
<1>3. CASE ServerDropsSession
  <2>1. TablesOK'
    BY <1>3, <1>types DEF ServerDropsSession, TablesOK
  <2> QED BY <1>3, <1>kept, <2>1 DEF ServerDropsSession
<1>4. CASE UpdateOwner
  <2>1. MoveOK' /\ TablesOK'
    BY <1>4, <1>types DEF UpdateOwner, MoveOK, TablesOK, NoMove
  <2> QED BY <1>4, <1>kept, <2>1 DEF UpdateOwner
<1>5. CASE EditConfig
  <2>1. MoveOK' /\ TablesOK'
    BY <1>5, <1>types DEF EditConfig, MoveOK, TablesOK, NoMove
  <2> QED BY <1>5, <1>kept, <2>1 DEF EditConfig
<1>6. CASE StartNew
  <2>1. ProcsOK'
    BY <1>6, <1>types, DownOK DEF StartNew, ProcsOK, ProcOK
  <2>2. MoveOK'
    BY <1>6 DEF StartNew, MoveOK
  <2> QED BY <1>6, <1>kept, <2>1, <2>2 DEF StartNew
<1>7. ASSUME NEW d \in Devices, NEW s \in Sources, StopOld(d, s)
      PROVE  ProcsOK' /\ StatusOK' /\ MoveOK' /\ TablesOK'
  <2>1. owner[d] \in Sources
    BY <1>7, <1>types DEF StopOld, TablesOK
  <2>2. MoveOK'
    BY <1>7, <2>1 DEF StopOld, MoveOK
  <2> QED BY <1>7, <1>kept, <2>2 DEF StopOld
<1>8. ASSUME NEW p \in Procs,
             \/ Load(p) \/ EnsureFails(p) \/ Started(p) \/ Report(p)
             \/ StartFirehose(p) \/ Connect(p) \/ ConnectFails(p) \/ Heartbeat(p)
             \/ StreamEnds(p) \/ LateHeartbeat(p) \/ UpsertFails(p)
             \/ End(p) \/ LoseSession(p)
      PROVE  ProcsOK' /\ StatusOK' /\ MoveOK' /\ TablesOK'
  <2> DEFINE q == procs[p]
  <2>q. ProcOK(q)
    BY <1>types DEF ProcsOK
  <2>1. CASE Load(p)
    <3>1. LoadTargets(p) \subseteq Devices
      BY DEF LoadTargets
    <3>2. ProcOK([q EXCEPT !.phase = "starting", !.session = TRUE,
                           !.todo = LoadTargets(p), !.targets = LoadTargets(p)])
      BY <2>q, <3>1 DEF ProcOK, Process
    <3>3. procs' = [procs EXCEPT ![p] = [q EXCEPT !.phase = "starting", !.session = TRUE,
                           !.todo = LoadTargets(p), !.targets = LoadTargets(p)]]
      BY <2>1, <1>types DEF Load, ProcsOK
    <3> QED BY <2>1, <1>kept, <1>types, <3>2, <3>3, OneProc DEF Load
  <2>2. CASE EnsureFails(p)
    BY <2>2, <1>kept, <1>types, DownOK, OneProc DEF EnsureFails
  <2>3. CASE Started(p)
    <3>1. ProcOK([q EXCEPT !.phase = "up"])
      BY <2>3, <2>q DEF Started, ProcOK, Process
    <3>2. procs' = [procs EXCEPT ![p] = [q EXCEPT !.phase = "up"]]
      BY <2>3, <1>types DEF Started, ProcsOK
    <3> QED BY <2>3, <1>kept, <1>types, <3>1, <3>2, OneProc DEF Started
  <2>4. CASE Report(p)
    BY <2>4, <1>kept, <1>types, Reports DEF Report
  <2>5. CASE StartFirehose(p)
    <3>0. q.todo = {}
      BY <2>5 DEF StartFirehose, Down
    <3>1. ProcOK([q EXCEPT !.phase = "up", !.session = TRUE])
      BY <2>q, <3>0 DEF ProcOK, Process
    <3>2. procs' = [procs EXCEPT ![p] = [q EXCEPT !.phase = "up", !.session = TRUE]]
      BY <2>5, <1>types DEF StartFirehose, ProcsOK
    <3>3. TablesOK'
      BY <2>5, <1>types DEF StartFirehose, Acquire, TablesOK
    <3> QED BY <2>5, <1>kept, <1>types, <3>1, <3>2, <3>3, OneProc DEF StartFirehose
  <2>6. CASE Connect(p)
    <3>1. ProcOK([q EXCEPT !.stream = TRUE])
      BY <2>q DEF ProcOK, Process
    <3>2. procs' = [procs EXCEPT ![p] = [q EXCEPT !.stream = TRUE]]
      BY <2>6, <1>types DEF Connect, ProcsOK
    <3>3. StatusOK'
      BY <2>6, <1>types, Reports DEF Connect
    <3> QED BY <2>6, <1>kept, <1>types, <3>1, <3>2, <3>3, OneProc DEF Connect
  <2>7. CASE ConnectFails(p)
    BY <2>7, <1>kept, <1>types, Reports DEF ConnectFails
  <2>8. CASE Heartbeat(p)
    BY <2>8, <1>kept, <1>types, Reports DEF Heartbeat
  <2>9. CASE StreamEnds(p)
    <3>1. PICK late \in BOOLEAN :
            procs' = [procs EXCEPT ![p].stream = FALSE, ![p].late = late]
      BY <2>9 DEF StreamEnds
    <3>2. ProcOK([q EXCEPT !.stream = FALSE, !.late = late])
      BY <2>q DEF ProcOK, Process
    <3>3. procs' = [procs EXCEPT ![p] = [q EXCEPT !.stream = FALSE, !.late = late]]
      BY <3>1, <1>types DEF ProcsOK
    <3>4. StatusOK'
      BY <2>9, <1>types, Reports DEF StreamEnds
    <3> QED BY <2>9, <1>kept, <1>types, <3>2, <3>3, <3>4, OneProc DEF StreamEnds
  <2>10. CASE LateHeartbeat(p)
    <3>1. ProcOK([q EXCEPT !.late = FALSE])
      BY <2>q DEF ProcOK, Process
    <3>2. procs' = [procs EXCEPT ![p] = [q EXCEPT !.late = FALSE]]
      BY <2>10, <1>types DEF LateHeartbeat, ProcsOK
    <3>3. StatusOK'
      BY <2>10, <1>types, Reports DEF LateHeartbeat
    <3> QED BY <2>10, <1>kept, <1>types, <3>1, <3>2, <3>3, OneProc DEF LateHeartbeat
  <2>11. CASE UpsertFails(p)
    <3>1. ProcOK([q EXCEPT !.syncing = Nil])
      BY <2>q DEF ProcOK, Process
    <3>2. procs' = [procs EXCEPT ![p] = [q EXCEPT !.syncing = Nil]]
      BY <2>11, <1>types DEF UpsertFails, ProcsOK
    <3>3. StatusOK'
      BY <2>11, <1>types, Reports DEF UpsertFails
    <3> QED BY <2>11, <1>kept, <1>types, <3>1, <3>2, <3>3, OneProc DEF UpsertFails
  <2>12. CASE End(p)
    <3>1. TablesOK'
      BY <2>12, <1>types DEF End, TablesOK
    <3> QED BY <2>12, <1>kept, <1>types, <3>1, DownOK, OneProc DEF End
  <2>13. CASE LoseSession(p)
    <3>1. ProcOK([q EXCEPT !.session = FALSE])
      BY <2>q DEF ProcOK, Process
    <3>2. procs' = [procs EXCEPT ![p] = [q EXCEPT !.session = FALSE]]
      BY <2>13, <1>types DEF LoseSession, ProcsOK
    <3> QED BY <2>13, <1>kept, <1>types, <3>1, <3>2, OneProc DEF LoseSession
  <2> QED BY <1>8, <2>1, <2>2, <2>3, <2>4, <2>5, <2>6, <2>7, <2>8, <2>9, <2>10, <2>11,
             <2>12, <2>13
<1>9. ASSUME NEW p \in Procs, NEW d \in Devices,
             EnsureDevice(p, d) \/ FlushRow(p, d) \/ SyncReading(p, d) \/ UpsertReading(p, d)
      PROVE  ProcsOK' /\ StatusOK' /\ MoveOK' /\ TablesOK'
  <2> DEFINE q == procs[p]
  <2>q. ProcOK(q)
    BY <1>types DEF ProcsOK
  <2>1. CASE EnsureDevice(p, d)
    <3>1. ProcOK([q EXCEPT !.todo = @ \ {d}])
      BY <2>1, <2>q DEF EnsureDevice, ProcOK, Process
    <3>2. procs' = [procs EXCEPT ![p] = [q EXCEPT !.todo = @ \ {d}]]
      BY <2>1, <1>types DEF EnsureDevice, ProcsOK
    <3>3. TablesOK'
      BY <2>1, <1>types, SourceOfProc, SyncKeepsOwners DEF EnsureDevice, TablesOK
    <3> QED BY <2>1, <1>kept, <1>types, <3>1, <3>2, <3>3, OneProc DEF EnsureDevice
  <2>2. CASE FlushRow(p, d)
    BY <2>2, <1>kept, <1>types, Reports DEF FlushRow
  <2>3. CASE SyncReading(p, d)
    <3>1. CASE Failure(p) /\ UNCHANGED <<owner, procs>>
      BY <2>3, <3>1, <1>kept, <1>types, Reports DEF SyncReading
    <3>2. CASE /\ SyncDevice(d, Spaces)
               /\ procs' = [procs EXCEPT ![p].syncing = d]
               /\ UNCHANGED status
      <4>1. ProcOK([q EXCEPT !.syncing = d])
        BY <2>q DEF ProcOK, Process
      <4>2. procs' = [procs EXCEPT ![p] = [q EXCEPT !.syncing = d]]
        BY <3>2, <1>types DEF ProcsOK
      <4>3. Spaces \in Sources /\ Spaces # Nil
        BY <2>3, SourceOfProc DEF SyncReading, Idle, Firehose
      <4>4. TablesOK'
        BY <2>3, <3>2, <1>types, <4>3, SyncKeepsOwners DEF SyncReading, TablesOK
      <4> QED BY <2>3, <3>2, <1>kept, <1>types, <4>1, <4>2, <4>4, OneProc DEF SyncReading
    <3> QED BY <2>3, <3>1, <3>2 DEF SyncReading
  <2>4. CASE UpsertReading(p, d)
    <3>1. ProcOK([q EXCEPT !.syncing = Nil])
      BY <2>q DEF ProcOK, Process
    <3>2. procs' = [procs EXCEPT ![p] = [q EXCEPT !.syncing = Nil]]
      BY <2>4, <1>types DEF UpsertReading, ProcsOK
    <3>3. StatusOK'
      BY <2>4, <1>types, Reports DEF UpsertReading
    <3> QED BY <2>4, <1>kept, <1>types, <3>1, <3>2, <3>3, OneProc DEF UpsertReading
  <2> QED BY <1>9, <2>1, <2>2, <2>3, <2>4
<1> QED BY <1>1, <1>2, <1>3, <1>4, <1>5, <1>6, <1>7, <1>8, <1>9 DEF Next

\* The tables, the processes, the operator's move and the status rows keep their types
\* through every step of SensorCollectors: claims, moves, streams and lost connections.
THEOREM TypeCorrect == Spec => []TypeOK
<1>1. QED BY TypeInit, TypeStep, PTL DEF Spec

-----------------------------------------------------------------------------
(* The lock of the Firehose.                                               *)

\* A Cisco Spaces process with a connection holds the lock, since its connection does.
LockHeld == \A p \in Firehose : procs[p].session => lock = p

LEMMA LockInit == Init => LockHeld
BY DEF Init, LockHeld, Down, Firehose

\* A step that gives no Firehose process a connection and leaves the lock.
LEMMA SessionsOnlyEnd ==
    ASSUME LockHeld, UNCHANGED lock,
           \A p \in Firehose : procs'[p].session => procs[p].session
    PROVE  LockHeld'
BY DEF LockHeld, Firehose

LEMMA LockStep == TypeOK /\ LockHeld /\ [Next]_vars => LockHeld'
<1> SUFFICES ASSUME TypeOK, LockHeld, [Next]_vars PROVE LockHeld'
  OBVIOUS
<1>types. ProcsOK /\ TablesOK
  BY TypeParts
<1>kept. UNCHANGED <<procs, lock>> => LockHeld'
  BY SessionsOnlyEnd
<1>1. CASE UNCHANGED vars
  BY <1>1, <1>kept DEF vars
<1>2. CASE Tick \/ UpdateOwner \/ EditConfig \/ \E d \in Devices, s \in Sources : StopOld(d, s)
  BY <1>2, <1>kept DEF Tick, UpdateOwner, EditConfig, StopOld
<1>3. CASE ServerDropsSession
  <2> SUFFICES ASSUME NEW p \in Firehose, procs'[p].session PROVE FALSE
    BY <1>3 DEF LockHeld, Firehose
  <2>1. procs[p].session
    BY <1>3 DEF ServerDropsSession
  <2>2. lock = p
    BY <2>1 DEF LockHeld
  <2> QED BY <1>3, <2>1, <2>2 DEF ServerDropsSession
<1>4. CASE StartNew
  <2>1. \A p \in Firehose : procs'[p].session => procs[p].session
    BY <1>4 DEF StartNew, Firehose, Down
  <2> QED BY <1>4, <2>1, SessionsOnlyEnd DEF StartNew
<1>5. ASSUME NEW p \in Procs,
             \/ EnsureFails(p) \/ Started(p) \/ Report(p) \/ Connect(p) \/ ConnectFails(p)
             \/ Heartbeat(p) \/ StreamEnds(p) \/ LateHeartbeat(p) \/ UpsertFails(p)
             \/ LoseSession(p)
      PROVE  LockHeld'
  <2>1. UNCHANGED lock
    BY <1>5 DEF EnsureFails, Started, Report, Connect, ConnectFails, Heartbeat, StreamEnds,
           LateHeartbeat, UpsertFails, LoseSession
  <2>2. \A r \in Firehose : procs'[r].session => procs[r].session
    <3>1. CASE Report(p) \/ ConnectFails(p) \/ Heartbeat(p)
      BY <3>1 DEF Report, ConnectFails, Heartbeat
    <3>2. CASE EnsureFails(p)
      BY <3>2, <1>types DEF EnsureFails, Down, ProcsOK, Firehose
    <3>3. CASE Started(p) \/ Connect(p) \/ LateHeartbeat(p) \/ UpsertFails(p) \/ LoseSession(p)
      BY <3>3, <1>types DEF Started, Connect, LateHeartbeat, UpsertFails, LoseSession,
             ProcsOK, Process, Firehose
    <3>4. CASE StreamEnds(p)
      <4>1. PICK late \in BOOLEAN :
              procs' = [procs EXCEPT ![p].stream = FALSE, ![p].late = late]
        BY <3>4 DEF StreamEnds
      <4> QED BY <4>1, <1>types DEF ProcsOK, Process, Firehose
    <3> QED BY <1>5, <3>1, <3>2, <3>3, <3>4
  <2> QED BY <2>1, <2>2, SessionsOnlyEnd
<1>6. ASSUME NEW p \in Procs, Load(p)
      PROVE  LockHeld'
  <2>1. p \notin Firehose
    BY <1>6 DEF Load, Configured
  <2>2. \A r \in Firehose : procs'[r] = procs[r]
    BY <1>6, <2>1, <1>types DEF Load, ProcsOK, Firehose
  <2> QED BY <1>6, <2>2, SessionsOnlyEnd DEF Load
<1>7. ASSUME NEW p \in Procs, StartFirehose(p)
      PROVE  LockHeld'
  <2>1. \A r \in Firehose : ~procs[r].session
    BY <1>7, ConstantsAssumption DEF StartFirehose, Acquire, LockHeld, Firehose
  <2>2. \A r \in Firehose : r # p => procs'[r] = procs[r]
    BY <1>7, <1>types DEF StartFirehose, ProcsOK, Firehose
  <2> QED BY <1>7, <2>1, <2>2 DEF StartFirehose, Acquire, LockHeld, Firehose
<1>8. ASSUME NEW p \in Procs, End(p)
      PROVE  LockHeld'
  <2>1. \A r \in Procs : procs'[r] = IF r = p THEN Down ELSE procs[r]
    BY <1>8, <1>types DEF End, ProcsOK
  <2>2. CASE UNCHANGED lock
    <3>1. \A r \in Firehose : procs'[r].session => procs[r].session
      BY <2>1 DEF Down, Firehose
    <3> QED BY <2>2, <3>1, SessionsOnlyEnd
  <2>3. CASE lock = p /\ lock' = Nil
    <3> SUFFICES ASSUME NEW r \in Firehose, procs'[r].session PROVE FALSE
      BY <2>3 DEF LockHeld, Firehose
    <3>1. r # p /\ procs[r].session
      BY <2>1 DEF Down, Firehose
    <3> QED BY <2>3, <3>1 DEF LockHeld
  <2> QED BY <1>8, <2>2, <2>3 DEF End
<1>9. ASSUME NEW p \in Procs, NEW d \in Devices,
             EnsureDevice(p, d) \/ FlushRow(p, d) \/ SyncReading(p, d) \/ UpsertReading(p, d)
      PROVE  LockHeld'
  <2>1. UNCHANGED lock
    BY <1>9 DEF EnsureDevice, FlushRow, SyncReading, UpsertReading
  <2>2. \A r \in Firehose : procs'[r].session => procs[r].session
    <3>1. CASE FlushRow(p, d)
      BY <3>1 DEF FlushRow
    <3>2. CASE EnsureDevice(p, d) \/ UpsertReading(p, d)
      BY <3>2, <1>types DEF EnsureDevice, UpsertReading, ProcsOK, Process, Firehose
    <3>3. CASE SyncReading(p, d)
      <4>1. \/ UNCHANGED procs
            \/ procs' = [procs EXCEPT ![p].syncing = d]
        BY <3>3 DEF SyncReading
      <4> QED BY <4>1, <1>types DEF ProcsOK, Process, Firehose
    <3> QED BY <1>9, <3>1, <3>2, <3>3
  <2> QED BY <2>1, <2>2, SessionsOnlyEnd
<1> QED BY <1>1, <1>2, <1>3, <1>4, <1>5, <1>6, <1>7, <1>8, <1>9 DEF Next

LEMMA HeldByOne == LockHeld => OneFirehoseWriter
BY DEF LockHeld, OneFirehoseWriter

\* However processes end, connections are lost and the server finds out later, of the
\* Cisco Spaces collectors one at most can write.
THEOREM OneWriterOfFirehose == Spec => []OneFirehoseWriter
<1>1. Init => TypeOK /\ LockHeld
  BY TypeInit, LockInit
<1>2. TypeOK /\ LockHeld /\ [Next]_vars => (TypeOK /\ LockHeld)'
  BY TypeStep, LockStep
<1> QED BY <1>1, <1>2, HeldByOne, PTL DEF Spec

-----------------------------------------------------------------------------
(* The owners of devices.                                                  *)

OwnersKept == \A d \in Devices : owner[d] # Nil => owner'[d] = owner[d]

\* Who claims a device takes it from nobody.
LEMMA OwnersStep == TypeOK /\ [Next]_vars => OwnersKept \/ UpdateOwner
<1> SUFFICES ASSUME TypeOK, [Next]_vars, ~UpdateOwner PROVE OwnersKept
  OBVIOUS
<1>types. TablesOK
  BY TypeParts
<1>kept. UNCHANGED owner => OwnersKept
  BY DEF OwnersKept
<1>1. ASSUME NEW p \in Procs, NEW d \in Devices, EnsureDevice(p, d) \/ SyncReading(p, d)
      PROVE  OwnersKept
  <2>1. CASE UNCHANGED owner
    BY <2>1, <1>kept
  <2>2. CASE EnsureDevice(p, d)
    BY <2>2, <1>types, SourceOfProc, SyncKeepsOwners DEF EnsureDevice, OwnersKept
  <2>3. CASE SyncReading(p, d) /\ SyncDevice(d, Spaces)
    <3>1. Spaces \in Sources /\ Spaces # Nil
      BY <2>3, SourceOfProc DEF SyncReading, Idle, Firehose
    <3> QED BY <2>3, <3>1, <1>types, SyncKeepsOwners DEF OwnersKept
  <2> QED BY <1>1, <2>1, <2>2, <2>3 DEF SyncReading
<1>2. CASE UNCHANGED vars
  BY <1>2, <1>kept DEF vars
<1>3. CASE Tick \/ ServerDropsSession \/ EditConfig \/ StartNew
           \/ \E d \in Devices, s \in Sources : StopOld(d, s)
  BY <1>3, <1>kept DEF Tick, ServerDropsSession, EditConfig, StartNew, StopOld
<1>4. ASSUME NEW p \in Procs,
             \/ Load(p) \/ EnsureFails(p) \/ Started(p) \/ Report(p)
             \/ StartFirehose(p) \/ Connect(p) \/ ConnectFails(p) \/ Heartbeat(p)
             \/ StreamEnds(p) \/ LateHeartbeat(p) \/ UpsertFails(p)
             \/ End(p) \/ LoseSession(p)
             \/ \E d \in Devices : FlushRow(p, d) \/ UpsertReading(p, d)
      PROVE  OwnersKept
  BY <1>4, <1>kept DEF Load, EnsureFails, Started, Report, StartFirehose, Connect,
     ConnectFails, Heartbeat, StreamEnds, LateHeartbeat, UpsertFails, End, LoseSession,
     FlushRow, UpsertReading
<1> QED BY <1>1, <1>2, <1>3, <1>4 DEF Next

\* SyncDevice, whoever calls it and in whatever order, never takes a device from the
\* source that owns it; only the operator's UPDATE does.
THEOREM OwnersChangedByOperatorOnly == Spec => OwnerChangesByOperator
<1>1. TypeOK /\ [Next]_vars =>
        [\A d \in Devices : owner[d] # Nil => owner'[d] = owner[d] \/ UpdateOwner]_vars
  BY OwnersStep DEF OwnersKept
<1> QED BY <1>1, TypeInit, TypeStep, PTL DEF Spec, OwnerChangesByOperator

\* What a process has synchronised and may write is its source's.
OwnsTargets(p) == \A d \in procs[p].targets \ procs[p].todo : owner[d] = Source[p]

OwnsSyncing(p) == procs[p].syncing # Nil => owner[procs[p].syncing] = Source[p]

Owned == \A p \in Procs : OwnsTargets(p) /\ OwnsSyncing(p)

LEMMA OwnedInit == Init => Owned
BY DEF Init, Owned, OwnsTargets, OwnsSyncing, Down

\* A process that has nothing more to write than before keeps what it owns.
LEMMA OwnedKept ==
    ASSUME TypeOK, Owned, OwnersKept, NEW p \in Procs,
           procs'[p].targets \ procs'[p].todo \subseteq procs[p].targets \ procs[p].todo,
           procs'[p].syncing \in {procs[p].syncing, Nil}
    PROVE  (OwnsTargets(p) /\ OwnsSyncing(p))'
<1>1. ProcOK(procs[p]) /\ OwnsTargets(p) /\ OwnsSyncing(p)
  BY TypeParts DEF ProcsOK, Owned
<1>2. Source[p] # Nil
  BY SourceOfProc
<1>3. procs[p].targets \subseteq Devices /\ procs[p].syncing \in Devices \cup {Nil}
  BY <1>1 DEF ProcOK, Process
<1>4. ASSUME NEW d \in Devices, owner[d] = Source[p] PROVE owner'[d] = Source[p]
  BY <1>2, <1>4 DEF OwnersKept
<1>5. OwnsTargets(p)'
  BY <1>1, <1>3, <1>4 DEF OwnsTargets
<1>6. OwnsSyncing(p)'
  BY <1>1, <1>3, <1>4 DEF OwnsSyncing
<1> QED BY <1>5, <1>6

\* Nothing new to write, in a step that changes at most one process.
NothingNew(p) ==
    /\ procs'[p].targets \ procs'[p].todo \subseteq procs[p].targets \ procs[p].todo
    /\ procs'[p].syncing \in {procs[p].syncing, Nil}

LEMMA OwnedStep == TypeOK /\ Owned /\ [Next]_vars => Owned'
<1> SUFFICES ASSUME TypeOK, Owned, [Next]_vars, NEW r \in Procs
             PROVE  (OwnsTargets(r) /\ OwnsSyncing(r))'
  BY DEF Owned
<1>types. ProcsOK /\ TablesOK
  BY TypeParts
<1>r. OwnsTargets(r) /\ OwnsSyncing(r) /\ ProcOK(procs[r])
  BY <1>types DEF Owned, ProcsOK
<1>kept. OwnersKept /\ NothingNew(r) => (OwnsTargets(r) /\ OwnsSyncing(r))'
  BY OwnedKept DEF NothingNew
<1>same. procs'[r] = procs[r] => NothingNew(r)
  BY DEF NothingNew
<1>down. procs'[r] = Down => NothingNew(r)
  BY DEF NothingNew, Down
<1>owners. OwnersKept \/ UpdateOwner
  BY OwnersStep
<1>1. CASE UpdateOwner
  <2>1. UNCHANGED procs
    BY <1>1 DEF UpdateOwner
  <2>2. CASE procs[r] = Down
    BY <2>1, <2>2 DEF OwnsTargets, OwnsSyncing, Down
  <2>3. CASE procs[r] # Down
    <3>1. Source[r] # move.from /\ owner[move.mac] = move.from
      BY <1>1, <2>3 DEF UpdateOwner
    <3>2. \A d \in Devices : owner[d] = Source[r] => owner'[d] = Source[r]
      BY <1>1, <3>1, <1>types DEF UpdateOwner, TablesOK
    <3>3. procs[r].targets \subseteq Devices /\ procs[r].syncing \in Devices \cup {Nil}
      BY <1>r DEF ProcOK, Process
    <3> QED BY <2>1, <3>2, <3>3, <1>r DEF OwnsTargets, OwnsSyncing
  <2> QED BY <2>2, <2>3
<1>2. CASE ~UpdateOwner
  <2>kept. OwnersKept
    BY <1>2, <1>owners
  <2> SUFFICES ASSUME ~NothingNew(r) PROVE (OwnsTargets(r) /\ OwnsSyncing(r))'
    BY <1>kept, <2>kept
  <2>1. CASE UNCHANGED procs
    BY <2>1, <1>same
  <2>2. CASE StartNew
    BY <2>2, <1>same, <1>down DEF StartNew
  <2>3. ASSUME NEW p \in Procs,
               \/ EnsureFails(p) \/ Started(p) \/ Connect(p) \/ LateHeartbeat(p)
               \/ UpsertFails(p) \/ End(p) \/ LoseSession(p) \/ StartFirehose(p)
               \/ \E d \in Devices : UpsertReading(p, d)
        PROVE  NothingNew(r)
    <3>1. CASE EnsureFails(p) \/ End(p)
      BY <3>1, <1>same, <1>down, <1>types DEF EnsureFails, End, ProcsOK
    <3>2. CASE \/ Started(p) \/ Connect(p) \/ LateHeartbeat(p) \/ LoseSession(p)
               \/ StartFirehose(p)
      BY <3>2, <1>types DEF Started, Connect, LateHeartbeat, LoseSession, StartFirehose,
         ProcsOK, Process, NothingNew
    <3>3. CASE UpsertFails(p) \/ \E d \in Devices : UpsertReading(p, d)
      BY <3>3, <1>types DEF UpsertFails, UpsertReading, ProcsOK, Process, NothingNew
    <3> QED BY <2>3, <3>1, <3>2, <3>3
  <2>4. ASSUME NEW p \in Procs, StreamEnds(p)
        PROVE  NothingNew(r)
    <3>1. PICK late \in BOOLEAN :
            procs' = [procs EXCEPT ![p].stream = FALSE, ![p].late = late]
      BY <2>4 DEF StreamEnds
    <3> QED BY <3>1, <1>types DEF ProcsOK, Process, NothingNew
  <2>5. ASSUME NEW p \in Procs, Load(p)
        PROVE  NothingNew(r)
    BY <2>5, <1>types DEF Load, ProcsOK, Process, NothingNew
  <2>6. ASSUME NEW p \in Procs, NEW d \in Devices, EnsureDevice(p, d)
        PROVE  (OwnsTargets(r) /\ OwnsSyncing(r))'
    <3>1. p = r /\ procs'[r] = [procs[r] EXCEPT !.todo = @ \ {d}]
      BY <2>6, <1>types, <1>same DEF EnsureDevice, ProcsOK
    <3>2. owner'[d] = Source[r]
      BY <2>6, <3>1, <1>types, SourceOfProc, SyncKeepsOwners DEF EnsureDevice
    <3>3. procs[r] \in Process /\ procs[r].targets \subseteq Devices
      BY <1>r DEF ProcOK, Process
    <3>4. /\ procs'[r].targets = procs[r].targets
          /\ procs'[r].todo = procs[r].todo \ {d}
          /\ procs'[r].syncing = procs[r].syncing
      BY <3>1, <3>3 DEF Process
    <3>5. \A e \in Devices : owner[e] = Source[r] => owner'[e] = Source[r]
      BY <2>kept, SourceOfProc DEF OwnersKept
    <3>6. OwnsTargets(r)'
      BY <3>2, <3>3, <3>4, <3>5, <1>r DEF OwnsTargets
    <3>7. OwnsSyncing(r)'
      BY <3>3, <3>4, <3>5, <1>r DEF OwnsSyncing, Process
    <3> QED BY <3>6, <3>7
  <2>7. ASSUME NEW p \in Procs, NEW d \in Devices, SyncReading(p, d), ~UNCHANGED procs
        PROVE  (OwnsTargets(r) /\ OwnsSyncing(r))'
    <3>1. SyncDevice(d, Spaces) /\ procs' = [procs EXCEPT ![p].syncing = d]
      BY <2>7 DEF SyncReading
    <3>2. p = r /\ procs'[r] = [procs[r] EXCEPT !.syncing = d]
      BY <3>1, <1>types, <1>same DEF ProcsOK
    <3>3. Source[r] = Spaces
      BY <2>7, <3>2 DEF SyncReading, Idle, Firehose
    <3>4. owner'[d] = Source[r]
      BY <3>1, <3>3, <1>types, SourceOfProc, SyncKeepsOwners
    <3>5. procs[r] \in Process /\ procs[r].targets \subseteq Devices
      BY <1>r DEF ProcOK, Process
    <3>6. /\ procs'[r].targets = procs[r].targets
          /\ procs'[r].todo = procs[r].todo
          /\ procs'[r].syncing = d
      BY <3>2, <3>5 DEF Process
    <3>7. \A e \in Devices : owner[e] = Source[r] => owner'[e] = Source[r]
      BY <2>kept, SourceOfProc DEF OwnersKept
    <3>8. OwnsTargets(r)'
      BY <3>5, <3>6, <3>7, <1>r DEF OwnsTargets
    <3>9. OwnsSyncing(r)'
      BY <3>4, <3>6 DEF OwnsSyncing
    <3> QED BY <3>8, <3>9
  <2>8. CASE UNCHANGED vars
    BY <2>8, <2>1 DEF vars
  <2>9. CASE Tick \/ ServerDropsSession \/ EditConfig
             \/ \E d \in Devices, s \in Sources : StopOld(d, s)
    BY <2>9, <2>1 DEF Tick, ServerDropsSession, EditConfig, StopOld
  <2>10. ASSUME NEW p \in Procs,
                \/ Report(p) \/ ConnectFails(p) \/ Heartbeat(p)
                \/ \E d \in Devices : FlushRow(p, d)
         PROVE  UNCHANGED procs
    BY <2>10 DEF Report, ConnectFails, Heartbeat, FlushRow
  <2> QED BY <1>2, <2>1, <2>2, <2>3, <2>4, <2>5, <2>6, <2>7, <2>8, <2>9, <2>10 DEF Next
<1> QED BY <1>1, <1>2

\* Whoever writes owns, in the state in which it writes.
LEMMA WriteByOwner ==
    ASSUME TypeOK, Owned, NEW p \in Procs, NEW d \in Devices, Write(p, d)
    PROVE  owner[d] = Source[p]
<1>1. ProcOK(procs[p])
  BY TypeParts DEF ProcsOK
<1>2. CASE FlushRow(p, d)
  BY <1>1, <1>2 DEF FlushRow, Up, ProcOK, Owned, OwnsTargets
<1>3. CASE UpsertReading(p, d)
  BY <1>3, ConstantsAssumption DEF UpsertReading, Owned, OwnsSyncing
<1> QED BY <1>2, <1>3 DEF Write

\* No row is written for a device of another source: a configured collector looks at the
\* owner when it starts, and the operator stops it before the device is given away.
THEOREM RowsWrittenByOwner == Spec => WritesOnlyByOwner
<1>1. Init => TypeOK /\ Owned
  BY TypeInit, OwnedInit
<1>2. TypeOK /\ Owned /\ [Next]_vars => (TypeOK /\ Owned)'
  BY TypeStep, OwnedStep
<1>3. TypeOK /\ Owned /\ [Next]_vars =>
        [\A p \in Procs, d \in Devices : Write(p, d) => owner[d] = Source[p]]_vars
  BY WriteByOwner
<1> QED BY <1>1, <1>2, <1>3, PTL DEF Spec, WritesOnlyByOwner

-----------------------------------------------------------------------------
(* What health/details shows of a Firehose that is away.                   *)

\* A row is only written by a handler of the stream.
RowsOfStream == \A p \in Firehose : procs[p].syncing # Nil => procs[p].stream

LEMMA RowsOfStreamInit == Init => RowsOfStream
BY DEF Init, RowsOfStream, Down, Firehose

LEMMA RowsOfStreamStep == TypeOK /\ RowsOfStream /\ [Next]_vars => RowsOfStream'
<1> SUFFICES ASSUME TypeOK, RowsOfStream, [Next]_vars, NEW r \in Firehose,
                    procs'[r].syncing # Nil, ~procs'[r].stream
             PROVE  FALSE
  BY DEF RowsOfStream, Firehose
<1>r. r \in Procs
  BY DEF Firehose
<1>types. ProcsOK
  BY TypeParts
<1>same. procs'[r] # procs[r] /\ procs'[r] # Down
  BY DEF RowsOfStream, Down
<1>1. CASE \/ UNCHANGED vars \/ Tick \/ ServerDropsSession \/ UpdateOwner \/ EditConfig
           \/ \E d \in Devices, s \in Sources : StopOld(d, s)
  BY <1>1, <1>same DEF vars, Tick, ServerDropsSession, UpdateOwner, EditConfig, StopOld
<1>2. CASE StartNew
  BY <1>2, <1>r, <1>same DEF StartNew
<1>3. ASSUME NEW p \in Procs,
             \/ Report(p) \/ ConnectFails(p) \/ Heartbeat(p)
             \/ \E d \in Devices : FlushRow(p, d)
      PROVE  FALSE
  BY <1>3, <1>same DEF Report, ConnectFails, Heartbeat, FlushRow
<1>4. ASSUME NEW p \in Procs, EnsureFails(p) \/ End(p)
      PROVE  FALSE
  BY <1>4, <1>r, <1>same, <1>types DEF EnsureFails, End, ProcsOK
<1>5. ASSUME NEW p \in Procs,
             \/ Load(p) \/ Started(p) \/ StartFirehose(p) \/ Connect(p) \/ LateHeartbeat(p)
             \/ UpsertFails(p) \/ LoseSession(p)
             \/ \E d \in Devices : EnsureDevice(p, d) \/ UpsertReading(p, d)
      PROVE  FALSE
  <2>1. /\ procs'[r].syncing \in {procs[r].syncing, Nil}
        /\ procs[r].stream => procs'[r].stream
    BY <1>5, <1>r, <1>types DEF Load, Started, StartFirehose, Connect, LateHeartbeat,
       UpsertFails, LoseSession, EnsureDevice, UpsertReading, ProcsOK, Process
  <2> QED BY <2>1 DEF RowsOfStream
<1>6. ASSUME NEW p \in Procs, StreamEnds(p)
      PROVE  FALSE
  <2>1. PICK late \in BOOLEAN :
          procs' = [procs EXCEPT ![p].stream = FALSE, ![p].late = late]
    BY <1>6 DEF StreamEnds
  <2>2. p = r
    BY <2>1, <1>r, <1>same, <1>types DEF ProcsOK
  <2>3. procs'[r].syncing = procs[r].syncing
    BY <2>1, <1>r, <1>types DEF ProcsOK, Process
  <2> QED BY <1>6, <2>2, <2>3 DEF StreamEnds, Idle
<1>7. ASSUME NEW p \in Procs, NEW d \in Devices, SyncReading(p, d)
      PROVE  FALSE
  <2>1. procs' = [procs EXCEPT ![p].syncing = d]
    BY <1>7, <1>same DEF SyncReading
  <2>2. p = r
    BY <2>1, <1>r, <1>same, <1>types DEF ProcsOK
  <2>3. procs'[r].stream = procs[r].stream
    BY <2>1, <1>r, <1>types DEF ProcsOK, Process
  <2> QED BY <1>7, <2>2, <2>3 DEF SyncReading
<1> QED BY <1>1, <1>2, <1>3, <1>4, <1>5, <1>6, <1>7 DEF Next

\* A report on one source says nothing of another, and without a connection nothing.
LEMMA OthersReport ==
    ASSUME StatusOK, NEW p \in Procs, NEW s \in Sources, Success(p),
           Source[p] # s \/ ~procs[p].session
    PROVE  status'[s] = status[s]
BY DEF StatusOK, Success, Mark

\* A failure hides nothing.
LEMMA FailureShows ==
    ASSUME StatusOK, NEW p \in Procs, NEW s \in Sources, Failure(p), Shows(s)
    PROVE  Shows(s)'
<1>1. CASE Source[p] = s /\ procs[p].session
  <2>1. status'[s] = MarkFailure(status[s], 0)
    BY <1>1 DEF Failure, Mark, StatusOK
  <2>2. status[s] \in Row(Ages)
    BY DEF StatusOK, Shows, Stale
  <2>3. status'[s].failing = TRUE
    BY <2>1, <2>2 DEF MarkFailure, Row
  <2> QED BY <2>3 DEF Shows, Stale, NoRow
<1>2. CASE Source[p] # s \/ ~procs[p].session
  <2>1. status'[s] = status[s]
    BY <1>2 DEF StatusOK, Failure, Mark
  <2> QED BY <2>1 DEF Shows
<1> QED BY <1>1, <1>2

\* Nor does the time that passes.
LEMMA TimeShows ==
    ASSUME StatusOK, Tick, NEW s \in Sources, Shows(s)
    PROVE  Shows(s)'
<1>1. status[s] \in Row(Ages) /\ status[s].updated \in Ages
  BY DEF StatusOK, Shows, Stale, Row
<1>2. CASE status[s].updated = -(StaleAfter + 1)
  <2>1. status'[s] = status[s]
    BY <1>2 DEF Tick
  <2> QED BY <2>1 DEF Shows
<1>3. CASE status[s].updated # -(StaleAfter + 1)
  <2>1. status'[s] = [status[s] EXCEPT !.updated = @ - 1]
    BY <1>1, <1>3 DEF Tick
  <2>2. /\ status'[s].succeeded = status[s].succeeded
        /\ status'[s].failing = status[s].failing
        /\ status'[s].updated = status[s].updated - 1
    BY <1>1, <2>1 DEF Row
  <2>3. status[s].updated \in Int /\ StaleAfter \in Int /\ Nil \notin Int
    BY <1>1, ConstantsAssumption DEF Ages
  <2>4. status'[s] # NoRow
    BY <2>2, <2>3 DEF NoRow
  <2> QED BY <2>2, <2>3, <2>4 DEF Shows, Stale
<1> QED BY <1>2, <1>3

\* The lock keeps the reports of all other Cisco Spaces processes out.
LEMMA ShownStep ==
    ASSUME TypeOK, LockHeld, RowsOfStream, Next, NEW p \in Firehose, Shows(Spaces),
           procs[p].session, ~procs[p].stream, ~procs'[p].stream,
           ~(procs[p].late /\ ~procs'[p].late)
    PROVE  Shows(Spaces)'
<1>types. ProcsOK /\ StatusOK
  BY TypeParts
<1>p. p \in Procs /\ Source[p] = Spaces /\ Spaces \in Sources
  BY SourceOfProc DEF Firehose
<1>kept. status'[Spaces] = status[Spaces] => Shows(Spaces)'
  BY DEF Shows
<1>other. ASSUME NEW q \in Procs, Success(q), q # p
          PROVE  Shows(Spaces)'
  <2>1. q \in Firehose => ~procs[q].session
    BY <1>other, HeldByOne DEF OneFirehoseWriter
  <2>2. Source[q] # Spaces \/ ~procs[q].session
    BY <2>1 DEF Firehose
  <2> QED BY <1>other, <1>types, <1>p, <1>kept, <2>2, OthersReport
<1>fails. ASSUME NEW q \in Procs, Failure(q)
          PROVE  Shows(Spaces)'
  BY <1>fails, <1>types, <1>p, FailureShows
<1>1. CASE Tick
  BY <1>1, <1>types, <1>p, TimeShows
<1>2. CASE \/ ServerDropsSession \/ UpdateOwner \/ EditConfig \/ StartNew
           \/ \E d \in Devices, s \in Sources : StopOld(d, s)
  BY <1>2, <1>kept DEF ServerDropsSession, UpdateOwner, EditConfig, StartNew, StopOld
<1>3. ASSUME NEW q \in Procs,
             \/ Load(q) \/ EnsureFails(q) \/ Started(q) \/ StartFirehose(q) \/ End(q)
             \/ LoseSession(q) \/ \E d \in Devices : EnsureDevice(q, d)
      PROVE  Shows(Spaces)'
  BY <1>3, <1>kept DEF Load, EnsureFails, Started, StartFirehose, End, LoseSession,
     EnsureDevice
<1>4. ASSUME NEW q \in Procs, Report(q) \/ \E d \in Devices : FlushRow(q, d)
      PROVE  Shows(Spaces)'
  <2>1. q # p /\ (Success(q) \/ Failure(q))
    BY <1>4 DEF Report, FlushRow, Configured
  <2> QED BY <2>1, <1>other, <1>fails
<1>5. ASSUME NEW q \in Procs, ConnectFails(q) \/ StreamEnds(q) \/ UpsertFails(q)
      PROVE  Shows(Spaces)'
  BY <1>5, <1>fails DEF ConnectFails, StreamEnds, UpsertFails
<1>6. ASSUME NEW q \in Procs, Connect(q)
      PROVE  Shows(Spaces)'
  <2>1. procs'[q].stream
    BY <1>6, <1>types DEF Connect, ProcsOK, Process
  <2> QED BY <1>6, <2>1, <1>other DEF Connect
<1>7. ASSUME NEW q \in Procs, Heartbeat(q)
      PROVE  Shows(Spaces)'
  BY <1>7, <1>other DEF Heartbeat
<1>8. ASSUME NEW q \in Procs, LateHeartbeat(q)
      PROVE  Shows(Spaces)'
  <2>1. procs[q].late /\ ~procs'[q].late
    BY <1>8, <1>types DEF LateHeartbeat, Idle, ProcsOK, Process
  <2> QED BY <1>8, <2>1, <1>other DEF LateHeartbeat
<1>9. ASSUME NEW q \in Procs, NEW d \in Devices, UpsertReading(q, d)
      PROVE  Shows(Spaces)'
  <2>1. procs[q].stream
    BY <1>9, ConstantsAssumption DEF UpsertReading, RowsOfStream
  <2> QED BY <1>9, <2>1, <1>other DEF UpsertReading
<1>10. ASSUME NEW q \in Procs, NEW d \in Devices, SyncReading(q, d)
       PROVE  Shows(Spaces)'
  BY <1>10, <1>kept, <1>fails DEF SyncReading
<1> QED BY <1>1, <1>2, <1>3, <1>4, <1>5, <1>6, <1>7, <1>8, <1>9, <1>10 DEF Next

\* While its stream is down, no step of any process hides that from health/details but
\* the heartbeat that was under way when the stream ended.
THEOREM ShownDownStreamStays == Spec => DownStreamStaysShown
<1> DEFINE SInv == TypeOK /\ LockHeld /\ RowsOfStream
           Stays == \A p \in Firehose :
                      (Shows(Spaces) /\ procs[p].session /\ ~procs[p].stream /\ ~procs'[p].stream)
                      => Shows(Spaces)' \/ (procs[p].late /\ ~procs'[p].late)
<1>1. Init => SInv
  BY TypeInit, LockInit, RowsOfStreamInit
<1>2. SInv /\ [Next]_vars => SInv'
  BY TypeStep, LockStep, RowsOfStreamStep
<1>3. SInv /\ [Next]_vars => [Stays]_vars
  BY ShownStep
<1> QED BY <1>1, <1>2, <1>3, PTL DEF Spec, DownStreamStaysShown
=============================================================================
