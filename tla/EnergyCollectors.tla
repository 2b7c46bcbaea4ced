-------------------------- MODULE EnergyCollectors --------------------------
(***************************************************************************)
(* The writers of energy_readings.  cmd/hm-echonet-collector asks each     *)
(* ECHONET object over UDP in turn; cmd/hm-nature-remo-collector and       *)
(* cmd/hm-apcupsd-collector fetch one answer that has everything, and the   *)
(* influx import stores an export in batches.  Each writes over a single    *)
(* connection, the collectors a row per statement and the import a batch    *)
(* per transaction.  A row has a time, in minutes, and a metric; the        *)
(* retention policy of the table drops old ones in the background.          *)
(***************************************************************************)
EXTENDS CollectorStatus, Sequences, FiniteSets, FiniteSetsExt

CONSTANTS
    Fetched,        \* the collectors that fetch
    Echonet,        \* hm-echonet-collector
    Eojs,           \* the ECHONET objects it asks
    MetricsOf,      \* collector or object -> its metrics
    FirstTid,       \* nextTID after resolveTarget: 0, or 1 if it asked for the device
    Tids,           \* how many transaction ids there are: 2^16
    Retention,      \* drop_after of the retention policy, in minutes
    Export,         \* the records of the export, a sequence of rows
    BatchSize,      \* rows in a batch of the import
    MaxTime,        \* bound: the times of readings, in minutes
    MaxPolls,       \* bound: polls
    MaxInfs,        \* bound: notifications of the ECHONET device
    MaxFrames,      \* bound: frames in the socket; more stay in the air
    MaxFaults,      \* bound: statements and batches that fail, processes that end
    MaxImports      \* bound: runs of the import

Live == 0           \* stored by a collector

Times == 0..MaxTime
Collectors == Fetched \cup {Echonet}
Metrics == UNION {MetricsOf[c] : c \in Fetched \cup Eojs}
Rows == Times \X Metrics
TidSet == 0..(Tids - 1)

ASSUME ConstantsAssumption ==
    /\ Echonet \notin Fetched /\ Eojs # {} /\ IsFiniteSet(Eojs) /\ Nil \notin Nat
    /\ DOMAIN MetricsOf = Fetched \cup Eojs
    /\ Export \in Seq(Rows)
    /\ FirstTid \in {0, 1} /\ Tids \in Nat \ {0, 1} /\ Retention \in Nat
    /\ BatchSize \in Nat \ {0}
    /\ {MaxTime, MaxPolls, MaxInfs, MaxFrames, MaxFaults, MaxImports} \subseteq Nat

VARIABLES
    clock,              \* what time it is, as far as it matters: it may be later
    energy_readings,    \* [Rows -> who stored it: Live, a record of the export, or Nil]
    status,             \* [Collectors -> row of collector_status]
    polls,              \* [Collectors -> the poll]
    sock,               \* the frames in the ECHONET collector's socket
    air,                \* requests the device has not answered yet
    tid,                \* nextTID, as far as newTID shows it
    import,             \* the import: records stored, and whether it runs or is done
    used                \* how often things happened: the bounded ones; asked: requests

vars == <<clock, energy_readings, status, polls, sock, air, tid, import, used>>

\* asking: an object was asked; storing: rows are left to upsertReadings; report: the
\* poll ended, well or not.  rows: what the poll has decoded; answers: how many requests
\* were answered.
Idle == [pc |-> "idle", eoj |-> Nil, todo |-> {}, left |-> {}, rows |-> {}, answers |-> 0]
Off  == [Idle EXCEPT !.pc = "off"]

Poll == [pc : {"off", "idle", "poll", "asking", "storing", "report", "failed"},
         eoj : Eojs \cup {Nil}, todo : SUBSET Eojs, left : SUBSET Rows, rows : SUBSET Rows, answers : Nat]

\* History: the process that sent a request and which one it is, and the request a frame
\* answers.
Request == [run : Nat, nr : Nat, tid : TidSet, eoj : Eojs]
Frame == [esv : {"GetRes", "GetSNA", "INF"}, tid : TidSet, metrics : SUBSET Metrics,
          asked : Request \cup {Nil}]

TypeOK ==
    /\ clock \in Times
    /\ energy_readings \in [Rows -> {Nil, Live} \cup DOMAIN Export]
    /\ status \in [Collectors -> Row({0}) \cup {NoRow}]
    /\ polls \in [Collectors -> Poll]
    /\ \A c \in Collectors : /\ polls[c].left \subseteq polls[c].rows
                              /\ polls[c].pc = "idle" => polls[c] = Idle
    /\ sock \in Seq(Frame)
    /\ air \subseteq Request
    /\ tid \in TidSet
    /\ import \in [at : 0..Len(Export), pc : {"none", "running", "done", "failed"}]
    /\ used \in [polls : Nat, infs : Nat, faults : Nat, imports : Nat, runs : Nat, asked : Nat]

Init ==
    /\ clock = 0
    /\ energy_readings = [r \in Rows |-> Nil]
    /\ status = [c \in Collectors |-> NoRow]
    /\ polls = [c \in Collectors |-> Idle]
    /\ sock = <<>>
    /\ air = {}
    /\ tid = FirstTid
    /\ import = [at |-> 0, pc |-> "none"]
    /\ used = [polls |-> 0, infs |-> 0, faults |-> 0, imports |-> 0, runs |-> 0,
                asked |-> 0]

Fault == used.faults < MaxFaults /\ used' = [used EXCEPT !.faults = @ + 1]

-----------------------------------------------------------------------------
(* What the three collectors have in common.                               *)

\* The device and the metrics are in place, and the TIDs start again.
Start(c) ==
    /\ polls[c] = Off
    /\ polls' = [polls EXCEPT ![c] = Idle]
    /\ tid' = IF c = Echonet THEN FirstTid ELSE tid
    /\ UNCHANGED <<clock, energy_readings, status, sock, air, import, used>>

\* At a tick, and at once after the start.
BeginPoll(c) ==
    /\ polls[c] = Idle
    /\ used.polls < MaxPolls
    /\ used' = [used EXCEPT !.polls = @ + 1]
    /\ polls' = [polls EXCEPT ![c].pc = "poll", ![c].todo = IF c = Echonet THEN Eojs ELSE {}]
    /\ UNCHANGED <<clock, energy_readings, status, sock, air, tid, import>>

Decoded(c, rows, todo) ==
    polls' = [polls EXCEPT ![c] = [polls[c] EXCEPT !.pc = "storing", !.todo = todo,
                                   !.left = rows, !.rows = @ \cup rows, !.answers = @ + 1]]

\* The poll goes on when its rows are stored.
WithoutRow(c, rows) ==
    [polls EXCEPT ![c] = [@ EXCEPT
        !.left = rows,
        !.pc   = IF rows # {} THEN "storing" ELSE IF polls[c].todo = {} THEN "report" ELSE "poll"]]

\* upsertReadings, a statement for each row.
Upsert(c, r) ==
    /\ polls[c].pc = "storing" /\ r \in polls[c].left
    /\ energy_readings' = [energy_readings EXCEPT ![r] = Live]
    /\ polls' = WithoutRow(c, polls[c].left \ {r})
    /\ UNCHANGED <<clock, status, sock, air, tid, import, used>>

\* Mutant: an error is only logged.
UpsertSkips(c) ==
    /\ polls[c].pc = "storing"
    /\ Fault
    /\ \E r \in polls[c].left : polls' = WithoutRow(c, polls[c].left \ {r})
    /\ UNCHANGED <<clock, energy_readings, status, sock, air, tid, import>>

\* The first error ends the poll; the rows before it stay.
UpsertFails(c) ==
    /\ polls[c].pc = "storing" /\ polls[c].left # {}
    /\ Fault
    /\ \/ UNCHANGED energy_readings
       \/ \E r \in polls[c].left : energy_readings' = [energy_readings EXCEPT ![r] = Live]
    /\ polls' = [polls EXCEPT ![c].pc = "failed"]
    /\ UNCHANGED <<clock, status, sock, air, tid, import>>

\* No answer, or none that can be used.
PollFails(c) ==
    /\ polls[c].pc \in {"poll", "asking"}
    /\ Fault
    /\ polls' = [polls EXCEPT ![c].pc = "failed"]
    /\ UNCHANGED <<clock, energy_readings, status, sock, air, tid, import>>

\* Mutant: what a poll did not come to is left to the next.
ReportKeepsRows(c) ==
    /\ polls[c].pc \in {"report", "failed"}
    /\ polls' = [polls EXCEPT ![c].pc = "idle"]
    /\ UNCHANGED <<clock, energy_readings, status, sock, air, tid, import, used>>

\* A report that fails is forgotten.
Report(c) ==
    /\ polls[c].pc \in {"report", "failed"}
    /\ \/ /\ status' = [status EXCEPT ![c] =
                IF polls[c].pc = "report" THEN MarkSuccess(@, 0) ELSE MarkFailure(@, 0)]
          /\ UNCHANGED used
       \/ Fault /\ UNCHANGED status
    /\ polls' = [polls EXCEPT ![c] = Idle]
    /\ UNCHANGED <<clock, energy_readings, sock, air, tid, import>>

\* The answers under way come to the next process's socket.
End(c) ==
    /\ polls[c] # Off
    /\ used.faults < MaxFaults
    /\ used' = [used EXCEPT !.faults = @ + 1, !.runs = IF c = Echonet THEN @ + 1 ELSE @]
    /\ polls' = [polls EXCEPT ![c] = Off]
    /\ sock' = IF c = Echonet THEN <<>> ELSE sock
    /\ UNCHANGED <<clock, energy_readings, status, air, tid, import>>

-----------------------------------------------------------------------------
(* A fetched answer has every metric.                                      *)

\* One time for all of them, which the meter or the UPS gives, by a clock of its own.
FetchedRows(c, ts) == {ts} \X MetricsOf[c]

Fetch(c) ==
    /\ c \in Fetched /\ polls[c].pc = "poll"
    /\ \E ts \in Times : Decoded(c, FetchedRows(c, ts), {})
    /\ UNCHANGED <<clock, energy_readings, status, sock, air, tid, import, used>>

-----------------------------------------------------------------------------
(* ECHONET Lite.                                                           *)

\* Mutant: the requests of a poll have one TID.
NewTidOfPoll == IF polls[Echonet].todo = Eojs THEN (tid + 1) % Tids ELSE tid

\* uint16: the ids start again after Tids requests.
NewTid == (tid + 1) % Tids

\* The objects are asked in map order.
Ask(e) ==
    /\ polls[Echonet].pc = "poll" /\ e \in polls[Echonet].todo
    /\ tid' = NewTid
    /\ used' = [used EXCEPT !.asked = @ + 1]
    /\ air' = air \cup {[run |-> used.runs, nr |-> used'.asked, tid |-> NewTid, eoj |-> e]}
    /\ polls' = [polls EXCEPT ![Echonet].pc = "asking", ![Echonet].eoj = e,
                              ![Echonet].todo = @ \ {e}]
    /\ UNCHANGED <<clock, energy_readings, status, sock, import>>

\* The device answers late or never, and leaves out what it does not know.
Answer(q) ==
    /\ polls[Echonet] # Off /\ q \in air /\ Len(sock) < MaxFrames
    /\ air' = air \ {q}
    /\ \/ \E known \in SUBSET MetricsOf[q.eoj] :
            sock' = Append(sock, [esv |-> "GetRes", tid |-> q.tid, metrics |-> known, asked |-> q])
       \/ sock' = Append(sock, [esv |-> "GetSNA", tid |-> q.tid, metrics |-> {}, asked |-> q])
    /\ UNCHANGED <<clock, energy_readings, status, polls, tid, import, used>>

Notify(e) ==
    /\ polls[Echonet] # Off
    /\ used.infs < MaxInfs /\ Len(sock) < MaxFrames
    /\ used' = [used EXCEPT !.infs = @ + 1]
    /\ sock' = Append(sock, [esv |-> "INF", tid |-> 0, metrics |-> MetricsOf[e], asked |-> Nil])
    /\ UNCHANGED <<clock, energy_readings, status, polls, air, tid, import>>

\* A notification will do, whatever object it is from.
Expected(f) == f.tid = tid \/ f.esv = "INF"

\* One frame is read: another's answer and an answer without a reading are skipped, a
\* refusal ends the poll, readings get the time of now, up to which time has passed.
Receive ==
    /\ polls[Echonet].pc = "asking" /\ sock # <<>>
    /\ sock' = Tail(sock)
    /\ LET f == Head(sock) IN
         \/ ~Expected(f) /\ UNCHANGED <<polls, clock>>
         \/ /\ Expected(f) /\ f.esv = "GetSNA"
            /\ polls' = [polls EXCEPT ![Echonet].pc = "failed"]
            /\ UNCHANGED clock
         \/ /\ Expected(f) /\ f.esv # "GetSNA"
            /\ IF f.metrics = {} THEN UNCHANGED <<polls, clock>>
               ELSE /\ clock' \in clock..MaxTime
                    /\ Decoded(Echonet, {clock'} \X f.metrics, polls[Echonet].todo)
    /\ UNCHANGED <<energy_readings, status, air, tid, import, used>>

-----------------------------------------------------------------------------
(* The influx import.                                                      *)

StartImport ==
    /\ import.pc # "running"
    /\ used.imports < MaxImports
    /\ used' = [used EXCEPT !.imports = @ + 1]
    /\ import' = [at |-> 0, pc |-> "running"]
    /\ UNCHANGED <<clock, energy_readings, status, polls, sock, air, tid>>

BatchEnd == Min({import.at + BatchSize, Len(Export)})

\* The statements of records first to last: the last one of a row stays.
Imported(first, last) ==
    energy_readings' = [r \in Rows |->
        LET of == {i \in first..last : Export[i] = r}
        IN  IF of = {} THEN energy_readings[r] ELSE Max(of)]

ImportBatch ==
    /\ import.pc = "running"
    /\ Imported(import.at + 1, BatchEnd)
    /\ import' = [at |-> BatchEnd, pc |-> IF BatchEnd = Len(Export) THEN "done" ELSE "running"]
    /\ UNCHANGED <<clock, status, polls, sock, air, tid, used>>

\* Mutant: each row is a transaction of its own.
ImportRowsFail ==
    /\ import.pc = "running"
    /\ Fault
    /\ \E last \in import.at..BatchEnd : Imported(import.at + 1, last)
    /\ import' = [import EXCEPT !.pc = "failed"]
    /\ UNCHANGED <<clock, status, polls, sock, air, tid>>

\* A record or the batch's transaction fails; the answer to COMMIT may be lost.
ImportFails ==
    /\ import.pc = "running"
    /\ Fault
    /\ Imported(import.at + 1, BatchEnd) \/ UNCHANGED energy_readings
    /\ import' = [import EXCEPT !.pc = "failed"]
    /\ UNCHANGED <<clock, status, polls, sock, air, tid>>

-----------------------------------------------------------------------------
(* The retention policy of energy_readings.                                *)

\* The chunks that end Retention ago or earlier go, in one transaction; where a chunk
\* ends is the database's.
DropChunks ==
    /\ clock' \in clock..MaxTime
    /\ \E end \in Times :
         /\ end + Retention =< clock'
         /\ energy_readings' = [r \in Rows |-> IF r[1] < end THEN Nil ELSE energy_readings[r]]
    /\ UNCHANGED <<status, polls, sock, air, tid, import, used>>

Next ==
    \/ Receive \/ StartImport \/ ImportBatch \/ ImportFails \/ DropChunks
    \/ \E c \in Collectors :
         \/ Start(c) \/ BeginPoll(c) \/ Fetch(c) \/ PollFails(c) \/ UpsertFails(c)
         \/ Report(c) \/ End(c)
         \/ \E r \in Rows : Upsert(c, r)
    \/ \E e \in Eojs : Ask(e) \/ Notify(e)
    \/ \E q \in air : Answer(q)

Spec == Init /\ [][Next]_vars

-----------------------------------------------------------------------------
(* Properties.                                                             *)

\* The rows that the retention has not come to yet.
Young(r) == r[1] + Retention >= clock

\* A poll that is reported well has stored a row or more for every request, and each
\* row it decoded, but for those the retention has come to.
SuccessIsStored ==
    \A c \in Collectors :
        polls[c].pc = "report" =>
            /\ polls[c].answers = IF c = Echonet THEN Cardinality(Eojs) ELSE 1
            /\ \A r \in polls[c].rows : Young(r) => energy_readings[r] # Nil

\* An answer that comes after its request timed out is not taken for the answer to a
\* later request of the same process, unless it is Tids requests late or more: then the
\* ids have started again.
LateAnswersSkipped ==
    [][LET f == Head(sock)
       IN  polls'[Echonet].answers > polls[Echonet].answers /\ f.esv # "INF"
           /\ f.asked.run = used.runs /\ used.asked - f.asked.nr < Tids
           => f.asked.nr = used.asked /\ f.asked.eoj = polls[Echonet].eoj]_vars

Batches == {first..Min({first + BatchSize - 1, Len(Export)}) :
                first \in {i \in DOMAIN Export : i % BatchSize = 1 \/ BatchSize = 1}}

\* Of the rows the retention has not come to, a batch is stored as a whole, and once a run
\* of the import is through so is the export, whatever earlier runs left, but for what the
\* collectors measured since.
ImportIsWhole ==
    /\ \A b \in Batches :
        (\E i \in b : energy_readings[Export[i]] = i) =>
            \A i \in b : Young(Export[i]) => energy_readings[Export[i]] # Nil
    /\ import.pc = "done" =>
        \A i \in DOMAIN Export : Young(Export[i]) =>
            energy_readings[Export[i]] \in {Live} \cup
                {j \in DOMAIN Export : Export[j] = Export[i] /\ j >= i}
=============================================================================
