----------------------- MODULE EnergyCollectorsProofs -----------------------
(***************************************************************************)
(* Theorems about EnergyCollectors, for any objects and metrics, any       *)
(* number of polls, answers in any order, notifications and restarts.      *)
(***************************************************************************)
EXTENDS EnergyCollectors, NumberLemmas

-----------------------------------------------------------------------------
(* Types of what the ECHONET collector works with.                         *)

Types ==
    /\ clock \in Times
    /\ polls \in [Collectors -> Poll]
    /\ sock \in Seq(Frame)
    /\ air \subseteq Request
    /\ tid \in TidSet
    /\ used \in [polls : Nat, infs : Nat, faults : Nat, imports : Nat, runs : Nat, asked : Nat]

LEMMA TypesInit == Init => Types
BY ConstantsAssumption DEF Init, Types, Times, Idle, Poll, TidSet

\* Rows of metrics of an object or a collector.
LEMMA RowsOf ==
    ASSUME NEW t \in Times, NEW c \in Fetched \cup Eojs, NEW M \in SUBSET MetricsOf[c]
    PROVE  M \subseteq Metrics /\ {t} \X M \subseteq Rows
BY DEF Metrics, Rows

\* A step that changes one poll.
LEMMA OnePoll ==
    ASSUME Types, NEW c \in Collectors, NEW q \in Poll, polls' = [polls EXCEPT ![c] = q]
    PROVE  polls' \in [Collectors -> Poll]
BY DEF Types

\* How many requests were made since.
Since(q) == used.asked - q.nr

\* A request is of the process that runs or of an earlier one.  The id of one of the
\* process that runs is so far back as requests were made since, and the last one is of
\* the object that is asked.
RequestOK(q) ==
    /\ q.run =< used.runs
    /\ q.run = used.runs =>
         /\ polls[Echonet].pc # "off"
         /\ q.nr =< used.asked
         /\ \E turns \in Nat : q.tid + Since(q) = tid + turns * Tids
         /\ polls[Echonet].pc = "asking" /\ q.nr = used.asked => q.eoj = polls[Echonet].eoj

AirOK == \A q \in air : RequestOK(q)

SockOK ==
    \A i \in DOMAIN sock :
        sock[i].esv # "INF" =>
            /\ sock[i].asked \in Request
            /\ sock[i].tid = sock[i].asked.tid
            /\ RequestOK(sock[i].asked)

RequestInv == AirOK /\ SockOK

LEMMA RequestInit == Init => RequestInv
BY DEF Init, RequestInv, AirOK, SockOK

\* A step that sends nothing, and asks for nothing else.
AsksNothing ==
    /\ UNCHANGED <<tid, used.runs, used.asked>>
    /\ polls'[Echonet].pc = "off" => polls[Echonet].pc = "off"
    /\ polls'[Echonet].pc = "asking" =>
         polls[Echonet].pc = "asking" /\ polls'[Echonet].eoj = polls[Echonet].eoj

LEMMA RequestKept ==
    ASSUME NEW q, RequestOK(q), AsksNothing
    PROVE  RequestOK(q)'
BY DEF RequestOK, Since, AsksNothing

LEMMA RequestsKept ==
    ASSUME RequestInv, AsksNothing, UNCHANGED <<air, sock>>
    PROVE  RequestInv'
BY RequestKept DEF RequestInv, AirOK, SockOK

-----------------------------------------------------------------------------
(* Types are kept.                                                         *)

UsedSet == [polls : Nat, infs : Nat, faults : Nat, imports : Nat, runs : Nat, asked : Nat]

\* Neither a request nor the end of a process.
Unasked == UNCHANGED <<used.runs, used.asked>>

\* What is counted stays a number.
LEMMA Counted ==
    ASSUME Types
    PROVE  /\ Fault => used' \in UsedSet /\ Unasked
           /\ used' = [used EXCEPT !.polls = @ + 1] => used' \in UsedSet /\ Unasked
           /\ used' = [used EXCEPT !.infs = @ + 1] => used' \in UsedSet /\ Unasked
           /\ used' = [used EXCEPT !.imports = @ + 1] => used' \in UsedSet /\ Unasked
           /\ UNCHANGED used => used' \in UsedSet /\ Unasked
<1>1. used \in UsedSet
  BY DEF Types, UsedSet
<1> QED BY <1>1 DEF UsedSet, Unasked, Fault

\* A poll that has decoded rows.
WithRows(p, rows, todo) ==
    [p EXCEPT !.pc = "storing", !.todo = todo, !.left = rows, !.rows = @ \cup rows,
              !.answers = @ + 1]

LEMMA WithRowsType ==
    ASSUME NEW p \in Poll, NEW rows \in SUBSET Rows, NEW todo \in SUBSET Eojs
    PROVE  WithRows(p, rows, todo) \in Poll /\ WithRows(p, rows, todo).pc = "storing"
<1>1. p.rows \cup rows \in SUBSET Rows /\ p.answers + 1 \in Nat
  BY DEF Poll
<1> DEFINE all == p.rows \cup rows
           n   == p.answers + 1
<1>2. WithRows(p, rows, todo) = [p EXCEPT !.pc = "storing", !.todo = todo, !.left = rows,
                                          !.rows = all, !.answers = n]
  BY DEF WithRows
<1>3. all \in SUBSET Rows /\ n \in Nat
  BY <1>1
<1> HIDE DEF all, n
<1> QED BY <1>2, <1>3 DEF Poll

\* Nothing is asked, answered or received.
Quiet ==
    /\ Types'
    /\ AsksNothing
    /\ UNCHANGED <<air, sock>>
    /\ polls'[Echonet].answers =< polls[Echonet].answers

\* A quiet step gives a collector a poll q.
LEMMA QuietPoll ==
    ASSUME Types, NEW c \in Collectors, NEW q \in Poll, polls' = [polls EXCEPT ![c] = q],
           \/ c # Echonet
           \/ q.pc \notin {"off", "asking"} /\ q.answers =< polls[c].answers,
           clock' \in Times, UNCHANGED <<air, sock, tid>>,
           used' \in UsedSet, Unasked
    PROVE  Quiet
<1>1. polls' \in [Collectors -> Poll]
  BY OnePoll
<1>2. Types'
  BY <1>1 DEF Types, UsedSet
<1>3. polls[Echonet] \in Poll /\ Echonet \in Collectors
  BY DEF Types, Collectors
<1>4. polls'[Echonet] = IF c = Echonet THEN q ELSE polls[Echonet]
  BY <1>3 DEF Types
<1>5. polls[Echonet].answers \in Nat
  BY <1>3 DEF Poll
<1> QED BY <1>2, <1>3, <1>4, <1>5 DEF Quiet, AsksNothing, Unasked

-----------------------------------------------------------------------------
(* The quiet steps.                                                        *)

LEMMA QuietCollector ==
    ASSUME Types, NEW c \in Collectors,
           \/ c # Echonet /\ (Start(c) \/ End(c))
           \/ BeginPoll(c) \/ Fetch(c) \/ PollFails(c) \/ UpsertFails(c) \/ Report(c)
           \/ \E r \in Rows : Upsert(c, r)
    PROVE  Quiet
<1>p. polls[c] \in Poll /\ clock \in Times
  BY DEF Types
<1>idle. Idle \in Poll /\ Off \in Poll /\ Idle.answers = 0 /\ Idle.pc = "idle"
  BY DEF Idle, Off, Poll
<1>n. polls[c].answers \in Nat
  BY <1>p DEF Poll
<1>1. CASE c # Echonet /\ Start(c)
  BY <1>1, <1>idle, <1>p, QuietPoll, Counted DEF Start
<1>2. CASE c # Echonet /\ End(c)
  <2>1. /\ polls' = [polls EXCEPT ![c] = Off]
        /\ used' = [used EXCEPT !.faults = @ + 1]
        /\ UNCHANGED <<clock, sock, air, tid>>
    <3>1. used \in UsedSet
      BY DEF Types, UsedSet
    <3> QED BY <1>2, <3>1 DEF End, UsedSet
  <2>2. used' \in UsedSet /\ Unasked
    BY <2>1 DEF Types, UsedSet, Unasked
  <2> QED BY <1>2, <1>idle, <1>p, <2>1, <2>2, QuietPoll
<1>3. CASE BeginPoll(c)
  <2> DEFINE q == [polls[c] EXCEPT !.pc = "poll", !.todo = IF c = Echonet THEN Eojs ELSE {}]
  <2>1. q \in Poll /\ q.pc = "poll" /\ q.answers = polls[c].answers
    BY <1>p DEF Poll
  <2>2. polls' = [polls EXCEPT ![c] = q]
    BY <1>3 DEF BeginPoll, Types
  <2>3. used' \in UsedSet /\ Unasked
    BY <1>3, Counted DEF BeginPoll
  <2>4. UNCHANGED <<clock, sock, air, tid>>
    BY <1>3 DEF BeginPoll
  <2> HIDE DEF q
  <2>5. q.pc \notin {"off", "asking"} /\ q.answers =< polls[c].answers
    BY <1>n, <2>1
  <2>6. clock' \in Times
    BY <1>p, <2>4
  <2> QED BY <2>1, <2>2, <2>3, <2>4, <2>5, <2>6, QuietPoll
<1>4. CASE Fetch(c)
  <2>1. PICK ts \in Times : Decoded(c, FetchedRows(c, ts), {})
    BY <1>4 DEF Fetch
  <2>2. FetchedRows(c, ts) \subseteq Rows
    BY <1>4, RowsOf DEF Fetch, FetchedRows
  <2> DEFINE q == WithRows(polls[c], FetchedRows(c, ts), {})
  <2>3. q \in Poll
    BY <1>p, <2>2, WithRowsType
  <2>4. polls' = [polls EXCEPT ![c] = q]
    BY <2>1 DEF Decoded, WithRows
  <2>5. c # Echonet
    BY <1>4, ConstantsAssumption DEF Fetch
  <2> HIDE DEF q
  <2> QED BY <1>4, <1>p, <2>3, <2>4, <2>5, QuietPoll, Counted DEF Fetch
<1>5. CASE PollFails(c) \/ UpsertFails(c)
  <2> DEFINE q == [polls[c] EXCEPT !.pc = "failed"]
  <2>1. q \in Poll /\ q.pc = "failed" /\ q.answers = polls[c].answers
    BY <1>p DEF Poll
  <2>2. polls' = [polls EXCEPT ![c] = q]
    BY <1>5 DEF PollFails, UpsertFails, Types
  <2>3. used' \in UsedSet /\ Unasked
    BY <1>5, Counted DEF PollFails, UpsertFails
  <2>4. UNCHANGED <<clock, sock, air, tid>>
    BY <1>5 DEF PollFails, UpsertFails
  <2> HIDE DEF q
  <2>5. q.pc \notin {"off", "asking"} /\ q.answers =< polls[c].answers
    BY <1>n, <2>1
  <2>6. clock' \in Times
    BY <1>p, <2>4
  <2> QED BY <2>1, <2>2, <2>3, <2>4, <2>5, <2>6, QuietPoll
<1>6. CASE Report(c)
  <2>1. used' \in UsedSet /\ Unasked
    BY <1>6, Counted DEF Report
  <2>2. polls' = [polls EXCEPT ![c] = Idle] /\ UNCHANGED <<clock, sock, air, tid>>
    BY <1>6 DEF Report
  <2>3. Idle.pc \notin {"off", "asking"} /\ Idle.answers =< polls[c].answers
    BY <1>n, <1>idle
  <2>4. clock' \in Times
    BY <1>p, <2>2
  <2> QED BY <1>idle, <2>1, <2>2, <2>3, <2>4, QuietPoll
<1>7. ASSUME NEW r \in Rows, Upsert(c, r)
      PROVE  Quiet
  <2> DEFINE left == polls[c].left \ {r}
             q == [polls[c] EXCEPT
                     !.left = left,
                     !.pc   = IF left # {} THEN "storing"
                              ELSE IF polls[c].todo = {} THEN "report" ELSE "poll"]
  <2>1. q \in Poll /\ q.pc \notin {"off", "asking"} /\ q.answers = polls[c].answers
    BY <1>p DEF Poll
  <2>2. polls' = [polls EXCEPT ![c] = q]
    BY <1>7 DEF Upsert, WithoutRow
  <2>3. used' \in UsedSet /\ Unasked
    BY <1>7, Counted DEF Upsert
  <2>4. UNCHANGED <<clock, sock, air, tid>>
    BY <1>7 DEF Upsert
  <2> HIDE DEF q, left
  <2>5. q.pc \notin {"off", "asking"} /\ q.answers =< polls[c].answers
    BY <1>n, <2>1
  <2>6. clock' \in Times
    BY <1>p, <2>4
  <2> QED BY <2>1, <2>2, <2>3, <2>4, <2>5, <2>6, QuietPoll
<1> QED BY <1>1, <1>2, <1>3, <1>4, <1>5, <1>6, <1>7

LEMMA QuietImport ==
    ASSUME Types, StartImport \/ ImportBatch \/ ImportFails \/ DropChunks \/ UNCHANGED vars
    PROVE  Quiet
<1>1. UNCHANGED <<polls, sock, air, tid>> /\ clock' \in Times
  BY DEF StartImport, ImportBatch, ImportFails, DropChunks, vars, Types, Times
<1>2. used' \in UsedSet /\ Unasked
  BY Counted DEF StartImport, ImportBatch, ImportFails, DropChunks, vars
<1>3. polls[Echonet] \in Poll
  BY DEF Types, Collectors
<1>4. polls[Echonet].answers \in Nat
  BY <1>3 DEF Poll
<1> QED BY <1>1, <1>2, <1>4 DEF Quiet, AsksNothing, Unasked, Types, UsedSet

-----------------------------------------------------------------------------
(* The ECHONET collector.                                                  *)

Kept == Types' /\ RequestInv'

\* The answer that a step takes for that to the last request is one.
Matching ==
    LET f == Head(sock)
    IN  polls'[Echonet].answers > polls[Echonet].answers /\ f.esv # "INF"
        /\ f.asked.run = used.runs /\ used.asked - f.asked.nr < Tids
        => f.asked.nr = used.asked /\ f.asked.eoj = polls[Echonet].eoj

LEMMA EchonetPoll ==
    ASSUME Types
    PROVE  /\ Echonet \in Collectors
           /\ polls[Echonet] \in Poll
           /\ polls[Echonet].answers \in Nat
           /\ used \in UsedSet /\ used.runs \in Nat /\ used.asked \in Nat
BY DEF Types, Collectors, Poll, UsedSet

LEMMA QuietKeeps ==
    ASSUME Types, RequestInv, Quiet
    PROVE  Kept /\ Matching
<1>1. polls'[Echonet].answers \in Nat
  BY DEF Quiet, Types, Collectors, Poll
<1> QED BY <1>1, EchonetPoll, RequestsKept DEF Quiet, Kept, Matching

\* A process that starts has asked for nothing.
LEMMA StartKeeps ==
    ASSUME Types, RequestInv, Start(Echonet)
    PROVE  Kept /\ Matching
<1>1. /\ polls[Echonet] = Off /\ polls' = [polls EXCEPT ![Echonet] = Idle]
      /\ tid' = FirstTid /\ UNCHANGED <<clock, sock, air, used>>
  BY DEF Start
<1>2. Off.pc = "off" /\ Idle \in Poll /\ Idle.answers = 0 /\ Off.answers = 0
  BY DEF Off, Idle, Poll
<1>3. polls'[Echonet] = Idle
  BY <1>1, EchonetPoll DEF Types
<1>4. Types'
  <2>1. FirstTid \in TidSet
    BY ConstantsAssumption DEF TidSet
  <2> QED BY <1>1, <1>2, <2>1, EchonetPoll, OnePoll DEF Types
<1>5. ASSUME NEW q, RequestOK(q) PROVE RequestOK(q)'
  BY <1>1, <1>2, <1>5 DEF RequestOK
<1>6. RequestInv'
  BY <1>1, <1>5 DEF RequestInv, AirOK, SockOK
<1> QED BY <1>1, <1>2, <1>3, <1>4, <1>6 DEF Kept, Matching

\* What the next process may hear was asked by an earlier one.
LEMMA EndKeeps ==
    ASSUME Types, RequestInv, End(Echonet)
    PROVE  Kept /\ Matching
<1>1. /\ polls' = [polls EXCEPT ![Echonet] = Off]
      /\ used' = [used EXCEPT !.faults = @ + 1, !.runs = @ + 1]
      /\ sock' = <<>> /\ UNCHANGED <<clock, air, tid>>
  BY EchonetPoll DEF End
<1>2. Off \in Poll /\ Off.answers = 0
  BY DEF Off, Idle, Poll
<1>3. polls'[Echonet] = Off
  BY <1>1, EchonetPoll DEF Types
<1>4. used' \in UsedSet /\ used'.runs = used.runs + 1 /\ used'.asked = used.asked
  <2>1. used \in UsedSet /\ used.faults + 1 \in Nat /\ used.runs + 1 \in Nat
    BY EchonetPoll DEF UsedSet
  <2> QED BY <1>1, <2>1 DEF UsedSet
<1>5. Types'
  BY <1>1, <1>2, <1>4, EchonetPoll, OnePoll DEF Types, UsedSet
<1>6. ASSUME NEW q \in Request, RequestOK(q) PROVE RequestOK(q)'
  BY <1>4, <1>6, EchonetPoll DEF RequestOK, Request
<1>7. RequestInv'
  BY <1>1, <1>6 DEF RequestInv, AirOK, SockOK, Types
<1> QED BY <1>2, <1>3, <1>5, <1>7, EchonetPoll DEF Kept, Matching

\* The next id, which starts again at Tids.
LEMMA NextTid ==
    ASSUME tid \in TidSet
    PROVE  NewTid \in TidSet /\ \E over \in {0, 1} : tid + 1 = NewTid + over * Tids
<1>1. Tids \in Nat \ {0, 1} /\ tid \in 0..(Tids - 1)
  BY ConstantsAssumption DEF TidSet
<1>2. NewTid = IF tid + 1 = Tids THEN 0 ELSE tid + 1
  <2>1. CASE tid + 1 = Tids
    <3>1. Tids % Tids = 0
      BY <1>1
    <3> QED BY <2>1, <3>1 DEF NewTid
  <2>2. CASE tid + 1 # Tids
    <3>1. PICK n \in Nat : n = tid + 1
      BY <1>1
    <3>2. n < Tids
      BY <1>1, <2>2, <3>1
    <3>3. n % Tids = n
      BY <1>1, <3>2
    <3> QED BY <2>2, <3>1, <3>3 DEF NewTid
  <2> QED BY <2>1, <2>2
<1> QED BY <1>1, <1>2 DEF TidSet

\* The new request is the last one, and the others are one request further back.
LEMMA AskKeeps ==
    ASSUME Types, RequestInv, NEW e \in Eojs, Ask(e)
    PROVE  Kept /\ Matching
<1>0. PICK new : new = [run |-> used.runs, nr |-> used'.asked, tid |-> NewTid, eoj |-> e]
  OBVIOUS
<1> DEFINE p   == [polls[Echonet] EXCEPT !.pc = "asking", !.eoj = e, !.todo = @ \ {e}]
<1>1. /\ polls[Echonet].pc = "poll"
      /\ tid' = NewTid /\ air' = air \cup {new}
      /\ used' = [used EXCEPT !.asked = @ + 1]
      /\ UNCHANGED <<clock, sock>>
  BY <1>0 DEF Ask
<1>2. p \in Poll /\ p.pc = "asking" /\ p.eoj = e /\ p.answers = polls[Echonet].answers
  BY EchonetPoll DEF Poll
<1>3. polls' = [polls EXCEPT ![Echonet] = p]
  BY DEF Ask, Types
<1> HIDE DEF p
<1>4. polls'[Echonet] = p
  BY <1>3, EchonetPoll DEF Types
<1>5. /\ used' \in UsedSet /\ used'.runs = used.runs /\ used'.asked = used.asked + 1
      /\ used.asked \in Nat
  BY <1>1, EchonetPoll DEF UsedSet
<1>6. NewTid \in TidSet /\ Tids \in Nat
  BY NextTid, ConstantsAssumption DEF Types
<1>7. /\ new \in Request /\ new.run = used'.runs /\ new.nr = used'.asked
      /\ new.tid = tid' /\ new.eoj = e
  BY <1>0, <1>1, <1>5, <1>6, EchonetPoll DEF Request
<1>8. Types'
  BY <1>1, <1>2, <1>3, <1>5, <1>6, <1>7, EchonetPoll, OnePoll DEF Types, UsedSet
<1>9. RequestOK(new)'
  <2>1. used'.runs \in Nat /\ used'.asked \in Nat /\ tid' \in Nat
    BY <1>1, <1>5, <1>6, EchonetPoll DEF TidSet
  <2>2. new.tid + Since(new)' = tid' + 0 * Tids
    BY <1>6, <1>7, <2>1 DEF Since
  <2> QED BY <1>2, <1>4, <1>7, <2>1, <2>2 DEF RequestOK
<1>10. ASSUME NEW q \in Request, RequestOK(q) PROVE RequestOK(q)'
  <2>1. q.run \in Nat /\ q.nr \in Nat /\ q.tid \in Nat
    BY DEF Request, TidSet
  <2>2. CASE q.run = used.runs
    <3>1. PICK turns \in Nat : q.tid + Since(q) = tid + turns * Tids
      BY <1>10, <2>2 DEF RequestOK
    <3>2. PICK over \in {0, 1} : tid + 1 = NewTid + over * Tids
      BY NextTid DEF Types
    <3>3. PICK all : all = turns + over
      OBVIOUS
    <3>4. all \in Nat /\ all * Tids = turns * Tids + over * Tids
      BY <1>6, <3>3
    <3>5. Since(q)' = Since(q) + 1 /\ Since(q) \in Int
      BY <1>5, <2>1 DEF Since
    <3>6. q.tid + Since(q)' = tid' + all * Tids
      <4>1. PICK a, b, c : a = turns * Tids /\ b = over * Tids /\ c = all * Tids
        OBVIOUS
      <4>2. PICK x, y : x = Since(q) /\ y = Since(q)'
        OBVIOUS
      <4>3. PICK t, u : t = tid /\ u = tid'
        OBVIOUS
      <4>4. a \in Int /\ b \in Int /\ t \in Int /\ u \in Int /\ x \in Int
        BY <1>1, <1>6, <3>5, <4>1, <4>2, <4>3 DEF Types, TidSet
      <4>5. /\ q.tid + x = t + a /\ t + 1 = u + b /\ c = a + b /\ y = x + 1
        BY <1>1, <3>1, <3>2, <3>4, <3>5, <4>1, <4>2, <4>3
      <4>6. q.tid + y = u + c
        BY <2>1, <4>4, <4>5
      <4> QED BY <4>1, <4>2, <4>3, <4>6
    <3>7. q.nr < used'.asked
      BY <1>5, <1>10, <2>1, <2>2 DEF RequestOK
    <3>8. \E k \in Nat : q.tid + Since(q)' = tid' + k * Tids
      BY <3>4, <3>6
    <3>9. q.nr =< used'.asked /\ q.nr # used'.asked
      BY <1>5, <2>1, <3>7
    <3> QED BY <1>2, <1>4, <1>5, <1>10, <2>2, <3>8, <3>9 DEF RequestOK
  <2>3. CASE q.run # used.runs
    BY <1>5, <1>10, <2>3 DEF RequestOK
  <2> QED BY <2>2, <2>3
<1>11. RequestInv'
  BY <1>1, <1>9, <1>10 DEF RequestInv, AirOK, SockOK, Types
<1> QED BY <1>2, <1>4, <1>8, <1>11, EchonetPoll DEF Kept, Matching

\* A frame more in the socket.
LEMMA Arrives ==
    ASSUME Types, RequestInv, NEW f \in Frame, sock' = Append(sock, f),
           f.esv # "INF" => f.asked \in air /\ f.tid = f.asked.tid,
           air' \subseteq air, UNCHANGED <<clock, polls, tid>>,
           used' \in UsedSet, Unasked
    PROVE  Kept /\ Matching
<1>1. Types'
  BY DEF Types, UsedSet
<1>2. ASSUME NEW q, RequestOK(q) PROVE RequestOK(q)'
  BY <1>2 DEF RequestOK, Since, Unasked
<1>3. AirOK'
  BY <1>2 DEF RequestInv, AirOK
<1>4. SockOK'
  <2> SUFFICES ASSUME NEW i \in DOMAIN sock', sock'[i].esv # "INF"
               PROVE  (/\ sock[i].asked \in Request
                       /\ sock[i].tid = sock[i].asked.tid
                       /\ RequestOK(sock[i].asked))'
    BY DEF SockOK
  <2>1. CASE i \in DOMAIN sock
    <3>1. sock'[i] = sock[i]
      BY <2>1 DEF Types
    <3> QED BY <2>1, <3>1, <1>2 DEF RequestInv, SockOK
  <2>2. CASE i \notin DOMAIN sock
    <3>1. sock'[i] = f
      BY <2>2 DEF Types
    <3> QED BY <3>1, <1>2 DEF RequestInv, AirOK, Types
  <2> QED BY <2>1, <2>2
<1> QED BY <1>1, <1>3, <1>4, EchonetPoll DEF Kept, Matching, RequestInv

LEMMA AnswerKeeps ==
    ASSUME Types, RequestInv, NEW q \in air, Answer(q)
    PROVE  Kept /\ Matching
<1>1. PICK known \in SUBSET MetricsOf[q.eoj], esv \in {"GetRes", "GetSNA"} :
        sock' = Append(sock, [esv |-> esv, tid |-> q.tid, metrics |-> known, asked |-> q])
  BY DEF Answer
<1> DEFINE f == [esv |-> esv, tid |-> q.tid, metrics |-> known, asked |-> q]
<1>2. q \in Request /\ q.eoj \in Eojs /\ q.tid \in TidSet
  BY DEF Types, Request
<1>3. known \subseteq Metrics
  BY <1>2 DEF Metrics
<1>4. f \in Frame /\ f.asked = q /\ f.tid = q.tid
  BY <1>2, <1>3 DEF Frame
<1> HIDE DEF f
<1>5. sock' = Append(sock, f)
  BY <1>1 DEF f
<1> QED BY <1>4, <1>5, Arrives, Counted DEF Answer

LEMMA NotifyKeeps ==
    ASSUME Types, RequestInv, NEW e \in Eojs, Notify(e)
    PROVE  Kept /\ Matching
<1> DEFINE f == [esv |-> "INF", tid |-> 0, metrics |-> MetricsOf[e], asked |-> Nil]
<1>1. f \in Frame /\ f.esv = "INF"
  <2>1. 0 \in TidSet
    BY ConstantsAssumption DEF TidSet
  <2> QED BY <2>1 DEF Frame, Metrics
<1>2. sock' = Append(sock, f)
  BY DEF Notify
<1> HIDE DEF f
<1> QED BY <1>1, <1>2, Arrives, Counted DEF Notify

\* Of the last Tids requests of the process one has the id that is expected, the last.
LEMMA ReceiveKeeps ==
    ASSUME Types, RequestInv, Receive
    PROVE  Kept /\ Matching
<1> DEFINE f == Head(sock)
<1>1. /\ polls[Echonet].pc = "asking" /\ sock # <<>> /\ sock' = Tail(sock)
      /\ UNCHANGED <<air, tid, used>>
  BY DEF Receive
<1>2. f \in Frame /\ f = sock[1] /\ 1 \in DOMAIN sock /\ sock' \in Seq(Frame)
  BY <1>1 DEF Types
<1>3. \A i \in DOMAIN sock' : i + 1 \in DOMAIN sock /\ sock'[i] = sock[i + 1]
  BY <1>1 DEF Types
<1>4. f.metrics \subseteq Metrics
  BY <1>2 DEF Frame
<1>5. \/ UNCHANGED <<polls, clock>>
      \/ UNCHANGED clock /\ polls' = [polls EXCEPT ![Echonet].pc = "failed"]
      \/ /\ clock' \in Times /\ Expected(f)
         /\ Decoded(Echonet, {clock'} \X f.metrics, polls[Echonet].todo)
  BY DEF Receive, Types, Times
<1> HIDE DEF f
<1>6. /\ clock' \in Times
      /\ polls' \in [Collectors -> Poll]
      /\ polls'[Echonet].pc = "asking" => polls'[Echonet] = polls[Echonet]
      /\ polls'[Echonet].pc # "off"
      /\ polls'[Echonet].answers > polls[Echonet].answers => Expected(f)
  <2>1. CASE UNCHANGED <<polls, clock>>
    BY <1>1, <2>1, EchonetPoll DEF Types
  <2>2. CASE UNCHANGED clock /\ polls' = [polls EXCEPT ![Echonet].pc = "failed"]
    <3> DEFINE p == [polls[Echonet] EXCEPT !.pc = "failed"]
    <3>1. p \in Poll /\ p.pc = "failed" /\ p.answers = polls[Echonet].answers
      BY EchonetPoll DEF Poll
    <3>2. polls' = [polls EXCEPT ![Echonet] = p]
      BY <2>2 DEF Types
    <3> HIDE DEF p
    <3>3. polls'[Echonet] = p
      BY <3>2, EchonetPoll DEF Types
    <3> QED BY <2>2, <3>1, <3>2, <3>3, EchonetPoll, OnePoll DEF Types
  <2>3. CASE /\ clock' \in Times /\ Expected(f)
             /\ Decoded(Echonet, {clock'} \X f.metrics, polls[Echonet].todo)
    <3> DEFINE rows == {clock'} \X f.metrics
               p == WithRows(polls[Echonet], rows, polls[Echonet].todo)
    <3>1. rows \subseteq Rows
      BY <1>4, <2>3 DEF Rows
    <3>2. p \in Poll /\ p.pc = "storing"
      <4>1. polls[Echonet].todo \in SUBSET Eojs
        BY EchonetPoll DEF Poll
      <4> QED BY <3>1, <4>1, EchonetPoll, WithRowsType
    <3>3. polls' = [polls EXCEPT ![Echonet] = p]
      BY <2>3 DEF Decoded, WithRows
    <3> HIDE DEF p
    <3>4. polls'[Echonet] = p
      BY <3>3, EchonetPoll DEF Types
    <3> QED BY <2>3, <3>2, <3>3, <3>4, EchonetPoll, OnePoll
  <2> QED BY <1>5, <2>1, <2>2, <2>3
<1>7. Types'
  BY <1>1, <1>2, <1>6 DEF Types
<1>8. AsksNothing
  BY <1>1, <1>6 DEF AsksNothing
<1>9. RequestInv'
  BY <1>1, <1>3, <1>8, RequestKept DEF RequestInv, AirOK, SockOK
<1>10. Matching
  <2> SUFFICES ASSUME polls'[Echonet].answers > polls[Echonet].answers, f.esv # "INF",
                      f.asked.run = used.runs, used.asked - f.asked.nr < Tids
               PROVE  f.asked.nr = used.asked /\ f.asked.eoj = polls[Echonet].eoj
    BY DEF Matching, f
  <2>1. f.tid = tid
    BY <1>6 DEF Expected
  <2>2. f.asked \in Request /\ f.tid = f.asked.tid /\ RequestOK(f.asked)
    BY <1>2 DEF RequestInv, SockOK
  <2>3. PICK since \in Nat : since = used.asked - f.asked.nr
    BY <2>2, EchonetPoll DEF RequestOK, Request
  <2>4. PICK turns \in Nat : tid + since = tid + turns * Tids
    BY <2>1, <2>2, <2>3 DEF RequestOK, Since
  <2>5. tid \in Nat /\ Tids \in Nat \ {0}
    BY ConstantsAssumption DEF Types, TidSet
  <2>6. since = turns * Tids
    <3>1. turns * Tids \in Int
      BY <2>5
    <3> QED BY <2>4, <2>5, <3>1
  <2>7. turns = 0
    <3>1. ASSUME turns >= 1 PROVE turns * Tids >= Tids
      BY <2>5, <3>1
    <3> QED BY <2>3, <2>5, <2>6, <3>1
  <2>8. f.asked.nr = used.asked
    <3>1. since = 0
      BY <2>5, <2>6, <2>7
    <3>2. f.asked.nr \in Nat
      BY <2>2 DEF Request
    <3> QED BY <2>3, <3>1, <3>2, EchonetPoll
  <2> QED BY <1>1, <2>2, <2>8 DEF RequestOK
<1> QED BY <1>7, <1>9, <1>10 DEF Kept

-----------------------------------------------------------------------------
(* Every step.                                                             *)

LEMMA EnergyStep == Types /\ RequestInv /\ [Next]_vars => Kept /\ Matching
<1> SUFFICES ASSUME Types, RequestInv, [Next]_vars PROVE Kept /\ Matching
  OBVIOUS
<1>1. ASSUME NEW c \in Collectors,
             \/ Start(c) \/ BeginPoll(c) \/ Fetch(c) \/ PollFails(c) \/ UpsertFails(c)
             \/ Report(c) \/ End(c) \/ \E r \in Rows : Upsert(c, r)
      PROVE  Kept /\ Matching
  <2>1. CASE c = Echonet /\ (Start(c) \/ End(c))
    BY <2>1, StartKeeps, EndKeeps
  <2>2. CASE ~(c = Echonet /\ (Start(c) \/ End(c)))
    BY <1>1, <2>2, QuietCollector, QuietKeeps
  <2> QED BY <2>1, <2>2
<1>2. CASE StartImport \/ ImportBatch \/ ImportFails \/ DropChunks \/ UNCHANGED vars
  BY <1>2, QuietImport, QuietKeeps
<1>3. ASSUME NEW e \in Eojs, Ask(e) \/ Notify(e)
      PROVE  Kept /\ Matching
  BY <1>3, AskKeeps, NotifyKeeps
<1>4. CASE \E q \in air : Answer(q)
  BY <1>4, AnswerKeeps
<1>5. CASE Receive
  BY <1>5, ReceiveKeeps
<1> QED BY <1>1, <1>2, <1>3, <1>4, <1>5 DEF Next

\* A late answer is not taken for the answer to a later request of the process, with any
\* number of objects, polls, answers in any order and notifications between them, as long
\* as fewer than Tids requests were made since: the ids of so many requests in a row are
\* all different.
THEOREM LateAnswersAlwaysSkipped == Spec => LateAnswersSkipped
<1>1. Init => Types /\ RequestInv
  BY TypesInit, RequestInit
<1>2. Types /\ RequestInv /\ [Next]_vars => (Types /\ RequestInv)' /\ [Matching]_vars
  BY EnergyStep DEF Kept
<1>3. Spec => [][Matching]_vars
  BY <1>1, <1>2, PTL DEF Spec
<1> QED BY <1>3 DEF LateAnswersSkipped, Matching

-----------------------------------------------------------------------------
(* What a poll may become.                                                 *)

Failed(p) == [p EXCEPT !.pc = "failed"]

Begun(c) == [Idle EXCEPT !.pc = "poll", !.todo = IF c = Echonet THEN Eojs ELSE {}]

Asked(p, e) == [p EXCEPT !.pc = "asking", !.eoj = e, !.todo = @ \ {e}]

\* One row less is left.
Less(p, r) ==
    [p EXCEPT !.left = @ \ {r},
              !.pc   = IF p.left \ {r} # {} THEN "storing"
                       ELSE IF p.todo = {} THEN "report" ELSE "poll"]

\* The poll of c is as before, or one of these.
LEMMA PollMoves ==
    ASSUME Types, [Next]_vars, NEW c \in Collectors
    PROVE  \/ polls'[c] = polls[c]
           \/ polls'[c] \in {Idle, Off, Failed(polls[c])}
           \/ polls[c] = Idle /\ polls'[c] = Begun(c)
           \/ /\ c \in Fetched /\ polls[c].pc = "poll"
              /\ \E rows \in SUBSET Rows : polls'[c] = WithRows(polls[c], rows, {})
           \/ /\ c = Echonet /\ polls[c].pc = "poll"
              /\ \E e \in polls[c].todo : polls'[c] = Asked(polls[c], e)
           \/ /\ c = Echonet /\ polls[c].pc = "asking"
              /\ \E rows \in SUBSET Rows : polls'[c] = WithRows(polls[c], rows, polls[c].todo)
           \/ /\ polls[c].pc = "storing"
              /\ \E r \in polls[c].left : /\ polls'[c] = Less(polls[c], r)
                                          /\ energy_readings' = [energy_readings EXCEPT ![r] = Live]
<1> DEFINE Goal ==
           \/ polls'[c] = polls[c]
           \/ polls'[c] \in {Idle, Off, Failed(polls[c])}
           \/ polls[c] = Idle /\ polls'[c] = Begun(c)
           \/ /\ c \in Fetched /\ polls[c].pc = "poll"
              /\ \E rows \in SUBSET Rows : polls'[c] = WithRows(polls[c], rows, {})
           \/ /\ c = Echonet /\ polls[c].pc = "poll"
              /\ \E e \in polls[c].todo : polls'[c] = Asked(polls[c], e)
           \/ /\ c = Echonet /\ polls[c].pc = "asking"
              /\ \E rows \in SUBSET Rows : polls'[c] = WithRows(polls[c], rows, polls[c].todo)
           \/ /\ polls[c].pc = "storing"
              /\ \E r \in polls[c].left : /\ polls'[c] = Less(polls[c], r)
                                          /\ energy_readings' = [energy_readings EXCEPT ![r] = Live]
<1>0. polls \in [Collectors -> Poll] /\ Echonet \in Collectors
  BY DEF Types, Collectors
<1>1. ASSUME NEW d \in Collectors, NEW q, polls' = [polls EXCEPT ![d] = q]
      PROVE  polls'[c] = IF c = d THEN q ELSE polls[c]
  BY <1>0, <1>1
<1>2. ASSUME NEW d \in Collectors, Start(d) \/ Report(d) \/ End(d)
      PROVE  Goal
  BY <1>1, <1>2 DEF Start, Report, End
<1>3. ASSUME NEW d \in Collectors, BeginPoll(d)
      PROVE  Goal
  <2>1. polls[d] = Idle /\ polls' = [polls EXCEPT ![d] = Begun(d)]
    BY <1>0, <1>3 DEF BeginPoll, Begun
  <2> QED BY <1>1, <2>1
<1>4. ASSUME NEW d \in Collectors, PollFails(d) \/ UpsertFails(d)
      PROVE  Goal
  <2>1. polls' = [polls EXCEPT ![d] = Failed(polls[d])]
    BY <1>0, <1>4 DEF PollFails, UpsertFails, Failed
  <2> QED BY <1>1, <2>1
<1>5. ASSUME NEW d \in Collectors, Fetch(d)
      PROVE  Goal
  <2>1. PICK ts \in Times :
          polls' = [polls EXCEPT ![d] = WithRows(polls[d], FetchedRows(d, ts), {})]
    BY <1>5 DEF Fetch, Decoded, WithRows
  <2>2. FetchedRows(d, ts) \in SUBSET Rows /\ d \in Fetched /\ polls[d].pc = "poll"
    BY <1>5, RowsOf DEF Fetch, FetchedRows
  <2> QED BY <1>1, <2>1, <2>2
<1>6. ASSUME NEW d \in Collectors, NEW r \in Rows, Upsert(d, r)
      PROVE  Goal
  <2>1. /\ polls[d].pc = "storing" /\ r \in polls[d].left
        /\ energy_readings' = [energy_readings EXCEPT ![r] = Live]
        /\ polls' = [polls EXCEPT ![d] = Less(polls[d], r)]
    BY <1>0, <1>6 DEF Upsert, WithoutRow, Less
  <2> QED BY <1>1, <2>1
<1>7. ASSUME NEW e \in Eojs, Ask(e)
      PROVE  Goal
  <2>1. /\ polls[Echonet].pc = "poll" /\ e \in polls[Echonet].todo
        /\ polls' = [polls EXCEPT ![Echonet] = Asked(polls[Echonet], e)]
    BY <1>0, <1>7 DEF Ask, Asked
  <2> QED BY <1>0, <1>1, <2>1
<1>8. ASSUME Receive
      PROVE  Goal
  <2> DEFINE f == Head(sock)
  <2>1. polls[Echonet].pc = "asking" /\ f \in Frame
    BY <1>8 DEF Receive, Types
  <2>2. f.metrics \subseteq Metrics
    BY <2>1 DEF Frame
  <2>3. \/ UNCHANGED polls
        \/ polls' = [polls EXCEPT ![Echonet].pc = "failed"]
        \/ clock' \in Times /\ Decoded(Echonet, {clock'} \X f.metrics, polls[Echonet].todo)
    BY <1>8 DEF Receive, Types, Times
  <2> HIDE DEF f
  <2>4. CASE polls' = [polls EXCEPT ![Echonet].pc = "failed"]
    <3>1. polls' = [polls EXCEPT ![Echonet] = Failed(polls[Echonet])]
      BY <1>0, <2>4 DEF Failed
    <3> QED BY <1>0, <1>1, <3>1
  <2>5. CASE clock' \in Times /\ Decoded(Echonet, {clock'} \X f.metrics, polls[Echonet].todo)
    <3> DEFINE rows == {clock'} \X f.metrics
    <3>1. rows \in SUBSET Rows
      BY <2>2, <2>5 DEF Rows
    <3> HIDE DEF rows
    <3>2. polls' = [polls EXCEPT ![Echonet] =
                      WithRows(polls[Echonet], rows, polls[Echonet].todo)]
      BY <2>5 DEF Decoded, WithRows, rows
    <3> QED BY <1>0, <1>1, <2>1, <3>1, <3>2
  <2> QED BY <2>3, <2>4, <2>5
<1>9. ASSUME UNCHANGED polls
      PROVE  Goal
  BY <1>9
<1>10. ASSUME StartImport \/ ImportBatch \/ ImportFails \/ DropChunks \/ UNCHANGED vars
              \/ (\E e \in Eojs : Notify(e)) \/ (\E q \in air : Answer(q))
       PROVE  UNCHANGED polls
  BY <1>10 DEF StartImport, ImportBatch, ImportFails, DropChunks, Notify, Answer, vars
<1>11. ASSUME NEW d \in Collectors,
              \/ Start(d) \/ BeginPoll(d) \/ Fetch(d) \/ PollFails(d) \/ UpsertFails(d)
              \/ Report(d) \/ End(d) \/ \E r \in Rows : Upsert(d, r)
       PROVE  Goal
  <2> HIDE DEF Goal
  <2> QED BY <1>2, <1>3, <1>4, <1>5, <1>6, <1>11
<1> HIDE DEF Goal
<1>12. Goal
  BY <1>7, <1>8, <1>9, <1>10, <1>11 DEF Next
<1> QED BY <1>12 DEF Goal

-----------------------------------------------------------------------------
(* What the store and the import may become.                               *)

\* Where a step leaves the store and the import.
LEMMA StoreMoves ==
    ASSUME Types, [Next]_vars
    PROVE  \/ /\ UNCHANGED import
              /\ \/ UNCHANGED energy_readings
                 \/ \E r \in Rows : energy_readings' = [energy_readings EXCEPT ![r] = Live]
           \/ StartImport \/ ImportBatch \/ ImportFails \/ DropChunks
<1> DEFINE Goal ==
           \/ /\ UNCHANGED import
              /\ \/ UNCHANGED energy_readings
                 \/ \E r \in Rows : energy_readings' = [energy_readings EXCEPT ![r] = Live]
           \/ StartImport \/ ImportBatch \/ ImportFails \/ DropChunks
<1>1. ASSUME NEW c \in Collectors,
             \/ Start(c) \/ BeginPoll(c) \/ Fetch(c) \/ PollFails(c) \/ Report(c) \/ End(c)
      PROVE  Goal
  BY <1>1 DEF Start, BeginPoll, Fetch, PollFails, Report, End
<1>2. ASSUME NEW c \in Collectors, UpsertFails(c) \/ \E r \in Rows : Upsert(c, r)
      PROVE  Goal
  <2>1. polls[c].left \subseteq Rows
    BY DEF Types, Poll
  <2> QED BY <1>2, <2>1 DEF UpsertFails, Upsert
<1>3. ASSUME Receive \/ UNCHANGED vars \/ (\E e \in Eojs : Ask(e) \/ Notify(e))
             \/ (\E q \in air : Answer(q))
      PROVE  Goal
  BY <1>3 DEF Receive, Ask, Notify, Answer, vars
<1>4. ASSUME StartImport \/ ImportBatch \/ ImportFails \/ DropChunks PROVE Goal
  BY <1>4
<1> HIDE DEF Goal
<1>5. Goal
  BY <1>1, <1>2, <1>3, <1>4 DEF Next
<1> QED BY <1>5 DEF Goal

\* The clock does not go back.
LEMMA TimePasses ==
    ASSUME Types, [Next]_vars
    PROVE  clock' \in Times /\ clock =< clock'
<1>0. clock \in Nat /\ clock =< MaxTime /\ MaxTime \in Nat
  BY ConstantsAssumption DEF Types, Times
<1>1. ASSUME UNCHANGED clock PROVE clock' \in Times /\ clock =< clock'
  BY <1>0, <1>1 DEF Types
<1>2. ASSUME clock' \in clock..MaxTime PROVE clock' \in Times /\ clock =< clock'
  BY <1>0, <1>2 DEF Times
<1>3. ASSUME Receive \/ DropChunks PROVE UNCHANGED clock \/ clock' \in clock..MaxTime
  BY <1>3 DEF Receive, DropChunks
<1>4. ASSUME NEW c \in Collectors,
             \/ Start(c) \/ BeginPoll(c) \/ Fetch(c) \/ PollFails(c) \/ UpsertFails(c)
             \/ Report(c) \/ End(c) \/ \E r \in Rows : Upsert(c, r)
      PROVE  UNCHANGED clock
  BY <1>4 DEF Start, BeginPoll, Fetch, PollFails, UpsertFails, Report, End, Upsert
<1>5. ASSUME StartImport \/ ImportBatch \/ ImportFails \/ UNCHANGED vars
             \/ (\E e \in Eojs : Ask(e) \/ Notify(e)) \/ (\E q \in air : Answer(q))
      PROVE  UNCHANGED clock
  BY <1>5 DEF StartImport, ImportBatch, ImportFails, Ask, Notify, Answer, vars
<1> QED BY <1>1, <1>2, <1>3, <1>4, <1>5 DEF Next

\* A row the retention has not come to was one it had not come to.
YoungStay == \A r \in Rows : Young(r)' => Young(r)

LEMMA YoungBefore ==
    ASSUME Types, [Next]_vars
    PROVE  YoungStay
<1>1. PICK now, next : now = clock /\ next = clock'
  OBVIOUS
<1>2. now \in Nat /\ next \in Nat /\ now =< next /\ Retention \in Nat
  BY <1>1, TimePasses, ConstantsAssumption DEF Types, Times
<1>3. ASSUME NEW r \in Rows, r[1] + Retention >= next PROVE r[1] + Retention >= now
  <2>1. r[1] \in Nat
    BY DEF Rows, Times
  <2> QED BY <1>2, <1>3, <2>1
<1> QED BY <1>1, <1>3 DEF YoungStay, Young

RowsTyped == energy_readings \in [Rows -> {Nil, Live} \cup DOMAIN Export]

ImportTyped == import \in [at : 0..Len(Export), pc : {"none", "running", "done", "failed"}]

\* Where a batch ends.
LEMMA EndOfBatch ==
    ASSUME ImportTyped
    PROVE  /\ import.at \in Nat /\ Len(Export) \in Nat /\ BatchSize \in Nat \ {0}
           /\ BatchEnd \in import.at..Len(Export)
           /\ BatchEnd =< import.at + BatchSize
           /\ BatchEnd = import.at + BatchSize \/ BatchEnd = Len(Export)
<1>1. import.at \in 0..Len(Export) /\ Len(Export) \in Nat /\ BatchSize \in Nat \ {0}
  BY ConstantsAssumption DEF ImportTyped
<1>2. import.at + BatchSize \in Int /\ Len(Export) \in Int
  BY <1>1
<1>3. BatchEnd = IF import.at + BatchSize =< Len(Export)
                 THEN import.at + BatchSize ELSE Len(Export)
  BY <1>2, MinOfTwo DEF BatchEnd
<1> QED BY <1>1, <1>3

\* After records first to last a row has the last of them that is of it, if one is.
LEMMA ImportedRows ==
    ASSUME RowsTyped, NEW first \in Nat \ {0}, NEW last \in 0..Len(Export),
           Imported(first, last)
    PROVE  /\ RowsTyped'
           /\ \A r \in Rows :
                \/ /\ energy_readings'[r] = energy_readings[r]
                   /\ \A i \in first..last : Export[i] # r
                \/ /\ energy_readings'[r] \in first..last
                   /\ Export[energy_readings'[r]] = r
                   /\ \A i \in first..last : Export[i] = r => i =< energy_readings'[r]
<1> DEFINE of(r) == {i \in first..last : Export[i] = r}
<1>1. \A r \in Rows : of(r) # {} => Max(of(r)) \in of(r) /\ \A i \in of(r) : i =< Max(of(r))
  <2> SUFFICES ASSUME NEW r \in Rows, of(r) # {}
               PROVE  Max(of(r)) \in of(r) /\ \A i \in of(r) : i =< Max(of(r))
    OBVIOUS
  <2>1. PICK S \in SUBSET (first..last) : S = of(r)
    OBVIOUS
  <2> HIDE DEF of
  <2>2. S # {} /\ first \in Int /\ last \in Int
    BY <2>1
  <2>3. Max(S) \in S /\ \A i \in S : i =< Max(S)
    BY <2>2, MaxOfInterval
  <2> QED BY <2>1, <2>3
<1>2. energy_readings' = [r \in Rows |-> IF of(r) = {} THEN energy_readings[r] ELSE Max(of(r))]
  BY DEF Imported
<1>3. DOMAIN Export = 1..Len(Export) /\ Len(Export) \in Nat
  BY ConstantsAssumption
<1>4. first..last \subseteq DOMAIN Export
  BY <1>3
<1>5. ASSUME NEW r \in Rows
      PROVE  \/ /\ energy_readings'[r] = energy_readings[r]
                /\ \A i \in first..last : Export[i] # r
             \/ /\ energy_readings'[r] \in first..last
                /\ Export[energy_readings'[r]] = r
                /\ \A i \in first..last : Export[i] = r => i =< energy_readings'[r]
  BY <1>1, <1>2
<1>6. RowsTyped'
  <2>1. \A r \in Rows : energy_readings'[r] \in {Nil, Live} \cup DOMAIN Export
    BY <1>4, <1>5 DEF RowsTyped
  <2> HIDE DEF of
  <2> QED BY <1>2, <2>1 DEF RowsTyped
<1> QED BY <1>5, <1>6

\* What the retention does to a row.
LEMMA Dropped ==
    ASSUME Types, RowsTyped, DropChunks
    PROVE  /\ RowsTyped'
           /\ \A r \in Rows : \/ energy_readings'[r] = energy_readings[r]
                              \/ energy_readings'[r] = Nil /\ ~Young(r)'
<1>1. PICK end \in Times :
        /\ end + Retention =< clock'
        /\ energy_readings' = [r \in Rows |-> IF r[1] < end THEN Nil ELSE energy_readings[r]]
  BY DEF DropChunks
<1>2. PICK next : next = clock'
  OBVIOUS
<1>3. next \in Nat /\ end \in Nat /\ Retention \in Nat /\ end + Retention =< next
  <2>1. clock' \in Nat
    BY DEF DropChunks, Types, Times
  <2> QED BY <1>1, <1>2, <2>1, ConstantsAssumption DEF Times
<1>4. ASSUME NEW r \in Rows, r[1] < end PROVE ~(r[1] + Retention >= next)
  <2>1. r[1] \in Nat
    BY DEF Rows, Times
  <2> QED BY <1>3, <1>4, <2>1
<1>5. \A r \in Rows : r[1] < end => ~Young(r)'
  BY <1>2, <1>4 DEF Young
<1>6. /\ energy_readings' \in [Rows -> {Nil, Live} \cup DOMAIN Export]
      /\ \A r \in Rows : energy_readings'[r] = IF r[1] < end THEN Nil ELSE energy_readings[r]
  BY <1>1 DEF RowsTyped
<1>7. RowsTyped'
  BY <1>6 DEF RowsTyped
<1> QED BY <1>5, <1>6, <1>7

\* No row goes that the retention has not come to.
Lasting == \A r \in Rows : Young(r)' /\ energy_readings[r] # Nil => energy_readings'[r] # Nil

\* The import and the store keep their types.
LEMMA StoreTyped ==
    ASSUME Types, RowsTyped, ImportTyped, [Next]_vars
    PROVE  RowsTyped' /\ ImportTyped' /\ Lasting
<1>1. Live \in Nat /\ Nil \notin Nat /\ 0 \in 0..Len(Export)
  BY ConstantsAssumption DEF Live
<1>2. import.at + 1 \in Nat \ {0} /\ BatchEnd \in 0..Len(Export)
  BY EndOfBatch
<1>3. ASSUME UNCHANGED energy_readings
      PROVE  RowsTyped' /\ Lasting
  BY <1>3 DEF RowsTyped, Lasting
<1>4. ASSUME NEW r \in Rows, energy_readings' = [energy_readings EXCEPT ![r] = Live]
      PROVE  RowsTyped' /\ Lasting
  BY <1>1, <1>4 DEF RowsTyped, Lasting
<1>5. ASSUME Imported(import.at + 1, BatchEnd)
      PROVE  RowsTyped' /\ Lasting
  BY <1>1, <1>2, <1>5, ImportedRows DEF Lasting
<1>6. ASSUME DropChunks
      PROVE  RowsTyped' /\ Lasting
  BY <1>6, Dropped DEF Lasting
<1>7. ImportTyped'
  BY <1>1, <1>2, StoreMoves DEF ImportTyped, StartImport, ImportBatch, ImportFails, DropChunks
<1>8. RowsTyped' /\ Lasting
  BY <1>3, <1>4, <1>5, <1>6, StoreMoves DEF StartImport, ImportBatch, ImportFails
<1> QED BY <1>7, <1>8

-----------------------------------------------------------------------------
(* The import.                                                             *)

\* A run of the import is between two batches.
AtBatch == import.pc = "running" => \E k \in Nat : import.at = k * BatchSize

\* The young rows of the records a run has been through have them, or what came after.
Through ==
    import.pc \in {"running", "done"} =>
        \A i \in 1..import.at : Young(Export[i]) =>
            energy_readings[Export[i]] \in {Live} \cup
                {j \in DOMAIN Export : Export[j] = Export[i] /\ j >= i}

AtEnd == import.pc = "done" => import.at = Len(Export)

WholeBatches ==
    \A b \in Batches :
        (\E i \in b : energy_readings[Export[i]] = i) =>
            \A i \in b : Young(Export[i]) => energy_readings[Export[i]] # Nil

ImportInv == AtBatch /\ Through /\ AtEnd /\ WholeBatches

\* The records of the export, by number.
LEMMA Records ==
    /\ Len(Export) \in Nat /\ BatchSize \in Nat \ {0}
    /\ \A i : i \in DOMAIN Export <=> i \in Int /\ 1 =< i /\ i =< Len(Export)
    /\ \A i \in DOMAIN Export : Export[i] \in Rows
BY ConstantsAssumption

\* Two batches with a record in common are one.
LEMMA SameBatch ==
    ASSUME NEW B \in Nat \ {0}, NEW q \in Int, NEW k \in Int, NEW i \in Int,
           q * B + 1 =< i, i =< q * B + B, k * B + 1 =< i, i =< k * B + B
    PROVE  q = k
<1>1. ASSUME NEW x \in Int, NEW y \in Int, x * B < y * B + B
      PROVE  x =< y
  <2> SUFFICES ASSUME x > y PROVE FALSE
    OBVIOUS
  <2>1. x - y - 1 \in Nat /\ x = y + 1 + (x - y - 1)
    OBVIOUS
  <2>2. PICK d \in Nat : x = y + 1 + d
    BY <2>1
  <2>3. x * B = y * B + B + d * B /\ d * B \in Nat
    BY <2>2
  <2>4. y * B \in Int /\ x * B \in Int
    OBVIOUS
  <2> QED BY <1>1, <2>3, <2>4
<1>2. q * B < k * B + B /\ k * B < q * B + B
  <2>1. q * B \in Int /\ k * B \in Int
    OBVIOUS
  <2> QED BY <2>1
<1>3. q =< k /\ k =< q
  BY <1>1, <1>2
<1> QED BY <1>3

\* The records of a batch.
LEMMA BatchBounds ==
    ASSUME NEW b \in Batches
    PROVE  \E q \in Int : /\ q * BatchSize + 1 \in DOMAIN Export
                          /\ \A i \in b : i \in DOMAIN Export /\ q * BatchSize + 1 =< i
                                          /\ i =< q * BatchSize + BatchSize
<1>1. PICK first \in DOMAIN Export :
        /\ first % BatchSize = 1 \/ BatchSize = 1
        /\ b = first..Min({first + BatchSize - 1, Len(Export)})
  BY DEF Batches
<1>2. /\ first \in Int /\ 1 =< first /\ first =< Len(Export)
      /\ Len(Export) \in Nat /\ BatchSize \in Nat \ {0}
  BY Records
<1>3. PICK last : last = Min({first + BatchSize - 1, Len(Export)})
  OBVIOUS
<1>4. /\ last \in Int /\ last =< first + BatchSize - 1 /\ last =< Len(Export)
      /\ b = first..last
  <2>1. first + BatchSize - 1 \in Int /\ Len(Export) \in Int
    BY <1>2
  <2>2. last \in Int /\ last = IF first + BatchSize - 1 =< Len(Export)
                               THEN first + BatchSize - 1 ELSE Len(Export)
    BY <1>3, <2>1, MinOfTwo
  <2> QED BY <1>1, <1>2, <1>3, <2>2
<1>5. \A i \in b : i \in DOMAIN Export /\ first =< i /\ i =< first + BatchSize - 1
  <2> SUFFICES ASSUME NEW i \in b
               PROVE  i \in DOMAIN Export /\ first =< i /\ i =< first + BatchSize - 1
    OBVIOUS
  <2>1. i \in Int /\ first =< i /\ i =< last
    BY <1>2, <1>4
  <2> QED BY <1>2, <1>4, <2>1, Records
<1>6. PICK q \in Int : first = q * BatchSize + 1
  <2>1. CASE BatchSize = 1
    <3>1. first - 1 \in Int /\ first = (first - 1) * BatchSize + 1
      BY <1>2, <2>1
    <3> QED BY <3>1
  <2>2. CASE first % BatchSize = 1
    <3>1. first = (first \div BatchSize) * BatchSize + 1 /\ first \div BatchSize \in Int
      BY <1>2, <2>2
    <3> QED BY <3>1
  <2> QED BY <1>1, <2>1, <2>2
<1>7. PICK m : m = q * BatchSize
  OBVIOUS
<1>8. m \in Int
  BY <1>2, <1>6, <1>7
<1>9. m + 1 \in DOMAIN Export
      /\ \A i \in b : i \in DOMAIN Export /\ m + 1 =< i /\ i =< m + BatchSize
  <2>1. first = m + 1 /\ first + BatchSize - 1 = m + BatchSize
    BY <1>2, <1>6, <1>7, <1>8
  <2> QED BY <1>5, <2>1
<1> QED BY <1>7, <1>9

\* A run starts with nothing behind it, and a row with Live was measured since.
LEMMA ImportInit == Init => ImportInv
<1> SUFFICES ASSUME Init PROVE ImportInv
  OBVIOUS
<1>1. AtBatch /\ Through /\ AtEnd
  BY DEF Init, AtBatch, Through, AtEnd
<1>2. ASSUME NEW b \in Batches, NEW i \in b PROVE energy_readings[Export[i]] # i
  <2>1. i \in DOMAIN Export /\ i \in Nat /\ Export[i] \in Rows
    BY BatchBounds, ConstantsAssumption
  <2> QED BY <2>1, ConstantsAssumption DEF Init
<1> QED BY <1>1, <1>2 DEF ImportInv, WholeBatches

\* What a batch stores.
LEMMA BatchStored ==
    ASSUME RowsTyped, ImportTyped, Imported(import.at + 1, BatchEnd)
    PROVE  \A i \in DOMAIN Export :
             \/ /\ energy_readings'[Export[i]] = energy_readings[Export[i]]
                /\ i \notin (import.at + 1)..BatchEnd
             \/ /\ energy_readings'[Export[i]] \in (import.at + 1)..BatchEnd
                /\ energy_readings'[Export[i]] \in DOMAIN Export
                /\ Export[energy_readings'[Export[i]]] = Export[i]
                /\ i =< BatchEnd => energy_readings'[Export[i]] >= i
<1>1. import.at + 1 \in Nat \ {0} /\ BatchEnd \in 0..Len(Export)
      /\ import.at \in Nat /\ Len(Export) \in Nat
  BY EndOfBatch
<1> SUFFICES ASSUME NEW i \in DOMAIN Export
             PROVE  \/ /\ energy_readings'[Export[i]] = energy_readings[Export[i]]
                       /\ i \notin (import.at + 1)..BatchEnd
                    \/ /\ energy_readings'[Export[i]] \in (import.at + 1)..BatchEnd
                       /\ energy_readings'[Export[i]] \in DOMAIN Export
                       /\ Export[energy_readings'[Export[i]]] = Export[i]
                       /\ i =< BatchEnd => energy_readings'[Export[i]] >= i
  OBVIOUS
<1>2. PICK r \in Rows : r = Export[i]
  BY ConstantsAssumption
<1>3. PICK e : e = energy_readings'[r]
  OBVIOUS
<1>4. \/ e = energy_readings[r] /\ \A j \in (import.at + 1)..BatchEnd : Export[j] # r
      \/ /\ e \in (import.at + 1)..BatchEnd /\ Export[e] = r
         /\ \A j \in (import.at + 1)..BatchEnd : Export[j] = r => j =< e
  BY <1>1, <1>3, ImportedRows
<1>5. CASE e = energy_readings[r] /\ \A j \in (import.at + 1)..BatchEnd : Export[j] # r
  BY <1>2, <1>3, <1>5
<1>6. CASE /\ e \in (import.at + 1)..BatchEnd /\ Export[e] = r
           /\ \A j \in (import.at + 1)..BatchEnd : Export[j] = r => j =< e
  <2>1. i =< BatchEnd => e >= i
    BY <1>1, <1>2, <1>6
  <2>2. e \in DOMAIN Export
    BY <1>1, <1>6, Records
  <2> QED BY <1>2, <1>3, <1>6, <2>1, <2>2
<1> QED BY <1>4, <1>5, <1>6

\* A batch goes on from where the run was, and its rows are all stored.
LEMMA BatchKeeps ==
    ASSUME RowsTyped, ImportTyped, ImportInv, import.pc = "running", UNCHANGED clock,
           Imported(import.at + 1, BatchEnd)
    PROVE  /\ WholeBatches'
           /\ \A i \in 1..BatchEnd : Young(Export[i])' =>
                energy_readings'[Export[i]] \in {Live} \cup
                    {j \in DOMAIN Export : Export[j] = Export[i] /\ j >= i}
<1>0. \A r : Young(r)' <=> Young(r)
  BY DEF Young
<1>1. /\ import.at \in Nat /\ Len(Export) \in Nat /\ BatchSize \in Nat \ {0}
      /\ BatchEnd \in import.at..Len(Export)
      /\ BatchEnd =< import.at + BatchSize
      /\ BatchEnd = import.at + BatchSize \/ BatchEnd = Len(Export)
  BY EndOfBatch
<1>2. \A i \in 1..BatchEnd : Young(Export[i])' =>
        energy_readings'[Export[i]] \in {Live} \cup
            {j \in DOMAIN Export : Export[j] = Export[i] /\ j >= i}
  <2> SUFFICES ASSUME NEW i \in 1..BatchEnd, Young(Export[i])
               PROVE  energy_readings'[Export[i]] \in {Live} \cup
                          {j \in DOMAIN Export : Export[j] = Export[i] /\ j >= i}
    BY <1>0
  <2>1. i \in DOMAIN Export
    BY <1>1, Records
  <2>2. CASE /\ energy_readings'[Export[i]] = energy_readings[Export[i]]
             /\ i \notin (import.at + 1)..BatchEnd
    <3>1. i \in 1..import.at
      BY <1>1, <2>2
    <3> QED BY <2>2, <3>1 DEF ImportInv, Through
  <2>3. CASE ~(/\ energy_readings'[Export[i]] = energy_readings[Export[i]]
               /\ i \notin (import.at + 1)..BatchEnd)
    BY <1>1, <2>1, <2>3, BatchStored
  <2> QED BY <2>2, <2>3
<1>3. \A i \in DOMAIN Export :
        energy_readings[Export[i]] # Nil \/ i \in (import.at + 1)..BatchEnd =>
            energy_readings'[Export[i]] # Nil
  <2>1. \A i \in (import.at + 1)..BatchEnd : i # Nil
    BY <1>1, ConstantsAssumption
  <2> QED BY <2>1, BatchStored
<1>4. ASSUME NEW b \in Batches, NEW i \in b, energy_readings'[Export[i]] = i, NEW n \in b,
             Young(Export[n])
      PROVE  energy_readings'[Export[n]] # Nil
  <2>1. b \subseteq DOMAIN Export
    BY BatchBounds
  <2>2. CASE energy_readings[Export[i]] = i
    BY <1>3, <1>4, <2>1, <2>2 DEF ImportInv, WholeBatches
  <2>3. CASE energy_readings[Export[i]] # i
    <3>1. i \in (import.at + 1)..BatchEnd
      BY <1>4, <2>1, <2>3, BatchStored
    <3>2. PICK q \in Int : \A j \in b : j \in DOMAIN Export /\ q * BatchSize + 1 =< j
                                        /\ j =< q * BatchSize + BatchSize
      BY BatchBounds
    <3>3. PICK k \in Nat : import.at = k * BatchSize
      BY DEF ImportInv, AtBatch
    <3>4. q = k
      <4>1. /\ q * BatchSize + 1 =< i /\ i =< q * BatchSize + BatchSize /\ i \in Int
        BY <1>1, <3>2, Records
      <4>2. k * BatchSize + 1 =< i /\ i =< k * BatchSize + BatchSize
        BY <1>1, <3>1, <3>3
      <4> QED BY <1>1, <4>1, <4>2, SameBatch
    <3>5. n \in (import.at + 1)..BatchEnd
      <4>1. import.at + 1 =< n /\ n =< import.at + BatchSize /\ n \in 1..Len(Export)
        BY <1>1, <3>2, <3>3, <3>4, Records
      <4> QED BY <1>1, <4>1
    <3> QED BY <1>3, <2>1, <3>5
  <2> QED BY <2>2, <2>3
<1>5. WholeBatches'
  BY <1>0, <1>4 DEF WholeBatches, Batches
<1> QED BY <1>2, <1>5

\* A measurement stored over a record, and a row the retention comes to, leave the import
\* as it was.
LEMMA StoreKeeps ==
    ASSUME ImportTyped, ImportInv, UNCHANGED import, YoungStay,
           \A s \in Rows : \/ energy_readings'[s] = energy_readings[s]
                           \/ energy_readings'[s] = Live
                           \/ energy_readings'[s] = Nil /\ ~Young(s)'
    PROVE  ImportInv'
<1>1. \A i \in DOMAIN Export : i \in Nat \ {0} /\ Export[i] \in Rows
  BY Records
<1>2. WholeBatches'
  <2> SUFFICES ASSUME NEW b \in Batches, NEW i \in b, energy_readings'[Export[i]] = i,
                      NEW n \in b, Young(Export[n])'
               PROVE  energy_readings'[Export[n]] # Nil
    BY DEF WholeBatches, Batches
  <2>1. i \in DOMAIN Export /\ n \in DOMAIN Export
    BY BatchBounds
  <2>2. energy_readings[Export[i]] = i
    BY <1>1, <2>1, ConstantsAssumption DEF Live
  <2>3. energy_readings[Export[n]] # Nil
    BY <1>1, <2>1, <2>2 DEF ImportInv, WholeBatches, YoungStay
  <2> QED BY <1>1, <2>1, <2>3, ConstantsAssumption DEF Live
<1>3. Through'
  <2> SUFFICES ASSUME import.pc \in {"running", "done"}, NEW i \in 1..import.at,
                      Young(Export[i])'
               PROVE  energy_readings'[Export[i]] \in {Live} \cup
                          {j \in DOMAIN Export : Export[j] = Export[i] /\ j >= i}
    BY DEF Through
  <2>1. i \in DOMAIN Export
    BY Records DEF ImportTyped
  <2>2. energy_readings[Export[i]] \in {Live} \cup
            {j \in DOMAIN Export : Export[j] = Export[i] /\ j >= i}
    BY <1>1, <2>1 DEF ImportInv, Through, YoungStay
  <2> QED BY <1>1, <2>1, <2>2
<1> QED BY <1>2, <1>3 DEF ImportInv, AtBatch, AtEnd

LEMMA ImportStep ==
    ASSUME Types, RowsTyped, ImportTyped, ImportInv, [Next]_vars
    PROVE  ImportInv'
<1>0. 0 \in Nat /\ 0 = 0 * BatchSize /\ 1..0 = {}
  BY ConstantsAssumption
<1>1. ASSUME UNCHANGED <<import, energy_readings>> PROVE ImportInv'
  BY <1>1, StoreKeeps, YoungBefore
<1>5. ASSUME UNCHANGED import,
             NEW r \in Rows, energy_readings' = [energy_readings EXCEPT ![r] = Live]
      PROVE  ImportInv'
  <2>1. \A s \in Rows : energy_readings'[s] \in {energy_readings[s], Live}
    BY <1>5 DEF RowsTyped
  <2> QED BY <1>5, <2>1, StoreKeeps, YoungBefore
<1>6. ASSUME DropChunks PROVE ImportInv'
  <2>1. UNCHANGED import
    BY <1>6 DEF DropChunks
  <2> QED BY <1>6, <2>1, StoreKeeps, YoungBefore, Dropped
<1>2. ASSUME StartImport PROVE ImportInv'
  <2>1. import' = [at |-> 0, pc |-> "running"] /\ UNCHANGED <<energy_readings, clock>>
    BY <1>2 DEF StartImport
  <2> QED BY <1>0, <2>1 DEF ImportInv, AtBatch, Through, AtEnd, WholeBatches, Batches, Young
<1>3. ASSUME ImportBatch PROVE ImportInv'
  <2>1. /\ import.pc = "running" /\ Imported(import.at + 1, BatchEnd)
        /\ import'.at = BatchEnd
        /\ import'.pc = IF BatchEnd = Len(Export) THEN "done" ELSE "running"
        /\ UNCHANGED clock
    BY <1>3 DEF ImportBatch
  <2>2. AtBatch'
    <3>1. PICK k \in Nat : import.at = k * BatchSize
      BY <2>1 DEF ImportInv, AtBatch
    <3>2. import.at + BatchSize = (k + 1) * BatchSize /\ k + 1 \in Nat
      BY <3>1, EndOfBatch
    <3>3. import'.pc = "running" => import'.at = import.at + BatchSize
      BY <2>1, EndOfBatch
    <3> QED BY <3>2, <3>3 DEF AtBatch
  <2>3. WholeBatches' /\ Through'
    BY <2>1, BatchKeeps DEF Through
  <2> QED BY <2>1, <2>2, <2>3 DEF ImportInv, AtEnd
<1>4. ASSUME ImportFails PROVE ImportInv'
  <2>1. /\ import.pc = "running" /\ import'.pc = "failed"
        /\ Imported(import.at + 1, BatchEnd) \/ UNCHANGED energy_readings
        /\ UNCHANGED clock
    BY <1>4 DEF ImportFails, ImportTyped
  <2>2. WholeBatches'
    BY <2>1, BatchKeeps DEF ImportInv, WholeBatches, Batches, Young
  <2> QED BY <2>1, <2>2 DEF ImportInv, AtBatch, Through, AtEnd
<1> QED BY <1>1, <1>2, <1>3, <1>4, <1>5, <1>6, StoreMoves

-----------------------------------------------------------------------------
(* What a poll has stored.                                                 *)

UnderWay(p) == p.pc \in {"poll", "asking", "storing", "report"}

\* Each request of an ECHONET poll is to be made, is made, or is answered.
RequestsOf(p) ==
    p.answers + Cardinality(p.todo) + (IF p.pc = "asking" THEN 1 ELSE 0) = Cardinality(Eojs)

OneAnswer(p) ==
    p.pc # "asking" /\ p.todo = {} /\ p.answers = IF p.pc = "poll" THEN 0 ELSE 1

\* What is not left is stored, but for rows that are not young, and nothing is left once
\* the poll goes on.
StoredIn(p, store, young) ==
    /\ \A r \in (p.rows \ p.left) \cap young : store[r] # Nil
    /\ p.pc # "storing" => p.left = {}
    /\ p.pc = "report" => p.todo = {}

Sound(c, p, store, young) ==
    /\ p.left \subseteq p.rows
    /\ p.pc = "idle" => p = Idle
    /\ UnderWay(p) => /\ StoredIn(p, store, young)
                      /\ IF c = Echonet THEN RequestsOf(p) ELSE OneAnswer(p)

YoungRows == {r \in Rows : Young(r)}

PollsSound == \A c \in Collectors : Sound(c, polls[c], energy_readings, YoungRows)

\* From the store S to the store T: a row that is young stays, and none becomes young.
Grows(S, T, young, next) ==
    next \subseteq young /\ \A r \in next : S[r] # Nil => T[r] # Nil

\* A poll that is over, or not begun.
LEMMA SoundAtRest ==
    ASSUME NEW c \in Collectors, NEW p \in Poll, NEW S, NEW T, NEW Y, NEW Z,
           Sound(c, p, S, Y), Grows(S, T, Y, Z)
    PROVE  Sound(c, p, T, Z) /\ Sound(c, Idle, T, Z) /\ Sound(c, Off, T, Z) /\ Sound(c, Failed(p), T, Z)
<1>1. p.rows \subseteq Rows
  BY DEF Poll
<1>2. Sound(c, p, T, Z)
  BY <1>1 DEF Sound, StoredIn, Grows
<1>3. Sound(c, Idle, T, Z) /\ Sound(c, Off, T, Z)
  BY DEF Sound, Idle, Off, UnderWay
<1>4. Sound(c, Failed(p), T, Z)
  <2>1. Failed(p).left = p.left /\ Failed(p).rows = p.rows /\ Failed(p).pc = "failed"
    BY DEF Failed, Poll
  <2> QED BY <2>1 DEF Sound, UnderWay
<1> QED BY <1>2, <1>3, <1>4

\* A poll that begins has everything to ask for.
LEMMA SoundBegun ==
    ASSUME NEW c \in Collectors, NEW T, NEW Z
    PROVE  Sound(c, Begun(c), T, Z)
<1>1. PICK p : p = Begun(c)
  OBVIOUS
<1>2. /\ p.pc = "poll" /\ p.left = {} /\ p.rows = {} /\ p.answers = 0
      /\ p.todo = IF c = Echonet THEN Eojs ELSE {}
  BY <1>1 DEF Begun, Idle
<1>3. Cardinality(Eojs) \in Nat
  BY ConstantsAssumption, FS_CardinalityType
<1>4. c = Echonet => RequestsOf(p)
  BY <1>2, <1>3 DEF RequestsOf
<1> QED BY <1>1, <1>2, <1>4 DEF Sound, StoredIn, OneAnswer

\* One object less is to be asked, and is asked.
LEMMA SoundAsked ==
    ASSUME NEW p \in Poll, NEW S, NEW T, NEW Y, NEW Z,
           Sound(Echonet, p, S, Y), Grows(S, T, Y, Z),
           p.pc = "poll", NEW e \in p.todo
    PROVE  Sound(Echonet, Asked(p, e), T, Z)
<1>1. PICK q : q = Asked(p, e)
  OBVIOUS
<1>2. /\ q.pc = "asking" /\ q.left = p.left /\ q.rows = p.rows /\ q.answers = p.answers
      /\ q.todo = p.todo \ {e}
  BY <1>1 DEF Asked, Poll
<1>3. IsFiniteSet(p.todo) /\ Cardinality(p.todo) \in Nat /\ Cardinality(q.todo) \in Nat
      /\ Cardinality(q.todo) = Cardinality(p.todo) - 1
  <2>1. p.todo \subseteq Eojs
    BY DEF Poll
  <2>2. IsFiniteSet(p.todo)
    BY <2>1, ConstantsAssumption, FS_Subset
  <2>3. IsFiniteSet(q.todo) /\ Cardinality(q.todo) = Cardinality(p.todo) - 1
    BY <1>2, <2>2, FS_RemoveElement
  <2> QED BY <2>2, <2>3, FS_CardinalityType
<1>4. RequestsOf(q)
  <2>1. p.answers + Cardinality(p.todo) = Cardinality(Eojs) /\ p.answers \in Nat
    <3>1. p.answers + Cardinality(p.todo) + 0 = Cardinality(Eojs) /\ p.answers \in Nat
      BY DEF Sound, UnderWay, RequestsOf, Poll
    <3> QED BY <1>3, <3>1
  <2> QED BY <1>2, <1>3, <2>1 DEF RequestsOf
<1>5. StoredIn(q, T, Z) /\ q.left \subseteq q.rows
  BY <1>2 DEF Sound, UnderWay, StoredIn, Grows, Poll
<1> QED BY <1>1, <1>2, <1>4, <1>5 DEF Sound

\* Rows were decoded: they are all left.
LEMMA SoundWithRows ==
    ASSUME NEW c \in Collectors, NEW p \in Poll, NEW S, NEW T, NEW Y, NEW Z,
           Sound(c, p, S, Y), Grows(S, T, Y, Z),
           NEW rows \in SUBSET Rows, NEW todo,
           \/ c = Echonet /\ p.pc = "asking" /\ todo = p.todo
           \/ c # Echonet /\ p.pc = "poll" /\ todo = {}
    PROVE  Sound(c, WithRows(p, rows, todo), T, Z)
<1>1. PICK q : q = WithRows(p, rows, todo)
  OBVIOUS
<1>2. PICK all, n : all = p.rows \cup rows /\ n = p.answers + 1
  OBVIOUS
<1>3. q = [p EXCEPT !.pc = "storing", !.todo = todo, !.left = rows, !.rows = all, !.answers = n]
  BY <1>1, <1>2 DEF WithRows
<1>4. q.pc = "storing" /\ q.todo = todo /\ q.left = rows /\ q.rows = all /\ q.answers = n
  BY <1>3 DEF Poll
<1>5. UnderWay(p) /\ p.pc # "storing" /\ p.left = {}
  BY DEF Sound, UnderWay, StoredIn
<1>6. StoredIn(q, T, Z) /\ q.left \subseteq q.rows
  BY <1>2, <1>4, <1>5 DEF Sound, StoredIn, Grows, Poll
<1>7. CASE c = Echonet
  <2>1. IsFiniteSet(p.todo) /\ p.answers \in Nat
    BY ConstantsAssumption, FS_Subset DEF Poll
  <2>2. Cardinality(p.todo) \in Nat
    BY <2>1, FS_CardinalityType
  <2>3. p.answers + Cardinality(p.todo) + 1 = Cardinality(Eojs)
    BY <1>5, <1>7 DEF Sound, RequestsOf
  <2>4. RequestsOf(q)
    BY <1>2, <1>4, <1>7, <2>1, <2>2, <2>3 DEF RequestsOf
  <2> QED BY <1>1, <1>4, <1>6, <1>7, <2>4 DEF Sound
<1>8. CASE c # Echonet
  <2>1. p.answers = 0
    BY <1>5, <1>8 DEF Sound, OneAnswer
  <2> QED BY <1>1, <1>2, <1>4, <1>6, <1>8, <2>1 DEF Sound, OneAnswer
<1> QED BY <1>7, <1>8

\* A row that is stored is no longer left.
LEMMA SoundLess ==
    ASSUME NEW c \in Collectors, NEW p \in Poll, NEW S, NEW T, NEW Y, NEW Z,
           Sound(c, p, S, Y), Grows(S, T, Y, Z),
           p.pc = "storing", NEW r \in p.left, T[r] # Nil
    PROVE  Sound(c, Less(p, r), T, Z)
<1>1. PICK q : q = Less(p, r)
  OBVIOUS
<1>2. PICK left : left = p.left \ {r}
  OBVIOUS
<1>3. /\ q.pc = IF left # {} THEN "storing" ELSE IF p.todo = {} THEN "report" ELSE "poll"
      /\ q.todo = p.todo /\ q.left = left /\ q.rows = p.rows /\ q.answers = p.answers
  BY <1>1, <1>2 DEF Less, Poll
<1>4. UnderWay(p) /\ StoredIn(p, S, Y) /\ p.left \subseteq p.rows /\ p.rows \subseteq Rows
  BY DEF Sound, UnderWay, Poll
<1>5. StoredIn(q, T, Z) /\ q.left \subseteq q.rows
  BY <1>2, <1>3, <1>4 DEF StoredIn, Grows
<1>6. IF c = Echonet THEN RequestsOf(q) ELSE OneAnswer(q)
  <2>1. q.pc # "asking" /\ p.pc # "asking"
    BY <1>3
  <2>2. CASE c = Echonet
    BY <1>3, <1>4, <2>1, <2>2 DEF Sound, RequestsOf
  <2>3. CASE c # Echonet
    BY <1>3, <1>4, <2>1, <2>3 DEF Sound, OneAnswer
  <2> QED BY <2>2, <2>3
<1> QED BY <1>1, <1>3, <1>5, <1>6 DEF Sound

LEMMA PollsSoundStep ==
    ASSUME Types, RowsTyped, ImportTyped, PollsSound, [Next]_vars
    PROVE  PollsSound'
<1> SUFFICES ASSUME NEW c \in Collectors
             PROVE  Sound(c, polls'[c], energy_readings', YoungRows')
  BY DEF PollsSound, Collectors
<1>1. PICK p, q, S, T, Y, Z : /\ p = polls[c] /\ q = polls'[c]
                              /\ S = energy_readings /\ T = energy_readings'
                              /\ Y = YoungRows /\ Z = YoungRows'
  OBVIOUS
<1>2. p \in Poll /\ Sound(c, p, S, Y)
  BY <1>1 DEF Types, PollsSound
<1>3. Grows(S, T, Y, Z)
  BY <1>1, StoreTyped, YoungBefore DEF Grows, Lasting, YoungStay, YoungRows
<1>4. ASSUME NEW r \in p.left, T = [S EXCEPT ![r] = Live] PROVE T[r] # Nil
  BY <1>1, <1>2, <1>4, ConstantsAssumption DEF Poll, RowsTyped, Live
<1>5. \/ q = p \/ q \in {Idle, Off, Failed(p)} \/ q = Begun(c)
      \/ c # Echonet /\ p.pc = "poll" /\ \E rows \in SUBSET Rows : q = WithRows(p, rows, {})
      \/ c = Echonet /\ p.pc = "poll" /\ \E e \in p.todo : q = Asked(p, e)
      \/ /\ c = Echonet /\ p.pc = "asking"
         /\ \E rows \in SUBSET Rows : q = WithRows(p, rows, p.todo)
      \/ p.pc = "storing" /\ \E r \in p.left : q = Less(p, r) /\ T = [S EXCEPT ![r] = Live]
  BY <1>1, PollMoves, ConstantsAssumption
<1>6. Sound(c, q, T, Z)
  BY <1>2, <1>3, <1>4, <1>5, SoundAtRest, SoundBegun, SoundAsked, SoundWithRows, SoundLess
<1> QED BY <1>1, <1>6

-----------------------------------------------------------------------------
(* The rows of collector_status, and the theorems.                         *)

StatusTyped == status \in [Collectors -> Row({0}) \cup {NoRow}]

LEMMA StatusStep ==
    ASSUME StatusTyped, [Next]_vars
    PROVE  StatusTyped'
<1>1. ASSUME NEW row \in Row({0}) \cup {NoRow}
      PROVE  MarkSuccess(row, 0) \in Row({0}) /\ MarkFailure(row, 0) \in Row({0})
  <2>1. CASE row \in Row({0})
    BY <2>1 DEF MarkSuccess, MarkFailure, Row
  <2>2. CASE row = NoRow
    BY <2>2 DEF MarkSuccess, MarkFailure, Row, NoRow
  <2> QED BY <2>1, <2>2
<1>2. ASSUME NEW c \in Collectors, Report(c) PROVE StatusTyped'
  BY <1>1, <1>2 DEF Report, StatusTyped
<1>3. ASSUME UNCHANGED status PROVE StatusTyped'
  BY <1>3 DEF StatusTyped
<1>4. ASSUME NEW c \in Collectors,
             \/ Start(c) \/ BeginPoll(c) \/ Fetch(c) \/ PollFails(c) \/ UpsertFails(c) \/ End(c)
             \/ \E r \in Rows : Upsert(c, r)
      PROVE  UNCHANGED status
  BY <1>4 DEF Start, BeginPoll, Fetch, PollFails, UpsertFails, End, Upsert
<1>5. ASSUME Receive \/ StartImport \/ ImportBatch \/ ImportFails \/ DropChunks \/ UNCHANGED vars
             \/ (\E e \in Eojs : Ask(e) \/ Notify(e)) \/ (\E q \in air : Answer(q))
      PROVE  UNCHANGED status
  BY <1>5 DEF Receive, StartImport, ImportBatch, ImportFails, DropChunks, Ask, Notify, Answer, vars
<1> QED BY <1>2, <1>3, <1>4, <1>5 DEF Next

EnergyInv ==
    Types /\ RequestInv /\ RowsTyped /\ ImportTyped /\ StatusTyped /\ PollsSound /\ ImportInv

LEMMA EnergyInvInit == Init => EnergyInv
<1> SUFFICES ASSUME Init PROVE EnergyInv
  OBVIOUS
<1>1. RowsTyped /\ ImportTyped /\ StatusTyped
  BY ConstantsAssumption DEF Init, RowsTyped, ImportTyped, StatusTyped
<1>2. PollsSound
  BY DEF Init, PollsSound, Sound, Idle, UnderWay
<1> QED BY <1>1, <1>2, TypesInit, RequestInit, ImportInit DEF EnergyInv

LEMMA EnergyInvStep == EnergyInv /\ [Next]_vars => EnergyInv'
BY EnergyStep, StoreTyped, StatusStep, PollsSoundStep, ImportStep DEF EnergyInv, Kept

\* Every variable keeps its type, and what is left to store of a poll is of its rows.
THEOREM TypeCorrect == Spec => []TypeOK
<1>1. EnergyInv => TypeOK
  BY DEF EnergyInv, Types, RowsTyped, ImportTyped, StatusTyped, PollsSound, Sound, TypeOK
<1> QED BY <1>1, EnergyInvInit, EnergyInvStep, PTL DEF Spec

\* A poll that is reported well has an answer to every request and has stored every row it
\* decoded that the retention has not come to, for any objects and whatever the import or
\* other collectors store meanwhile: each request is to be made, is made or is answered,
\* and only the retention takes a row away.
THEOREM SuccessAlwaysStored == Spec => []SuccessIsStored
<1>1. EnergyInv => SuccessIsStored
  <2> SUFFICES ASSUME EnergyInv, NEW c \in Collectors, polls[c].pc = "report"
               PROVE  /\ polls[c].answers = IF c = Echonet THEN Cardinality(Eojs) ELSE 1
                      /\ \A r \in polls[c].rows : Young(r) => energy_readings[r] # Nil
    BY DEF SuccessIsStored
  <2>1. PICK p : p = polls[c]
    OBVIOUS
  <2>2. /\ p \in Poll /\ p.pc = "report" /\ p.left = {} /\ p.todo = {}
        /\ \A r \in p.rows : Young(r) => energy_readings[r] # Nil
        /\ IF c = Echonet THEN RequestsOf(p) ELSE OneAnswer(p)
    BY <2>1 DEF EnergyInv, Types, PollsSound, Sound, UnderWay, StoredIn, YoungRows, Poll
  <2>3. c = Echonet => p.answers = Cardinality(Eojs)
    <3>1. Cardinality(p.todo) = 0 /\ p.answers \in Nat
      BY <2>2, FS_EmptySet DEF Poll
    <3>2. c = Echonet => p.answers + 0 + 0 = Cardinality(Eojs)
      BY <2>2, <3>1 DEF RequestsOf
    <3> QED BY <3>1, <3>2
  <2>4. c # Echonet => p.answers = 1
    BY <2>2 DEF OneAnswer
  <2> QED BY <2>1, <2>2, <2>3, <2>4
<1> QED BY <1>1, EnergyInvInit, EnergyInvStep, PTL DEF Spec

\* Of the rows the retention has not come to, a batch of the import is stored as a whole,
\* and a run that is through has stored the export, for any export, batch size and
\* retention, after runs that failed anywhere, with collectors that write the same rows and
\* chunks that are dropped between batches: runs are cut at the same records.
THEOREM ImportAlwaysWhole == Spec => []ImportIsWhole
<1>1. EnergyInv => ImportIsWhole
  <2> SUFFICES ASSUME EnergyInv PROVE ImportIsWhole
    OBVIOUS
  <2>1. WholeBatches /\ Through /\ AtEnd
    BY DEF EnergyInv, ImportInv
  <2>2. \A i \in DOMAIN Export : i \in 1..Len(Export)
    BY Records
  <2> QED BY <2>1, <2>2 DEF ImportIsWhole, WholeBatches, Through, AtEnd
<1> QED BY <1>1, EnergyInvInit, EnergyInvStep, PTL DEF Spec
=============================================================================
