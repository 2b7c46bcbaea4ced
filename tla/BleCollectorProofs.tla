------------------------- MODULE BleCollectorProofs -------------------------
(***************************************************************************)
(* Theorems about BleCollector, for any targets and metrics, any sizes of  *)
(* the filter, polls and flushes in any order, and any number of failed    *)
(* writes, lost sessions, stops and crashes.                               *)
(***************************************************************************)
EXTENDS BleCollector, NumberLemmas

-----------------------------------------------------------------------------
(* Types of the filter.                                                    *)

History ==
    [accepted : {s \in Seq(Numbers) : Len(s) =< HistorySize},
     pending  : [value : Numbers, ts : Times] \cup {NoPending}]

LEMMA Constants ==
    /\ Sensible \subseteq Numbers /\ Numbers \subseteq Int
    /\ Times \subseteq Nat /\ 0 \in Times
    /\ Nil \notin Int /\ Nil \notin Sensible
    /\ HistorySize \in Nat \ {0} /\ MinAccepted \in Nat \ {0}
<1>1. Sensible \subseteq Values
  BY ConstantsAssumption
<1>2. \A v \in Values : \E n \in -100..100 : v = 4 * n
  BY ConstantsAssumption
<1>3. \A v \in Values : v \in -400..400
  BY <1>2
<1>4. Numbers \subseteq Int
  BY DEF Numbers
<1>5. Sensible \subseteq Numbers
  BY <1>1, <1>3 DEF Numbers
<1>6. Times \subseteq Nat /\ 0 \in Times
  BY ConstantsAssumption DEF Times
<1>7. Nil \notin Int /\ HistorySize \in Nat \ {0} /\ MinAccepted \in Nat \ {0}
  BY ConstantsAssumption
<1> QED BY <1>4, <1>5, <1>6, <1>7

\* The medians of samples and of accepted values are numbers, never Nil.
LEMMA MedianNumber ==
    ASSUME NEW S \in SUBSET Numbers, NEW s \in Seq(S), s # <<>>
    PROVE  Median(s) \in Numbers /\ Median(s) \in Int /\ Median(s) # Nil
<1>1. PICK a \in Int, b \in Int : a = -400 /\ b = 400
  OBVIOUS
<1>2. Numbers = a..b
  BY <1>1 DEF Numbers
<1>3. S \in SUBSET (a..b)
  <2>1. \A x \in Numbers : x \in Int /\ a =< x /\ x =< b
    BY <1>2
  <2>2. \A x \in S : x \in a..b
    BY <2>1
  <2> QED BY <2>2
<1>4. Median(s) \in Int /\ Median(s) \in a..b
  BY <1>3, MedianOfSamples
<1> QED BY <1>2, <1>4, Constants

LEMMA AcceptType ==
    ASSUME NEW h \in History, NEW v \in Numbers
    PROVE  Accept(h, v) \in History /\ Accept(h, v).pending = NoPending
<1>1. PICK s \in Seq(Numbers) : s = Append(h.accepted, v)
  <2>1. h.accepted \in Seq(Numbers)
    BY DEF History
  <2>2. Append(h.accepted, v) \in Seq(Numbers)
    BY <2>1
  <2> QED BY <2>2
<1>2. LastOf(s, HistorySize) \in Seq(Numbers) /\ Len(LastOf(s, HistorySize)) =< HistorySize
  <2>1. HistorySize \in Nat \ {0}
    BY Constants
  <2> QED BY <2>1, LastOfType
<1>3. PICK last : last = LastOf(s, HistorySize)
  OBVIOUS
<1>4. Accept(h, v) = [accepted |-> last, pending |-> NoPending]
  BY <1>1, <1>3 DEF Accept
<1> QED BY <1>2, <1>3, <1>4 DEF History

\* What the filter makes of a median: it is let through or held back, and a median that
\* is far from what was accepted is let through only if the pending one confirms it.
FilterOK(h, k, t, v, f) ==
    /\ f.history \in History
    /\ f.value = v \/ f.value = Nil
    /\ \/ f.history.pending = h.pending
       \/ f.history.pending = NoPending
       \/ v # Nil /\ f.history.pending = [value |-> v, ts |-> t]
    /\ f.value # Nil /\ Threshold[k] > 0 /\ Len(h.accepted) >= MinAccepted
       /\ ~Near(v, Median(h.accepted), k) => Confirmed(h, k, t, v)

LEMMA FilterMoves ==
    ASSUME NEW h \in History, NEW k \in Metrics, NEW t \in Times, NEW v \in Numbers \cup {Nil}
    PROVE  FilterOK(h, k, t, v, FilterMetric(h, k, t, v))
<1>0. Threshold[k] \in Nat /\ Len(h.accepted) \in Nat /\ MinAccepted \in Nat
  BY ConstantsAssumption DEF History
<1>1. CASE v = Nil \/ Threshold[k] = 0
  <2>1. FilterMetric(h, k, t, v) = [value |-> v, history |-> h]
    BY <1>1 DEF FilterMetric
  <2> QED BY <1>0, <1>1, <2>1 DEF FilterOK
<1>2. CASE ~(v = Nil \/ Threshold[k] = 0)
  <2>0. v \in Numbers
    BY <1>2
  <2>1. CASE Len(h.accepted) < MinAccepted \/ Near(v, Median(h.accepted), k)
    <3>1. FilterMetric(h, k, t, v) = [value |-> v, history |-> Accept(h, v)]
      BY <1>2, <2>1 DEF FilterMetric
    <3> QED BY <1>0, <2>0, <2>1, <3>1, AcceptType DEF FilterOK
  <2>2. CASE /\ ~(Len(h.accepted) < MinAccepted \/ Near(v, Median(h.accepted), k))
             /\ Confirmed(h, k, t, v)
    <3>1. PICK a : a = Accept(h, h.pending.value)
      OBVIOUS
    <3>2. FilterMetric(h, k, t, v) = [value |-> v, history |-> Accept(a, v)]
      BY <1>2, <2>2, <3>1 DEF FilterMetric
    <3>3. h.pending.value \in Numbers
      BY <2>2 DEF Confirmed, History
    <3>4. a \in History
      BY <3>1, <3>3, AcceptType
    <3> QED BY <2>0, <2>2, <3>2, <3>4, AcceptType DEF FilterOK
  <2>3. CASE /\ ~(Len(h.accepted) < MinAccepted \/ Near(v, Median(h.accepted), k))
             /\ ~Confirmed(h, k, t, v)
    <3>1. PICK p : p = [value |-> v, ts |-> t]
      OBVIOUS
    <3>2. PICK g : g = [h EXCEPT !.pending = p]
      OBVIOUS
    <3>3. FilterMetric(h, k, t, v) = [value |-> Nil, history |-> g]
      BY <1>2, <2>3, <3>1, <3>2 DEF FilterMetric
    <3>4. p \in [value : Numbers, ts : Times]
      BY <2>0, <3>1
    <3>5. g \in History /\ g.pending = p
      BY <3>2, <3>4 DEF History
    <3> QED BY <1>2, <3>1, <3>3, <3>5 DEF FilterOK
  <2> QED BY <2>1, <2>2, <2>3
<1> QED BY <1>1, <1>2

-----------------------------------------------------------------------------
(* The invariant.                                                          *)

LogSet ==
    [heard : [Devices -> [Times -> [Metrics -> Seq(Sensible)]]],
     held : SUBSET (Minutes \X Metrics), retried : SUBSET Minutes, cut : SUBSET Minutes]

UsedSet == [readings : Nat, faults : Nat]

RowsType == sensor_minute \in [Devices -> [Times -> [Metrics -> Numbers \cup {Nil}]]]

WindowsType == windows \in [Devices -> [Times -> Window]]

HistoryType == history \in [Devices -> [Metrics -> History]]

Types ==
    /\ clock \in Times
    /\ RowsType
    /\ status \in Row(Times) \cup {NoRow}
    /\ WindowsType
    /\ HistoryType
    /\ main \in MainState
    /\ used \in UsedSet
    /\ log \in LogSet

\* A minute in which nothing more is heard: it is over, or the process is.
Closed(t) == t < clock \/ (main.pc = "stopping" /\ t = clock)

\* Only closed minutes are flushed.
TodoClosed ==
    \A w \in main.todo : Closed(w[2]) /\ main.pc \in {"flushing", "stopping"}

NoWindowAhead ==
    \A m \in Devices, t \in Times : windows[m][t] # NoWindow => t =< clock

\* A window has all that was heard in its minute until the minute is closed and flushed.
WindowHasAll ==
    \A m \in Devices, t \in Times :
        <<m, t>> \notin log.cut =>
            \/ windows[m][t].samples = log.heard[m][t]
            \/ windows[m][t] = NoWindow /\ Closed(t)

WindowWasHeard ==
    \A m \in Devices, t \in Times, k \in Metrics :
        windows[m][t].samples[k] # <<>> => log.heard[m][t][k] # <<>>

\* A row is the median of a closed minute.
RowsClosed ==
    \A m \in Devices, t \in Times, k \in Metrics :
        <<m, t>> \notin log.cut /\ sensor_minute[m][t][k] # Nil =>
            Closed(t) /\ sensor_minute[m][t][k] = Median(log.heard[m][t][k])

NothingLost ==
    \A m \in Devices, t \in Times, k \in Metrics :
        log.heard[m][t][k] # <<>> /\ <<m, t>> \notin log.cut =>
            \/ windows[m][t].samples[k] # <<>>
            \/ sensor_minute[m][t][k] # Nil
            \/ <<<<m, t>>, k>> \in log.held

\* A pending value is the median of another minute, or of this one if a write of it
\* failed and the window is still there.
PendingHeard ==
    \A m \in Devices, k \in Metrics :
        LET p == history[m][k].pending IN
        p # NoPending =>
            /\ Closed(p.ts)
            /\ log.heard[m][p.ts][k] # <<>>
            /\ p.value = Median(log.heard[m][p.ts][k]) \/ <<m, p.ts>> \in log.cut
            /\ windows[m][p.ts] # NoWindow => <<m, p.ts>> \in log.retried

Sound ==
    /\ TodoClosed /\ NoWindowAhead /\ WindowHasAll /\ WindowWasHeard
    /\ RowsClosed /\ NothingLost /\ PendingHeard

BleInv == Types /\ Sound

-----------------------------------------------------------------------------
(* A flush.                                                                *)

\* The samples of a window, and their median.
LEMMA SamplesOf ==
    ASSUME Types, NEW m \in Devices, NEW t \in Times, NEW k \in Metrics
    PROVE  LET s == windows[m][t].samples[k] IN
           /\ s \in Seq(Sensible)
           /\ s # <<>> => Median(s) \in Numbers /\ Median(s) # Nil /\ windows[m][t] # NoWindow
<1>1. windows[m][t] \in Window
  BY DEF Types, WindowsType
<1>2. windows[m][t].samples[k] \in Seq(Sensible)
  BY <1>1 DEF Window
<1>3. windows[m][t] = NoWindow => windows[m][t].samples[k] = <<>>
  BY DEF NoWindow
<1> QED BY <1>2, <1>3, MedianNumber, Constants

LEMMA NoWindowType == NoWindow \in Window
<1>1. PICK empty : empty = [k \in Metrics |-> <<>>]
  OBVIOUS
<1>2. <<>> \in Seq(Sensible)
  OBVIOUS
<1>3. empty \in [Metrics -> Seq(Sensible)]
  BY <1>1, <1>2
<1>4. NoWindow = [last |-> Nil, samples |-> empty]
  BY <1>1 DEF NoWindow
<1> QED BY <1>3, <1>4 DEF Window

\* A flush of the window of m and t, with the medians v, which the filter turns into f.
Flushes(m, t, v, f, done, error) ==
    /\ \A k \in Metrics :
          LET s == windows[m][t].samples[k] IN v[k] = IF s = <<>> THEN Nil ELSE Median(s)
    /\ \A k \in Metrics : FilterOK(history[m][k], k, t, v[k], f[k])
    /\ \A d \in Devices, k \in Metrics :
          history'[d][k] = IF d = m THEN f[k].history ELSE history[d][k]
    /\ \A d \in Devices, u \in Times, k \in Metrics :
          sensor_minute'[d][u][k] = IF done /\ d = m /\ u = t /\ f[k].value # Nil
                                    THEN f[k].value ELSE sensor_minute[d][u][k]
    /\ \A d \in Devices, u \in Times :
          windows'[d][u] = IF ~error /\ d = m /\ u = t THEN NoWindow ELSE windows[d][u]
    /\ log'.heard = log.heard /\ log'.cut = log.cut
    /\ log.held \subseteq log'.held /\ log.retried \subseteq log'.retried
    /\ \A k \in Metrics : f[k].value # v[k] => <<<<m, t>>, k>> \in log'.held
    /\ error => <<m, t>> \in log'.retried

LEMMA FlushMoves ==
    ASSUME Types, NEW m \in Devices, NEW t \in Times, NEW done \in BOOLEAN,
           NEW error \in BOOLEAN, Flush(<<m, t>>, done, error)
    PROVE  /\ RowsType' /\ WindowsType' /\ HistoryType' /\ log' \in LogSet
           /\ Flushes(m, t, Medians(<<m, t>>), Filtered(<<m, t>>), done, error)
<1>0. PICK v, f : v = Medians(<<m, t>>) /\ f = Filtered(<<m, t>>)
  OBVIOUS
<1>1. \A k \in Metrics :
        /\ v[k] = IF windows[m][t].samples[k] = <<>> THEN Nil
                  ELSE Median(windows[m][t].samples[k])
        /\ v[k] \in Numbers \cup {Nil}
  BY <1>0, SamplesOf DEF Medians
<1>2. \A k \in Metrics : f[k] = FilterMetric(history[m][k], k, t, v[k])
  BY <1>0 DEF Filtered
<1>3. \A k \in Metrics : FilterOK(history[m][k], k, t, v[k], f[k])
  BY <1>1, <1>2, FilterMoves DEF Types, HistoryType
<1>4. \A k \in Metrics : f[k].value \in Numbers \cup {Nil} /\ f[k].history \in History
  BY <1>1, <1>3 DEF FilterOK
<1>5. /\ history' = [history EXCEPT ![m] = [k \in Metrics |-> f[k].history]]
      /\ sensor_minute' = IF ~done THEN sensor_minute ELSE [sensor_minute EXCEPT ![m][t] =
            [k \in Metrics |-> IF f[k].value = Nil THEN @[k] ELSE f[k].value]]
      /\ windows' = IF error THEN windows ELSE [windows EXCEPT ![m][t] = NoWindow]
      /\ log' = [log EXCEPT
            !.held    = @ \cup {<<<<m, t>>, k>> : k \in {k \in Metrics : f[k].value # v[k]}},
            !.retried = IF error THEN @ \cup {<<m, t>>} ELSE @]
  BY <1>0 DEF Flush
<1>6. /\ HistoryType'
      /\ \A d \in Devices, k \in Metrics :
            history'[d][k] = IF d = m THEN f[k].history ELSE history[d][k]
  <2>1. PICK h : h = [k \in Metrics |-> f[k].history]
    OBVIOUS
  <2>2. h \in [Metrics -> History]
    BY <1>4, <2>1
  <2>3. history' = [history EXCEPT ![m] = h]
    BY <1>5, <2>1
  <2> QED BY <2>1, <2>2, <2>3 DEF Types, HistoryType
<1>7. /\ RowsType'
      /\ \A d \in Devices, u \in Times, k \in Metrics :
            sensor_minute'[d][u][k] = IF done /\ d = m /\ u = t /\ f[k].value # Nil
                                      THEN f[k].value ELSE sensor_minute[d][u][k]
  <2>1. CASE ~done
    BY <1>5, <2>1 DEF Types, RowsType
  <2>2. CASE done
    <3>1. PICK row : row = [k \in Metrics |-> IF f[k].value = Nil THEN sensor_minute[m][t][k]
                                              ELSE f[k].value]
      OBVIOUS
    <3>2. row \in [Metrics -> Numbers \cup {Nil}]
      BY <1>4, <3>1 DEF Types, RowsType
    <3>3. sensor_minute' = [sensor_minute EXCEPT ![m][t] = row]
      BY <1>5, <2>2, <3>1 DEF Types, RowsType
    <3>4. RowsType'
      BY <3>2, <3>3 DEF Types, RowsType
    <3>5. \A d \in Devices, u \in Times :
            sensor_minute'[d][u] = IF d = m /\ u = t THEN row ELSE sensor_minute[d][u]
      BY <3>3 DEF Types, RowsType
    <3> QED BY <2>2, <3>1, <3>4, <3>5
  <2> QED BY <2>1, <2>2
<1>8. /\ WindowsType'
      /\ \A d \in Devices, u \in Times :
            windows'[d][u] = IF ~error /\ d = m /\ u = t THEN NoWindow ELSE windows[d][u]
  <2>1. PICK n \in Window : n = NoWindow
    BY NoWindowType
  <2>2. windows' = IF error THEN windows ELSE [windows EXCEPT ![m][t] = n]
    BY <1>5, <2>1
  <2> QED BY <2>1, <2>2 DEF Types, WindowsType
<1>9. /\ log' \in LogSet
      /\ log'.heard = log.heard /\ log'.cut = log.cut
      /\ log.held \subseteq log'.held /\ log.retried \subseteq log'.retried
      /\ \A k \in Metrics : f[k].value # v[k] => <<<<m, t>>, k>> \in log'.held
      /\ error => <<m, t>> \in log'.retried
  <2>1. PICK new : new = {<<<<m, t>>, k>> : k \in {k \in Metrics : f[k].value # v[k]}}
    OBVIOUS
  <2>2. PICK held, retried : /\ held = log.held \cup new
                             /\ retried = IF error THEN log.retried \cup {<<m, t>>} ELSE log.retried
    OBVIOUS
  <2>3. log' = [log EXCEPT !.held = held, !.retried = retried]
    BY <1>5, <2>1, <2>2
  <2>4. /\ new \subseteq Minutes \X Metrics
        /\ \A k \in Metrics : f[k].value # v[k] => <<<<m, t>>, k>> \in new
    BY <2>1 DEF Minutes
  <2>5. log.held \subseteq Minutes \X Metrics /\ log.retried \subseteq Minutes
    BY DEF Types, LogSet
  <2>6. held \subseteq Minutes \X Metrics /\ retried \subseteq Minutes
    BY <2>2, <2>4, <2>5 DEF Minutes
  <2>7. log' \in LogSet /\ log'.held = held /\ log'.retried = retried
        /\ log'.heard = log.heard /\ log'.cut = log.cut
    BY <2>3, <2>6 DEF Types, LogSet
  <2> QED BY <2>2, <2>4, <2>7
<1> QED BY <1>0, <1>1, <1>3, <1>6, <1>7, <1>8, <1>9 DEF Flushes

\* A flush of a closed minute is sound: what is stored is the median of all that was heard,
\* what is not stored is held back or still in the window.
LEMMA FlushSound ==
    ASSUME Types, Sound, NEW m \in Devices, NEW t \in Times, NEW v, NEW f,
           NEW done \in BOOLEAN, NEW error \in BOOLEAN, Flushes(m, t, v, f, done, error),
           Closed(t), done \/ error \/ \A k \in Metrics : f[k].value = Nil,
           UNCHANGED clock, main'.pc = main.pc, main'.todo \subseteq main.todo
    PROVE  Sound'
<1>1. \A u : Closed(u)' <=> Closed(u)
  BY DEF Closed
<1>2. \A k \in Metrics :
        /\ v[k] # Nil <=> windows[m][t].samples[k] # <<>>
        /\ v[k] # Nil => /\ v[k] = Median(windows[m][t].samples[k])
                         /\ windows[m][t] # NoWindow
        /\ f[k].value = v[k] \/ f[k].value = Nil
  <2> SUFFICES ASSUME NEW k \in Metrics
               PROVE  /\ v[k] # Nil <=> windows[m][t].samples[k] # <<>>
                      /\ v[k] # Nil => /\ v[k] = Median(windows[m][t].samples[k])
                                       /\ windows[m][t] # NoWindow
                      /\ f[k].value = v[k] \/ f[k].value = Nil
    OBVIOUS
  <2>1. PICK s : s = windows[m][t].samples[k]
    OBVIOUS
  <2>2. v[k] = IF s = <<>> THEN Nil ELSE Median(s)
    BY <2>1 DEF Flushes
  <2>3. s # <<>> => Median(s) # Nil /\ windows[m][t] # NoWindow
    BY <2>1, SamplesOf
  <2>4. f[k].value = v[k] \/ f[k].value = Nil
    BY DEF Flushes, FilterOK
  <2> QED BY <2>1, <2>2, <2>3, <2>4
<1>3. \A d \in Devices, u \in Times :
        windows'[d][u] = IF ~error /\ d = m /\ u = t THEN NoWindow ELSE windows[d][u]
  BY DEF Flushes
<1>4. /\ log'.heard = log.heard /\ log'.cut = log.cut
      /\ log.held \subseteq log'.held /\ log.retried \subseteq log'.retried
  BY DEF Flushes
<1>5. \A d \in Devices, u \in Times, k \in Metrics :
        sensor_minute'[d][u][k] = IF done /\ d = m /\ u = t /\ f[k].value # Nil
                                  THEN f[k].value ELSE sensor_minute[d][u][k]
  BY DEF Flushes
<1>6. \A k \in Metrics :
        v[k] # Nil /\ <<m, t>> \notin log.cut => v[k] = Median(log.heard[m][t][k])
  BY <1>2 DEF Sound, WindowHasAll
<1>7. TodoClosed'
  BY <1>1 DEF Sound, TodoClosed
<1>8. NoWindowAhead'
  BY <1>3 DEF Sound, NoWindowAhead
<1>9. WindowHasAll'
  <2> SUFFICES ASSUME NEW d \in Devices, NEW u \in Times, <<d, u>> \notin log.cut
               PROVE  \/ windows'[d][u].samples = log.heard[d][u]
                      \/ windows'[d][u] = NoWindow /\ Closed(u)
    BY <1>1, <1>4 DEF WindowHasAll
  <2> QED BY <1>3 DEF Sound, WindowHasAll
<1>10. WindowWasHeard'
  <2>1. \A k \in Metrics : NoWindow.samples[k] = <<>>
    BY DEF NoWindow
  <2> QED BY <1>3, <1>4, <2>1 DEF Sound, WindowWasHeard
<1>11. RowsClosed'
  <2> SUFFICES ASSUME NEW d \in Devices, NEW u \in Times, NEW k \in Metrics,
                      <<d, u>> \notin log.cut, sensor_minute'[d][u][k] # Nil
               PROVE  Closed(u) /\ sensor_minute'[d][u][k] = Median(log.heard[d][u][k])
    BY <1>1, <1>4 DEF RowsClosed
  <2>1. CASE done /\ d = m /\ u = t /\ f[k].value # Nil
    <3>1. sensor_minute'[d][u][k] = v[k] /\ v[k] # Nil
      BY <1>2, <1>5, <2>1
    <3> QED BY <1>6, <2>1, <3>1
  <2>2. CASE ~(done /\ d = m /\ u = t /\ f[k].value # Nil)
    BY <1>5, <2>2 DEF Sound, RowsClosed
  <2> QED BY <2>1, <2>2
<1>12. NothingLost'
  <2> SUFFICES ASSUME NEW d \in Devices, NEW u \in Times, NEW k \in Metrics,
                      log.heard[d][u][k] # <<>>, <<d, u>> \notin log.cut
               PROVE  \/ windows'[d][u].samples[k] # <<>>
                      \/ sensor_minute'[d][u][k] # Nil
                      \/ <<<<d, u>>, k>> \in log'.held
    BY <1>4 DEF NothingLost
  <2>1. \/ windows[d][u].samples[k] # <<>>
        \/ sensor_minute[d][u][k] # Nil
        \/ <<<<d, u>>, k>> \in log.held
    BY DEF Sound, NothingLost
  <2>2. sensor_minute[d][u][k] # Nil => sensor_minute'[d][u][k] # Nil
    BY <1>5
  <2>3. CASE ~error /\ d = m /\ u = t /\ windows[d][u].samples[k] # <<>>
    <3>1. CASE f[k].value = v[k]
      <4>1. f[k].value # Nil
        BY <1>2, <2>3, <3>1
      <4> QED BY <1>5, <2>3, <4>1
    <3>2. CASE f[k].value # v[k]
      BY <2>3, <3>2 DEF Flushes
    <3> QED BY <3>1, <3>2
  <2>4. CASE ~(~error /\ d = m /\ u = t)
    BY <1>3, <1>4, <2>1, <2>2, <2>4
  <2> QED BY <1>4, <2>1, <2>2, <2>3, <2>4
<1>13. PendingHeard'
  <2> SUFFICES ASSUME NEW d \in Devices, NEW k \in Metrics, NEW p,
                      p = history'[d][k].pending, p # NoPending
               PROVE  /\ Closed(p.ts)
                      /\ log.heard[d][p.ts][k] # <<>>
                      /\ p.value = Median(log.heard[d][p.ts][k]) \/ <<d, p.ts>> \in log.cut
                      /\ windows'[d][p.ts] # NoWindow => <<d, p.ts>> \in log'.retried
    BY <1>1, <1>4 DEF PendingHeard
  <2>1. CASE p = history[d][k].pending
    <3>1. /\ Closed(p.ts)
          /\ log.heard[d][p.ts][k] # <<>>
          /\ p.value = Median(log.heard[d][p.ts][k]) \/ <<d, p.ts>> \in log.cut
          /\ windows[d][p.ts] # NoWindow => <<d, p.ts>> \in log.retried
      BY <2>1 DEF Sound, PendingHeard
    <3>2. p.ts \in Times
      BY <2>1 DEF Types, HistoryType, History
    <3> QED BY <1>3, <1>4, <3>1, <3>2
  <2>2. CASE p # history[d][k].pending
    <3>1. d = m /\ v[k] # Nil /\ p = [value |-> v[k], ts |-> t]
      BY <2>2 DEF Flushes, FilterOK
    <3>2. p.ts = t /\ p.value = v[k]
      BY <3>1
    <3>3. log.heard[m][t][k] # <<>>
      BY <1>2, <3>1 DEF Sound, WindowWasHeard
    <3>4. windows'[m][t] # NoWindow => <<m, t>> \in log'.retried
      BY <1>3 DEF Flushes
    <3> QED BY <1>6, <3>1, <3>2, <3>3, <3>4
  <2> QED BY <2>1, <2>2
<1> QED BY <1>7, <1>8, <1>9, <1>10, <1>11, <1>12, <1>13 DEF Sound

\* What a flush leaves to do.
LEMMA FlushedType ==
    ASSUME Types, NEW w, NEW error \in BOOLEAN
    PROVE  LET f == Flushed(w, error)
           IN  \A g \in {f, [f EXCEPT !.session = "lost"],
                         [f EXCEPT !.session = "lost", !.cancelled = TRUE]} :
                 g \in MainState /\ g.pc = main.pc /\ g.todo \subseteq main.todo
<1>1. PICK f : f = Flushed(w, error)
  OBVIOUS
<1>2. PICK todo, failed : todo = main.todo \ {w} /\ failed = (main.failed \/ error)
  OBVIOUS
<1>3. main \in MainState
  BY DEF Types
<1>4. todo \in SUBSET Minutes /\ todo \subseteq main.todo
  BY <1>2, <1>3 DEF MainState
<1>5. failed \in BOOLEAN
  BY <1>2
<1>6. f = [main EXCEPT !.todo = todo, !.failed = failed]
  BY <1>1, <1>2 DEF Flushed
<1>7. f \in MainState /\ f.pc = main.pc /\ f.todo \subseteq main.todo
  BY <1>3, <1>4, <1>5, <1>6 DEF MainState
<1>8. PICK g : g = [f EXCEPT !.session = "lost"]
  OBVIOUS
<1>9. g \in MainState /\ g.pc = main.pc /\ g.todo \subseteq main.todo
  BY <1>7, <1>8 DEF MainState
<1>10. PICK h : h = [f EXCEPT !.session = "lost", !.cancelled = TRUE]
  OBVIOUS
<1>11. h \in MainState /\ h.pc = main.pc /\ h.todo \subseteq main.todo
  BY <1>7, <1>10 DEF MainState
<1> QED BY <1>1, <1>7, <1>8, <1>9, <1>10, <1>11

LEMMA FaultType == Types /\ Fault => used' \in UsedSet
BY DEF Types, Fault, UsedSet

\* What any of the three ways to flush a window does.
LEMMA FlushStepMoves ==
    ASSUME Types, FlushStep
    PROVE  \E m \in Devices, t \in Times, done \in BOOLEAN, error \in BOOLEAN :
             /\ <<m, t>> \in main.todo
             /\ Flush(<<m, t>>, done, error)
             /\ done \/ error \/ Empty(<<m, t>>)
             /\ main' \in MainState /\ main'.pc = main.pc /\ main'.todo \subseteq main.todo
             /\ UNCHANGED <<clock, status>>
             /\ used' \in UsedSet
<1>1. PICK w \in main.todo : Written(w) \/ WriteRefused(w) \/ \E done \in BOOLEAN : WriteFails(w, done)
  BY DEF FlushStep
<1>2. PICK m \in Devices, t \in Times : w = <<m, t>>
  BY DEF Types, MainState, Minutes
<1>3. used \in UsedSet
  BY DEF Types
<1>4. PICK stored \in BOOLEAN : stored = ~Empty(w)
  BY DEF Empty
<1>5. CASE Written(w)
  <2>1. /\ Flush(w, stored, FALSE) /\ main' = Flushed(w, FALSE)
        /\ UNCHANGED <<clock, status, used>>
    BY <1>4, <1>5 DEF Written
  <2>2. main' \in MainState /\ main'.pc = main.pc /\ main'.todo \subseteq main.todo
    BY <2>1, FlushedType
  <2>3. stored \/ Empty(w)
    BY <1>4, Zenon
  <2> QED BY <1>1, <1>2, <1>3, <2>1, <2>2, <2>3
<1>6. CASE WriteRefused(w)
  <2>1. /\ Flush(w, FALSE, TRUE) /\ main' = Flushed(w, TRUE)
        /\ UNCHANGED <<clock, status, used>>
    BY <1>6 DEF WriteRefused
  <2>2. main' \in MainState /\ main'.pc = main.pc /\ main'.todo \subseteq main.todo
    BY <2>1, FlushedType
  <2> QED BY <1>1, <1>2, <1>3, <2>1, <2>2
<1>7. ASSUME NEW done \in BOOLEAN, WriteFails(w, done)
      PROVE  /\ Flush(w, done, TRUE)
             /\ main' \in MainState /\ main'.pc = main.pc /\ main'.todo \subseteq main.todo
             /\ UNCHANGED <<clock, status>> /\ used' \in UsedSet
  <2>1. /\ Flush(w, done, TRUE) /\ UNCHANGED <<clock, status>> /\ Fault
        /\ main' \in {Flushed(w, TRUE), [Flushed(w, TRUE) EXCEPT !.session = "lost"],
                      [Flushed(w, TRUE) EXCEPT !.session = "lost", !.cancelled = TRUE]}
    BY <1>7 DEF WriteFails
  <2>2. main' \in MainState /\ main'.pc = main.pc /\ main'.todo \subseteq main.todo
    BY <2>1, FlushedType
  <2> QED BY <2>1, <2>2, FaultType
<1> QED BY <1>1, <1>2, <1>5, <1>6, <1>7

LEMMA FlushStepKeeps ==
    ASSUME BleInv, FlushStep
    PROVE  BleInv'
<1>1. PICK m \in Devices, t \in Times, done \in BOOLEAN, error \in BOOLEAN :
             /\ <<m, t>> \in main.todo
             /\ Flush(<<m, t>>, done, error)
             /\ done \/ error \/ Empty(<<m, t>>)
             /\ main' \in MainState /\ main'.pc = main.pc /\ main'.todo \subseteq main.todo
             /\ UNCHANGED <<clock, status>>
             /\ used' \in UsedSet
  BY FlushStepMoves DEF BleInv
<1>2. PICK v, f : v = Medians(<<m, t>>) /\ f = Filtered(<<m, t>>)
  OBVIOUS
<1>3. /\ RowsType' /\ WindowsType' /\ HistoryType' /\ log' \in LogSet
      /\ Flushes(m, t, v, f, done, error)
  BY <1>1, <1>2, FlushMoves DEF BleInv
<1>4. Types'
  BY <1>1, <1>3 DEF BleInv, Types
<1>5. Closed(t)
  BY <1>1 DEF BleInv, Sound, TodoClosed
<1>6. done \/ error \/ \A k \in Metrics : f[k].value = Nil
  BY <1>1, <1>2 DEF Empty
<1>7. Sound'
  BY <1>1, <1>3, <1>5, <1>6, FlushSound DEF BleInv
<1> QED BY <1>4, <1>7 DEF BleInv

-----------------------------------------------------------------------------
(* A poll.                                                                 *)

Sanitized == [Metrics -> Sensible \cup {Nil}]

LEMMA ExtendedType ==
    ASSUME NEW s \in [Metrics -> Seq(Sensible)], NEW r \in Sanitized
    PROVE  /\ Extended(s, r) \in [Metrics -> Seq(Sensible)]
           /\ \A k \in Metrics : Extended(s, r)[k] # <<>> <=> s[k] # <<>> \/ r[k] # Nil
<1>1. ASSUME NEW k \in Metrics
      PROVE  /\ Extended(s, r)[k] \in Seq(Sensible)
             /\ Extended(s, r)[k] # <<>> <=> s[k] # <<>> \/ r[k] # Nil
  <2>1. CASE r[k] = Nil
    BY <2>1 DEF Extended
  <2>2. CASE r[k] # Nil
    <3>1. PICK q \in Seq(Sensible), x \in Sensible : q = s[k] /\ x = r[k]
      BY <2>2 DEF Sanitized
    <3>2. Append(q, x) \in Seq(Sensible) /\ Append(q, x) # <<>>
      OBVIOUS
    <3>3. Extended(s, r)[k] = Append(q, x)
      BY <2>2, <3>1 DEF Extended
    <3> QED BY <2>2, <3>2, <3>3
  <2> QED BY <2>1, <2>2
<1>2. Extended(s, r) = [k \in Metrics |-> Extended(s, r)[k]]
  BY DEF Extended
<1> QED BY <1>1, <1>2

\* The readings r of the devices new are added, to the minute it is.
Adds(new, r) ==
    /\ main.pc = "waiting"
    /\ new \subseteq Devices
    /\ \A d \in new : r[d] \in Sanitized
    /\ \A d \in Devices, u \in Times :
          /\ d \in new /\ u = clock =>
               /\ windows'[d][u].samples = Extended(windows[d][u].samples, r[d])
               /\ log'.heard[d][u] = Extended(log.heard[d][u], r[d])
          /\ ~(d \in new /\ u = clock) =>
               windows'[d][u] = windows[d][u] /\ log'.heard[d][u] = log.heard[d][u]
    /\ log'.cut = log.cut /\ log'.held = log.held /\ log'.retried = log.retried
    /\ main'.pc = "polled" /\ main'.todo = main.todo
    /\ UNCHANGED <<clock, sensor_minute, status, history>>

LEMMA PollMoves ==
    ASSUME Types, PollStep
    PROVE  Types' /\ \E new, r : Adds(new, r)
<1>1. PICK readings \in [Devices -> Advertisements \cup {Nil}] : Poll(readings)
  BY DEF PollStep
<1> DEFINE s(m) == SanitizeReading(readings[m])
           new == {m \in Devices : readings[m] # Nil /\ s(m) # windows[m][clock].last}
           heard == [m \in Devices |-> IF m \notin new THEN log.heard[m] ELSE
                        [log.heard[m] EXCEPT ![clock] = Extended(@, s(m))]]
<1>2. /\ main.pc = "waiting"
      /\ used' = [used EXCEPT !.readings = @ + Cardinality(new)]
      /\ windows' = [m \in Devices |-> IF m \notin new THEN windows[m] ELSE
              [windows[m] EXCEPT ![clock] =
                    [last |-> s(m), samples |-> Extended(@.samples, s(m))]]]
      /\ log' = [log EXCEPT !.heard = heard]
      /\ main' = [main EXCEPT !.pc = "polled"]
      /\ UNCHANGED <<clock, sensor_minute, status, history>>
  <2>1. /\ main.pc = "waiting" /\ main' = [main EXCEPT !.pc = "polled"]
        /\ UNCHANGED <<clock, sensor_minute, status, history>>
    BY <1>1 DEF Poll
  <2>2. used' = [used EXCEPT !.readings = @ + Cardinality(new)]
    BY <1>1, Zenon DEF Poll
  <2>3. windows' = [m \in Devices |-> IF m \notin new THEN windows[m] ELSE
              [windows[m] EXCEPT ![clock] =
                    [last |-> s(m), samples |-> Extended(@.samples, s(m))]]]
    BY <1>1, Zenon DEF Poll
  <2>4. log' = [log EXCEPT !.heard = heard]
    BY <1>1, Zenon DEF Poll
  <2> QED BY <2>1, <2>2, <2>3, <2>4, Zenon
<1>3. new \subseteq Devices
  OBVIOUS
<1>4. PICK r : r = [m \in Devices |-> s(m)]
  OBVIOUS
<1>5. \A d \in Devices : r[d] = s(d) /\ r[d] \in Sanitized
  BY <1>4 DEF SanitizeReading, Sanitized
<1> HIDE DEF s, new
<1>6. \A m \in Devices : heard[m] = IF m \notin new THEN log.heard[m] ELSE
        [log.heard[m] EXCEPT ![clock] = Extended(@, s(m))]
  OBVIOUS
<1>7. DOMAIN heard = Devices /\ heard = [m \in Devices |-> heard[m]]
  OBVIOUS
<1> HIDE DEF heard
<1>8. clock \in Times /\ log \in LogSet /\ main \in MainState
      /\ log.heard \in [Devices -> [Times -> [Metrics -> Seq(Sensible)]]]
  BY DEF Types, LogSet
<1>9. used' \in UsedSet
  <2>1. IsFiniteSet(new)
    BY <1>3, ConstantsAssumption, FS_Subset
  <2>2. PICK n \in Nat : n = Cardinality(new)
    BY <2>1, FS_CardinalityType
  <2>3. used' = [used EXCEPT !.readings = @ + n]
    BY <1>2, <2>2
  <2> QED BY <2>3 DEF Types, UsedSet
<1>10. /\ heard \in [Devices -> [Times -> [Metrics -> Seq(Sensible)]]]
       /\ \A d \in Devices, u \in Times :
            heard[d][u] = IF d \in new /\ u = clock THEN Extended(log.heard[d][u], r[d])
                          ELSE log.heard[d][u]
  <2>1. ASSUME NEW d \in Devices
        PROVE  /\ heard[d] \in [Times -> [Metrics -> Seq(Sensible)]]
               /\ \A u \in Times :
                    heard[d][u] = IF d \in new /\ u = clock THEN Extended(log.heard[d][u], r[d])
                                  ELSE log.heard[d][u]
    <3>1. PICK x : x = Extended(log.heard[d][clock], r[d])
      OBVIOUS
    <3>2. log.heard[d][clock] \in [Metrics -> Seq(Sensible)]
      BY <1>8
    <3>3. x \in [Metrics -> Seq(Sensible)]
      BY <1>5, <3>1, <3>2, ExtendedType
    <3>4. heard[d] = IF d \notin new THEN log.heard[d] ELSE [log.heard[d] EXCEPT ![clock] = x]
      BY <1>5, <1>6, <3>1
    <3> QED BY <1>8, <3>1, <3>3, <3>4
  <2> QED BY <1>7, <2>1
<1>11. /\ WindowsType'
       /\ \A d \in Devices, u \in Times :
            /\ d \in new /\ u = clock =>
                 windows'[d][u].samples = Extended(windows[d][u].samples, r[d])
            /\ ~(d \in new /\ u = clock) => windows'[d][u] = windows[d][u]
  <2>1. ASSUME NEW d \in Devices
        PROVE  /\ windows'[d] \in [Times -> Window]
               /\ \A u \in Times :
                    /\ d \in new /\ u = clock =>
                         windows'[d][u].samples = Extended(windows[d][u].samples, r[d])
                    /\ ~(d \in new /\ u = clock) => windows'[d][u] = windows[d][u]
    <3>1. PICK x : x = Extended(windows[d][clock].samples, r[d])
      OBVIOUS
    <3>2. windows[d] \in [Times -> Window] /\ windows[d][clock].samples \in [Metrics -> Seq(Sensible)]
      BY <1>8 DEF Types, WindowsType, Window
    <3>3. x \in [Metrics -> Seq(Sensible)]
      BY <1>5, <3>1, <3>2, ExtendedType
    <3>4. PICK w : w = [last |-> r[d], samples |-> x]
      OBVIOUS
    <3>5. r[d] \in Reading
      BY <1>5, ConstantsAssumption DEF Sanitized, Reading
    <3>6. w \in Window /\ w.samples = x
      BY <3>3, <3>4, <3>5 DEF Window
    <3>7. windows'[d] = IF d \notin new THEN windows[d] ELSE [windows[d] EXCEPT ![clock] = w]
      BY <1>2, <1>5, <3>1, <3>4
    <3> QED BY <1>8, <3>1, <3>2, <3>6, <3>7
  <2> QED BY <1>2, <2>1 DEF WindowsType
<1>12. log' \in LogSet /\ log'.heard = heard /\ log'.cut = log.cut
       /\ log'.held = log.held /\ log'.retried = log.retried
  BY <1>2, <1>8, <1>10 DEF LogSet
<1>13. main' \in MainState /\ main'.pc = "polled" /\ main'.todo = main.todo
  BY <1>2, <1>8 DEF MainState
<1>14. Types'
  BY <1>2, <1>9, <1>11, <1>12, <1>13 DEF Types, RowsType, HistoryType
<1>15. Adds(new, r)
  BY <1>2, <1>3, <1>5, <1>10, <1>11, <1>12, <1>13 DEF Adds
<1> QED BY <1>14, <1>15

\* Readings are added to the window of a minute that is not closed.
LEMMA PollKeeps ==
    ASSUME BleInv, PollStep
    PROVE  BleInv'
<1>0. Types /\ Sound /\ Types'
  BY PollMoves DEF BleInv
<1>1. PICK new, r : Adds(new, r)
  BY <1>0, PollMoves
<1>2. /\ log'.cut = log.cut /\ log'.held = log.held /\ log'.retried = log.retried
      /\ UNCHANGED <<clock, sensor_minute, status, history>>
  BY <1>1 DEF Adds
<1>3. \A u \in Times : ~Closed(clock) /\ (Closed(u)' <=> Closed(u))
  BY <1>0, <1>1, Constants DEF Adds, Closed, Types
<1>4. main.todo = {} /\ main'.todo = {}
  BY <1>0, <1>1 DEF Sound, TodoClosed, Adds
<1>5. \A d \in Devices, u \in Times :
        Closed(u) => windows'[d][u] = windows[d][u] /\ log'.heard[d][u] = log.heard[d][u]
  BY <1>1, <1>3 DEF Adds
<1>6. ASSUME NEW d \in Devices, NEW u \in Times, NEW k \in Metrics
      PROVE  \/ /\ windows'[d][u].samples[k] = windows[d][u].samples[k]
                /\ log'.heard[d][u][k] = log.heard[d][u][k]
             \/ windows'[d][u].samples[k] # <<>> /\ log'.heard[d][u][k] # <<>>
  <2>1. CASE d \in new /\ u = clock
    <3>1. PICK s, h : s = windows[d][u].samples /\ h = log.heard[d][u]
      OBVIOUS
    <3>2. s \in [Metrics -> Seq(Sensible)] /\ h \in [Metrics -> Seq(Sensible)]
      BY <1>0, <3>1 DEF Types, WindowsType, Window, LogSet
    <3>3. /\ r[d] \in Sanitized
          /\ windows'[d][u].samples = Extended(s, r[d]) /\ log'.heard[d][u] = Extended(h, r[d])
      BY <1>1, <2>1, <3>1 DEF Adds
    <3>4. r[d][k] # Nil => Extended(s, r[d])[k] # <<>> /\ Extended(h, r[d])[k] # <<>>
      BY <3>2, <3>3, ExtendedType
    <3>5. r[d][k] = Nil => Extended(s, r[d])[k] = s[k] /\ Extended(h, r[d])[k] = h[k]
      BY DEF Extended
    <3> QED BY <3>1, <3>3, <3>4, <3>5
  <2>2. CASE ~(d \in new /\ u = clock)
    BY <1>1, <2>2 DEF Adds
  <2> QED BY <2>1, <2>2
<1>7. TodoClosed'
  BY <1>4 DEF TodoClosed
<1>8. NoWindowAhead'
  <2>1. clock =< clock
    BY <1>0, Constants DEF Types
  <2> QED BY <1>0, <1>1, <1>2, <2>1 DEF Sound, NoWindowAhead, Adds
<1>9. WindowHasAll'
  <2> SUFFICES ASSUME NEW d \in Devices, NEW u \in Times, <<d, u>> \notin log.cut
               PROVE  \/ windows'[d][u].samples = log'.heard[d][u]
                      \/ windows'[d][u] = NoWindow /\ Closed(u)
    BY <1>2, <1>3 DEF WindowHasAll
  <2>1. \/ windows[d][u].samples = log.heard[d][u]
        \/ windows[d][u] = NoWindow /\ Closed(u)
    BY <1>0 DEF Sound, WindowHasAll
  <2>2. CASE d \in new /\ u = clock
    BY <1>1, <1>3, <2>1, <2>2 DEF Adds
  <2>3. CASE ~(d \in new /\ u = clock)
    BY <1>1, <2>1, <2>3 DEF Adds
  <2> QED BY <2>2, <2>3
<1>10. WindowWasHeard'
  BY <1>0, <1>6 DEF Sound, WindowWasHeard
<1>11. RowsClosed'
  BY <1>0, <1>2, <1>3, <1>5 DEF Sound, RowsClosed
<1>12. NothingLost'
  BY <1>0, <1>2, <1>6 DEF Sound, NothingLost
<1>13. PendingHeard'
  <2> SUFFICES ASSUME NEW d \in Devices, NEW k \in Metrics, NEW p,
                      p = history[d][k].pending, p # NoPending
               PROVE  /\ Closed(p.ts)'
                      /\ log'.heard[d][p.ts][k] # <<>>
                      /\ p.value = Median(log'.heard[d][p.ts][k]) \/ <<d, p.ts>> \in log.cut
                      /\ windows'[d][p.ts] # NoWindow => <<d, p.ts>> \in log.retried
    BY <1>2 DEF PendingHeard, Closed
  <2>1. p.ts \in Times
    BY <1>0 DEF Types, HistoryType, History
  <2>2. /\ Closed(p.ts)
        /\ log.heard[d][p.ts][k] # <<>>
        /\ p.value = Median(log.heard[d][p.ts][k]) \/ <<d, p.ts>> \in log.cut
        /\ windows[d][p.ts] # NoWindow => <<d, p.ts>> \in log.retried
    BY <1>0 DEF Sound, PendingHeard
  <2> QED BY <1>3, <1>5, <2>1, <2>2
<1> QED BY <1>0, <1>7, <1>8, <1>9, <1>10, <1>11, <1>12, <1>13 DEF BleInv, Sound

-----------------------------------------------------------------------------
(* Steps that touch neither samples nor rows.                              *)

LEMMA QuietSound ==
    ASSUME Types, Sound, UNCHANGED <<sensor_minute, windows, history, log>>,
           clock =< clock', clock' \in Times,
           \A u \in Times : Closed(u) => Closed(u)',
           TodoClosed'
    PROVE  Sound'
<1>1. /\ \A m \in Devices, t \in Times : windows'[m][t] = windows[m][t]
      /\ \A m \in Devices, t \in Times : log'.heard[m][t] = log.heard[m][t]
      /\ log'.cut = log.cut /\ log'.held = log.held /\ log'.retried = log.retried
  OBVIOUS
<1>2. NoWindowAhead'
  <2> SUFFICES ASSUME NEW m \in Devices, NEW t \in Times, windows[m][t] # NoWindow
               PROVE  t =< clock'
    BY DEF NoWindowAhead
  <2>1. t =< clock /\ t \in Nat /\ clock \in Nat /\ clock' \in Nat
    BY Constants DEF Sound, NoWindowAhead, Types
  <2> QED BY <2>1
<1>3. WindowHasAll'
  <2> SUFFICES ASSUME NEW d \in Devices, NEW u \in Times, <<d, u>> \notin log.cut
               PROVE  \/ windows[d][u].samples = log.heard[d][u]
                      \/ windows[d][u] = NoWindow /\ Closed(u)'
    BY DEF WindowHasAll, Closed
  <2> QED BY DEF Sound, WindowHasAll
<1>4. WindowWasHeard' /\ NothingLost'
  BY DEF Sound, WindowWasHeard, NothingLost
<1>5. RowsClosed'
  <2> SUFFICES ASSUME NEW d \in Devices, NEW u \in Times, NEW k \in Metrics,
                      <<d, u>> \notin log.cut, sensor_minute[d][u][k] # Nil
               PROVE  Closed(u)' /\ sensor_minute[d][u][k] = Median(log.heard[d][u][k])
    BY DEF RowsClosed, Closed
  <2> QED BY DEF Sound, RowsClosed
<1>6. PendingHeard'
  <2> SUFFICES ASSUME NEW d \in Devices, NEW k \in Metrics, NEW p,
                      p = history[d][k].pending, p # NoPending
               PROVE  /\ Closed(p.ts)'
                      /\ log.heard[d][p.ts][k] # <<>>
                      /\ p.value = Median(log.heard[d][p.ts][k]) \/ <<d, p.ts>> \in log.cut
                      /\ windows[d][p.ts] # NoWindow => <<d, p.ts>> \in log.retried
    BY DEF PendingHeard, Closed
  <2>1. p.ts \in Times
    BY DEF Types, HistoryType, History
  <2> QED BY <2>1 DEF Sound, PendingHeard
<1> QED BY <1>2, <1>3, <1>4, <1>5, <1>6 DEF Sound

\* The windows there are, and those of minutes that are over.
LEMMA PendingClosed ==
    ASSUME Types, Sound
    PROVE  /\ Pending \subseteq Minutes /\ \A w \in Pending : w[2] \in Times /\ w[2] =< clock
           /\ Completed \subseteq Minutes /\ \A w \in Completed : w[2] < clock
<1>1. ASSUME NEW w \in Minutes, windows[w[1]][w[2]] # NoWindow
      PROVE  w[2] \in Times /\ w[2] =< clock
  BY <1>1 DEF Minutes, Sound, NoWindowAhead
<1> QED BY <1>1 DEF Pending, Completed

LEMMA StatusType ==
    ASSUME Types
    PROVE  /\ MarkSuccess(status, clock) \in Row(Times)
           /\ MarkFailure(status, clock) \in Row(Times)
<1>1. status \in Row(Times) \cup {NoRow} /\ clock \in Times
  BY DEF Types
<1>2. CASE status \in Row(Times)
  BY <1>1, <1>2 DEF MarkSuccess, MarkFailure, Row
<1>3. CASE status = NoRow
  BY <1>1, <1>3 DEF MarkSuccess, MarkFailure, Row, NoRow
<1> QED BY <1>1, <1>2, <1>3

\* The steps of the loop between polls and flushes, and what happens to it.
LEMMA QuietKeeps ==
    ASSUME BleInv,
           \/ Tick \/ PollFails \/ FlushCompleted \/ Report \/ LoseSession \/ Signal \/ FlushAll
           \/ UNCHANGED vars
    PROVE  BleInv'
<1>0. /\ Types /\ Sound /\ TodoClosed /\ main \in MainState
      /\ clock \in Nat /\ clock \in Times /\ Times \subseteq Nat
  BY Constants DEF BleInv, Types, Sound
<1>1. UNCHANGED <<sensor_minute, windows, history, log>>
  BY DEF Tick, PollFails, FlushCompleted, Report, LoseSession, Signal, FlushAll, vars
<1>2. clock' \in Times /\ clock =< clock'
  <2>1. CASE Tick
    BY <1>0, <2>1, ConstantsAssumption DEF Tick, Times
  <2>2. CASE UNCHANGED clock
    BY <1>0, <2>2
  <2> QED BY <2>1, <2>2 DEF PollFails, FlushCompleted, Report, LoseSession, Signal, FlushAll, vars
<1>3. used' \in UsedSet
  <2>1. used \in UsedSet
    BY <1>0 DEF Types
  <2> QED BY <1>0, <2>1, FaultType
          DEF Tick, PollFails, FlushCompleted, Report, LoseSession, Signal, FlushAll, vars
<1>4. status' \in Row(Times) \cup {NoRow}
  <2>1. status \in Row(Times) \cup {NoRow}
    BY <1>0 DEF Types
  <2> QED BY <1>0, <2>1, StatusType
          DEF Tick, PollFails, FlushCompleted, Report, LoseSession, Signal, FlushAll, vars
<1>5. /\ main' \in MainState
      /\ \A u \in Times : Closed(u) => Closed(u)'
      /\ TodoClosed'
  <2>1. CASE Tick
    <3>1. main' = main /\ clock' = clock + 1
      BY <2>1 DEF Tick
    <3>2. \A u \in Times : Closed(u) => Closed(u)'
      BY <1>0, <3>1 DEF Closed
    <3>3. \A w \in main.todo : w[2] \in Times
      BY <1>0 DEF MainState, Minutes
    <3> QED BY <1>0, <3>1, <3>2, <3>3 DEF TodoClosed
  <2>2. CASE UNCHANGED clock /\ main'.pc = main.pc /\ main'.todo = main.todo /\ main' \in MainState
    BY <1>0, <2>2 DEF TodoClosed, Closed
  <2>3. CASE FlushCompleted
    <3>1. /\ main.pc = "polled" /\ UNCHANGED clock
          /\ main' = [main EXCEPT !.pc = "flushing", !.todo = Completed, !.failed = FALSE]
      BY <2>3 DEF FlushCompleted
    <3>2. Completed \subseteq Minutes /\ \A w \in Completed : w[2] < clock
      BY <1>0, PendingClosed
    <3>3. main' \in MainState /\ main'.pc = "flushing" /\ main'.todo = Completed
      BY <1>0, <3>1, <3>2 DEF MainState
    <3> QED BY <3>1, <3>2, <3>3 DEF TodoClosed, Closed
  <2>4. CASE FlushAll
    <3>1. /\ main.pc = "waiting" /\ UNCHANGED clock
          /\ main' = [main EXCEPT !.pc = "stopping", !.todo = Pending]
      BY <2>4 DEF FlushAll
    <3>2. Pending \subseteq Minutes /\ \A w \in Pending : w[2] \in Nat /\ w[2] =< clock
      BY <1>0, PendingClosed
    <3>3. main' \in MainState /\ main'.pc = "stopping" /\ main'.todo = Pending
      BY <1>0, <3>1, <3>2 DEF MainState
    <3>4. \A w \in Pending : w[2] < clock \/ w[2] = clock
      BY <1>0, <3>2
    <3> QED BY <3>1, <3>3, <3>4 DEF TodoClosed, Closed
  <2>5. CASE Report
    <3>1. /\ main.pc = "flushing" /\ main.todo = {} /\ UNCHANGED clock
          /\ main' = [main EXCEPT !.pc = "waiting"]
      BY <2>5 DEF Report
    <3>2. main' \in MainState /\ main'.pc = "waiting" /\ main'.todo = {}
      BY <1>0, <3>1 DEF MainState
    <3> QED BY <3>1, <3>2 DEF TodoClosed, Closed
  <2>6. CASE PollFails \/ LoseSession \/ Signal \/ UNCHANGED vars
    <3>1. UNCHANGED clock /\ main'.pc = main.pc /\ main'.todo = main.todo /\ main' \in MainState
      BY <1>0, <2>6 DEF PollFails, LoseSession, Signal, vars, MainState
    <3> QED BY <2>2, <3>1
  <2> QED BY <2>1, <2>3, <2>4, <2>5, <2>6
<1>6. Types'
  BY <1>0, <1>1, <1>2, <1>3, <1>4, <1>5 DEF Types, RowsType, WindowsType, HistoryType
<1>7. Sound'
  BY <1>0, <1>1, <1>2, <1>5, QuietSound
<1> QED BY <1>6, <1>7 DEF BleInv

-----------------------------------------------------------------------------
(* A new process.                                                          *)

\* Of the minutes that are not cut every window is written or held back.
LEMMA RestartKeeps ==
    ASSUME BleInv, Restart, used' \in UsedSet
    PROVE  BleInv'
<1>0. Types /\ Sound /\ clock \in Times
  BY DEF BleInv, Types
<1>1. /\ windows' = [m \in Devices |-> [t \in Times |-> NoWindow]]
      /\ history' = [m \in Devices |-> [k \in Metrics |-> NoHistory]]
      /\ main' = Waiting
      /\ log' = [log EXCEPT !.cut = @ \cup Pending \cup (Devices \X {clock})]
      /\ UNCHANGED <<clock, sensor_minute, status>>
  BY DEF Restart
<1>2. PICK cut : cut = log.cut \cup Pending \cup (Devices \X {clock})
  OBVIOUS
<1>3. cut \subseteq Minutes
  BY <1>0, <1>2, PendingClosed DEF Types, LogSet, Minutes
<1>4. /\ log' \in LogSet /\ log'.cut = cut /\ log'.heard = log.heard /\ log'.held = log.held
      /\ log'.retried = log.retried
  BY <1>0, <1>1, <1>2, <1>3 DEF Types, LogSet
<1>5. main' \in MainState /\ main'.pc = "waiting" /\ main'.todo = {}
  BY <1>1 DEF Waiting, MainState
<1>6. HistoryType' /\ \A m \in Devices, k \in Metrics : history'[m][k].pending = NoPending
  <2>1. NoHistory \in History /\ NoHistory.pending = NoPending
    BY Constants DEF NoHistory, History
  <2> QED BY <1>1, <2>1 DEF HistoryType
<1>7. WindowsType'
  BY <1>1, NoWindowType DEF WindowsType
<1>8. Types'
  BY <1>0, <1>1, <1>4, <1>5, <1>6, <1>7 DEF Types, RowsType
<1>9. ASSUME NEW d \in Devices, NEW u \in Times, <<d, u>> \notin cut
      PROVE  /\ <<d, u>> \notin log.cut /\ windows[d][u] = NoWindow
             /\ Closed(u) => Closed(u)'
  <2>1. u # clock /\ <<d, u>> \notin log.cut /\ <<d, u>> \notin Pending
    BY <1>2, <1>9
  <2>2. windows[d][u] = NoWindow
    BY <2>1 DEF Pending, Minutes
  <2> QED BY <1>1, <2>1, <2>2 DEF Closed
<1>10. \A m \in Devices, t \in Times : windows'[m][t] = NoWindow
  BY <1>1
<1>11. TodoClosed' /\ NoWindowAhead'
  BY <1>5, <1>10 DEF TodoClosed, NoWindowAhead
<1>12. WindowHasAll'
  <2> SUFFICES ASSUME NEW d \in Devices, NEW u \in Times, <<d, u>> \notin cut
               PROVE  \/ NoWindow.samples = log.heard[d][u]
                      \/ Closed(u)'
    BY <1>4, <1>10 DEF WindowHasAll, Closed
  <2> QED BY <1>0, <1>9 DEF Sound, WindowHasAll
<1>13. WindowWasHeard'
  BY <1>10 DEF WindowWasHeard, NoWindow
<1>14. RowsClosed'
  <2> SUFFICES ASSUME NEW d \in Devices, NEW u \in Times, NEW k \in Metrics,
                      <<d, u>> \notin cut, sensor_minute[d][u][k] # Nil
               PROVE  Closed(u)' /\ sensor_minute[d][u][k] = Median(log.heard[d][u][k])
    BY <1>1, <1>4 DEF RowsClosed, Closed
  <2> QED BY <1>0, <1>9 DEF Sound, RowsClosed
<1>15. NothingLost'
  <2> SUFFICES ASSUME NEW d \in Devices, NEW u \in Times, NEW k \in Metrics,
                      log.heard[d][u][k] # <<>>, <<d, u>> \notin cut
               PROVE  sensor_minute[d][u][k] # Nil \/ <<<<d, u>>, k>> \in log.held
    BY <1>1, <1>4 DEF NothingLost
  <2>1. NoWindow.samples[k] = <<>>
    BY DEF NoWindow
  <2> QED BY <1>0, <1>9, <2>1 DEF Sound, NothingLost
<1>16. PendingHeard'
  BY <1>6 DEF PendingHeard
<1> QED BY <1>8, <1>11, <1>12, <1>13, <1>14, <1>15, <1>16 DEF BleInv, Sound

-----------------------------------------------------------------------------
(* The theorems.                                                           *)

LEMMA BleInit == Init => BleInv
<1> SUFFICES ASSUME Init PROVE BleInv
  OBVIOUS
<1>1. HistoryType /\ \A m \in Devices, k \in Metrics : history[m][k].pending = NoPending
  <2>1. NoHistory \in History /\ NoHistory.pending = NoPending
    BY Constants DEF NoHistory, History
  <2> QED BY <2>1 DEF Init, HistoryType
<1>2. WindowsType /\ \A m \in Devices, t \in Times : windows[m][t] = NoWindow
  BY NoWindowType DEF Init, WindowsType
<1>3. /\ log \in LogSet /\ log.cut = {}
      /\ \A m \in Devices, t \in Times : log.heard[m][t] = NoWindow.samples
  <2>1. PICK heard : heard = [m \in Devices |-> [t \in Times |-> [k \in Metrics |-> <<>>]]]
    OBVIOUS
  <2>2. NoWindow.samples = [k \in Metrics |-> <<>>]
        /\ NoWindow.samples \in [Metrics -> Seq(Sensible)]
    BY NoWindowType DEF NoWindow, Window
  <2>3. /\ heard \in [Devices -> [Times -> [Metrics -> Seq(Sensible)]]]
        /\ \A m \in Devices, t \in Times : heard[m][t] = NoWindow.samples
    BY <2>1, <2>2
  <2>4. log = [heard |-> heard, held |-> {}, retried |-> {}, cut |-> {}]
    BY <2>1 DEF Init
  <2> QED BY <2>3, <2>4 DEF LogSet
<1>4. RowsType /\ \A m \in Devices, t \in Times, k \in Metrics : sensor_minute[m][t][k] = Nil
  BY DEF Init, RowsType
<1>5. main \in MainState /\ main.todo = {} /\ used \in UsedSet /\ clock \in Times
  BY Constants DEF Init, Waiting, MainState, UsedSet
<1>6. Types
  BY <1>1, <1>2, <1>3, <1>4, <1>5 DEF Types, Init
<1>7. \A k \in Metrics : NoWindow.samples[k] = <<>>
  BY DEF NoWindow
<1>8. TodoClosed /\ NoWindowAhead /\ WindowHasAll /\ WindowWasHeard
  BY <1>2, <1>3, <1>5, <1>7 DEF TodoClosed, NoWindowAhead, WindowHasAll, WindowWasHeard
<1>9. RowsClosed /\ NothingLost /\ PendingHeard
  BY <1>1, <1>3, <1>4, <1>7 DEF RowsClosed, NothingLost, PendingHeard
<1> QED BY <1>6, <1>8, <1>9 DEF BleInv, Sound

LEMMA BleStep == BleInv /\ [Next]_vars => BleInv'
<1> SUFFICES ASSUME BleInv, [Next]_vars PROVE BleInv'
  OBVIOUS
<1>1. CASE \/ Tick \/ PollFails \/ FlushCompleted \/ Report \/ LoseSession \/ Signal \/ FlushAll
           \/ UNCHANGED vars
  BY <1>1, QuietKeeps
<1>2. CASE PollStep
  BY <1>2, PollKeeps
<1>3. CASE FlushStep
  BY <1>3, FlushStepKeeps
<1>4. CASE Exit \/ Crash
  <2>1. Restart /\ used' \in UsedSet
    BY <1>4, FaultType DEF Exit, Crash, BleInv, Types
  <2> QED BY <2>1, RestartKeeps
<1> QED BY <1>1, <1>2, <1>3, <1>4 DEF Next

\* Every variable keeps its type, the history of the filter within its size.
THEOREM TypeCorrect == Spec => []TypeOK
<1>1. BleInv => TypeOK
  BY DEF BleInv, Types, RowsType, WindowsType, HistoryType, History, UsedSet, LogSet, TypeOK
<1> QED BY <1>1, BleInit, BleStep, PTL DEF Spec

\* No sample is lost to failed writes, lost sessions or a stop, in any number: a window is
\* deleted only when each of its medians is written or held back by the filter.
THEOREM SamplesNeverLost == Spec => []NoSampleLost
<1>1. BleInv => NoSampleLost
  BY DEF BleInv, Sound, NothingLost, NoSampleLost, Minutes
<1> QED BY <1>1, BleInit, BleStep, PTL DEF Spec

\* A stored value is the median of all that was heard in its minute, however often a flush
\* of it was repeated: a minute is flushed when nothing more can be heard in it.
THEOREM RowsAlwaysMedians == Spec => []RowsAreMedians
<1>1. BleInv => RowsAreMedians
  BY DEF BleInv, Sound, RowsClosed, RowsAreMedians, Minutes
<1> QED BY <1>1, BleInit, BleStep, PTL DEF Spec

\* A value far from those accepted is stored only after a similar median of another
\* minute, or where a write of that minute failed before: the pending value is the
\* median of a minute whose window is gone, unless its write failed.
THEOREM SpikesNeedFollowUpOrRetry == Spec => SpikeNeedsFollowUpOrRetry
<1> DEFINE Follows ==
        \A w \in Minutes, k \in Metrics :
            StoresOutlier(w, k) =>
                w \in log.retried \/ FollowsUp(w, k, sensor_minute'[w[1]][w[2]][k])
<1>1. ASSUME BleInv, FlushStep PROVE Follows
  <2>1. PICK m \in Devices, t \in Times, done \in BOOLEAN, error \in BOOLEAN :
             Flush(<<m, t>>, done, error)
    BY <1>1, FlushStepMoves DEF BleInv
  <2>2. PICK v, f : Flushes(m, t, v, f, done, error)
    BY <1>1, <2>1, FlushMoves DEF BleInv
  <2> SUFFICES ASSUME NEW d \in Devices, NEW u \in Times, NEW k \in Metrics,
                      StoresOutlier(<<d, u>>, k)
               PROVE  \/ <<d, u>> \in log.retried
                      \/ FollowsUp(<<d, u>>, k, sensor_minute'[d][u][k])
    BY DEF Minutes
  <2>3. PICK x : x = sensor_minute'[d][u][k]
    OBVIOUS
  <2>4. d = m /\ u = t /\ f[k].value # Nil /\ x = f[k].value
    BY <2>2, <2>3 DEF StoresOutlier, Flushes
  <2>5. FilterOK(history[d][k], k, u, v[k], f[k])
    BY <2>2, <2>4 DEF Flushes
  <2>6. x = v[k]
    BY <2>4, <2>5 DEF FilterOK
  <2>7. Confirmed(history[d][k], k, u, x)
    BY <2>3, <2>4, <2>5, <2>6 DEF FilterOK, StoresOutlier
  <2>8. PICK p : p = history[d][k].pending
    OBVIOUS
  <2>9. p # NoPending /\ u - p.ts =< ConfirmWindow /\ Near(x, p.value, k)
    BY <2>7, <2>8 DEF Confirmed
  <2>10. p.ts \in Times
    BY <1>1, <2>8, <2>9 DEF BleInv, Types, HistoryType, History
  <2>11. /\ log.heard[d][p.ts][k] # <<>>
         /\ p.value = Median(log.heard[d][p.ts][k]) \/ <<d, p.ts>> \in log.cut
         /\ windows[d][p.ts] # NoWindow => <<d, p.ts>> \in log.retried
    BY <1>1, <2>8, <2>9 DEF BleInv, Sound, PendingHeard
  <2>12. CASE p.ts = u
    <3>1. windows[m][t].samples[k] # <<>>
      BY <2>2, <2>4, <2>6 DEF Flushes
    <3>2. windows[m][t] # NoWindow
      BY <1>1, <3>1, SamplesOf DEF BleInv
    <3> QED BY <2>4, <2>11, <2>12, <3>2
  <2>13. CASE p.ts # u
    <3>1. FollowsUp(<<d, u>>, k, x)
      BY <2>9, <2>10, <2>11, <2>13 DEF FollowsUp
    <3> QED BY <2>3, <3>1
  <2> QED BY <2>12, <2>13
<1>2. ASSUME [Next]_vars, ~FlushStep PROVE UNCHANGED sensor_minute
  BY <1>2 DEF Next, vars, Tick, PollStep, Poll, PollFails, FlushCompleted, Report, LoseSession,
              Signal, FlushAll, Exit, Crash, Restart
<1>3. ASSUME UNCHANGED sensor_minute PROVE Follows
  BY <1>3 DEF StoresOutlier
<1>4. BleInv /\ [Next]_vars => BleInv' /\ [Follows]_vars
  <2> HIDE DEF Follows
  <2> QED BY <1>1, <1>2, <1>3, BleStep
<1>5. Spec => [][Follows]_vars
  <2> HIDE DEF Follows
  <2> QED BY <1>4, BleInit, PTL DEF Spec
<1> QED BY <1>5 DEF SpikeNeedsFollowUpOrRetry
=============================================================================
