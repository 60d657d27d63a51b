------------------------- MODULE ComSupervisionProofs -------------------------
(***************************************************************************)
(* The verdicts of ComSupervision for every number of nodes, every limit,  *)
(* every timeout and every tick period longer than the timeout.            *)
(***************************************************************************)
EXTENDS ComSupervision, TLAPS

(***************************************************************************)
(* The inductive invariant.  For one node, m being its monitor and h its   *)
(* history: the monitor's own counters agree with what arrived, and while  *)
(* no timeout is flagged the unsigned tick difference is the true silence. *)
(***************************************************************************)

ChecksumGood(m, h) ==
    /\ m.checksumError <=> h.goodRun < RecoveryLimit
    /\ m.checksumError => m.checksumRecoveryCnt = h.goodRun

AliveGood(m, h) ==
    /\ m.aliveInitialized <=> h.alive # NoAlive
    /\ m.aliveInitialized =>
         /\ h.alive = m.lastAliveCounter
         /\ h.repeats = UpTo(FreezeLimit, m.aliveFreezeCnt)
    /\ ~m.aliveInitialized => h.repeats = 0
    /\ h.repeats >= FreezeLimit => m.aliveError

\* Elapsed, at the tick t.
ElapsedAt(t, from) == IF t >= from THEN t - from ELSE t - from + TickMod

\* At the tick t, with the last poll p ticks ago.
TimeGood(m, h, t, p) ==
    /\ ~m.timeoutError =>
         /\ h.silence = ElapsedAt(t, m.lastRxTick)
         /\ h.silence < TimeoutTicks + p
    /\ m.timeoutError => h.silence >= TimeoutTicks /\ ~m.aliveInitialized

NodeGood(m, h, t, p) ==
    /\ m \in MonitorType /\ h \in HistoryType
    /\ ChecksumGood(m, h)
    /\ AliveGood(m, h)
    /\ TimeGood(m, h, t, p)

IInv == TypeOK /\ \A e \in Ecus : NodeGood(monitors[e], history[e], now, sincePoll)

-----------------------------------------------------------------------------
\* The values the helpers reset to are in range.
LEMMA ZeroInRange ==
    /\ 0 \in 0 .. ByteMax /\ 0 \in Alive /\ 0 \in 0 .. TickMod - 1
    /\ 0 \in 0 .. PollSlack /\ 0 \in 0 .. FreezeLimit
    /\ 0 \in 0 .. TimeoutTicks + PollSlack /\ 0 \in 0 .. RecoveryLimit
    /\ RecoveryLimit \in 0 .. RecoveryLimit
    /\ 0 < RecoveryLimit /\ ~(0 >= FreezeLimit) /\ 0 < TimeoutTicks
    /\ NoAlive \notin Alive
  BY LimitsAssumption, TimeAssumption DEF Alive, NoAlive

\* Counters stay within a byte, and a saturated count within its limit.
LEMMA CounterGood ==
    ASSUME NEW c \in 0 .. ByteMax
    PROVE  /\ IncrementCounter(c) \in 0 .. ByteMax
           /\ IncrementCounter(c) >= c
           /\ c < ByteMax => IncrementCounter(c) = c + 1
  BY LimitsAssumption DEF IncrementCounter

\* A refused frame sets the checksum fault and starts its recovery over.
LEMMA RefuseGood ==
    ASSUME NEW m, NEW h, NEW t, NEW p, NodeGood(m, h, t, p),
           NEW g, g = [h EXCEPT !.goodRun = 0]
    PROVE  NodeGood(SetChecksumError(m), g, t, p)
<1> DEFINE n == SetChecksumError(m)
<1>1. /\ n \in MonitorType
      /\ n.checksumError = TRUE /\ n.checksumRecoveryCnt = 0
      /\ n.lastRxTick = m.lastRxTick /\ n.timeoutError = m.timeoutError
      /\ n.lastAliveCounter = m.lastAliveCounter
      /\ n.aliveFreezeCnt = m.aliveFreezeCnt
      /\ n.aliveError = m.aliveError
      /\ n.aliveInitialized = m.aliveInitialized
  BY ZeroInRange DEF NodeGood, MonitorType, SetChecksumError
<1>2. /\ g \in HistoryType
      /\ g.goodRun = 0 /\ g.silence = h.silence /\ g.alive = h.alive
      /\ g.repeats = h.repeats
  BY ZeroInRange DEF NodeGood, HistoryType
<1> HIDE DEF n
<1>3. ChecksumGood(n, g)
  BY <1>1, <1>2, ZeroInRange DEF ChecksumGood
<1>4. AliveGood(n, g)
  BY <1>1, <1>2 DEF NodeGood, AliveGood
<1>5. TimeGood(n, g, t, p)
  BY <1>1, <1>2 DEF NodeGood, TimeGood
<1>6. QED
  BY <1>1, <1>2, <1>3, <1>4, <1>5 DEF NodeGood, n

\* A valid frame moves the checksum recovery on by one, in the monitor as in
\* the history, and touches nothing else of the monitor.
LEMMA RecoveryGood ==
    ASSUME NEW m \in MonitorType, NEW h \in HistoryType, ChecksumGood(m, h),
           NEW run, run = UpTo(RecoveryLimit, h.goodRun + 1)
    PROVE  LET n == UpdateChecksumRecovery(m)
           IN  /\ n \in MonitorType
               /\ n.checksumError <=> run < RecoveryLimit
               /\ n.checksumError => n.checksumRecoveryCnt = run
               /\ n.lastRxTick = m.lastRxTick
               /\ n.timeoutError = m.timeoutError
               /\ n.lastAliveCounter = m.lastAliveCounter
               /\ n.aliveFreezeCnt = m.aliveFreezeCnt
               /\ n.aliveError = m.aliveError
               /\ n.aliveInitialized = m.aliveInitialized
               /\ run \in 0 .. RecoveryLimit
<1> DEFINE n == UpdateChecksumRecovery(m)
           valid == IncrementCounter(m.checksumRecoveryCnt)
<1>1. h.goodRun \in 0 .. RecoveryLimit /\ m.checksumRecoveryCnt \in 0 .. ByteMax
  BY DEF HistoryType, MonitorType
<1>2. valid \in 0 .. ByteMax
  BY <1>1, CounterGood
<1>3. run \in 0 .. RecoveryLimit
  BY <1>1, LimitsAssumption DEF UpTo
<1>4. CASE ~m.checksumError
  <2>1. n = m
    BY <1>4 DEF UpdateChecksumRecovery
  <2>2. ~(h.goodRun < RecoveryLimit)
    BY <1>4 DEF ChecksumGood
  <2>3. ~(run < RecoveryLimit)
    BY <1>1, <2>2, LimitsAssumption DEF UpTo
  <2>4. QED
    BY <1>3, <1>4, <2>1, <2>3
<1>5. CASE m.checksumError /\ valid < RecoveryLimit
  <2>0. ~(valid >= RecoveryLimit)
    BY <1>2, <1>5, LimitsAssumption
  <2>1. n = [m EXCEPT !.checksumRecoveryCnt = valid]
    BY <1>5, <2>0 DEF UpdateChecksumRecovery
  <2> HIDE DEF n, valid
  <2>2. /\ n \in MonitorType /\ n.checksumRecoveryCnt = valid
        /\ n.checksumError = TRUE
        /\ n.lastRxTick = m.lastRxTick /\ n.timeoutError = m.timeoutError
        /\ n.lastAliveCounter = m.lastAliveCounter
        /\ n.aliveFreezeCnt = m.aliveFreezeCnt
        /\ n.aliveError = m.aliveError
        /\ n.aliveInitialized = m.aliveInitialized
    BY <1>2, <1>5, <2>1 DEF MonitorType
  <2>3. m.checksumRecoveryCnt = h.goodRun /\ h.goodRun < RecoveryLimit
    BY <1>5 DEF ChecksumGood
  <2>4. valid = h.goodRun + 1
    BY <1>1, <2>3, CounterGood, LimitsAssumption DEF valid
  <2>5. run = valid
    BY <1>1, <1>5, <2>4, LimitsAssumption DEF UpTo
  <2>6. QED
    BY <1>3, <1>5, <2>2, <2>5 DEF n
<1>6. CASE m.checksumError /\ ~(valid < RecoveryLimit)
  <2>0. valid >= RecoveryLimit
    BY <1>2, <1>6, LimitsAssumption
  <2>1. n = [m EXCEPT !.checksumError = FALSE, !.checksumRecoveryCnt = 0]
    BY <1>6, <2>0 DEF UpdateChecksumRecovery
  <2> HIDE DEF n, valid
  <2>2. /\ n \in MonitorType
        /\ n.checksumError = FALSE
        /\ n.lastRxTick = m.lastRxTick /\ n.timeoutError = m.timeoutError
        /\ n.lastAliveCounter = m.lastAliveCounter
        /\ n.aliveFreezeCnt = m.aliveFreezeCnt
        /\ n.aliveError = m.aliveError
        /\ n.aliveInitialized = m.aliveInitialized
    BY <2>1, ZeroInRange DEF MonitorType
  <2>3. m.checksumRecoveryCnt = h.goodRun /\ h.goodRun < RecoveryLimit
    BY <1>6 DEF ChecksumGood
  <2>4. valid = h.goodRun + 1
    BY <1>1, <2>3, CounterGood, LimitsAssumption DEF valid
  <2>5. ~(run < RecoveryLimit)
    BY <1>1, <2>0, <2>4, LimitsAssumption DEF UpTo
  <2>6. QED
    BY <1>3, <2>2, <2>5 DEF n
<1>7. QED
  BY <1>4, <1>5, <1>6

\* A valid frame with the alive value a moves the freeze supervision on as the
\* history says, and touches nothing else of the monitor.
LEMMA AliveMonitorGood ==
    ASSUME NEW m \in MonitorType, NEW h \in HistoryType, AliveGood(m, h),
           NEW a \in Alive
    PROVE  /\ UpdateAliveMonitor(m, a) \in MonitorType
           /\ AliveGood(UpdateAliveMonitor(m, a), Heard(h, a))
           /\ UpdateAliveMonitor(m, a).aliveInitialized = TRUE
           /\ UpdateAliveMonitor(m, a).checksumError = m.checksumError
           /\ UpdateAliveMonitor(m, a).checksumRecoveryCnt
                = m.checksumRecoveryCnt
           /\ UpdateAliveMonitor(m, a).aliveError /\ ~m.aliveError
                => Heard(h, a).repeats >= FreezeLimit
<1> DEFINE n == UpdateAliveMonitor(m, a)
           c == IncrementCounter(m.aliveFreezeCnt)
           g == Heard(h, a)
<1>0. /\ a # NoAlive /\ g.alive = a
      /\ g.repeats = IF a = h.alive
                     THEN UpTo(FreezeLimit, h.repeats + 1) ELSE 0
  BY ZeroInRange DEF Heard
<1> HIDE DEF g
<1>1. CASE ~m.aliveInitialized
  <2>1. n = [m EXCEPT !.lastAliveCounter = a, !.aliveFreezeCnt = 0,
                      !.aliveInitialized = TRUE]
    BY <1>1 DEF UpdateAliveMonitor, Baseline
  <2> HIDE DEF n
  <2>2. /\ n \in MonitorType /\ n.aliveInitialized = TRUE
        /\ n.lastAliveCounter = a /\ n.aliveFreezeCnt = 0
        /\ n.aliveError = m.aliveError
        /\ n.lastRxTick = m.lastRxTick /\ n.timeoutError = m.timeoutError
        /\ n.checksumError = m.checksumError
        /\ n.checksumRecoveryCnt = m.checksumRecoveryCnt
    BY <2>1, ZeroInRange DEF MonitorType
  <2>3. g.repeats = 0
    BY <1>0, <1>1 DEF AliveGood
  <2>4. UpTo(FreezeLimit, 0) = 0
    BY LimitsAssumption DEF UpTo
  <2>5. AliveGood(n, g)
    BY <1>0, <2>2, <2>3, <2>4, ZeroInRange DEF AliveGood
  <2>6. QED
    BY <2>2, <2>5 DEF n, g
<1>2. CASE m.aliveInitialized /\ a = m.lastAliveCounter
  <2>1. n = [m EXCEPT !.aliveFreezeCnt = c,
                      !.aliveError = m.aliveError \/ c >= FreezeLimit]
    BY <1>2 DEF UpdateAliveMonitor, Repeated, MonitorType
  <2>2. c \in 0 .. ByteMax /\ m.aliveFreezeCnt \in 0 .. ByteMax
    BY CounterGood DEF MonitorType
  <2>3. h.alive = a /\ h.repeats = UpTo(FreezeLimit, m.aliveFreezeCnt)
    BY <1>2 DEF AliveGood
  <2>4. UpTo(FreezeLimit, UpTo(FreezeLimit, m.aliveFreezeCnt) + 1)
          = UpTo(FreezeLimit, c)
    BY <2>2, LimitsAssumption DEF UpTo, IncrementCounter
  <2>5. g.repeats = UpTo(FreezeLimit, c)
    BY <1>0, <2>3, <2>4
  <2>6. c >= FreezeLimit <=> g.repeats >= FreezeLimit
    BY <2>2, <2>5, LimitsAssumption DEF UpTo
  <2> HIDE DEF n, c
  <2>7. /\ n \in MonitorType /\ n.aliveInitialized = m.aliveInitialized
        /\ n.lastAliveCounter = m.lastAliveCounter /\ n.aliveFreezeCnt = c
        /\ n.aliveError = (m.aliveError \/ c >= FreezeLimit)
        /\ n.lastRxTick = m.lastRxTick /\ n.timeoutError = m.timeoutError
        /\ n.checksumError = m.checksumError
        /\ n.checksumRecoveryCnt = m.checksumRecoveryCnt
    BY <2>1, <2>2 DEF MonitorType
  <2>8. AliveGood(n, g)
    BY <1>0, <1>2, <2>5, <2>6, <2>7 DEF AliveGood
  <2>9. n.aliveInitialized = TRUE
    BY <1>2, <2>7 DEF MonitorType
  <2>10. QED
    BY <2>6, <2>7, <2>8, <2>9 DEF n, g
<1>3. CASE m.aliveInitialized /\ a # m.lastAliveCounter
  <2>1. n = [m EXCEPT !.aliveError = FALSE, !.aliveFreezeCnt = 0,
                      !.lastAliveCounter = a]
    BY <1>3 DEF UpdateAliveMonitor, Changed
  <2> HIDE DEF n
  <2>2. /\ n \in MonitorType /\ n.aliveInitialized = m.aliveInitialized
        /\ n.lastAliveCounter = a /\ n.aliveFreezeCnt = 0
        /\ n.aliveError = FALSE
        /\ n.lastRxTick = m.lastRxTick /\ n.timeoutError = m.timeoutError
        /\ n.checksumError = m.checksumError
        /\ n.checksumRecoveryCnt = m.checksumRecoveryCnt
    BY <2>1, ZeroInRange DEF MonitorType
  <2>3. g.repeats = 0
    BY <1>0, <1>3 DEF AliveGood
  <2>4. UpTo(FreezeLimit, 0) = 0
    BY LimitsAssumption DEF UpTo
  <2>5. AliveGood(n, g)
    BY <1>0, <1>3, <2>2, <2>3, <2>4, ZeroInRange DEF AliveGood
  <2>6. n.aliveInitialized = TRUE
    BY <1>3, <2>2 DEF MonitorType
  <2>7. QED
    BY <2>2, <2>5, <2>6 DEF n, g
<1>4. QED
  BY <1>1, <1>2, <1>3

\* A valid frame keeps a node good and raises the alive fault only after
\* FreezeLimit repetitions.
LEMMA AcceptGood ==
    ASSUME NEW m, NEW h, NodeGood(m, h, now, sincePoll), NEW a \in Alive,
           now \in 0 .. TickMod - 1, sincePoll \in 0 .. PollSlack
    PROVE  /\ NodeGood(Accept(m, a), Heard(h, a), now, sincePoll)
           /\ Accept(m, a).aliveError /\ ~m.aliveError =>
                Heard(h, a).repeats >= FreezeLimit
<1> DEFINE n == UpdateChecksumRecovery(m)
           o == UpdateAliveMonitor(n, a)
           r == Accept(m, a)
           g == Heard(h, a)
           run == UpTo(RecoveryLimit, h.goodRun + 1)
<1>1. /\ n \in MonitorType
      /\ n.checksumError <=> run < RecoveryLimit
      /\ n.checksumError => n.checksumRecoveryCnt = run
      /\ n.lastAliveCounter = m.lastAliveCounter
      /\ n.aliveFreezeCnt = m.aliveFreezeCnt
      /\ n.aliveError = m.aliveError
      /\ n.aliveInitialized = m.aliveInitialized
      /\ run \in 0 .. RecoveryLimit
  BY RecoveryGood DEF NodeGood
<1>2. AliveGood(n, h) /\ h \in HistoryType
  BY <1>1 DEF NodeGood, AliveGood
<1>3. /\ o \in MonitorType /\ AliveGood(o, g)
      /\ o.aliveInitialized = TRUE
      /\ o.checksumError = n.checksumError
      /\ o.checksumRecoveryCnt = n.checksumRecoveryCnt
      /\ o.aliveError /\ ~n.aliveError => g.repeats >= FreezeLimit
  BY <1>1, <1>2, AliveMonitorGood
<1>4. g \in HistoryType /\ g.silence = 0 /\ g.goodRun = run
  <2>1. h.repeats \in 0 .. FreezeLimit
    BY <1>2 DEF HistoryType
  <2>2. UpTo(FreezeLimit, h.repeats + 1) \in 0 .. FreezeLimit
    BY <2>1, LimitsAssumption DEF UpTo
  <2>3. QED
    BY <1>1, <2>2, ZeroInRange DEF Heard, HistoryType
<1>5. r = [o EXCEPT !.timeoutError = FALSE, !.lastRxTick = now]
  BY DEF Accept
<1> HIDE DEF n, o, r, g, run
<1>6. /\ r \in MonitorType
      /\ r.timeoutError = FALSE /\ r.lastRxTick = now
      /\ r.lastAliveCounter = o.lastAliveCounter
      /\ r.aliveFreezeCnt = o.aliveFreezeCnt
      /\ r.aliveError = o.aliveError
      /\ r.aliveInitialized = o.aliveInitialized
      /\ r.checksumError = o.checksumError
      /\ r.checksumRecoveryCnt = o.checksumRecoveryCnt
  BY <1>3, <1>5 DEF MonitorType
<1>7. ChecksumGood(r, g)
  BY <1>1, <1>3, <1>4, <1>6 DEF ChecksumGood
<1>8. AliveGood(r, g)
  BY <1>3, <1>6 DEF AliveGood
<1>9. TimeGood(r, g, now, sincePoll)
  <2>1. ElapsedAt(now, r.lastRxTick) = 0
    BY <1>6 DEF ElapsedAt
  <2>2. 0 < TimeoutTicks + sincePoll
    BY TimeAssumption
  <2>3. QED
    BY <1>4, <1>6, <2>1, <2>2 DEF TimeGood
<1>10. NodeGood(r, g, now, sincePoll)
  BY <1>4, <1>6, <1>7, <1>8, <1>9 DEF NodeGood
<1>11. r.aliveError /\ ~m.aliveError => g.repeats >= FreezeLimit
  BY <1>1, <1>3, <1>6
<1>12. QED
  BY <1>10, <1>11 DEF r, g

\* A poll flags a node exactly when it has been silent for the time-out, and
\* touches neither its alive nor its checksum fault.
LEMMA PollGood ==
    ASSUME NEW m, NEW h, NodeGood(m, h, now, sincePoll),
           now \in 0 .. TickMod - 1, sincePoll \in 0 .. PollSlack
    PROVE  /\ CheckTimeout(m).timeoutError <=> h.silence >= TimeoutTicks
           /\ CheckTimeout(m).timeoutError \in BOOLEAN
           /\ CheckTimeout(m) \in MonitorType
           /\ CheckTimeout(m).aliveError = m.aliveError
           /\ CheckTimeout(m).checksumError = m.checksumError
           /\ CheckTimeout(m).checksumRecoveryCnt = m.checksumRecoveryCnt
           /\ CheckTimeout(m).lastRxTick = m.lastRxTick
           /\ ~(CheckTimeout(m).timeoutError /\ ~m.timeoutError)
                => CheckTimeout(m) = m
           /\ CheckTimeout(m).timeoutError /\ ~m.timeoutError
                => ~CheckTimeout(m).aliveInitialized
<1> DEFINE n == CheckTimeout(m)
<1>0. m \in MonitorType /\ h \in HistoryType /\ TimeGood(m, h, now, sincePoll)
  BY DEF NodeGood
<1>1. CASE Elapsed(m.lastRxTick) >= TimeoutTicks /\ ~m.timeoutError
  <2>1. n = [m EXCEPT !.timeoutError = TRUE, !.aliveInitialized = FALSE,
                      !.aliveFreezeCnt = 0]
    BY <1>1 DEF CheckTimeout
  <2>2. h.silence >= TimeoutTicks
    BY <1>0, <1>1 DEF TimeGood, Elapsed, ElapsedAt
  <2> HIDE DEF n
  <2>3. /\ n \in MonitorType /\ n.timeoutError = TRUE
        /\ n.aliveInitialized = FALSE /\ n.aliveError = m.aliveError
        /\ n.checksumError = m.checksumError
        /\ n.checksumRecoveryCnt = m.checksumRecoveryCnt
        /\ n.lastRxTick = m.lastRxTick
    BY <1>0, <2>1, ZeroInRange DEF MonitorType
  <2>4. QED
    BY <1>1, <2>2, <2>3 DEF n
<1>2. CASE ~(Elapsed(m.lastRxTick) >= TimeoutTicks /\ ~m.timeoutError)
  <2>1. n = m
    BY <1>2 DEF CheckTimeout
  <2>2. m.timeoutError <=> h.silence >= TimeoutTicks
    <3>1. CASE m.timeoutError
      BY <1>0, <3>1 DEF TimeGood
    <3>2. CASE ~m.timeoutError
      BY <1>0, <1>2, <3>2 DEF TimeGood, Elapsed, ElapsedAt
    <3>3. QED
      BY <3>1, <3>2
  <2>3. m.timeoutError \in BOOLEAN
    BY <1>0 DEF MonitorType
  <2>4. QED
    BY <1>0, <2>1, <2>2, <2>3
<1>3. QED
  BY <1>1, <1>2

\* The history of a node after a poll.
Polled(m, h) ==
    IF CheckTimeout(m).timeoutError /\ ~m.timeoutError
    THEN [h EXCEPT !.alive = NoAlive, !.repeats = 0] ELSE h

\* A poll keeps a node good.
LEMMA PollKeepsGood ==
    ASSUME NEW m, NEW h, NodeGood(m, h, now, sincePoll),
           now \in 0 .. TickMod - 1, sincePoll \in 0 .. PollSlack
    PROVE  /\ NodeGood(CheckTimeout(m), Polled(m, h), now, 0)
           /\ Polled(m, h).goodRun = h.goodRun
<1> DEFINE n == CheckTimeout(m)
           g == Polled(m, h)
<1>0. /\ m \in MonitorType /\ h \in HistoryType
      /\ ChecksumGood(m, h) /\ AliveGood(m, h) /\ TimeGood(m, h, now, sincePoll)
  BY DEF NodeGood
<1>1. /\ n.timeoutError <=> h.silence >= TimeoutTicks
      /\ n \in MonitorType
      /\ n.aliveError = m.aliveError
      /\ n.checksumError = m.checksumError
      /\ n.checksumRecoveryCnt = m.checksumRecoveryCnt
      /\ n.lastRxTick = m.lastRxTick
      /\ ~(n.timeoutError /\ ~m.timeoutError) => n = m
      /\ n.timeoutError /\ ~m.timeoutError => ~n.aliveInitialized
  BY PollGood
<1> HIDE DEF n, g
<1>2. /\ g \in HistoryType /\ g.silence = h.silence /\ g.goodRun = h.goodRun
      /\ n.timeoutError /\ ~m.timeoutError
           => g.alive = NoAlive /\ g.repeats = 0
      /\ ~(n.timeoutError /\ ~m.timeoutError) => g = h
  <2>1. CASE n.timeoutError /\ ~m.timeoutError
    <3>1. g = [h EXCEPT !.alive = NoAlive, !.repeats = 0]
      BY <2>1 DEF n, g, Polled
    <3>2. QED
      BY <1>0, <2>1, <3>1, ZeroInRange DEF HistoryType
  <2>2. CASE ~(n.timeoutError /\ ~m.timeoutError)
    <3>1. g = h
      BY <2>2 DEF n, g, Polled
    <3>2. QED
      BY <1>0, <2>2, <3>1
  <2>3. QED
    BY <2>1, <2>2
<1>3. ChecksumGood(n, g)
  BY <1>0, <1>1, <1>2 DEF ChecksumGood
<1>4. AliveGood(n, g)
  <2>1. CASE n.timeoutError /\ ~m.timeoutError
    BY <1>1, <1>2, <2>1, ZeroInRange DEF AliveGood
  <2>2. CASE ~(n.timeoutError /\ ~m.timeoutError)
    BY <1>0, <1>1, <1>2, <2>2
  <2>3. QED
    BY <2>1, <2>2
<1>5. TimeGood(n, g, now, 0)
  <2>1. CASE n.timeoutError
    <3>1. ~n.aliveInitialized
      <4>1. CASE m.timeoutError
        BY <1>0, <1>1, <4>1 DEF TimeGood
      <4>2. CASE ~m.timeoutError
        BY <1>1, <2>1, <4>2
      <4>3. QED
        BY <4>1, <4>2
    <3>2. g.silence >= TimeoutTicks
      BY <1>1, <1>2, <2>1
    <3>3. QED
      BY <2>1, <3>1, <3>2 DEF TimeGood
  <2>2. CASE ~n.timeoutError
    <3>1. n = m /\ g = h
      BY <1>1, <1>2, <2>2
    <3>2. h.silence = ElapsedAt(now, m.lastRxTick)
      BY <1>0, <2>2, <3>1 DEF TimeGood
    <3>3. h.silence \in Int /\ ~(h.silence >= TimeoutTicks)
      BY <1>0, <1>1, <2>2, TimeAssumption DEF HistoryType
    <3>4. h.silence < TimeoutTicks + 0
      BY <3>3, TimeAssumption
    <3>5. QED
      BY <2>2, <3>1, <3>2, <3>4 DEF TimeGood
  <2>3. QED
    BY <2>1, <2>2
<1>6. QED
  BY <1>1, <1>2, <1>3, <1>4, <1>5 DEF NodeGood, n, g

\* A tick ages every node by one, across the wrap of the tick counter too.
LEMMA TickGood ==
    ASSUME NEW m, NEW h, NEW t \in 0 .. TickMod - 1, NEW p \in 0 .. PollSlack,
           NodeGood(m, h, t, p), p < PollSlack,
           NEW g, g = [h EXCEPT !.silence = UpTo(TimeoutTicks + PollSlack,
                                                 h.silence + 1)]
    PROVE  NodeGood(m, g, (t + 1) % TickMod, p + 1)
<1> DEFINE u == (t + 1) % TickMod
<1>1. /\ m \in MonitorType /\ h \in HistoryType
      /\ ChecksumGood(m, h) /\ AliveGood(m, h) /\ TimeGood(m, h, t, p)
  BY DEF NodeGood
<1>2. h.silence \in 0 .. TimeoutTicks + PollSlack
      /\ m.lastRxTick \in 0 .. TickMod - 1
  BY <1>1 DEF HistoryType, MonitorType
<1>3. UpTo(TimeoutTicks + PollSlack, h.silence + 1)
        \in 0 .. TimeoutTicks + PollSlack
  BY <1>2, TimeAssumption DEF UpTo
<1>4. /\ g \in HistoryType /\ g.goodRun = h.goodRun
      /\ g.alive = h.alive /\ g.repeats = h.repeats
      /\ g.silence = UpTo(TimeoutTicks + PollSlack, h.silence + 1)
  BY <1>1, <1>3 DEF HistoryType
<1>5. ChecksumGood(m, g) /\ AliveGood(m, g)
  BY <1>1, <1>4 DEF ChecksumGood, AliveGood
<1>6. u = IF t = TickMod - 1 THEN 0 ELSE t + 1
  BY TimeAssumption
<1> HIDE DEF u
<1>7. TimeGood(m, g, u, p + 1)
  <2>1. CASE m.timeoutError
    <3>1. h.silence >= TimeoutTicks /\ ~m.aliveInitialized
      BY <1>1, <2>1 DEF TimeGood
    <3>2. g.silence >= TimeoutTicks
      BY <1>2, <1>4, <3>1, TimeAssumption DEF UpTo
    <3>3. QED
      BY <2>1, <3>1, <3>2 DEF TimeGood
  <2>2. CASE ~m.timeoutError
    <3>1. h.silence = ElapsedAt(t, m.lastRxTick) /\ h.silence < TimeoutTicks + p
      BY <1>1, <2>2 DEF TimeGood
    <3>2. h.silence + 1 < TimeoutTicks + (p + 1)
          /\ h.silence + 1 < TimeoutTicks + PollSlack
      BY <1>2, <3>1, TimeAssumption
    <3>3. g.silence = h.silence + 1
      BY <1>2, <1>4, <3>2, TimeAssumption DEF UpTo
    <3>4. h.silence + 1 = ElapsedAt(u, m.lastRxTick)
      BY <1>2, <1>6, <3>1, <3>2, TimeAssumption DEF ElapsedAt
    <3>5. QED
      BY <2>2, <3>2, <3>3, <3>4 DEF TimeGood
  <2>3. QED
    BY <2>1, <2>2
<1>8. QED
  BY <1>1, <1>4, <1>5, <1>7 DEF NodeGood, u

-----------------------------------------------------------------------------
LEMMA InvariantInit == Init => IInv
<1> SUFFICES ASSUME Init PROVE IInv
  OBVIOUS
<1> DEFINE m0 == [lastRxTick |-> 0, timeoutError |-> FALSE,
                  lastAliveCounter |-> 0, aliveFreezeCnt |-> 0,
                  aliveError |-> FALSE, aliveInitialized |-> FALSE,
                  checksumError |-> FALSE, checksumRecoveryCnt |-> 0]
           h0 == [silence |-> 0, goodRun |-> RecoveryLimit,
                  alive |-> NoAlive, repeats |-> 0]
<1>1. m0 \in MonitorType
  BY ZeroInRange DEF MonitorType
<1>2. h0 \in HistoryType
  BY ZeroInRange DEF HistoryType
<1>3. now = 0 /\ sincePoll = 0
      /\ monitors = [e \in Ecus |-> m0] /\ history = [e \in Ecus |-> h0]
  BY DEF Init, InitialMonitors
<1>4. TypeOK
  <2>1. status \in StatusType /\ gatewayState \in GatewayStates
    BY ZeroInRange DEF Init, StatusType, GatewayStates
  <2>2. monitors \in [Ecus -> MonitorType] /\ history \in [Ecus -> HistoryType]
    BY <1>1, <1>2, <1>3
  <2>3. now \in 0 .. TickMod - 1 /\ sincePoll \in 0 .. PollSlack
        /\ blockedMsgCnt \in 0 .. ByteMax /\ aliveCounter \in Alive
        /\ gatewayRxMask \subseteq Ecus
    BY ZeroInRange DEF Init
  <2>4. QED
    BY <2>1, <2>2, <2>3 DEF TypeOK
<1>5. NodeGood(m0, h0, 0, 0)
  <2>1. ChecksumGood(m0, h0)
    BY LimitsAssumption DEF ChecksumGood
  <2>2. AliveGood(m0, h0)
    BY ZeroInRange DEF AliveGood
  <2>3. TimeGood(m0, h0, 0, 0)
    BY TimeAssumption DEF TimeGood, ElapsedAt
  <2>4. QED
    BY <1>1, <1>2, <2>1, <2>2, <2>3 DEF NodeGood
<1> HIDE DEF m0, h0
<1>6. ASSUME NEW e \in Ecus
      PROVE  NodeGood(monitors[e], history[e], now, sincePoll)
  BY <1>3, <1>5
<1>7. QED
  BY <1>4, <1>6 DEF IInv

\* One lemma per action.
LEMMA RefuseStep ==
    ASSUME IInv, NEW e \in Ecus, RefuseFrame(e)
    PROVE  IInv'
<1>1. /\ monitors \in [Ecus -> MonitorType] /\ history \in [Ecus -> HistoryType]
      /\ NodeGood(monitors[e], history[e], now, sincePoll)
  BY DEF IInv, TypeOK
<1>2. /\ monitors' = [monitors EXCEPT ![e] = SetChecksumError(monitors[e])]
      /\ history' = [history EXCEPT ![e] = [history[e] EXCEPT !.goodRun = 0]]
      /\ now' = now /\ sincePoll' = sincePoll
  BY <1>1 DEF RefuseFrame
<1>3. NodeGood(SetChecksumError(monitors[e]),
               [history[e] EXCEPT !.goodRun = 0], now, sincePoll)
  BY <1>1, RefuseGood
<1>4. ASSUME NEW f \in Ecus
      PROVE  NodeGood(monitors'[f], history'[f], now', sincePoll')
  <2>1. CASE f = e
    BY <1>1, <1>2, <1>3, <2>1
  <2>2. CASE f # e
    BY <1>1, <1>2, <2>2 DEF IInv
  <2>3. QED
    BY <2>1, <2>2
<1>5. TypeOK'
  <2>1. monitors' \in [Ecus -> MonitorType] /\ history' \in [Ecus -> HistoryType]
    BY <1>1, <1>2, <1>3 DEF NodeGood
  <2>2. blockedMsgCnt' \in 0 .. ByteMax
    BY CounterGood DEF RefuseFrame, IInv, TypeOK
  <2>3. QED
    BY <1>2, <2>1, <2>2 DEF RefuseFrame, IInv, TypeOK
<1>6. QED
  BY <1>4, <1>5 DEF IInv

LEMMA AcceptStep ==
    ASSUME IInv, NEW e \in Ecus, NEW a \in Alive, AcceptFrame(e, a)
    PROVE  IInv'
<1>1. /\ monitors \in [Ecus -> MonitorType] /\ history \in [Ecus -> HistoryType]
      /\ NodeGood(monitors[e], history[e], now, sincePoll)
      /\ now \in 0 .. TickMod - 1 /\ sincePoll \in 0 .. PollSlack
  BY DEF IInv, TypeOK
<1>2. /\ monitors' = [monitors EXCEPT ![e] = Accept(monitors[e], a)]
      /\ history' = [history EXCEPT ![e] = Heard(history[e], a)]
      /\ now' = now /\ sincePoll' = sincePoll
  BY <1>1 DEF AcceptFrame
<1>3. NodeGood(Accept(monitors[e], a), Heard(history[e], a), now, sincePoll)
  BY <1>1, AcceptGood
<1>4. ASSUME NEW f \in Ecus
      PROVE  NodeGood(monitors'[f], history'[f], now', sincePoll')
  <2>1. CASE f = e
    BY <1>1, <1>2, <1>3, <2>1
  <2>2. CASE f # e
    BY <1>1, <1>2, <2>2 DEF IInv
  <2>3. QED
    BY <2>1, <2>2
<1>5. TypeOK'
  <2>1. monitors' \in [Ecus -> MonitorType] /\ history' \in [Ecus -> HistoryType]
    BY <1>1, <1>2, <1>3 DEF NodeGood
  <2>2. gatewayRxMask' \subseteq Ecus
    BY DEF AcceptFrame, IInv, TypeOK
  <2>3. QED
    BY <1>2, <2>1, <2>2 DEF AcceptFrame, IInv, TypeOK
<1>6. QED
  BY <1>4, <1>5 DEF IInv

\* What a poll leaves of one node, and of all of them.
LEMMA PollNode ==
    ASSUME IInv, PollTimeouts, now' = now, NEW e \in Ecus
    PROVE  /\ monitors'[e] = CheckTimeout(monitors[e])
           /\ NodeGood(monitors'[e], history'[e], now', sincePoll')
           /\ history'[e].goodRun = history[e].goodRun
<1>1. /\ NodeGood(monitors[e], history[e], now, sincePoll)
      /\ now \in 0 .. TickMod - 1 /\ sincePoll \in 0 .. PollSlack
  BY DEF IInv, TypeOK
<1>2. /\ monitors'[e] = CheckTimeout(monitors[e]) /\ sincePoll' = 0
      /\ history'[e] = Polled(monitors[e], history[e])
  BY DEF PollTimeouts, Checked, Polled
<1>3. /\ NodeGood(CheckTimeout(monitors[e]), Polled(monitors[e], history[e]),
                  now, 0)
      /\ Polled(monitors[e], history[e]).goodRun = history[e].goodRun
  BY <1>1, PollKeepsGood
<1>4. QED
  BY <1>2, <1>3

LEMMA PollStep ==
    ASSUME IInv, PollTimeouts, now' = now
    PROVE  /\ \A e \in Ecus :
                NodeGood(monitors'[e], history'[e], now', sincePoll')
           /\ monitors' \in [Ecus -> MonitorType]
           /\ history' \in [Ecus -> HistoryType]
           /\ sincePoll' \in 0 .. PollSlack
<1>1. ASSUME NEW e \in Ecus
      PROVE  NodeGood(monitors'[e], history'[e], now', sincePoll')
  BY <1>1, PollNode
<1>2. \A e \in Ecus : monitors'[e] \in MonitorType /\ history'[e] \in HistoryType
  BY <1>1 DEF NodeGood
<1>3. monitors' \in [Ecus -> MonitorType]
  BY <1>2 DEF PollTimeouts, Checked
<1>4. history' \in [Ecus -> HistoryType]
  BY <1>2 DEF PollTimeouts
<1>5. sincePoll' \in 0 .. PollSlack
  BY ZeroInRange DEF PollTimeouts
<1>6. QED
  BY <1>1, <1>3, <1>4, <1>5

LEMMA TickStep ==
    ASSUME IInv, Tick
    PROVE  IInv'
<1>1. /\ monitors \in [Ecus -> MonitorType] /\ history \in [Ecus -> HistoryType]
      /\ now \in 0 .. TickMod - 1 /\ sincePoll \in 0 .. PollSlack
      /\ sincePoll < PollSlack
      /\ now' = (now + 1) % TickMod /\ sincePoll' = sincePoll + 1
      /\ monitors' = monitors
  BY DEF IInv, TypeOK, Tick, Advance
<1>2. ASSUME NEW e \in Ecus
      PROVE  NodeGood(monitors'[e], history'[e], now', sincePoll')
  <2>1. history'[e] = [history[e] EXCEPT
           !.silence = UpTo(TimeoutTicks + PollSlack, history[e].silence + 1)]
    BY DEF Tick, Advance
  <2>2. NodeGood(monitors[e], history[e], now, sincePoll)
    BY DEF IInv
  <2>3. NodeGood(monitors[e], history'[e], (now + 1) % TickMod, sincePoll + 1)
    BY <1>1, <2>1, <2>2, TickGood
  <2>4. QED
    BY <1>1, <2>3
<1>3. TypeOK'
  <2>1. \A e \in Ecus : history'[e] \in HistoryType
    BY <1>2 DEF NodeGood
  <2>2. history' \in [Ecus -> HistoryType]
    BY <2>1 DEF Tick, Advance
  <2>3. now' \in 0 .. TickMod - 1 /\ sincePoll' \in 0 .. PollSlack
    BY <1>1, TimeAssumption
  <2>4. QED
    BY <1>1, <2>2, <2>3 DEF IInv, TypeOK, Tick, Advance
<1>4. QED
  BY <1>2, <1>3 DEF IInv

LEMMA BuildStep ==
    ASSUME IInv, BuildStatus
    PROVE  IInv'
<1>1. PollTimeouts /\ now' = now
  BY DEF BuildStatus
<1>2. /\ \A e \in Ecus : NodeGood(monitors'[e], history'[e], now', sincePoll')
      /\ monitors' \in [Ecus -> MonitorType]
      /\ history' \in [Ecus -> HistoryType]
      /\ sincePoll' \in 0 .. PollSlack
  BY <1>1, PollStep
<1>3. gatewayState' \in GatewayStates
  <2>1. gatewayState' = StateFrom(Checked)
    BY DEF BuildStatus
  <2>2. QED
    BY <2>1 DEF StateFrom, GatewayStates
<1>4. aliveCounter' \in Alive
  <2>1. aliveCounter \in Nat /\ AliveMod \in Nat \ {0}
    BY LimitsAssumption DEF IInv, TypeOK, Alive
  <2>2. (aliveCounter + 1) % AliveMod \in 0 .. AliveMod - 1
    BY <2>1
  <2>3. QED
    BY <2>2 DEF BuildStatus, Alive
<1>5. status' \in StatusType
  <2>1. HasAnyAliveError(Checked) \in BOOLEAN
        /\ HasAnyChecksumError(Checked) \in BOOLEAN
    BY DEF HasAnyAliveError, HasAnyChecksumError
  <2>2. blockedMsgCnt \in 0 .. ByteMax /\ aliveCounter \in Alive
        /\ gatewayRxMask \in SUBSET Ecus
    BY DEF IInv, TypeOK
  <2>3. QED
    BY <1>3, <2>1, <2>2 DEF BuildStatus, StatusType
<1>6. QED
  BY <1>1, <1>2, <1>3, <1>4, <1>5 DEF IInv, TypeOK, BuildStatus

LEMMA InvariantStep == IInv /\ [Next]_vars => IInv'
<1> SUFFICES ASSUME IInv, [Next]_vars PROVE IInv'
  OBVIOUS
<1>1. CASE BlockUnknown
  <2>1. blockedMsgCnt' \in 0 .. ByteMax
    BY <1>1, CounterGood DEF BlockUnknown, IInv, TypeOK
  <2>2. QED
    BY <1>1, <2>1 DEF BlockUnknown, IInv, TypeOK
<1>2. ASSUME NEW e \in Ecus, RefuseFrame(e) PROVE IInv'
  BY <1>2, RefuseStep
<1>3. ASSUME NEW e \in Ecus, NEW a \in Alive, AcceptFrame(e, a) PROVE IInv'
  BY <1>3, AcceptStep
<1>4. CASE CheckTimeouts
  <2>1. PollTimeouts /\ now' = now
    BY <1>4 DEF CheckTimeouts
  <2>2. /\ \A e \in Ecus : NodeGood(monitors'[e], history'[e], now', sincePoll')
        /\ monitors' \in [Ecus -> MonitorType]
        /\ history' \in [Ecus -> HistoryType]
        /\ sincePoll' \in 0 .. PollSlack
    BY <2>1, PollStep
  <2>3. QED
    BY <1>4, <2>2 DEF CheckTimeouts, IInv, TypeOK
<1>5. CASE BuildStatus
  BY <1>5, BuildStep
<1>6. CASE Tick
  BY <1>6, TickStep
<1>7. CASE UNCHANGED vars
  BY <1>7 DEF vars, IInv, TypeOK
<1>8. QED
  BY <1>1, <1>2, <1>3, <1>4, <1>5, <1>6, <1>7 DEF Next

-----------------------------------------------------------------------------
\* Every behaviour of the supervision keeps the inductive invariant: each
\* helper of com_gateway.c leaves the monitor that what arrived calls for.
THEOREM Invariance == Spec => []IInv
<1>1. Init => IInv
  BY InvariantInit
<1>2. IInv /\ [Next]_vars => IInv'
  BY InvariantStep
<1>3. QED
  BY <1>1, <1>2, PTL DEF Spec

\* Every variable of the supervision keeps its range.
THEOREM TypeCorrect == Spec => []TypeOK
<1>1. IInv => TypeOK
  BY DEF IInv
<1>2. QED
  BY <1>1, Invariance, PTL

\* COM_GatewayCheckTimeouts flags silence, all of it that a poll had the time
\* to see, and nothing else.
THEOREM TimeoutsAreRight == Spec => []TimeoutVerdict
<1>1. IInv => TimeoutVerdict
  <2> SUFFICES ASSUME IInv, NEW e \in Ecus
               PROVE  /\ monitors[e].timeoutError
                           => history[e].silence >= TimeoutTicks
                      /\ history[e].silence >= TimeoutTicks + PollSlack
                           => monitors[e].timeoutError
    BY DEF TimeoutVerdict
  <2>1. /\ TimeGood(monitors[e], history[e], now, sincePoll)
        /\ history[e].silence \in 0 .. TimeoutTicks + PollSlack
        /\ sincePoll \in 0 .. PollSlack
    BY DEF IInv, TypeOK, NodeGood, HistoryType
  <2>2. monitors[e].timeoutError => history[e].silence >= TimeoutTicks
    BY <2>1 DEF TimeGood
  <2>3. ASSUME ~monitors[e].timeoutError
        PROVE  ~(history[e].silence >= TimeoutTicks + PollSlack)
    <3>1. history[e].silence < TimeoutTicks + sincePoll
      BY <2>1, <2>3 DEF TimeGood
    <3>2. QED
      BY <2>1, <3>1, TimeAssumption
  <2>4. QED
    BY <2>2, <2>3
<1>2. QED
  BY <1>1, Invariance, PTL

\* COM_UpdateChecksumRecovery clears a checksum fault after RecoveryLimit valid
\* frames in a row and not before.
THEOREM ChecksumFaultsAreRight == Spec => []ChecksumVerdict
<1>1. IInv => ChecksumVerdict
  BY DEF IInv, NodeGood, ChecksumGood, ChecksumVerdict
<1>2. QED
  BY <1>1, Invariance, PTL

\* COM_UpdateAliveMonitor misses no frozen counter.
THEOREM FreezesAreNoticed == Spec => []FreezeNoticed
<1>1. IInv => FreezeNoticed
  BY DEF IInv, NodeGood, AliveGood, FreezeNoticed
<1>2. QED
  BY <1>1, Invariance, PTL

\* COM_UpdateAliveMonitor raises the alive fault only for a frozen counter.
THEOREM FreezesAreGenuine == Spec => FreezeGenuine
<1>1. IInv /\ [Next]_vars =>
        [\A e \in Ecus : ~monitors[e].aliveError /\ monitors'[e].aliveError
           => history'[e].repeats >= FreezeLimit]_vars
  <2> SUFFICES ASSUME IInv, [Next]_vars, NEW e \in Ecus,
                      ~monitors[e].aliveError, monitors'[e].aliveError
               PROVE  history'[e].repeats >= FreezeLimit
    OBVIOUS
  <2>1. /\ monitors \in [Ecus -> MonitorType]
        /\ history \in [Ecus -> HistoryType]
        /\ NodeGood(monitors[e], history[e], now, sincePoll)
        /\ now \in 0 .. TickMod - 1 /\ sincePoll \in 0 .. PollSlack
    BY DEF IInv, TypeOK
  <2>2. CASE BlockUnknown
    BY <2>2 DEF BlockUnknown
  <2>3. ASSUME NEW f \in Ecus, RefuseFrame(f)
        PROVE  history'[e].repeats >= FreezeLimit
    <3>1. monitors' = [monitors EXCEPT ![f] = SetChecksumError(monitors[f])]
      BY <2>1, <2>3 DEF RefuseFrame
    <3>2. SetChecksumError(monitors[e]).aliveError = monitors[e].aliveError
      BY <2>1 DEF SetChecksumError, MonitorType
    <3>3. monitors'[e].aliveError = monitors[e].aliveError
      BY <2>1, <3>1, <3>2
    <3>4. QED
      BY <3>3
  <2>4. ASSUME NEW f \in Ecus, NEW a \in Alive, AcceptFrame(f, a)
        PROVE  history'[e].repeats >= FreezeLimit
    <3>1. /\ monitors' = [monitors EXCEPT ![f] = Accept(monitors[f], a)]
          /\ history' = [history EXCEPT ![f] = Heard(history[f], a)]
      BY <2>1, <2>4 DEF AcceptFrame
    <3>2. CASE f = e
      <4>1. /\ monitors'[e] = Accept(monitors[e], a)
            /\ history'[e] = Heard(history[e], a)
        BY <2>1, <3>1, <3>2
      <4>2. Accept(monitors[e], a).aliveError /\ ~monitors[e].aliveError
              => Heard(history[e], a).repeats >= FreezeLimit
        BY <2>1, AcceptGood
      <4>3. QED
        BY <4>1, <4>2
    <3>3. CASE f # e
      BY <2>1, <3>1, <3>3
    <3>4. QED
      BY <3>2, <3>3
  <2>5. ASSUME PollTimeouts, now' = now
        PROVE  history'[e].repeats >= FreezeLimit
    <3>1. monitors'[e] = CheckTimeout(monitors[e])
      BY <2>5, PollNode
    <3>2. CheckTimeout(monitors[e]).aliveError = monitors[e].aliveError
      BY <2>1, PollGood
    <3>3. QED
      BY <3>1, <3>2
  <2>6. CASE CheckTimeouts
    BY <2>5, <2>6 DEF CheckTimeouts
  <2>7. CASE BuildStatus
    BY <2>5, <2>7 DEF BuildStatus
  <2>8. CASE Tick
    BY <2>8 DEF Tick, Advance
  <2>9. CASE UNCHANGED vars
    BY <2>9 DEF vars
  <2>10. QED
    BY <2>2, <2>3, <2>4, <2>6, <2>7, <2>8, <2>9 DEF Next
<1>2. QED
  BY <1>1, Invariance, PTL DEF Spec, FreezeGenuine

\* A node is healthy exactly when a poll leaves none of its faults set.
LEMMA HealthyIsFaultless ==
    ASSUME IInv, NEW e \in Ecus
    PROVE  Healthy(e) <=> /\ ~Checked[e].timeoutError
                          /\ ~Checked[e].aliveError
                          /\ ~Checked[e].checksumError
<1>1. /\ NodeGood(monitors[e], history[e], now, sincePoll)
      /\ now \in 0 .. TickMod - 1 /\ sincePoll \in 0 .. PollSlack
  BY DEF IInv, TypeOK
<1>2. Checked[e] = CheckTimeout(monitors[e])
  BY DEF Checked
<1>3. /\ Checked[e].timeoutError <=> history[e].silence >= TimeoutTicks
      /\ Checked[e].aliveError = monitors[e].aliveError
      /\ Checked[e].checksumError = monitors[e].checksumError
  BY <1>1, <1>2, PollGood
<1>4. /\ history[e].silence \in 0 .. TimeoutTicks + PollSlack
      /\ history[e].goodRun \in 0 .. RecoveryLimit
  BY <1>1 DEF NodeGood, HistoryType
<1>5. history[e].silence >= TimeoutTicks <=> ~(history[e].silence < TimeoutTicks)
  BY <1>4, TimeAssumption
<1>6. monitors[e].checksumError <=> ~(history[e].goodRun = RecoveryLimit)
  <2>1. history[e].goodRun < RecoveryLimit
          <=> ~(history[e].goodRun = RecoveryLimit)
    BY <1>4, LimitsAssumption
  <2>2. QED
    BY <1>1, <2>1 DEF NodeGood, ChecksumGood
<1>7. QED
  BY <1>3, <1>5, <1>6 DEF Healthy

\* COM_GatewayBuildStatusMessage reports NORMAL, INIT and with them DEGRADED
\* exactly for what arrived from the nodes by the time it builds the frame.
THEOREM StatusIsRight == Spec => StatusVerdict
<1>1. IInv /\ [Next]_vars =>
        [aliveCounter' # aliveCounter =>
           /\ status'.gatewayState = "NORMAL"
                <=> gatewayRxMask = Ecus /\ \A e \in Ecus : Healthy(e)
           /\ status'.gatewayState = "INIT"
                <=> gatewayRxMask # Ecus /\ \A e \in Ecus : Healthy(e)]_vars
  <2> SUFFICES ASSUME IInv, Next, aliveCounter' # aliveCounter
               PROVE  /\ status'.gatewayState = "NORMAL"
                           <=> gatewayRxMask = Ecus /\ \A e \in Ecus : Healthy(e)
                      /\ status'.gatewayState = "INIT"
                           <=> gatewayRxMask # Ecus /\ \A e \in Ecus : Healthy(e)
    BY DEF vars
  <2>1. BuildStatus
    BY DEF Next, BlockUnknown, RefuseFrame, AcceptFrame, CheckTimeouts, Tick, Advance
  <2>2. status'.gatewayState = StateFrom(Checked)
    BY <2>1 DEF BuildStatus
  <2>3. HasAnyAliveError(Checked) \/ HasAnyChecksumError(Checked)
          <=> ~\A e \in Ecus : Healthy(e)
    BY HealthyIsFaultless DEF HasAnyAliveError, HasAnyChecksumError
  <2> DEFINE faulty == HasAnyAliveError(Checked) \/ HasAnyChecksumError(Checked)
  <2>4. CASE faulty
    <3>1. StateFrom(Checked) = "DEGRADED"
      BY <2>4 DEF StateFrom
    <3>2. QED
      BY <2>2, <2>3, <2>4, <3>1
  <2>5. CASE ~faulty /\ gatewayRxMask = Ecus
    <3>1. StateFrom(Checked) = "NORMAL"
      BY <2>5 DEF StateFrom, HasAllMonitoredEcusSeen
    <3>2. QED
      BY <2>2, <2>3, <2>5, <3>1
  <2>6. CASE ~faulty /\ gatewayRxMask # Ecus
    <3>1. StateFrom(Checked) = "INIT"
      BY <2>6 DEF StateFrom, HasAllMonitoredEcusSeen
    <3>2. QED
      BY <2>2, <2>3, <2>6, <3>1
  <2>7. QED
    BY <2>4, <2>5, <2>6
<1>2. QED
  BY <1>1, Invariance, PTL DEF Spec, StatusVerdict

=============================================================================
