--------------------------- MODULE GatewayLoopProofs ---------------------------
(***************************************************************************)
(* The loop of the CAN task polls the timeouts in time, for every number   *)
(* of nodes, every cost of a line of the log and of a transmission: the    *)
(* promise that the tick of ComSupervision rests on.  And a node that      *)
(* counts its frames is not taken for frozen, however they are delayed,    *)
(* lost or handled out of order.                                           *)
(***************************************************************************)
EXTENDS GatewayLoop, FiniteSetTheorems, TLAPS

(***************************************************************************)
(* The inductive invariant.  At each point of its loop the task has used   *)
(* no more ticks since the last poll, the ones the call it is in may still *)
(* take included, than the calls behind it can cost.  That one frame makes *)
(* no more than two lines rests on the supervision: a node that is flagged *)
(* as silent has no alive value to compare with, and a node never heard    *)
(* has no count of valid frames to complete.                               *)
(***************************************************************************)

LineTicks == LinesPerFrame * LogTicks
AfterPoll == NoticeTicks * NodeCount
AfterSend == AfterPoll + (SendTicks + FirstTicks + LogTicks)

\* When the task comes to the mailbox b.
BeforeVisit(b) ==
    AfterSend + 1
      + IF b <= OtaBox THEN (b - 1) * LineTicks
                       ELSE NodeCount * LineTicks + (SendTicks + LogTicks)

Allowance(p, b) ==
    CASE p \in {"period", "send"}  -> AfterPoll
      [] p = "sent"                -> AfterPoll + SendTicks
      [] p \in {"delay", "asleep"} -> AfterSend
      [] p = "visit"               -> BeforeVisit(b)
      [] p = "handle"              -> BeforeVisit(b) + LineTicks
      [] p = "respond"             -> BeforeVisit(b) + SendTicks
      [] p = "rearm"               -> BeforeVisit(b) + SendTicks + LogTicks
      [] p = "check"               -> PollSlack

InTurn == sincePoll + held <= Allowance(pc, box)

Placed ==
    /\ pc = "asleep" => held = 0
    /\ pc = "handle" => box # OtaBox
    /\ pc \in {"respond", "rearm"} => box = OtaBox
    /\ pc \notin {"visit", "handle", "respond", "rearm"} => box = 1

Frame == [node : 0 .. OtaBox, valid : BOOLEAN, alive : Alive]

Frames ==
    /\ \A b \in Boxes : received[b] # NoFrame => received[b] \in Frame
    /\ pc = "handle" => rxMsg \in Frame

\* The monitor m of a node, and whether the node was ever heard.
MonitorGood(m, heard) ==
    /\ m.timeoutError => ~m.aliveInitialized
    /\ ~heard => ~m.aliveInitialized /\ m.checksumRecoveryCnt = 0

Monitors == \A e \in Ecus : MonitorGood(monitors[e], e \in gatewayRxMask)

IInv == TypeOK /\ InTurn /\ Placed /\ Frames /\ Monitors

-----------------------------------------------------------------------------
(* The arithmetic of one turn.  Products of constants are named, so that   *)
(* every later step is linear.                                             *)

LEMMA OneMore ==
    ASSUME NEW i \in Nat, NEW j \in Nat
    PROVE  (i + 1) * j = i * j + j
  OBVIOUS

LEMMA Sums ==
    ASSUME NEW i \in Nat, NEW j \in Nat, NEW k \in Nat, NEW l \in Nat, NEW m \in Nat,
           i <= j + k, l <= m
    PROVE  i + l <= j + k + m
  OBVIOUS

LEMMA Products ==
    ASSUME NEW i \in Nat, NEW j \in Nat, NEW k \in Nat, i <= j
    PROVE  k * i \in Nat /\ k * i <= k * j
  OBVIOUS

LEMMA Costs ==
    /\ NodeCount \in Nat /\ LogTicks \in Nat /\ SendTicks \in Nat
    /\ NoticeTicks \in Nat /\ FirstTicks \in Nat
    /\ LineTicks \in Nat /\ LineTicks = 2 * LogTicks
    /\ AfterPoll \in Nat
    /\ AfterSend \in Nat /\ AfterSend = AfterPoll + SendTicks + FirstTicks + LogTicks
    /\ NodeCount * LineTicks \in Nat
    /\ PollSlack = AfterSend + 1 + NodeCount * LineTicks + LineTicks
                     + SendTicks + LogTicks
    /\ PollSlack \in Nat
<1>1. /\ NodeCount \in Nat /\ LogTicks \in Nat /\ SendTicks \in Nat
      /\ NoticeTicks \in Nat /\ FirstTicks \in Nat
  BY NodesAssumption, PeriodsAssumption
<1>2. LineTicks \in Nat /\ LineTicks = 2 * LogTicks
  BY <1>1 DEF LineTicks, LinesPerFrame
<1>3. \A i, j \in Nat : i * j \in Nat
  OBVIOUS
<1>4. AfterPoll \in Nat /\ NodeCount * LineTicks \in Nat
  BY <1>1, <1>2, <1>3 DEF AfterPoll
<1>5. AfterSend \in Nat /\ AfterSend = AfterPoll + SendTicks + FirstTicks + LogTicks
  BY <1>1, <1>2, <1>4 DEF AfterSend
<1>6. (NodeCount + 1) * LinesPerFrame * LogTicks
        = NodeCount * LineTicks + LineTicks
  BY <1>1 DEF LineTicks, LinesPerFrame
<1>7. PollSlack = AfterSend + 1 + NodeCount * LineTicks + LineTicks
                    + SendTicks + LogTicks
  BY <1>1, <1>2, <1>4, <1>6 DEF PollSlack, AfterSend, AfterPoll
<1> QED
  BY <1>1, <1>2, <1>4, <1>5, <1>7

LEMMA BoxRange ==
    ASSUME NEW b \in Boxes
    PROVE  /\ b \in Nat /\ OtaBox = NodeCount + 1 /\ AnyBox = NodeCount + 2
           /\ b # OtaBox => b \in 1 .. NodeCount \/ b = AnyBox
           /\ b < AnyBox => b + 1 \in Boxes
           /\ 1 \in Boxes
  BY Costs DEF Boxes, OtaBox, AnyBox

\* Each mailbox adds what handling its frame may cost.
LEMMA VisitCosts ==
    ASSUME NEW b \in Boxes
    PROVE  /\ BeforeVisit(b) \in Nat
           /\ b \in 1 .. NodeCount
                => BeforeVisit(b + 1) = BeforeVisit(b) + LineTicks
           /\ b = OtaBox
                => BeforeVisit(b + 1) = BeforeVisit(b) + SendTicks + LogTicks
           /\ b = AnyBox => PollSlack = BeforeVisit(b) + LineTicks
<1>1. CASE b \in 1 .. NodeCount
  <2>1. b <= OtaBox /\ b + 1 <= OtaBox /\ b # OtaBox /\ b # AnyBox
    BY <1>1, Costs DEF OtaBox, AnyBox
  <2>2. BeforeVisit(b) = AfterSend + 1 + (b - 1) * LineTicks
    BY <2>1 DEF BeforeVisit
  <2>3. BeforeVisit(b + 1) = AfterSend + 1 + ((b + 1) - 1) * LineTicks
    BY <2>1 DEF BeforeVisit
  <2>4. /\ (b - 1) * LineTicks \in Nat
        /\ ((b + 1) - 1) * LineTicks = (b - 1) * LineTicks + LineTicks
    <3>1. b - 1 \in Nat
      BY <1>1, Costs
    <3>2. \A i, j \in Nat : i * j \in Nat
      OBVIOUS
    <3>3. (b + 1) - 1 = (b - 1) + 1
      BY <1>1
    <3>4. ((b - 1) + 1) * LineTicks = (b - 1) * LineTicks + LineTicks
      BY <3>1, OneMore, Costs
    <3> QED
      BY <3>1, <3>2, <3>3, <3>4, Costs
  <2> QED
    BY <2>1, <2>2, <2>3, <2>4, Costs
<1>2. CASE b = OtaBox
  <2>1. /\ b <= OtaBox /\ ~(b + 1 <= OtaBox) /\ b # AnyBox
        /\ b \notin 1 .. NodeCount /\ b - 1 = NodeCount
    BY <1>2, Costs DEF OtaBox, AnyBox
  <2>2. BeforeVisit(b) = AfterSend + 1 + NodeCount * LineTicks
    BY <2>1 DEF BeforeVisit
  <2>3. BeforeVisit(b + 1)
          = AfterSend + 1 + (NodeCount * LineTicks + (SendTicks + LogTicks))
    BY <2>1 DEF BeforeVisit
  <2> QED
    BY <2>1, <2>2, <2>3, Costs
<1>3. CASE b = AnyBox
  <2>1. ~(b <= OtaBox) /\ b # OtaBox /\ b \notin 1 .. NodeCount
    BY <1>3, Costs DEF OtaBox, AnyBox
  <2>2. BeforeVisit(b)
          = AfterSend + 1 + (NodeCount * LineTicks + (SendTicks + LogTicks))
    BY <2>1 DEF BeforeVisit
  <2> QED
    BY <2>1, <2>2, Costs
<1> QED
  BY <1>1, <1>2, <1>3, BoxRange

LEMMA VisitsFit ==
    ASSUME NEW b \in Boxes
    PROVE  /\ b # OtaBox => BeforeVisit(b) + LineTicks <= PollSlack
           /\ b = OtaBox => BeforeVisit(b) + SendTicks + LogTicks <= PollSlack
<1>1. CASE b \in 1 .. NodeCount
  <2>1. b \in Nat /\ b <= NodeCount /\ b # OtaBox /\ b + 1 <= OtaBox
    BY <1>1, Costs DEF OtaBox
  <2>2. BeforeVisit(b + 1) = AfterSend + 1 + ((b + 1) - 1) * LineTicks
    BY <2>1 DEF BeforeVisit
  <2>3. (b + 1) - 1 = b
    BY <2>1
  <2>4. b * LineTicks \in Nat /\ b * LineTicks <= NodeCount * LineTicks
    BY <2>1, Products, Costs
  <2> QED
    BY <1>1, <2>1, <2>2, <2>3, <2>4, VisitCosts, Costs
<1>2. CASE b = OtaBox
  <2>1. b <= OtaBox /\ b - 1 = NodeCount
    BY <1>2, Costs DEF OtaBox
  <2>2. BeforeVisit(b) = AfterSend + 1 + NodeCount * LineTicks
    BY <2>1 DEF BeforeVisit
  <2> QED
    BY <1>2, <2>2, Costs
<1> QED
  BY <1>1, <1>2, BoxRange, VisitCosts, Costs DEF OtaBox, AnyBox

\* What the task may have used when it turns to the next mailbox.
LEMMA NextBoxCosts ==
    ASSUME NEW b \in Boxes, NEW used \in Nat,
           \/ used <= BeforeVisit(b)
           \/ b # OtaBox /\ used <= BeforeVisit(b) + LineTicks
           \/ b = OtaBox /\ used <= BeforeVisit(b) + SendTicks + LogTicks
    PROVE  /\ b < AnyBox => used <= BeforeVisit(b + 1)
           /\ b = AnyBox => used <= PollSlack
  BY VisitCosts, BoxRange, Costs

-----------------------------------------------------------------------------
(* What the supervision does to one monitor.                               *)

LEMMA Limits ==
    /\ ByteMax \in Nat /\ RecoveryLimit \in Nat /\ RecoveryLimit >= 2
    /\ RecoveryLimit <= ByteMax
    /\ TickMod \in Nat /\ TickMod > 0 /\ AliveMod \in Nat /\ AliveMod > 1
    /\ 0 \in 0 .. ByteMax /\ 0 \in Sup!Alive /\ 0 \in 0 .. TickMod - 1
    /\ 0 \in Alive /\ 1 \in Alive /\ Sup!Alive = Alive
  BY LimitsAssumption, TimeAssumption, Costs DEF Alive, Sup!Alive

LEMMA RecoveryKeeps ==
    ASSUME NEW m \in Sup!MonitorType
    PROVE  LET n == Sup!UpdateChecksumRecovery(m)
           IN  /\ n \in Sup!MonitorType
               /\ m.checksumRecoveryCnt = 0
                    => n.checksumError = m.checksumError
               /\ n.timeoutError = m.timeoutError
               /\ n.aliveError = m.aliveError
               /\ n.aliveInitialized = m.aliveInitialized
               /\ n.lastAliveCounter = m.lastAliveCounter
               /\ n.aliveFreezeCnt = m.aliveFreezeCnt
<1> DEFINE n == Sup!UpdateChecksumRecovery(m)
           valid == Sup!IncrementCounter(m.checksumRecoveryCnt)
<1>1. m.checksumRecoveryCnt \in 0 .. ByteMax
  BY DEF Sup!MonitorType
<1>2. /\ valid \in 0 .. ByteMax
      /\ m.checksumRecoveryCnt = 0 => valid < RecoveryLimit
  BY <1>1, Limits DEF Sup!IncrementCounter
<1>3. CASE ~m.checksumError
  <2>1. n = m
    BY <1>3 DEF Sup!UpdateChecksumRecovery
  <2> QED
    BY <2>1
<1>4. CASE m.checksumError /\ valid < RecoveryLimit
  <2>1. ~(valid >= RecoveryLimit)
    BY <1>2, <1>4, Limits
  <2>2. n = [m EXCEPT !.checksumRecoveryCnt = valid]
    BY <1>4, <2>1 DEF Sup!UpdateChecksumRecovery
  <2> HIDE DEF n, valid
  <2>3. n \in Sup!MonitorType /\ n.checksumError = m.checksumError
        /\ n.timeoutError = m.timeoutError /\ n.aliveError = m.aliveError
        /\ n.aliveInitialized = m.aliveInitialized
        /\ n.lastAliveCounter = m.lastAliveCounter
        /\ n.aliveFreezeCnt = m.aliveFreezeCnt
    BY <1>2, <2>2 DEF Sup!MonitorType
  <2> QED
    BY <2>3 DEF n
<1>5. CASE m.checksumError /\ ~(valid < RecoveryLimit)
  <2>1. valid >= RecoveryLimit
    BY <1>2, <1>5, Limits
  <2>2. n = [m EXCEPT !.checksumError = FALSE, !.checksumRecoveryCnt = 0]
    BY <1>5, <2>1 DEF Sup!UpdateChecksumRecovery
  <2>3. m.checksumRecoveryCnt # 0
    BY <1>2, <1>5
  <2> HIDE DEF n, valid
  <2>4. n \in Sup!MonitorType
        /\ n.timeoutError = m.timeoutError /\ n.aliveError = m.aliveError
        /\ n.aliveInitialized = m.aliveInitialized
        /\ n.lastAliveCounter = m.lastAliveCounter
        /\ n.aliveFreezeCnt = m.aliveFreezeCnt
    BY <2>2, Limits DEF Sup!MonitorType
  <2> QED
    BY <2>3, <2>4 DEF n
<1> QED
  BY <1>3, <1>4, <1>5

LEMMA AliveKeeps ==
    ASSUME NEW m \in Sup!MonitorType, NEW alive \in Alive
    PROVE  LET n == Sup!UpdateAliveMonitor(m, alive)
           IN  /\ n \in Sup!MonitorType
               /\ n.checksumError = m.checksumError
               /\ ~m.aliveInitialized => n.aliveError = m.aliveError
<1> DEFINE n == Sup!UpdateAliveMonitor(m, alive)
<1>0. alive \in Sup!Alive /\ m.aliveFreezeCnt \in 0 .. ByteMax
  BY Limits DEF Sup!MonitorType
<1>1. CASE ~m.aliveInitialized
  <2>1. n = [m EXCEPT !.lastAliveCounter = alive, !.aliveFreezeCnt = 0,
                      !.aliveInitialized = TRUE]
    BY <1>1 DEF Sup!UpdateAliveMonitor, Sup!Baseline
  <2> HIDE DEF n
  <2>2. n \in Sup!MonitorType
    BY <1>0, <2>1, Limits DEF Sup!MonitorType
  <2>3. n.checksumError = m.checksumError /\ n.aliveError = m.aliveError
    BY <2>1 DEF Sup!MonitorType
  <2> QED
    BY <2>2, <2>3 DEF n
<1>2. CASE m.aliveInitialized /\ alive = m.lastAliveCounter
  <2> DEFINE repeats == Sup!IncrementCounter(m.aliveFreezeCnt)
  <2>1. n = [m EXCEPT !.aliveFreezeCnt = repeats,
                      !.aliveError = @ \/ repeats >= FreezeLimit]
    BY <1>2 DEF Sup!UpdateAliveMonitor, Sup!Repeated
  <2>2. repeats \in 0 .. ByteMax
    BY <1>0, Limits DEF Sup!IncrementCounter
  <2> HIDE DEF n, repeats
  <2>3. (m.aliveError \/ repeats >= FreezeLimit) \in BOOLEAN
    OBVIOUS
  <2>4. n \in Sup!MonitorType
    BY <2>1, <2>2, <2>3 DEF Sup!MonitorType
  <2>5. n.checksumError = m.checksumError
    BY <2>1 DEF Sup!MonitorType
  <2> QED
    BY <1>2, <2>4, <2>5 DEF n
<1>3. CASE m.aliveInitialized /\ alive # m.lastAliveCounter
  <2>1. n = [m EXCEPT !.aliveError = FALSE, !.aliveFreezeCnt = 0,
                      !.lastAliveCounter = alive]
    BY <1>3 DEF Sup!UpdateAliveMonitor, Sup!Changed
  <2> HIDE DEF n
  <2>2. n \in Sup!MonitorType
    BY <1>0, <2>1, Limits DEF Sup!MonitorType
  <2>3. n.checksumError = m.checksumError
    BY <2>1 DEF Sup!MonitorType
  <2> QED
    BY <1>3, <2>2, <2>3 DEF n
<1> QED
  BY <1>1, <1>2, <1>3

\* A valid frame of a node that was never heard, or is flagged as silent, has
\* nothing to say about its alive value; the first one none about checksums.
LEMMA AcceptKeeps ==
    ASSUME NEW m \in Sup!MonitorType, NEW alive \in Alive, now \in 0 .. TickMod - 1
    PROVE  LET n == Sup!Accept(m, alive)
           IN  /\ n \in Sup!MonitorType
               /\ ~n.timeoutError
               /\ m.checksumRecoveryCnt = 0
                    => n.checksumError = m.checksumError
               /\ ~m.aliveInitialized => n.aliveError = m.aliveError
<1> DEFINE r == Sup!UpdateChecksumRecovery(m)
           a == Sup!UpdateAliveMonitor(r, alive)
           n == Sup!Accept(m, alive)
<1>1. /\ r \in Sup!MonitorType
      /\ m.checksumRecoveryCnt = 0 => r.checksumError = m.checksumError
      /\ r.aliveError = m.aliveError
      /\ r.aliveInitialized = m.aliveInitialized
  BY RecoveryKeeps
<1>2. /\ a \in Sup!MonitorType
      /\ a.checksumError = r.checksumError
      /\ ~r.aliveInitialized => a.aliveError = r.aliveError
  <2> HIDE DEF r
  <2> QED
    BY <1>1, AliveKeeps
<1>3. n = [a EXCEPT !.timeoutError = FALSE, !.lastRxTick = now]
  BY DEF Sup!Accept
<1> HIDE DEF r, a, n
<1>4. n \in Sup!MonitorType
  BY <1>2, <1>3 DEF Sup!MonitorType
<1>5. /\ n.timeoutError = FALSE /\ n.checksumError = a.checksumError
      /\ n.aliveError = a.aliveError
  BY <1>2, <1>3 DEF Sup!MonitorType
<1> QED
  BY <1>1, <1>2, <1>4, <1>5 DEF n

LEMMA RefuseKeeps ==
    ASSUME NEW m \in Sup!MonitorType, NEW heard, MonitorGood(m, heard)
    PROVE  LET n == Sup!SetChecksumError(m)
           IN  n \in Sup!MonitorType /\ MonitorGood(n, heard)
<1> DEFINE n == Sup!SetChecksumError(m)
<1>1. n = [m EXCEPT !.checksumError = TRUE, !.checksumRecoveryCnt = 0]
  BY DEF Sup!SetChecksumError
<1> HIDE DEF n
<1>2. n \in Sup!MonitorType
  BY <1>1, Limits DEF Sup!MonitorType
<1>3. /\ n.timeoutError = m.timeoutError /\ n.checksumRecoveryCnt = 0
      /\ n.aliveInitialized = m.aliveInitialized
  BY <1>1 DEF Sup!MonitorType
<1> QED
  BY <1>2, <1>3 DEF MonitorGood, n

LEMMA CheckKeeps ==
    ASSUME NEW m \in Sup!MonitorType, NEW heard, MonitorGood(m, heard)
    PROVE  LET n == Sup!CheckTimeout(m)
           IN  n \in Sup!MonitorType /\ MonitorGood(n, heard)
<1> DEFINE n == Sup!CheckTimeout(m)
<1>1. CASE n = m
  BY <1>1
<1>2. CASE n = [m EXCEPT !.timeoutError = TRUE, !.aliveInitialized = FALSE,
                         !.aliveFreezeCnt = 0]
  <2> HIDE DEF n
  <2>1. n \in Sup!MonitorType
    BY <1>2, Limits DEF Sup!MonitorType
  <2>2. /\ n.aliveInitialized = FALSE
        /\ n.checksumRecoveryCnt = m.checksumRecoveryCnt
    BY <1>2 DEF Sup!MonitorType
  <2> QED
    BY <2>1, <2>2 DEF MonitorGood, n
<1> QED
  BY <1>1, <1>2 DEF Sup!CheckTimeout

\* No frame makes more than two lines.
LEMMA FewLines ==
    ASSUME TypeOK, Monitors, NEW f \in Frame
    PROVE  Lines(f) \in 0 .. LinesPerFrame
<1>1. CASE f.node = 0 \/ f.node = OtaBox
  <2>1. f.node \notin Ecus
    BY <1>1, Costs DEF Ecus, OtaBox
  <2>2. Lines(f) = 1
    BY <1>1, <2>1 DEF Lines
  <2> QED
    BY <2>2 DEF LinesPerFrame
<1>2. CASE f.node \in Ecus
  <2>0. f.node # 0 /\ f.node # OtaBox
    BY <1>2, Costs DEF Ecus, OtaBox
  <2> DEFINE e == f.node
             m == monitors[e]
  <2>1. m \in Sup!MonitorType /\ MonitorGood(m, e \in gatewayRxMask)
    BY <1>2 DEF TypeOK, Monitors
  <2>2. CASE ~f.valid
    <3>1. Lines(f) = One(~m.checksumError)
      BY <1>2, <2>0, <2>2 DEF Lines
    <3> QED
      BY <3>1, <2>1 DEF One, LinesPerFrame
  <2>3. CASE f.valid
    <3> DEFINE n == Sup!Accept(m, f.alive)
               first == One(e \notin gatewayRxMask)
               checksum == One(m.checksumError # n.checksumError)
               alive == One(m.aliveError # n.aliveError)
               timeout == One(m.timeoutError)
    <3>1. Lines(f) = first + checksum + alive + timeout
      BY <1>2, <2>0, <2>3 DEF Lines, AcceptLines
    <3>2. /\ m.checksumRecoveryCnt = 0 => n.checksumError = m.checksumError
          /\ ~m.aliveInitialized => n.aliveError = m.aliveError
      <4>1. f.alive \in Alive /\ now \in 0 .. TickMod - 1
        BY DEF Frame, TypeOK
      <4> QED
        BY <2>1, <4>1, AcceptKeeps
    <3>3. /\ first \in 0 .. 1 /\ checksum \in 0 .. 1
          /\ alive \in 0 .. 1 /\ timeout \in 0 .. 1
      BY DEF One
    <3>4. /\ m.timeoutError => alive = 0
          /\ e \notin gatewayRxMask => alive = 0 /\ checksum = 0
          /\ e \in gatewayRxMask => first = 0
          /\ ~m.timeoutError => timeout = 0
      BY <2>1, <3>2 DEF One, MonitorGood
    <3> HIDE DEF first, checksum, alive, timeout
    <3> QED
      BY <3>1, <3>3, <3>4 DEF LinesPerFrame
  <2> QED
    BY <2>2, <2>3 DEF Frame
<1> QED
  BY <1>1, <1>2, Costs DEF Frame, Ecus, OtaBox

\* A poll flags no more nodes than there are.
LEMMA FewTimeouts ==
    NoticeTicks * Cardinality(NewTimeouts) \in 0 .. AfterPoll
<1>1. IsFiniteSet(Ecus) /\ Cardinality(Ecus) = NodeCount
  <2>1. 1 \in Int /\ NodeCount \in Int
    BY Costs
  <2>2. /\ IsFiniteSet(1 .. NodeCount)
        /\ Cardinality(1 .. NodeCount)
             = IF 1 > NodeCount THEN 0 ELSE NodeCount - 1 + 1
    BY <2>1, FS_Interval
  <2> QED
    BY <2>2, Costs DEF Ecus
<1>2. NewTimeouts \subseteq Ecus
  BY DEF NewTimeouts
<1>3. Cardinality(NewTimeouts) <= NodeCount
  BY <1>1, <1>2, FS_Subset
<1>4. Cardinality(NewTimeouts) \in Nat
  BY <1>1, <1>2, FS_Subset, FS_CardinalityType
<1> HIDE DEF NewTimeouts
<1> QED
  BY <1>3, <1>4, Products, Costs DEF AfterPoll

-----------------------------------------------------------------------------
(* Every step keeps the invariant.                                         *)

LEMMA Allowances ==
    ASSUME NEW b
    PROVE  /\ Allowance("period", b) = AfterPoll
           /\ Allowance("send", b) = AfterPoll
           /\ Allowance("sent", b) = AfterPoll + SendTicks
           /\ Allowance("delay", b) = AfterSend
           /\ Allowance("asleep", b) = AfterSend
           /\ Allowance("visit", b) = BeforeVisit(b)
           /\ Allowance("handle", b) = BeforeVisit(b) + LineTicks
           /\ Allowance("respond", b) = BeforeVisit(b) + SendTicks
           /\ Allowance("rearm", b) = BeforeVisit(b) + SendTicks + LogTicks
           /\ Allowance("check", b) = PollSlack
  BY DEF Allowance

Slot == [node : 0 .. AnyBox, valid : BOOLEAN, alive : Alive]

LEMMA FramesFit ==
    /\ Frame \subseteq Slot /\ NoFrame \in Slot /\ NoFrame \notin Frame
    /\ Other \in Frame /\ Request \in Frame
    /\ \A e \in Ecus : Bad(e) \in Frame
    /\ \A e \in Ecus, alive \in Alive : Valid(e, alive) \in Frame
<1>1. 0 .. OtaBox \subseteq 0 .. AnyBox /\ AnyBox \notin 0 .. OtaBox
      /\ AnyBox \in 0 .. AnyBox /\ OtaBox \in 0 .. OtaBox /\ 0 \in 0 .. OtaBox
      /\ Ecus \subseteq 0 .. OtaBox
  BY Costs DEF OtaBox, AnyBox, Ecus
<1>2. Frame \subseteq Slot
  BY <1>1 DEF Frame, Slot
<1>3. NoFrame \in Slot /\ NoFrame \notin Frame
  BY <1>1, Limits DEF Frame, Slot, NoFrame
<1>4. Other \in Frame /\ Request \in Frame
  BY <1>1, Limits DEF Frame, Other, Request
<1>5. \A e \in Ecus : Bad(e) \in Frame
  BY <1>1, Limits DEF Frame, Bad
<1>6. \A e \in Ecus, alive \in Alive : Valid(e, alive) \in Frame
  BY <1>1 DEF Frame, Valid
<1> QED
  BY <1>2, <1>3, <1>4, <1>5, <1>6

\* What the mailboxes hold.
Held(boxes) ==
    /\ boxes \in [Boxes -> Slot]
    /\ \A b \in Boxes : boxes[b] # NoFrame => boxes[b] \in Frame

LEMMA ArriveKeeps ==
    ASSUME Held(received), NEW f \in Frame, Arrive(f)
    PROVE  Held(received')
<1>1. CASE received' = received
  BY <1>1 DEF Held
<1>2. CASE received' = [received EXCEPT ![Min(Listening(f))] = f]
  <2> DEFINE x == Min(Listening(f))
  <2> HIDE DEF x
  <2>1. received' = [received EXCEPT ![x] = f]
    BY <1>2 DEF x
  <2>2. f \in Slot
    BY FramesFit
  <2>3. received' \in [Boxes -> Slot]
    BY <2>1, <2>2 DEF Held
  <2>4. \A b \in Boxes : received'[b] = f \/ received'[b] = received[b]
    BY <2>1 DEF Held
  <2> QED
    BY <2>3, <2>4 DEF Held
<1> QED
  BY <1>1, <1>2 DEF Arrive

LEMMA RestartKeeps ==
    ASSUME Held(received), Restart
    PROVE  Held(received')
<1>1. received' \in [Boxes -> Slot]
  BY FramesFit DEF Held, Restart
<1>2. \A b \in Boxes : received'[b] = NoFrame \/ received'[b] = received[b]
  BY DEF Held, Restart
<1> QED
  BY <1>1, <1>2 DEF Held

\* TypeOK and Frames, apart from what they say of the mailboxes.
Fields ==
    /\ monitors \in [Ecus -> Sup!MonitorType]
    /\ gatewayRxMask \subseteq Ecus
    /\ now \in 0 .. TickMod - 1
    /\ sincePoll \in Nat
    /\ pc \in {"visit", "handle", "respond", "rearm", "check", "period",
               "send", "sent", "delay", "asleep"}
    /\ box \in Boxes
    /\ held \in Nat
    /\ lastGatewayTxTick \in 0 .. TickMod - 1

NodeFields ==
    /\ regular \subseteq Ecus
    /\ sendIn \in [Ecus -> 0 .. NodePeriod]
    /\ counting \in [Ecus -> Alive]

LEMMA Parts ==
    /\ TypeOK <=> Fields /\ NodeFields /\ received \in [Boxes -> Slot]
    /\ TypeOK /\ Frames
         <=> /\ Fields /\ NodeFields /\ Held(received)
             /\ pc = "handle" => rxMsg \in Frame
  BY DEF TypeOK, Frames, Fields, NodeFields, Held, Slot

LEMMA PartsNext ==
    ASSUME Fields', NodeFields', Held(received'), (pc = "handle" => rxMsg \in Frame)',
           InTurn', Placed', Monitors'
    PROVE  IInv'
  BY DEF IInv, TypeOK, Frames, Fields, NodeFields, Held, Slot

\* Where the task goes from a mailbox, and what it may have used by then.
LEMMA NextBoxKeeps ==
    ASSUME box \in Boxes, NextBox, sincePoll' + held' \in Nat,
           \/ sincePoll' + held' <= BeforeVisit(box)
           \/ /\ box # OtaBox
              /\ sincePoll' + held' <= BeforeVisit(box) + LineTicks
           \/ /\ box = OtaBox
              /\ sincePoll' + held' <= BeforeVisit(box) + SendTicks + LogTicks
    PROVE  /\ box' \in Boxes /\ pc' \in {"visit", "check"}
           /\ InTurn' /\ Placed'
<1>1. CASE box < AnyBox /\ box' = box + 1 /\ pc' = "visit"
  <2>1. sincePoll' + held' <= BeforeVisit(box + 1)
    BY <1>1, NextBoxCosts
  <2>2. box' \in Boxes
    BY <1>1, BoxRange
  <2> QED
    BY <1>1, <2>1, <2>2, Allowances DEF InTurn, Placed
<1>2. CASE box = AnyBox /\ box' = 1 /\ pc' = "check"
  <2>1. sincePoll' + held' <= PollSlack
    BY <1>2, NextBoxCosts
  <2>2. box' \in Boxes
    BY <1>2, BoxRange
  <2> QED
    BY <1>2, <2>1, <2>2, Allowances DEF InTurn, Placed
<1> QED
  BY <1>1, <1>2 DEF NextBox

LEMMA InitKeeps ==
    ASSUME Init
    PROVE  IInv
<1>1. Fields
  <2>1. now \in 0 .. TickMod - 1 /\ 1 \in Boxes
    BY Limits, BoxRange, Costs DEF Init, Boxes, AnyBox
  <2> DEFINE m == [lastRxTick |-> now, timeoutError |-> FALSE,
                   lastAliveCounter |-> 0, aliveFreezeCnt |-> 0,
                   aliveError |-> FALSE, aliveInitialized |-> FALSE,
                   checksumError |-> FALSE, checksumRecoveryCnt |-> 0]
  <2>2. m \in Sup!MonitorType
    BY <2>1, Limits DEF Sup!MonitorType
  <2>3. monitors \in [Ecus -> Sup!MonitorType]
    BY <2>2 DEF Init, Sup!InitialMonitors
  <2> QED
    BY <2>1, <2>3 DEF Init, Fields
<1>2. NodeFields
  BY PeriodsAssumption, Limits DEF Init, NodeFields
<1>3. Held(received)
  BY FramesFit DEF Init, Held
<1>4. Monitors
  BY DEF Init, Monitors, MonitorGood, Sup!InitialMonitors
<1>5. InTurn
  <2>1. 1 \in Boxes
    BY Costs DEF Boxes, AnyBox
  <2>2. Allowance(pc, box) = BeforeVisit(1) /\ BeforeVisit(1) \in Nat
    BY <2>1, Allowances, VisitCosts DEF Init
  <2> QED
    BY <2>2 DEF Init, InTurn
<1>6. Placed /\ (pc = "handle" => rxMsg \in Frame)
  BY DEF Init, Placed
<1> QED
  BY <1>1, <1>2, <1>3, <1>4, <1>5, <1>6, Parts DEF IInv

\* The bus: the task's own state stays.
LEMMA SendKeeps ==
    ASSUME IInv, OthersSend \/ \E e \in Ecus : RegularSends(e)
    PROVE  IInv'
<1>0. Fields /\ NodeFields /\ Held(received) /\ (pc = "handle" => rxMsg \in Frame)
  BY Parts DEF IInv
<1>1. UNCHANGED <<supVars, pc, box, rxMsg, held, txVars>>
  BY DEF OthersSend, RegularSends
<1>2. Held(received') /\ NodeFields'
  <2>1. CASE OthersSend
    <3>1. PICK f \in Frame : Arrive(f)
      <4>1. CASE Arrive(Other) \/ Arrive(Request)
        BY <4>1, FramesFit
      <4>2. CASE \E e \in Ecus \ regular :
                   Arrive(Bad(e)) \/ \E alive \in {0, 1} : Arrive(Valid(e, alive))
        BY <4>2, FramesFit, Limits
      <4> QED
        BY <2>1, <4>1, <4>2 DEF OthersSend
    <3>2. Held(received')
      BY <1>0, <3>1, ArriveKeeps
    <3> QED
      BY <1>0, <2>1, <3>2 DEF OthersSend, nodeVars, NodeFields
  <2>2. ASSUME NEW e \in Ecus, RegularSends(e)
        PROVE  Held(received') /\ NodeFields'
    <3>1. counting[e] \in Alive /\ (counting[e] + 1) % AliveMod \in Alive
      BY <1>0, Limits DEF NodeFields, Alive
    <3>2. Valid(e, counting[e]) \in Frame
      BY <3>1, FramesFit
    <3>3. Held(received')
      BY <1>0, <2>2, <3>2, ArriveKeeps DEF RegularSends
    <3>4. sendIn' \in [Ecus -> 0 .. NodePeriod]
      BY <1>0, <2>2, PeriodsAssumption DEF RegularSends, NodeFields
    <3>5. counting' \in [Ecus -> Alive]
      BY <1>0, <2>2, <3>1 DEF RegularSends, NodeFields
    <3> QED
      BY <1>0, <2>2, <3>3, <3>4, <3>5 DEF RegularSends, NodeFields
  <2> QED
    BY <2>1, <2>2
<1>3. Fields' /\ InTurn' /\ Placed' /\ Monitors' /\ (pc = "handle" => rxMsg \in Frame)'
  BY <1>0, <1>1 DEF IInv, supVars, txVars, Fields, InTurn, Placed, Monitors
<1> QED
  BY <1>2, <1>3, PartsNext

LEMMA VisitEmptyKeeps ==
    ASSUME IInv, VisitEmpty
    PROVE  IInv'
<1>0. Fields /\ NodeFields /\ Held(received)
  BY Parts DEF IInv
<1>1. sincePoll' + held' \in Nat /\ sincePoll' + held' <= BeforeVisit(box)
  BY <1>0, Allowances DEF IInv, InTurn, VisitEmpty, supVars, Fields
<1>2. box' \in Boxes /\ pc' \in {"visit", "check"} /\ InTurn' /\ Placed'
  BY <1>0, <1>1, NextBoxKeeps DEF VisitEmpty, Fields
<1>3. Fields' /\ NodeFields' /\ Held(received') /\ Monitors'
  BY <1>0, <1>2
     DEF IInv, VisitEmpty, supVars, txVars, nodeVars, Fields, NodeFields, Held,
         Monitors
<1> QED
  BY <1>2, <1>3, PartsNext

LEMMA TakeFrameKeeps ==
    ASSUME IInv, TakeFrame
    PROVE  IInv'
<1>0. Fields /\ NodeFields /\ Held(received)
  BY Parts DEF IInv
<1>1. rxMsg' \in Frame
  BY <1>0 DEF TakeFrame, Held, Fields
<1>2. held' \in Nat /\ held' <= LineTicks
  <2>1. Lines(rxMsg') \in 0 .. LinesPerFrame
    BY <1>1, FewLines DEF IInv
  <2>2. held' = LogTicks * Lines(rxMsg')
    BY DEF TakeFrame
  <2>3. Lines(rxMsg') \in Nat /\ LinesPerFrame \in Nat /\ Lines(rxMsg') <= LinesPerFrame
    BY <2>1 DEF LinesPerFrame
  <2>4. LogTicks * Lines(rxMsg') \in Nat
        /\ LogTicks * Lines(rxMsg') <= LogTicks * LinesPerFrame
    BY <2>3, Products, Costs
  <2> QED
    BY <2>2, <2>4, Costs DEF LinesPerFrame
<1>3. InTurn'
  <2>1. sincePoll <= BeforeVisit(box) /\ BeforeVisit(box) \in Nat /\ sincePoll \in Nat
    BY <1>0, Allowances, VisitCosts DEF IInv, InTurn, TakeFrame, Fields
  <2>2. sincePoll' + held' <= BeforeVisit(box) + LineTicks
    BY <1>2, <2>1, Costs DEF TakeFrame, supVars
  <2> QED
    BY <2>2, Allowances DEF InTurn, TakeFrame
<1>4. Held(received')
  BY <1>0, RestartKeeps DEF TakeFrame
<1>5. Fields' /\ NodeFields' /\ Placed' /\ Monitors'
  BY <1>0, <1>2
     DEF IInv, TakeFrame, supVars, txVars, nodeVars, Fields, NodeFields, Placed,
         Monitors
<1> QED
  BY <1>1, <1>3, <1>4, <1>5, PartsNext

LEMMA HandleMessageKeeps ==
    ASSUME IInv, HandleMessage
    PROVE  IInv'
<1>0. Fields /\ NodeFields /\ Held(received) /\ rxMsg \in Frame
  BY Parts DEF IInv, HandleMessage
<1>1. /\ monitors' \in [Ecus -> Sup!MonitorType]
      /\ gatewayRxMask' \subseteq Ecus
      /\ Monitors'
  <2> DEFINE e == rxMsg.node
  <2>1. CASE UNCHANGED <<monitors, gatewayRxMask>>
    BY <1>0, <2>1 DEF IInv, Fields, Monitors
  <2>2. CASE /\ e \in Ecus
             /\ monitors' = [monitors EXCEPT ![e] = Sup!SetChecksumError(@)]
             /\ UNCHANGED gatewayRxMask
    <3> DEFINE n == Sup!SetChecksumError(monitors[e])
    <3>1. n \in Sup!MonitorType /\ MonitorGood(n, e \in gatewayRxMask)
      BY <1>0, <2>2, RefuseKeeps DEF IInv, Fields, Monitors
    <3>2. monitors' = [monitors EXCEPT ![e] = n]
      BY <2>2
    <3> HIDE DEF n, e
    <3>3. monitors' \in [Ecus -> Sup!MonitorType]
      BY <1>0, <3>1, <3>2 DEF Fields
    <3>4. \A x \in Ecus : MonitorGood(monitors'[x], x \in gatewayRxMask')
      BY <1>0, <2>2, <3>1, <3>2 DEF IInv, Fields, Monitors
    <3> QED
      BY <1>0, <2>2, <3>3, <3>4 DEF Fields, Monitors
  <2>3. CASE /\ e \in Ecus
             /\ monitors' = [monitors EXCEPT ![e] = Sup!Accept(@, rxMsg.alive)]
             /\ gatewayRxMask' = gatewayRxMask \cup {e}
    <3> DEFINE n == Sup!Accept(monitors[e], rxMsg.alive)
    <3>0. rxMsg.alive \in Alive /\ monitors[e] \in Sup!MonitorType
          /\ now \in 0 .. TickMod - 1
      BY <1>0, <2>3 DEF Frame, Fields
    <3>1. n \in Sup!MonitorType /\ ~n.timeoutError
      BY <3>0, AcceptKeeps
    <3>2. monitors' = [monitors EXCEPT ![e] = n]
      BY <2>3
    <3> HIDE DEF n, e
    <3>3. monitors' \in [Ecus -> Sup!MonitorType]
      BY <1>0, <3>1, <3>2 DEF Fields
    <3>4. ASSUME NEW x \in Ecus
          PROVE  MonitorGood(monitors'[x], x \in gatewayRxMask')
      <4>1. CASE x = e
        BY <1>0, <2>3, <3>1, <3>2, <4>1 DEF Fields, MonitorGood
      <4>2. CASE x # e
        BY <1>0, <2>3, <3>2, <4>2 DEF IInv, Fields, Monitors
      <4> QED
        BY <4>1, <4>2
    <3> QED
      BY <1>0, <2>3, <3>3, <3>4 DEF Fields, Monitors
  <2> QED
    BY <2>1, <2>2, <2>3 DEF HandleMessage
<1>2. sincePoll' + held' \in Nat /\ sincePoll' + held' <= BeforeVisit(box) + LineTicks
  BY <1>0, Allowances, VisitCosts, Costs
     DEF IInv, InTurn, HandleMessage, Fields
<1>3. box' \in Boxes /\ pc' \in {"visit", "check"} /\ InTurn' /\ Placed'
  BY <1>0, <1>2, NextBoxKeeps DEF HandleMessage, IInv, Placed, Fields
<1>4. Fields' /\ NodeFields' /\ Held(received')
  BY <1>0, <1>1, <1>3
     DEF HandleMessage, txVars, nodeVars, Fields, NodeFields, Held
<1> QED
  BY <1>1, <1>3, <1>4, PartsNext

LEMMA ServeRequestKeeps ==
    ASSUME IInv, ServeRequest \/ Respond
    PROVE  IInv'
<1>0. Fields /\ NodeFields /\ Held(received)
  BY Parts DEF IInv
<1>1. box \in Boxes /\ box = OtaBox
  BY <1>0 DEF IInv, Placed, ServeRequest, Respond, Fields
<1>2. /\ held' \in Nat
      /\ pc' \in {"respond", "rearm"} /\ pc' # "handle" /\ pc' # "asleep"
      /\ UNCHANGED <<supVars, received, box, txVars, nodeVars>>
  BY Costs DEF ServeRequest, Respond
<1>3. InTurn'
  <2>0. BeforeVisit(box) \in Nat /\ sincePoll \in Nat /\ held \in Nat
    BY <1>0, <1>1, VisitCosts DEF Fields
  <2>1. CASE ServeRequest
    BY <2>0, <2>1, <1>2, Allowances, Costs
       DEF IInv, InTurn, ServeRequest, supVars
  <2>2. CASE Respond
    <3>1. sincePoll + held <= BeforeVisit(box) + SendTicks
      BY <2>2, Allowances DEF IInv, InTurn, Respond
    <3>2. held' <= LogTicks
      BY <2>2, Costs DEF Respond
    <3>3. sincePoll' + held' <= BeforeVisit(box') + SendTicks + LogTicks
      BY <1>2, <2>0, <3>1, <3>2, Costs DEF supVars
    <3> QED
      BY <2>2, <3>3, Allowances DEF InTurn, Respond
  <2> QED
    BY <2>1, <2>2
<1>4. Fields' /\ NodeFields' /\ Held(received') /\ Placed' /\ Monitors'
  BY <1>0, <1>1, <1>2
     DEF IInv, supVars, txVars, nodeVars, Fields, NodeFields, Held, Placed, Monitors
<1> QED
  BY <1>2, <1>3, <1>4, PartsNext

LEMMA RearmOtaKeeps ==
    ASSUME IInv, RearmOta
    PROVE  IInv'
<1>0. Fields /\ NodeFields /\ Held(received)
  BY Parts DEF IInv
<1>1. box \in Boxes /\ box = OtaBox
  BY <1>0 DEF IInv, Placed, RearmOta, Fields
<1>2. /\ sincePoll' + held' \in Nat
      /\ sincePoll' + held' <= BeforeVisit(box) + SendTicks + LogTicks
  BY <1>0, <1>1, Allowances, VisitCosts, Costs
     DEF IInv, InTurn, RearmOta, supVars, Fields
<1>3. box' \in Boxes /\ pc' \in {"visit", "check"} /\ InTurn' /\ Placed'
  BY <1>1, <1>2, NextBoxKeeps DEF RearmOta
<1>4. Held(received')
  BY <1>0, RestartKeeps DEF RearmOta
<1>5. Fields' /\ NodeFields' /\ Monitors'
  BY <1>0, <1>3
     DEF IInv, RearmOta, supVars, txVars, nodeVars, Fields, NodeFields, Monitors
<1> QED
  BY <1>3, <1>4, <1>5, PartsNext

LEMMA PollKeeps ==
    ASSUME IInv, CheckTimeouts \/ BuildStatus
    PROVE  IInv'
<1>0. Fields /\ NodeFields /\ Held(received)
  BY Parts DEF IInv
<1>1. PollTimeouts /\ pc' \in {"period", "send"}
      /\ UNCHANGED <<gatewayRxMask, now, received, box, rxMsg, nodeVars>>
      /\ lastGatewayTxTick' \in {lastGatewayTxTick, now}
      /\ box = 1
  BY DEF IInv, Placed, CheckTimeouts, BuildStatus, txVars
<1>2. monitors' \in [Ecus -> Sup!MonitorType] /\ Monitors'
  <2>1. \A e \in Ecus : /\ Sup!CheckTimeout(monitors[e]) \in Sup!MonitorType
                        /\ MonitorGood(Sup!CheckTimeout(monitors[e]),
                                       e \in gatewayRxMask)
    BY <1>0, CheckKeeps DEF IInv, Fields, Monitors
  <2>2. monitors' = [e \in Ecus |-> Sup!CheckTimeout(monitors[e])]
    BY <1>1 DEF PollTimeouts, Sup!Checked
  <2> QED
    BY <1>1, <2>1, <2>2 DEF Monitors
<1>3. sincePoll' = 0 /\ held' \in Nat /\ held' <= AfterPoll
  BY <1>1, FewTimeouts, Costs DEF PollTimeouts
<1>4. InTurn'
  BY <1>1, <1>3, Allowances, Costs DEF InTurn
<1>5. Fields' /\ NodeFields' /\ Held(received') /\ Placed'
      /\ (pc = "handle" => rxMsg \in Frame)'
  BY <1>0, <1>1, <1>2, <1>3
     DEF nodeVars, Fields, NodeFields, Held, Placed
<1> QED
  BY <1>2, <1>4, <1>5, PartsNext

\* What a transmission of GatewayStatus has to say.
LEMMA StatusLines ==
    ASSUME StatusFailed \/ StatusSent
    PROVE  held' \in Nat /\ held' <= FirstTicks + LogTicks
<1>1. /\ One(~gatewayTxErrorLogged) \in {0, 1}
      /\ One(~gatewayTxOkLogged) \in {0, 1}
      /\ One(gatewayTxErrorLogged) \in {0, 1}
  BY DEF One
<1>2. \A i \in {0, 1} : /\ LogTicks * i \in {0, LogTicks}
                        /\ FirstTicks * i \in {0, FirstTicks}
  <2>1. /\ LogTicks * 0 = 0 /\ LogTicks * 1 = LogTicks
        /\ FirstTicks * 0 = 0 /\ FirstTicks * 1 = FirstTicks
    BY Costs
  <2> QED
    BY <2>1
<1>3. CASE StatusFailed
  BY <1>1, <1>2, <1>3, Costs DEF StatusFailed
<1>4. CASE StatusSent
  <2> DEFINE ok == FirstTicks * One(~gatewayTxOkLogged)
             again == LogTicks * One(gatewayTxErrorLogged)
  <2>1. ok \in {0, FirstTicks} /\ again \in {0, LogTicks}
    BY <1>1, <1>2
  <2>2. held' = ok + again
    BY <1>4 DEF StatusSent
  <2> HIDE DEF ok, again
  <2> QED
    BY <2>1, <2>2, Costs
<1> QED
  BY <1>3, <1>4

\* From the end of the poll to the sleep.
LEMMA SendStatusKeeps ==
    ASSUME IInv,
           NotYet \/ SendStatus \/ StatusFailed \/ StatusSent \/ Delay
    PROVE  IInv'
<1>0. Fields /\ NodeFields /\ Held(received)
  BY Parts DEF IInv
<1>1. /\ UNCHANGED <<supVars, received, box, rxMsg, lastGatewayTxTick, nodeVars>>
      /\ pc' \in {"sent", "delay", "asleep"}
      /\ pc' # "handle" /\ pc' \notin {"respond", "rearm"}
      /\ box = 1
  BY DEF IInv, Placed, NotYet, SendStatus, StatusFailed, StatusSent, Delay, txVars
<1>2. sincePoll \in Nat /\ held \in Nat
  BY <1>0 DEF Fields
<1>3. held' \in Nat /\ InTurn' /\ (pc' = "asleep" => held' = 0)
  <2>1. CASE NotYet
    BY <1>1, <1>2, <2>1, Allowances, Costs DEF IInv, InTurn, NotYet, supVars
  <2>2. CASE SendStatus
    BY <1>1, <1>2, <2>2, Allowances, Costs DEF IInv, InTurn, SendStatus, supVars
  <2>3. CASE StatusFailed \/ StatusSent
    <3>1. sincePoll <= AfterPoll + SendTicks
      BY <1>2, <2>3, Allowances, Costs
         DEF IInv, InTurn, StatusFailed, StatusSent
    <3>2. held' \in Nat /\ held' <= FirstTicks + LogTicks
      BY <2>3, StatusLines
    <3>3. sincePoll' + held' <= AfterSend
      <4>1. sincePoll' = sincePoll /\ sincePoll' \in Nat
        BY <1>1, <1>2 DEF supVars
      <4>2. /\ AfterSend = (AfterPoll + SendTicks) + (FirstTicks + LogTicks)
            /\ AfterPoll + SendTicks \in Nat /\ FirstTicks + LogTicks \in Nat
        BY Costs
      <4>3. \A i, j, k, l \in Nat : i <= k /\ j <= l => i + j <= k + l
        OBVIOUS
      <4> QED
        BY <1>2, <3>1, <3>2, <4>1, <4>2, <4>3
    <3> QED
      BY <2>3, <3>2, <3>3, Allowances DEF InTurn, StatusFailed, StatusSent
  <2>4. CASE Delay
    BY <1>1, <1>2, <2>4, Allowances, Costs DEF IInv, InTurn, Delay, supVars
  <2> QED
    BY <2>1, <2>2, <2>3, <2>4
<1>4. Fields' /\ NodeFields' /\ Held(received') /\ Placed' /\ Monitors'
  BY <1>0, <1>1, <1>3
     DEF IInv, supVars, nodeVars, Fields, NodeFields, Held, Placed, Monitors
<1> QED
  BY <1>1, <1>3, <1>4, PartsNext

LEMMA TickKeeps ==
    ASSUME IInv, Tick
    PROVE  IInv'
<1>0. Fields /\ NodeFields /\ Held(received) /\ (pc = "handle" => rxMsg \in Frame)
  BY Parts DEF IInv
<1>1. now' \in 0 .. TickMod - 1
  BY <1>0, Limits DEF Tick, Fields
<1>2. NodeFields'
  <2>1. \A e \in regular : sendIn[e] - 1 \in 0 .. NodePeriod
    BY <1>0, PeriodsAssumption DEF Tick, NodeFields
  <2> QED
    BY <1>0, <2>1, PeriodsAssumption DEF Tick, NodeFields
<1>3. CASE pc = "asleep" /\ pc' = "visit" /\ held' = 0
  <2>1. sincePoll <= AfterSend /\ sincePoll \in Nat
    BY <1>0, <1>3, Allowances DEF IInv, InTurn, Placed, Fields
  <2>2. InTurn'
    <3>1. AfterSend + 1 <= BeforeVisit(box)
      <4>1. box \in Nat /\ box >= 1
        BY <1>0 DEF Fields, Boxes
      <4>2. box <= OtaBox => (box - 1) * LineTicks \in Nat
        BY <4>1, Products, Costs
      <4> QED
        BY <4>2, Costs DEF BeforeVisit
    <3>2. sincePoll' + held' <= BeforeVisit(box')
      BY <1>0, <1>3, <2>1, <3>1, VisitCosts, Costs DEF Tick, Fields
    <3> QED
      BY <1>3, <3>2, Allowances DEF InTurn
  <2>3. Fields' /\ Held(received') /\ Placed' /\ Monitors'
        /\ (pc = "handle" => rxMsg \in Frame)'
    BY <1>0, <1>1, <1>3
       DEF IInv, Tick, txVars, Fields, Held, Placed, Monitors
  <2> QED
    BY <1>2, <2>2, <2>3, PartsNext
<1>4. CASE pc # "asleep" /\ held > 0 /\ held' = held - 1 /\ pc' = pc
  <2>1. InTurn'
    <3>1. sincePoll' + held' = sincePoll + held
      BY <1>0, <1>4 DEF Tick, Fields
    <3> QED
      BY <1>4, <3>1 DEF IInv, InTurn, Tick
  <2>2. Fields' /\ Held(received') /\ Placed' /\ Monitors'
        /\ (pc = "handle" => rxMsg \in Frame)'
    BY <1>0, <1>1, <1>4
       DEF IInv, Tick, txVars, Fields, Held, Placed, Monitors
  <2> QED
    BY <1>2, <2>1, <2>2, PartsNext
<1> QED
  BY <1>3, <1>4 DEF Tick

\* At each place of the loop the ticks since the last poll leave room for what
\* the rest of the turn may take, and the mailboxes hold frames of their own.
THEOREM Invariance == Spec => []IInv
<1>1. Init => IInv
  BY InitKeeps
<1>2. IInv /\ [Next]_vars => IInv'
  <2> SUFFICES ASSUME IInv, [Next]_vars
               PROVE  IInv'
    OBVIOUS
  <2>1. CASE OthersSend \/ \E e \in Ecus : RegularSends(e)
    BY <2>1, SendKeeps
  <2>2. CASE Step
    BY <2>2, VisitEmptyKeeps, TakeFrameKeeps, HandleMessageKeeps,
       ServeRequestKeeps, RearmOtaKeeps, PollKeeps, SendStatusKeeps DEF Step
  <2>3. CASE Tick
    BY <2>3, TickKeeps
  <2>4. CASE UNCHANGED vars
    BY <2>4, Parts, PartsNext
       DEF vars, supVars, txVars, nodeVars, IInv, Fields, NodeFields, Held,
           InTurn, Placed, Monitors
  <2> QED
    BY <2>1, <2>2, <2>3, <2>4 DEF Next
<1> QED
  BY <1>1, <1>2, PTL DEF Spec

\* Every variable of the loop keeps the range of its C type: the tick wraps,
\* the mailboxes and counters stay within theirs.
THEOREM TypeCorrect == Spec => []TypeOK
  BY Invariance, PTL DEF IInv

LEMMA InTime ==
    ASSUME IInv
    PROVE  PollsInTime
<1>0. Fields
  BY Parts DEF IInv
<1>1. InTurn /\ Placed /\ box \in Boxes /\ sincePoll \in Nat /\ held \in Nat
  BY <1>0 DEF IInv, Fields
<1>2. /\ Allowance(pc, box) \in Nat
      /\ Allowance(pc, box) <= PollSlack
  <2>1. CASE pc \in {"period", "send", "sent", "delay", "asleep", "check"}
    BY <2>1, Allowances, Costs
  <2>2. CASE pc = "visit"
    BY <1>1, <2>2, Allowances, VisitsFit, VisitCosts, Costs
  <2>3. CASE pc = "handle"
    BY <1>1, <2>3, Allowances, VisitsFit, VisitCosts, Costs DEF Placed
  <2>4. CASE pc \in {"respond", "rearm"}
    BY <1>1, <2>4, Allowances, VisitsFit, VisitCosts, Costs DEF Placed
  <2> QED
    BY <1>0, <2>1, <2>2, <2>3, <2>4 DEF Fields
<1> QED
  BY <1>1, <1>2, Costs DEF InTurn, PollsInTime

LEMMA InTimeNext == (IInv => PollsInTime)'
<1>1. IInv => PollsInTime
  BY InTime
<1> QED
  BY <1>1, PTL

\* However many nodes there are, and however long a line of the log or a
\* transmission takes, no more than PollSlack ticks lie between two polls of
\* the timeouts.  ComSupervision rests on it when it bounds its ticks.
THEOREM PollsAreInTime == Spec => []PollsInTime
  BY InTime, Invariance, PTL

-----------------------------------------------------------------------------
(***************************************************************************)
(* A regular node is never taken for frozen.  Its frames are handled late, *)
(* some are lost, and two may change places: one waits in the node's own   *)
(* mailbox and a later one in the catch-all.  Frames are told apart by how *)
(* many the node has sent since.  The next one from its own mailbox is the *)
(* first that was sent since that mailbox was visited, so a turn of the    *)
(* loop lies between two of them; one from the catch-all lies between the  *)
(* ones from the own mailbox, or changes places with its predecessor.      *)
(* Only then can it be a whole count away from the frame handled before    *)
(* it, and the frame it overtook follows, which is not.                    *)
(***************************************************************************)

\* The alive counter does not come round within a turn and a period, and one
\* repeated value is not taken for a freeze.
CountsOutlastTurn ==
    /\ PollSlack < (AliveMod - 1) * NodePeriod
    /\ FreezeLimit >= 2

\* A node that counts from the alive value a is at c after k frames.
Counted(c, a, k) == \E q \in Int : a + k = c + q * AliveMod

\* The mailbox b was visited since the timeouts were polled.
Visited(b) ==
    \/ pc = "check"
    \/ pc \in {"visit", "respond", "rearm"} /\ b < box
    \/ pc = "handle" /\ b <= box

\* The task is past the mailbox of node e, and not yet past the catch-all.
InBetween(e) == Visited(e) /\ ~Visited(AnyBox)

\* Most ticks from the last visit of the mailbox b to the end of the call that
\* the task is in.
Since(b) ==
    (IF Visited(b) THEN 0 ELSE PollSlack) - BeforeVisit(b) + Allowance(pc, box)

\* Between two polls of one turn, what the second may yet have to say.
Unflagged == {e \in Ecus : ~monitors[e].timeoutError}
Owed == IF pc = "period" THEN NoticeTicks * Cardinality(Unflagged) ELSE 0

From(b, e) == received[b].node = e
Handling(e) == pc = "handle" /\ rxMsg.node = e

\* The mailbox of node e was visited w ticks ago.
Timed(e, w) == w + held + Owed <= Since(e)

\* Of a regular node e: r frames were sent since the one last taken from a
\* mailbox, that one included, o since the one in the node's own mailbox (none,
\* if there is none) and a since the one in the catch-all.
Values(e, r, o, a) ==
    /\ \A b \in Boxes : From(b, e) => b \in {e, AnyBox} /\ received[b].valid
    /\ IF From(e, e) THEN o >= 1 /\ Counted(counting[e], received[e].alive, o)
                     ELSE o = 0 /\ received[e] = NoFrame
    /\ From(AnyBox, e) =>
         a >= 1 /\ Counted(counting[e], received[AnyBox].alive, a)
    /\ IF Handling(e)
       THEN rxMsg.valid /\ Counted(counting[e], rxMsg.alive, r)
       ELSE monitors[e].aliveInitialized =>
              Counted(counting[e], monitors[e].lastAliveCounter, r)

Order(e, r, o, a) ==
    /\ r >= 1
    /\ \/ r - o \in 1 .. AliveMod - 1
       \/ r = o - 1 /\ ~InBetween(e)
    /\ From(AnyBox, e) =>
         IF InBetween(e)
         THEN a = o - 1 \/ (a - o \in 1 .. AliveMod - 1 /\ a < r)
         ELSE a < o
    /\ InBetween(e) /\ received[AnyBox] = NoFrame => o <= 1

Memory(e, r, o) ==
    LET m == monitors[e]
    IN  /\ ~m.aliveError
        /\ m.aliveInitialized =>
             IF Handling(e)
             THEN \/ m.aliveFreezeCnt \in 0 .. 1 /\ rxMsg.alive # m.lastAliveCounter
                  \/ m.aliveFreezeCnt = 0 /\ r = o - 1
             ELSE \/ m.aliveFreezeCnt = 0
                  \/ m.aliveFreezeCnt = 1 /\ r = o - 1

Tracked(e, r, o, a, w) ==
    /\ Timed(e, w)
    /\ From(e, e) => o * NodePeriod - sendIn[e] <= w
    /\ Values(e, r, o, a)
    /\ Order(e, r, o, a)
    /\ Memory(e, r, o)

Regular(e) == \E r, o, a, w \in Nat : Tracked(e, r, o, a, w)

AllRegular ==
    /\ \A e \in regular : Regular(e)
    /\ pc = "visit" => held = 0

-----------------------------------------------------------------------------
(* Counting.                                                               *)

LEMMA CountOn ==
    ASSUME NEW c \in Alive
    PROVE  (c + 1) % AliveMod = IF c + 1 = AliveMod THEN 0 ELSE c + 1
  BY Limits DEF Alive

\* The value that the node sends next.
LEMMA CountedNone ==
    ASSUME NEW c \in Alive
    PROVE  Counted(c, c, 0)
<1>1. c + 0 = c + 0 * AliveMod
  BY Limits DEF Alive
<1> QED
  BY <1>1 DEF Counted

LEMMA CountedOn ==
    ASSUME NEW c \in Alive, NEW a \in Alive, NEW k \in Nat, Counted(c, a, k)
    PROVE  Counted((c + 1) % AliveMod, a, k + 1)
<1>1. PICK q \in Int : a + k = c + q * AliveMod
  BY DEF Counted
<1>2. a \in Int /\ c \in Int /\ AliveMod \in Int
  BY Limits DEF Alive
<1>3. CASE c + 1 = AliveMod
  <2>1. (q + 1) * AliveMod = q * AliveMod + AliveMod /\ q * AliveMod \in Int
    BY <1>2
  <2>2. a + (k + 1) = 0 + (q + 1) * AliveMod
    BY <1>1, <1>2, <1>3, <2>1
  <2>3. q + 1 \in Int
    BY <1>1
  <2> QED
    BY <1>3, <2>2, <2>3, CountOn DEF Counted
<1>4. CASE c + 1 # AliveMod
  <2>1. q * AliveMod \in Int
    BY <1>2
  <2>2. a + (k + 1) = (c + 1) + q * AliveMod
    BY <1>1, <1>2, <2>1
  <2> QED
    BY <1>4, <2>2, CountOn DEF Counted
<1> QED
  BY <1>3, <1>4

LEMMA Multiples ==
    ASSUME NEW i \in Int, NEW j \in Nat
    PROVE  i * j \in Int /\ (i <= 0 => i * j <= 0) /\ (i >= 1 => i * j >= j)
<1>1. CASE i <= 0
  <2>1. (-i) \in Nat /\ (-i) * j \in Nat
    BY <1>1
  <2>2. i * j = -((-i) * j)
    OBVIOUS
  <2> QED
    BY <1>1, <2>1, <2>2
<1>2. CASE i >= 1
  <2>1. i - 1 \in Nat
    BY <1>2
  <2>2. (i - 1) * j \in Nat
    BY <2>1
  <2>3. ((i - 1) + 1) * j = (i - 1) * j + j
    BY <2>1, OneMore
  <2>4. (i - 1) + 1 = i
    OBVIOUS
  <2> QED
    BY <1>2, <2>2, <2>3, <2>4
<1> QED
  BY <1>1, <1>2

\* Frames that are less than a count apart have different values.
LEMMA CountedApart ==
    ASSUME NEW c \in Alive, NEW a \in Alive, NEW b \in Alive,
           NEW k \in Nat, NEW l \in Nat, Counted(c, a, k), Counted(c, b, l),
           k - l \in 1 .. AliveMod - 1 \/ l - k \in 1 .. AliveMod - 1
    PROVE  a # b
<1> SUFFICES ASSUME a = b
             PROVE  FALSE
  OBVIOUS
<1>0. a \in Int /\ c \in Int /\ AliveMod \in Nat
  BY Limits DEF Alive
<1>1. PICK p \in Int : a + k = c + p * AliveMod
  BY DEF Counted
<1>2. PICK q \in Int : a + l = c + q * AliveMod
  BY DEF Counted
<1> DEFINE i == p - q
<1>3. i \in Int /\ i * AliveMod = p * AliveMod - q * AliveMod
  BY <1>0
<1>4. p * AliveMod \in Int /\ q * AliveMod \in Int
  BY <1>0
<1> HIDE DEF i
<1>5. i * AliveMod = k - l
  BY <1>0, <1>1, <1>2, <1>3, <1>4
<1>6. /\ i <= 0 => i * AliveMod <= 0
      /\ i >= 1 => i * AliveMod >= AliveMod
      /\ -i <= 0 => (-i) * AliveMod <= 0
      /\ -i >= 1 => (-i) * AliveMod >= AliveMod
      /\ -i \in Int
  BY <1>0, <1>3, Multiples
<1>7. (-i) * AliveMod = -(i * AliveMod)
  BY <1>0, <1>3
<1> QED
  BY <1>0, <1>3, <1>5, <1>6, <1>7

-----------------------------------------------------------------------------
(* The time since a mailbox was visited.                                   *)

\* What the types say of a regular node.
LEMMA RegularFields ==
    ASSUME IInv, NEW e \in regular
    PROVE  /\ e \in Ecus /\ e \in Boxes /\ e # OtaBox /\ e < AnyBox /\ e # AnyBox
           /\ e \in Nat /\ AnyBox \in Boxes /\ AnyBox \in Nat
           /\ box \in Boxes /\ box \in Nat /\ held \in Nat
           /\ counting[e] \in Alive /\ sendIn[e] \in 0 .. NodePeriod
           /\ monitors[e] \in Sup!MonitorType
           /\ monitors[e].lastAliveCounter \in Alive
           /\ monitors[e].timeoutError => ~monitors[e].aliveInitialized
           /\ \A b \in Boxes : received[b] # NoFrame =>
                received[b] \in Frame /\ received[b].alive \in Alive
           /\ pc = "handle" => rxMsg.alive \in Alive
<1>1. Fields /\ NodeFields /\ Held(received) /\ (pc = "handle" => rxMsg \in Frame)
  BY Parts DEF IInv
<1>2. /\ e \in Ecus /\ e \in Boxes /\ e # OtaBox /\ e < AnyBox /\ e # AnyBox
      /\ e \in Nat /\ AnyBox \in Boxes /\ AnyBox \in Nat
  BY <1>1, Costs DEF NodeFields, Ecus, OtaBox, AnyBox, Boxes
<1>3. monitors[e] \in Sup!MonitorType
  BY <1>1, <1>2 DEF Fields
<1>4. monitors[e].lastAliveCounter \in Alive
  BY <1>3, Limits DEF Sup!MonitorType
<1>5. counting[e] \in Alive /\ sendIn[e] \in 0 .. NodePeriod
  BY <1>1, <1>2 DEF NodeFields
<1>6. monitors[e].timeoutError => ~monitors[e].aliveInitialized
  BY <1>2 DEF IInv, Monitors, MonitorGood
<1>7. /\ \A b \in Boxes : received[b] # NoFrame =>
           received[b] \in Frame /\ received[b].alive \in Alive
      /\ pc = "handle" => rxMsg.alive \in Alive
  BY <1>1 DEF Held, Frame
<1>8. box \in Boxes /\ box \in Nat /\ held \in Nat
  BY <1>1 DEF Fields, Boxes
<1> QED
  BY <1>2, <1>3, <1>4, <1>5, <1>6, <1>7, <1>8

LEMMA AllowanceIsNat ==
    ASSUME NEW p \in {"visit", "handle", "respond", "rearm", "check", "period",
                      "send", "sent", "delay", "asleep"}, NEW b \in Boxes
    PROVE  Allowance(p, b) \in Nat
<1>1. BeforeVisit(b) \in Nat
  BY VisitCosts
<1> QED
  BY <1>1, Allowances, Costs

\* What two polls of one turn say adds up to no more than a line for each node.
LEMMA FewNotices ==
    ASSUME IInv, PollTimeouts
    PROVE  /\ NoticeTicks * Cardinality(NewTimeouts) \in Nat
           /\ NoticeTicks * Cardinality(Unflagged) \in Nat
           /\ NoticeTicks * Cardinality(Unflagged') \in Nat
           /\ NoticeTicks * Cardinality(NewTimeouts)
                <= NoticeTicks * Cardinality(Unflagged)
           /\ NoticeTicks * Cardinality(NewTimeouts)
                + NoticeTicks * Cardinality(Unflagged') <= AfterPoll
<1>1. IsFiniteSet(Ecus) /\ Cardinality(Ecus) = NodeCount
  <2>1. 1 \in Int /\ NodeCount \in Int
    BY Costs
  <2>2. /\ IsFiniteSet(1 .. NodeCount)
        /\ Cardinality(1 .. NodeCount)
             = IF 1 > NodeCount THEN 0 ELSE NodeCount - 1 + 1
    BY <2>1, FS_Interval
  <2> QED
    BY <2>2, Costs DEF Ecus
<1> DEFINE new == NewTimeouts
           old == Unflagged
           still == Unflagged'
<1>2. new \subseteq old /\ old \subseteq Ecus
  BY DEF NewTimeouts, Unflagged
<1>3. still \subseteq Ecus /\ still \cap new = {}
  BY DEF PollTimeouts, NewTimeouts, Unflagged
<1> HIDE DEF new, old, still
<1>4. /\ IsFiniteSet(old) /\ Cardinality(old) \in Nat
      /\ IsFiniteSet(still) /\ Cardinality(still) \in Nat
  BY <1>1, <1>2, <1>3, FS_Subset, FS_CardinalityType
<1>5. /\ IsFiniteSet(new) /\ Cardinality(new) \in Nat
      /\ Cardinality(new) <= Cardinality(old)
  BY <1>2, <1>4, FS_Subset, FS_CardinalityType
<1>6. Cardinality(new) + Cardinality(still) <= NodeCount
  <2>1. Cardinality(new \cup still)
          = Cardinality(new) + Cardinality(still) - Cardinality(new \cap still)
    BY <1>4, <1>5, FS_Union
  <2>2. new \cap still = {}
    BY <1>3
  <2>3. new \cup still \subseteq Ecus
    BY <1>2, <1>3
  <2>4. Cardinality(new \cup still) <= NodeCount
    BY <1>1, <2>3, FS_Subset
  <2>5. Cardinality({}) = 0
    BY FS_EmptySet
  <2>6. Cardinality(new \cap still) = 0
    BY <2>2, <2>5
  <2> QED
    BY <1>4, <1>5, <2>1, <2>4, <2>6, Costs
<1>7. \A n \in Nat : NoticeTicks * n \in Nat
  BY Products, Costs
<1>8. NoticeTicks * Cardinality(new) <= NoticeTicks * Cardinality(old)
  BY <1>4, <1>5, Products, Costs
<1>9. NoticeTicks * Cardinality(new) + NoticeTicks * Cardinality(still) <= AfterPoll
  <2> DEFINE n == Cardinality(new)
             s == Cardinality(still)
  <2>1. n \in Nat /\ s \in Nat /\ n + s <= NodeCount
    BY <1>4, <1>5, <1>6
  <2> HIDE DEF n, s
  <2>2. NoticeTicks * (n + s) <= NoticeTicks * NodeCount
    BY <2>1, Products, Costs
  <2>3. NoticeTicks * (n + s) = NoticeTicks * n + NoticeTicks * s
    BY <2>1, Costs
  <2> QED
    BY <2>2, <2>3 DEF AfterPoll, n, s
<1> QED
  BY <1>4, <1>5, <1>7, <1>8, <1>9 DEF new, old, still

LEMMA OwedIsNat ==
    ASSUME IInv
    PROVE  Owed \in Nat
<1>1. IsFiniteSet(Ecus)
  <2>1. 1 \in Int /\ NodeCount \in Int
    BY Costs
  <2> QED
    BY <2>1, FS_Interval DEF Ecus
<1>2. Unflagged \subseteq Ecus
  BY DEF Unflagged
<1>3. Cardinality(Unflagged) \in Nat
  BY <1>1, <1>2, FS_Subset, FS_CardinalityType
<1> HIDE DEF Unflagged
<1> QED
  BY <1>3, Products, Costs DEF Owed

Visits == VisitEmpty \/ TakeFrame \/ RearmOta

\* A step that does not poll takes no more than its part of the turn.
LEMMA StepCosts ==
    ASSUME IInv, IInv', pc = "visit" => held = 0,
           Step, ~CheckTimeouts, ~BuildStatus
    PROVE  /\ held' + Owed' + Allowance(pc, box) <= held + Owed + Allowance(pc', box')
           /\ pc' = "visit" => held' = 0
<1>0. /\ Fields /\ Fields' /\ Placed /\ box \in Boxes /\ box' \in Boxes
      /\ held \in Nat /\ held' \in Nat
      /\ (pc = "handle" => rxMsg \in Frame)'
  <2>1. Fields' /\ (pc = "handle" => rxMsg \in Frame)'
    BY DEF IInv, TypeOK, Frames, Fields
  <2> QED
    BY <2>1, Parts DEF IInv, Fields
<1>1. Owed \in Nat
  BY OwedIsNat
<1>2. pc' # "period"
  BY DEF Step, VisitEmpty, TakeFrame, HandleMessage, ServeRequest, Respond, RearmOta,
     NotYet, SendStatus, StatusFailed, StatusSent, Delay, NextBox
<1>3. Owed' = 0
  BY <1>2 DEF Owed
<1> DEFINE A == Allowance(pc, box)
           B == Allowance(pc', box')
<1>4. A \in Nat /\ B \in Nat /\ BeforeVisit(box) \in Nat
  BY <1>0, AllowanceIsNat, VisitCosts DEF Fields
<1> SUFFICES /\ held' + A <= held + Owed + B
             /\ pc' = "visit" => held' = 0
  BY <1>0, <1>1, <1>3, <1>4
<1>5. ASSUME NEW cost \in Nat, NextBox, A = BeforeVisit(box) + cost,
             \/ cost = 0
             \/ cost = LineTicks /\ box # OtaBox
             \/ cost = SendTicks + LogTicks /\ box = OtaBox
      PROVE  A <= B
  <2>1. CASE box < AnyBox /\ box' = box + 1 /\ pc' = "visit"
    <3>1. B = BeforeVisit(box + 1)
      BY <2>1, Allowances
    <3> QED
      BY <1>0, <1>4, <1>5, <2>1, <3>1, VisitCosts, BoxRange, Costs
  <2>2. CASE box = AnyBox /\ box' = 1 /\ pc' = "check"
    <3>1. B = PollSlack
      BY <2>2, Allowances
    <3>2. box # OtaBox
      BY <2>2, Costs DEF OtaBox, AnyBox
    <3> QED
      BY <1>0, <1>4, <1>5, <2>2, <3>1, <3>2, VisitCosts, Costs
  <2> QED
    BY <1>5, <2>1, <2>2 DEF NextBox
<1> HIDE DEF A, B
<1>6. CASE VisitEmpty
  <2>1. A = BeforeVisit(box) + 0 /\ held' = held /\ held = 0 /\ NextBox
    BY <1>4, <1>6, Allowances DEF VisitEmpty, A
  <2>2. A <= B
    BY <1>5, <2>1
  <2> QED
    BY <1>1, <1>4, <2>1, <2>2
<1>7. CASE TakeFrame
  <2>1. A = BeforeVisit(box) /\ B = BeforeVisit(box) + LineTicks
        /\ pc' # "visit"
    BY <1>7, Allowances DEF TakeFrame, A, B
  <2>2. held' <= LineTicks
    <3>1. Lines(rxMsg') \in 0 .. LinesPerFrame
      BY <1>0, <1>7, FewLines DEF IInv, TakeFrame
    <3>2. Lines(rxMsg') \in Nat /\ LinesPerFrame \in Nat
          /\ Lines(rxMsg') <= LinesPerFrame
      BY <3>1 DEF LinesPerFrame
    <3>3. LogTicks * Lines(rxMsg') <= LogTicks * LinesPerFrame
      BY <3>2, Products, Costs
    <3>4. LogTicks * LinesPerFrame = LineTicks
      BY Costs DEF LinesPerFrame
    <3> QED
      BY <1>7, <3>3, <3>4 DEF TakeFrame
  <2> QED
    BY <1>0, <1>1, <1>4, <2>1, <2>2, Costs
<1>8. CASE HandleMessage
  <2>1. /\ A = BeforeVisit(box) + LineTicks /\ held' = 0 /\ NextBox
        /\ box # OtaBox
    BY <1>0, <1>8, Allowances DEF HandleMessage, Placed, A
  <2>2. A <= B
    BY <1>5, <2>1, Costs
  <2> QED
    BY <1>0, <1>1, <1>4, <2>1, <2>2
<1>9. CASE ServeRequest
  <2>1. /\ A = BeforeVisit(box) /\ B = BeforeVisit(box) + SendTicks
        /\ held' = SendTicks /\ pc' # "visit"
    BY <1>9, Allowances DEF ServeRequest, A, B
  <2> QED
    BY <1>0, <1>1, <1>4, <2>1, Costs
<1>10. CASE Respond
  <2>1. /\ A = BeforeVisit(box) + SendTicks
        /\ B = BeforeVisit(box) + SendTicks + LogTicks
        /\ held' \in {0, LogTicks} /\ pc' # "visit"
    BY <1>10, Allowances DEF Respond, A, B
  <2> QED
    BY <1>0, <1>1, <1>4, <2>1, Costs
<1>11. CASE RearmOta
  <2>1. /\ A = BeforeVisit(box) + SendTicks + LogTicks /\ held' = 0 /\ NextBox
        /\ box = OtaBox
    BY <1>0, <1>11, Allowances DEF RearmOta, Placed, A
  <2>2. A = BeforeVisit(box) + (SendTicks + LogTicks) /\ SendTicks + LogTicks \in Nat
    BY <1>4, <2>1, Costs
  <2>3. A <= B
    BY <1>5, <2>1, <2>2
  <2> QED
    BY <1>0, <1>1, <1>4, <2>1, <2>3
<1>12. CASE NotYet \/ Delay
  <2>1. /\ A \in {AfterPoll, AfterSend} /\ B = AfterSend
        /\ held' = 0 /\ pc' # "visit"
    BY <1>12, Allowances DEF NotYet, Delay, A, B
  <2> QED
    BY <1>0, <1>1, <1>4, <2>1, Costs
<1>13. CASE SendStatus
  <2>1. /\ A = AfterPoll /\ B = AfterPoll + SendTicks
        /\ held' = SendTicks /\ pc' # "visit"
    BY <1>13, Allowances DEF SendStatus, A, B
  <2> QED
    BY <1>0, <1>1, <1>4, <2>1, Costs
<1>14. CASE StatusFailed \/ StatusSent
  <2>1. A = AfterPoll + SendTicks /\ B = AfterSend /\ pc' # "visit"
    BY <1>14, Allowances DEF StatusFailed, StatusSent, A, B
  <2>2. held' <= FirstTicks + LogTicks
    BY <1>14, StatusLines
  <2>3. B = A + (FirstTicks + LogTicks) /\ FirstTicks + LogTicks \in Nat
    BY <2>1, Costs
  <2>4. held' + A <= B
    BY <1>0, <1>4, <2>2, <2>3
  <2> QED
    BY <1>0, <1>1, <1>4, <2>1, <2>4
<1> QED
  BY <1>6, <1>7, <1>8, <1>9, <1>10, <1>11, <1>12, <1>13, <1>14 DEF Step

\* A mailbox is visited, and only then counts as visited.
LEMMA VisitsAre ==
    ASSUME IInv, Step, NEW b \in Boxes
    PROVE  /\ Visits => (Visited(b)' <=> Visited(b) \/ b = box)
           /\ ~Visits /\ ~CheckTimeouts => (Visited(b)' <=> Visited(b))
           /\ CheckTimeouts => Visited(b) /\ ~Visited(b)'
           /\ pc = "visit" => (Visited(b) <=> b < box)
<1>1. box \in Boxes /\ box \in Nat /\ b \in Nat /\ AnyBox \in Nat /\ b <= AnyBox
  BY Parts, Costs DEF IInv, Fields, Boxes, AnyBox
<1>2. CASE Visits \/ HandleMessage
  <2>1. pc \in {"visit", "handle", "rearm"}
    BY <1>2 DEF Visits, VisitEmpty, TakeFrame, RearmOta, HandleMessage
  <2>2. CASE NextBox
    <3>1. CASE box < AnyBox /\ box' = box + 1 /\ pc' = "visit"
      BY <1>1, <1>2, <2>1, <3>1
         DEF Visited, Visits, VisitEmpty, TakeFrame, RearmOta, HandleMessage,
             CheckTimeouts
    <3>2. CASE box = AnyBox /\ box' = 1 /\ pc' = "check"
      BY <1>1, <1>2, <2>1, <3>2
         DEF Visited, Visits, VisitEmpty, TakeFrame, RearmOta, HandleMessage,
             CheckTimeouts
    <3> QED
      BY <2>2, <3>1, <3>2 DEF NextBox
  <2>3. CASE TakeFrame
    BY <1>1, <2>3 DEF Visited, Visits, TakeFrame, CheckTimeouts
  <2> QED
    BY <1>2, <2>2, <2>3 DEF Visits, VisitEmpty, RearmOta, HandleMessage
<1>3. CASE ServeRequest \/ Respond
  <2>1. /\ pc \in {"visit", "respond"} /\ pc' \in {"respond", "rearm"}
        /\ box' = box
    BY <1>3 DEF ServeRequest, Respond
  <2>2. ~Visits /\ ~CheckTimeouts
    BY <1>3 DEF ServeRequest, Respond, Visits, VisitEmpty, TakeFrame, RearmOta,
       CheckTimeouts
  <2> QED
    BY <2>1, <2>2 DEF Visited
<1>4. CASE CheckTimeouts
  BY <1>4 DEF CheckTimeouts, Visits, VisitEmpty, TakeFrame, RearmOta, Visited
<1>5. CASE NotYet \/ BuildStatus \/ SendStatus \/ StatusFailed \/ StatusSent \/ Delay
  <2>1. /\ pc \in {"period", "send", "sent", "delay"}
        /\ pc' \in {"send", "sent", "delay", "asleep"}
    BY <1>5 DEF NotYet, BuildStatus, SendStatus, StatusFailed, StatusSent, Delay
  <2> QED
    BY <2>1 DEF Visited, Visits, VisitEmpty, TakeFrame, RearmOta, CheckTimeouts
<1> QED
  BY <1>2, <1>3, <1>4, <1>5 DEF Step, Visits

LEMMA OwedNext == (IInv => Owed \in Nat)'
<1>1. IInv => Owed \in Nat
  BY OwedIsNat
<1> QED
  BY <1>1, PTL

LEMMA TimedStep ==
    ASSUME IInv, IInv', pc = "visit" => held = 0,
           Step, ~CheckTimeouts, ~BuildStatus,
           NEW e \in regular, NEW w \in Nat, Timed(e, w)
    PROVE  /\ (Visited(e)' <=> Visited(e)) => Timed(e, w)'
           /\ pc = "visit" /\ box = e =>
                (Visited(e)' => Timed(e, 0)') /\ w <= PollSlack
<1> DEFINE A == Allowance(pc, box)
           B == Allowance(pc', box')
           v == BeforeVisit(e)
           h == held + Owed
           k == held' + Owed'
<1>0. Fields /\ Fields' /\ e \in Boxes /\ PollSlack \in Nat
  <2>1. Fields'
    BY DEF IInv, TypeOK, Fields
  <2> QED
    BY <2>1, RegularFields, Parts, Costs DEF IInv
<1>1. /\ A \in Nat /\ B \in Nat /\ v \in Nat
  BY <1>0, AllowanceIsNat, VisitCosts DEF Fields
<1>2. held \in Nat /\ Owed \in Nat /\ held' \in Nat
  BY <1>0, OwedIsNat DEF Fields
<1>3. Owed' \in Nat
  BY OwedNext
<1>4. k + A <= h + B
  <2>1. held' + Owed' + A <= held + Owed + B
    BY StepCosts
  <2> QED
    BY <1>1, <1>2, <1>3, <2>1
<1>5. w + h <= (IF Visited(e) THEN 0 ELSE PollSlack) - v + A
  BY <1>0, <1>1, <1>2 DEF Timed, Since
<1>6. ASSUME NEW x \in Nat, x + k <= (IF Visited(e)' THEN 0 ELSE PollSlack) - v + B
      PROVE  Timed(e, x)'
  <2>1. x + held' + Owed' <= (IF Visited(e)' THEN 0 ELSE PollSlack) - v + B
    BY <1>1, <1>2, <1>3, <1>6
  <2> QED
    BY <2>1 DEF Timed, Since
<1>7. h \in Nat /\ k \in Nat
  <2>1. \A i, j \in Nat : i + j \in Nat
    OBVIOUS
  <2>2. h \in Nat
    BY <1>2, <2>1
  <2>3. k \in Nat
    BY <1>2, <1>3, <2>1
  <2> QED
    BY <2>2, <2>3
<1>8. pc = "visit" /\ box = e => h = 0 /\ A = v /\ ~Visited(e)
  <2> SUFFICES ASSUME pc = "visit", box = e
               PROVE  h = 0 /\ A = v /\ ~Visited(e)
    OBVIOUS
  <2>1. h = 0
    BY DEF Owed
  <2>2. A = v
    BY Allowances
  <2>3. ~Visited(e)
    BY RegularFields DEF Visited
  <2> QED
    BY <2>1, <2>2, <2>3
<1> HIDE DEF A, B, v, h, k
<1>9. ASSUME Visited(e)' <=> Visited(e)
      PROVE  Timed(e, w)'
  BY <1>0, <1>1, <1>4, <1>5, <1>6, <1>7, <1>9
<1>10. ASSUME pc = "visit", box = e
       PROVE  (Visited(e)' => Timed(e, 0)') /\ w <= PollSlack
  <2>1. w <= PollSlack
    BY <1>0, <1>1, <1>5, <1>7, <1>8, <1>10
  <2>2. ASSUME Visited(e)'
        PROVE  Timed(e, 0)'
    BY <1>0, <1>1, <1>4, <1>6, <1>7, <1>8, <1>10, <2>2
  <2> QED
    BY <2>1, <2>2
<1> QED
  BY <1>9, <1>10

LEMMA TimedPoll ==
    ASSUME IInv, IInv', CheckTimeouts \/ BuildStatus,
           NEW e \in regular, NEW w \in Nat, Timed(e, w)
    PROVE  Timed(e, w)'
<1>0. /\ e \in Boxes /\ PollSlack \in Nat /\ AfterPoll \in Nat
      /\ BeforeVisit(e) \in Nat /\ held \in Nat /\ PollTimeouts
  BY RegularFields, VisitCosts, Costs DEF CheckTimeouts, BuildStatus
<1> DEFINE n == NoticeTicks * Cardinality(NewTimeouts)
           u == NoticeTicks * Cardinality(Unflagged)
           s == NoticeTicks * Cardinality(Unflagged')
           v == BeforeVisit(e)
<1>1. /\ n \in Nat /\ u \in Nat /\ s \in Nat /\ n <= u /\ n + s <= AfterPoll
  BY <1>0, FewNotices
<1>2. held' = n
  BY <1>0 DEF PollTimeouts
<1>3. CASE CheckTimeouts
  <2>1. /\ Visited(e) /\ ~Visited(e)' /\ Owed = 0 /\ Owed' = s
        /\ Allowance(pc, box) = PollSlack /\ Allowance(pc', box') = AfterPoll
    BY <1>3, Allowances DEF CheckTimeouts, Visited, Owed
  <2>2. w + held + 0 <= 0 - v + PollSlack
    BY <2>1 DEF Timed, Since
  <2> HIDE DEF n, u, s, v
  <2>3. w + n + s <= PollSlack - v + AfterPoll
    BY <1>0, <1>1, <2>2 DEF v
  <2> QED
    BY <1>2, <2>1, <2>3 DEF Timed, Since, v
<1>4. CASE BuildStatus
  <2>1. /\ ~Visited(e) /\ ~Visited(e)' /\ Owed = u /\ Owed' = 0
        /\ Allowance(pc, box) = AfterPoll /\ Allowance(pc', box') = AfterPoll
    BY <1>4, Allowances DEF BuildStatus, Visited, Owed
  <2>2. w + held + u <= PollSlack - v + AfterPoll
    BY <2>1 DEF Timed, Since
  <2> HIDE DEF n, u, s, v
  <2>3. w + n + 0 <= PollSlack - v + AfterPoll
    BY <1>0, <1>1, <2>2 DEF v
  <2> QED
    BY <1>2, <2>1, <2>3 DEF Timed, Since, v
<1> QED
  BY <1>3, <1>4

LEMMA TimedTick ==
    ASSUME IInv, IInv', Tick, NEW e \in regular, NEW w \in Nat, Timed(e, w)
    PROVE  Timed(e, w + 1)' /\ (InBetween(e)' <=> InBetween(e))
<1> DEFINE A == Allowance(pc, box)
           B == Allowance(pc', box')
           v == BeforeVisit(e)
<1>0. /\ e \in Boxes /\ PollSlack \in Nat /\ v \in Nat /\ held \in Nat
      /\ e \in Nat /\ e >= 1 /\ AnyBox \in Nat /\ AnyBox >= 1
      /\ UNCHANGED <<monitors, box>>
      /\ Fields /\ Placed
  BY RegularFields, VisitCosts, Costs, Parts DEF Tick, Boxes, IInv
<1>1. Owed \in Nat
  BY OwedIsNat
<1>2. Unflagged' = Unflagged
  BY <1>0 DEF Unflagged
<1>3. A \in Nat
  BY <1>0, AllowanceIsNat DEF Fields
<1>4. w + held + Owed <= (IF Visited(e) THEN 0 ELSE PollSlack) - v + A
  BY DEF Timed, Since
<1>5. CASE pc = "asleep" /\ pc' = "visit" /\ held' = 0
  <2>1. /\ ~Visited(e) /\ ~Visited(e)' /\ Owed = 0 /\ Owed' = 0 /\ box = 1
        /\ ~Visited(AnyBox) /\ ~Visited(AnyBox)'
    BY <1>0, <1>5 DEF Visited, Owed, Placed
  <2>2. A = AfterSend /\ B = BeforeVisit(1)
    BY <1>0, <1>5, <2>1, Allowances
  <2>3. BeforeVisit(1) = AfterSend + 1 /\ AfterSend \in Nat
    <3>1. 1 <= OtaBox /\ 1 - 1 = 0 /\ 0 * LineTicks = 0
      BY Costs DEF OtaBox
    <3> QED
      BY <3>1, Costs DEF BeforeVisit
  <2> HIDE DEF A, B, v
  <2>4. (w + 1) + 0 + 0 <= PollSlack - v + B
    BY <1>0, <1>4, <2>1, <2>2, <2>3
  <2> QED
    BY <1>5, <2>1, <2>4 DEF Timed, Since, B, v, InBetween
<1>6. CASE pc # "asleep" /\ held > 0 /\ held' = held - 1 /\ pc' = pc
  <2>1. /\ Visited(e)' <=> Visited(e)
        /\ Visited(AnyBox)' <=> Visited(AnyBox)
        /\ Owed' = Owed /\ B = A
    BY <1>0, <1>2, <1>6 DEF Visited, Owed
  <2> HIDE DEF A, B, v
  <2>2. (w + 1) + held' + Owed' <= (IF Visited(e)' THEN 0 ELSE PollSlack) - v + B
    BY <1>0, <1>1, <1>3, <1>4, <1>6, <2>1
  <2> QED
    BY <2>1, <2>2 DEF Timed, Since, B, v, InBetween
<1> QED
  BY <1>5, <1>6 DEF Tick

-----------------------------------------------------------------------------
(* The frames of a regular node.                                           *)

\* Nothing happens to them.
LEMMA TrackedStays ==
    ASSUME NEW e \in Ecus, e # AnyBox, NEW r \in Nat, NEW o \in Nat, NEW a \in Nat,
           Values(e, r, o, a), Order(e, r, o, a), Memory(e, r, o),
           \A b \in Boxes : received'[b] = received[b] \/ received'[b].node # e,
           received'[e] = received[e],
           \/ received'[AnyBox] = received[AnyBox]
           \/ received'[AnyBox] # NoFrame /\ received'[AnyBox].node # e,
           monitors'[e] = monitors[e], counting'[e] = counting[e],
           Handling(e)' <=> Handling(e), Handling(e) => rxMsg' = rxMsg,
           InBetween(e)' <=> InBetween(e)
    PROVE  Values(e, r, o, a)' /\ Order(e, r, o, a)' /\ Memory(e, r, o)'
<1>1. Values(e, r, o, a)'
  BY DEF Values, From
<1>2. Order(e, r, o, a)'
  BY DEF Order, From
<1>3. Memory(e, r, o)'
  BY DEF Memory
<1> QED
  BY <1>1, <1>2, <1>3

LEMMA RegularInit ==
    ASSUME Init, NEW e \in regular
    PROVE  Regular(e)
<1>0. IInv
  BY InitKeeps
<1>1. /\ e \in Ecus /\ e \in Boxes /\ e \in Nat /\ e # AnyBox /\ AnyBox \in Boxes
      /\ pc = "visit" /\ box = 1 /\ held = 0 /\ 1 \in Boxes
  BY <1>0, RegularFields, BoxRange DEF Init
<1>2. \A b \in Boxes : received[b] = NoFrame /\ ~From(b, e)
  BY <1>1 DEF Init, From, NoFrame
<1>3. ~monitors[e].aliveError /\ ~monitors[e].aliveInitialized
  BY <1>1 DEF Init, Sup!InitialMonitors
<1>4. Timed(e, 0)
  <2>1. ~Visited(e) /\ Owed = 0
    BY <1>1 DEF Visited, Owed, Boxes
  <2>2. Allowance(pc, box) = BeforeVisit(1)
    BY <1>1, Allowances
  <2>3. /\ BeforeVisit(1) \in Nat /\ BeforeVisit(e) \in Nat
        /\ PollSlack \in Nat /\ BeforeVisit(e) <= PollSlack
    BY <1>0, <1>1, RegularFields, VisitCosts, VisitsFit, Costs
  <2> QED
    BY <1>1, <2>1, <2>2, <2>3 DEF Timed, Since
<1>5. Values(e, 1, 0, 0)
  BY <1>1, <1>2, <1>3 DEF Values, Handling
<1>6. Order(e, 1, 0, 0)
  BY <1>1, <1>2, Limits DEF Order
<1>7. Memory(e, 1, 0)
  BY <1>3 DEF Memory
<1>8. Tracked(e, 1, 0, 0, 0)
  BY <1>1, <1>2, <1>4, <1>5, <1>6, <1>7 DEF Tracked
<1> QED
  BY <1>8 DEF Regular

\* The node's own mailbox is visited: the next frame from it is the first that
\* is sent from now on, and the one in it, if any, waited for a turn at most.
LEMMA OwnVisited ==
    ASSUME IInv, IInv', CountsOutlastTurn, pc = "visit" => held = 0,
           NEW e \in regular, Regular(e),
           VisitEmpty \/ TakeFrame, box = e
    PROVE  Regular(e)'
<1>1. PICK r \in Nat, o \in Nat, a \in Nat, w \in Nat : Tracked(e, r, o, a, w)
  BY DEF Regular
<1>2. /\ e \in Ecus /\ e \in Boxes /\ e # AnyBox /\ e < AnyBox /\ e \in Nat
      /\ AnyBox \in Boxes /\ pc = "visit"
      /\ UNCHANGED <<supVars, nodeVars>>
  BY RegularFields DEF VisitEmpty, TakeFrame
<1>3. ~InBetween(e) /\ InBetween(e)'
  <2>1. Visits /\ Step
    BY DEF Visits, Step
  <2>2. ~Visited(e) /\ Visited(e)' /\ ~Visited(AnyBox)'
    BY <1>2, <2>1, VisitsAre
  <2> QED
    BY <2>2 DEF InBetween
<1>4. Timed(e, 0)' /\ w <= PollSlack
  <2>1. Timed(e, w) /\ Step /\ ~CheckTimeouts /\ ~BuildStatus /\ Visited(e)'
    BY <1>1, <1>2, <1>3
       DEF Tracked, Step, CheckTimeouts, BuildStatus, InBetween
  <2> QED
    BY <1>2, <2>1, TimedStep
<1>5. Values(e, r, o, a) /\ Order(e, r, o, a) /\ Memory(e, r, o) /\ ~Handling(e)
  BY <1>1, <1>2 DEF Tracked, Handling
<1>6. AliveMod \in Nat /\ AliveMod > 1
  BY Limits
<1>7. CASE VisitEmpty
  <2>1. received' = received /\ received[e] = NoFrame /\ ~From(e, e) /\ rxMsg' = rxMsg
    BY <1>2, <1>7 DEF VisitEmpty, From, NoFrame
  <2>2. o = 0 /\ r \in 1 .. AliveMod - 1 /\ ~From(AnyBox, e)
    BY <1>3, <1>5, <2>1 DEF Values, Order
  <2>3. ~Handling(e)'
    BY <1>7 DEF VisitEmpty, NextBox, Handling
  <2>4. Values(e, r, o, a)'
    BY <1>2, <1>5, <2>1, <2>3 DEF Values, From, supVars, nodeVars
  <2>5. Order(e, r, o, a)'
    <3>1. ~From(AnyBox, e)'
      BY <2>1, <2>2 DEF From
    <3>2. r >= 1 /\ r - o \in 1 .. AliveMod - 1 /\ o <= 1
      BY <1>6, <2>2
    <3> QED
      BY <3>1, <3>2 DEF Order
  <2>6. Memory(e, r, o)'
    BY <1>2, <1>5, <2>3 DEF Memory, supVars
  <2>7. ~From(e, e)'
    BY <2>1 DEF From
  <2>8. Tracked(e, r, o, a, 0)'
    BY <1>4, <2>4, <2>5, <2>6, <2>7 DEF Tracked
  <2> QED
    BY <2>8 DEF Regular
<1>8. CASE TakeFrame
  <2>1. /\ received[e] # NoFrame /\ rxMsg' = received[e] /\ pc' = "handle"
        /\ received'[e] = NoFrame
        /\ \A b \in Boxes : b # e => received'[b] = received[b]
    BY <1>2, <1>8, Parts DEF IInv, TakeFrame, Restart, Held
  <2>2. /\ From(e, e) /\ o >= 1 /\ received[e].valid
        /\ Counted(counting[e], received[e].alive, o)
    BY <1>2, <1>5, <2>1 DEF Values
  <2>3. o <= AliveMod - 1
    <3>1. o * NodePeriod - sendIn[e] <= w /\ sendIn[e] \in 0 .. NodePeriod
      BY <1>1, <2>2, RegularFields DEF Tracked
    <3>2. /\ NodePeriod \in Nat /\ PollSlack \in Nat
          /\ PollSlack < (AliveMod - 1) * NodePeriod
      BY PeriodsAssumption, Costs DEF CountsOutlastTurn
    <3>3. (AliveMod - 1) * NodePeriod + NodePeriod = AliveMod * NodePeriod
      <4>1. AliveMod - 1 \in Nat /\ (AliveMod - 1) + 1 = AliveMod
        BY <1>6
      <4>2. ((AliveMod - 1) + 1) * NodePeriod = (AliveMod - 1) * NodePeriod + NodePeriod
        BY <3>2, <4>1, OneMore
      <4> QED
        BY <4>1, <4>2
    <3>4. o * NodePeriod \in Nat /\ (AliveMod - 1) * NodePeriod \in Int
          /\ AliveMod * NodePeriod \in Int
      BY <1>6, <3>2
    <3>5. o * NodePeriod < AliveMod * NodePeriod
      BY <1>4, <3>1, <3>2, <3>3, <3>4
    <3>6. ASSUME AliveMod <= o
          PROVE  AliveMod * NodePeriod <= o * NodePeriod
      <4>1. NodePeriod * AliveMod <= NodePeriod * o
        BY <1>6, <3>2, <3>6, Products
      <4> QED
        BY <1>6, <3>2, <4>1
    <3> QED
      BY <1>6, <3>4, <3>5, <3>6
  <2>4. Handling(e)'
    BY <2>1, <2>2 DEF Handling, From
  <2>5. /\ \A b \in Boxes : b # e => (From(b, e)' <=> From(b, e))
        /\ ~From(e, e)'
    BY <1>2, <2>1 DEF From, NoFrame
  <2>6. Values(e, o, 0, a)'
    BY <1>2, <1>5, <2>1, <2>2, <2>4, <2>5 DEF Values, nodeVars
  <2>7. Order(e, o, 0, a)'
    <3>1. From(AnyBox, e)' => a >= 1 /\ a < o
      BY <1>2, <1>3, <1>5, <2>5 DEF Values, Order
    <3>2. /\ o - 0 \in 1 .. AliveMod - 1
          /\ a >= 1 /\ a < o => a - 0 \in 1 .. AliveMod - 1
      BY <1>6, <2>2, <2>3
    <3> QED
      BY <1>3, <2>2, <3>1, <3>2 DEF Order
  <2>8. Memory(e, o, 0)'
    <3> DEFINE m == monitors[e]
    <3>1. ~m.aliveError /\ m' = m
      BY <1>2, <1>5 DEF Memory, supVars
    <3>2. ASSUME m.aliveInitialized
          PROVE  m.aliveFreezeCnt \in 0 .. 1 /\ rxMsg'.alive # m.lastAliveCounter
      <4>1. m.aliveFreezeCnt \in 0 .. 1
        BY <1>5, <3>2 DEF Memory
      <4>2. Counted(counting[e], m.lastAliveCounter, r)
        BY <1>5, <3>2 DEF Values
      <4>3. r - o \in 1 .. AliveMod - 1 \/ o - r \in 1 .. AliveMod - 1
        BY <1>5, <1>6 DEF Order
      <4>4. /\ received[e].alive \in Alive /\ m.lastAliveCounter \in Alive
            /\ counting[e] \in Alive
        BY <1>2, <2>1, RegularFields
      <4> HIDE DEF m
      <4>5. received[e].alive # m.lastAliveCounter
        BY <2>2, <4>2, <4>3, <4>4, CountedApart
      <4> QED
        BY <2>1, <4>1, <4>5
    <3> HIDE DEF m
    <3> QED
      BY <2>4, <3>1, <3>2 DEF Memory, m
  <2>9. Tracked(e, o, 0, a, 0)'
    BY <1>4, <2>5, <2>6, <2>7, <2>8 DEF Tracked
  <2> QED
    BY <2>9 DEF Regular
<1> QED
  BY <1>7, <1>8

\* The catch-all is visited.
LEMMA AnyVisited ==
    ASSUME IInv, IInv', pc = "visit" => held = 0,
           NEW e \in regular, Regular(e),
           VisitEmpty \/ TakeFrame, box = AnyBox
    PROVE  Regular(e)'
<1>1. PICK r \in Nat, o \in Nat, a \in Nat, w \in Nat : Tracked(e, r, o, a, w)
  BY DEF Regular
<1>2. /\ e \in Ecus /\ e \in Boxes /\ e # AnyBox /\ e < AnyBox /\ e \in Nat
      /\ AnyBox \in Boxes /\ AnyBox \in Nat /\ pc = "visit"
      /\ UNCHANGED <<supVars, nodeVars>>
  BY RegularFields DEF VisitEmpty, TakeFrame
<1>3. InBetween(e) /\ ~InBetween(e)' /\ (Visited(e)' <=> Visited(e))
  <2>1. Visits /\ Step
    BY DEF Visits, Step
  <2>2. Visited(e) /\ Visited(e)' /\ ~Visited(AnyBox) /\ Visited(AnyBox)'
    BY <1>2, <2>1, VisitsAre
  <2> QED
    BY <2>2 DEF InBetween
<1>4. Timed(e, w)'
  <2>1. Timed(e, w) /\ Step /\ ~CheckTimeouts /\ ~BuildStatus
    BY <1>1, <1>2 DEF Tracked, Step, CheckTimeouts, BuildStatus
  <2> QED
    BY <1>3, <2>1, TimedStep
<1>5. Values(e, r, o, a) /\ Order(e, r, o, a) /\ Memory(e, r, o) /\ ~Handling(e)
  BY <1>1, <1>2 DEF Tracked, Handling
<1>6. AliveMod \in Nat /\ AliveMod > 1
  BY Limits
<1>7. /\ \A b \in Boxes : b # AnyBox => received'[b] = received[b]
      /\ ~From(AnyBox, e)'
  <2>1. received'[AnyBox] = NoFrame
    BY <1>2, Parts DEF IInv, VisitEmpty, TakeFrame, Restart, Held
  <2> QED
    BY <1>2, <2>1, Parts DEF IInv, VisitEmpty, TakeFrame, Restart, Held, From, NoFrame
<1>8. From(e, e) => o * NodePeriod - sendIn[e] <= w
  BY <1>1 DEF Tracked
<1>9. \A b \in Boxes : b # AnyBox => (From(b, e)' <=> From(b, e))
  BY <1>7 DEF From
<1>10. r - o \in 1 .. AliveMod - 1 /\ r >= 1
  BY <1>3, <1>5 DEF Order
<1>11. CASE ~Handling(e)'
  <2>1. Values(e, r, o, a)'
    BY <1>2, <1>5, <1>7, <1>9, <1>11 DEF Values, supVars, nodeVars
  <2>2. Order(e, r, o, a)'
    BY <1>3, <1>7, <1>10 DEF Order
  <2>3. Memory(e, r, o)'
    BY <1>2, <1>5, <1>11 DEF Memory, supVars
  <2>4. Tracked(e, r, o, a, w)'
    BY <1>2, <1>4, <1>8, <1>9, <2>1, <2>2, <2>3 DEF Tracked, nodeVars
  <2> QED
    BY <2>4 DEF Regular
<1>12. CASE Handling(e)'
  <2>1. rxMsg' = received[AnyBox] /\ From(AnyBox, e) /\ received[AnyBox] # NoFrame
    <3>1. TakeFrame
      BY <1>12 DEF VisitEmpty, NextBox, Handling
    <3> QED
      BY <1>2, <1>12, <3>1 DEF TakeFrame, Handling, From
  <2>2. /\ a >= 1 /\ received[AnyBox].valid
        /\ Counted(counting[e], received[AnyBox].alive, a)
    BY <1>2, <1>5, <2>1 DEF Values
  <2>3. a = o - 1 \/ (a - o \in 1 .. AliveMod - 1 /\ a < r)
    BY <1>3, <1>5, <2>1 DEF Order
  <2>4. Values(e, a, o, a)'
    BY <1>2, <1>5, <1>7, <1>9, <1>12, <2>1, <2>2 DEF Values, nodeVars
  <2>5. Order(e, a, o, a)'
    BY <1>3, <1>7, <2>2, <2>3 DEF Order
  <2>6. Memory(e, a, o)'
    <3> DEFINE m == monitors[e]
    <3>1. ~m.aliveError /\ m' = m
      BY <1>2, <1>5 DEF Memory, supVars
    <3>2. ASSUME m.aliveInitialized
          PROVE  /\ m.aliveFreezeCnt = 0
                 /\ rxMsg'.alive # m.lastAliveCounter \/ a = o - 1
      <4>1. m.aliveFreezeCnt = 0
        BY <1>5, <1>10, <3>2 DEF Memory
      <4>2. Counted(counting[e], m.lastAliveCounter, r)
        BY <1>5, <3>2 DEF Values
      <4>3. a # o - 1 => r - a \in 1 .. AliveMod - 1
        BY <1>6, <1>10, <2>2, <2>3
      <4>4. /\ received[AnyBox].alive \in Alive /\ m.lastAliveCounter \in Alive
            /\ counting[e] \in Alive
        BY <1>2, <2>1, RegularFields
      <4> HIDE DEF m
      <4>5. a # o - 1 => received[AnyBox].alive # m.lastAliveCounter
        BY <2>2, <4>2, <4>3, <4>4, CountedApart
      <4> QED
        BY <2>1, <4>1, <4>5
    <3> HIDE DEF m
    <3>3. 0 \in 0 .. 1
      OBVIOUS
    <3> QED
      BY <1>12, <3>1, <3>2, <3>3 DEF Memory, m
  <2>7. Tracked(e, a, o, a, w)'
    BY <1>2, <1>4, <1>8, <1>9, <2>4, <2>5, <2>6 DEF Tracked, nodeVars
  <2> QED
    BY <2>7 DEF Regular
<1> QED
  BY <1>11, <1>12


\* Another mailbox is visited, or the loop goes from the poll to the sleep.
LEMMA RegularSteps ==
    ASSUME IInv, IInv', pc = "visit" => held = 0,
           NEW e \in regular, Regular(e),
           \/ (VisitEmpty \/ TakeFrame) /\ box \notin {e, AnyBox}
           \/ ServeRequest \/ Respond \/ RearmOta
           \/ NotYet \/ SendStatus \/ StatusFailed \/ StatusSent \/ Delay
    PROVE  Regular(e)'
<1>1. PICK r \in Nat, o \in Nat, a \in Nat, w \in Nat : Tracked(e, r, o, a, w)
  BY DEF Regular
<1>2. /\ e \in Ecus /\ e \in Boxes /\ e # AnyBox /\ e # OtaBox
      /\ AnyBox \in Boxes /\ AnyBox # OtaBox /\ pc # "handle"
      /\ UNCHANGED <<supVars, nodeVars>>
  BY RegularFields, Costs
     DEF VisitEmpty, TakeFrame, ServeRequest, Respond, RearmOta, NotYet, SendStatus,
         StatusFailed, StatusSent, Delay, OtaBox, AnyBox
<1>3. Step /\ ~CheckTimeouts /\ ~BuildStatus
  BY DEF Step, CheckTimeouts, BuildStatus, VisitEmpty, TakeFrame, ServeRequest,
     Respond, RearmOta, NotYet, SendStatus, StatusFailed, StatusSent, Delay
<1>4. RearmOta => box = OtaBox
  BY DEF IInv, Placed, RearmOta
<1>5. Visits => box \notin {e, AnyBox}
  <2>1. VisitEmpty \/ TakeFrame => pc = "visit" /\ (box # OtaBox \/ received[box] = NoFrame)
    BY DEF VisitEmpty, TakeFrame
  <2>2. CASE (VisitEmpty \/ TakeFrame) /\ box \notin {e, AnyBox}
    BY <2>2
  <2>3. CASE RearmOta
    BY <1>2, <1>4, <2>3
  <2>4. CASE ServeRequest
    BY <1>2, <2>4 DEF Visits, VisitEmpty, TakeFrame, RearmOta, ServeRequest
  <2>5. CASE Respond \/ NotYet \/ SendStatus \/ StatusFailed \/ StatusSent \/ Delay
    BY <2>5 DEF Visits, VisitEmpty, TakeFrame, RearmOta, Respond, NotYet, SendStatus,
       StatusFailed, StatusSent, Delay
  <2> QED
    BY <2>2, <2>3, <2>4, <2>5
<1>6. (Visited(e)' <=> Visited(e)) /\ (Visited(AnyBox)' <=> Visited(AnyBox))
  <2>1. CASE Visits
    BY <1>2, <1>3, <1>5, <2>1, VisitsAre
  <2>2. CASE ~Visits
    BY <1>2, <1>3, <2>2, VisitsAre
  <2> QED
    BY <2>1, <2>2
<1>7. /\ \A b \in Boxes : received'[b] = received[b] \/ received'[b] = NoFrame
      /\ received'[e] = received[e] /\ received'[AnyBox] = received[AnyBox]
  <2>1. CASE TakeFrame \/ RearmOta
    <3>1. box \notin {e, AnyBox}
      BY <1>5, <2>1 DEF Visits
    <3>2. received' = [received EXCEPT ![box] = NoFrame]
      BY <2>1 DEF TakeFrame, RearmOta, Restart
    <3>3. received \in [Boxes -> Slot]
      BY Parts DEF IInv, Held
    <3> QED
      BY <1>2, <3>1, <3>2, <3>3
  <2>2. CASE ~TakeFrame /\ ~RearmOta
    BY <2>2 DEF VisitEmpty, ServeRequest, Respond, NotYet, SendStatus,
       StatusFailed, StatusSent, Delay
  <2> QED
    BY <2>1, <2>2
<1>8. Values(e, r, o, a) /\ Order(e, r, o, a) /\ Memory(e, r, o)
  BY <1>1 DEF Tracked
<1>9. ~Handling(e) /\ ~Handling(e)'
  <2>1. CASE TakeFrame
    <3>1. received[box].node # e
      BY <1>5, <1>8, <2>1, RegularFields DEF Visits, Values, From
    <3> QED
      BY <1>2, <2>1, <3>1 DEF TakeFrame, Handling
  <2>2. CASE ~TakeFrame
    <3>1. pc' # "handle"
      BY <2>2 DEF VisitEmpty, NextBox, ServeRequest, Respond, RearmOta, NotYet,
         SendStatus, StatusFailed, StatusSent, Delay
    <3> QED
      BY <1>2, <3>1 DEF Handling
  <2> QED
    BY <2>1, <2>2
<1>10. Timed(e, w)'
  <2>1. Timed(e, w)
    BY <1>1 DEF Tracked
  <2> QED
    BY <1>3, <1>6, <2>1, TimedStep
<1>11. Values(e, r, o, a)' /\ Order(e, r, o, a)' /\ Memory(e, r, o)'
  <2>1. \A b \in Boxes : received'[b] = received[b] \/ received'[b].node # e
    BY <1>2, <1>7 DEF NoFrame
  <2>2. monitors'[e] = monitors[e] /\ counting'[e] = counting[e]
    BY <1>2 DEF supVars, nodeVars
  <2>3. InBetween(e)' <=> InBetween(e)
    BY <1>6 DEF InBetween
  <2> QED
    BY <1>2, <1>7, <1>8, <1>9, <2>1, <2>2, <2>3, TrackedStays
<1>12. From(e, e)' => o * NodePeriod - sendIn'[e] <= w
  BY <1>1, <1>2, <1>7 DEF Tracked, From, nodeVars
<1>13. Tracked(e, r, o, a, w)'
  BY <1>10, <1>11, <1>12 DEF Tracked
<1> QED
  BY <1>13 DEF Regular

\* A valid frame after one repeat at most, and not a second one.
LEMMA AcceptRegular ==
    ASSUME NEW m \in Sup!MonitorType, NEW alive \in Alive, ~m.aliveError,
           FreezeLimit >= 2, now \in 0 .. TickMod - 1,
           m.aliveInitialized =>
             m.aliveFreezeCnt = 0 \/ alive # m.lastAliveCounter
    PROVE  LET n == Sup!Accept(m, alive)
           IN  /\ ~n.aliveError /\ n.aliveInitialized
               /\ n.lastAliveCounter = alive
               /\ \/ n.aliveFreezeCnt = 0
                  \/ /\ n.aliveFreezeCnt = 1 /\ m.aliveInitialized
                     /\ alive = m.lastAliveCounter
<1> DEFINE r == Sup!UpdateChecksumRecovery(m)
           a == Sup!UpdateAliveMonitor(r, alive)
           n == Sup!Accept(m, alive)
<1>1. /\ r \in Sup!MonitorType /\ r.aliveError = m.aliveError
      /\ r.aliveInitialized = m.aliveInitialized
      /\ r.lastAliveCounter = m.lastAliveCounter
      /\ r.aliveFreezeCnt = m.aliveFreezeCnt
  BY RecoveryKeeps
<1>2. n = [a EXCEPT !.timeoutError = FALSE, !.lastRxTick = now]
  BY DEF Sup!Accept
<1> HIDE DEF r, n
<1>3. a \in Sup!MonitorType
  BY <1>1, AliveKeeps
<1>4. /\ ~a.aliveError /\ a.aliveInitialized /\ a.lastAliveCounter = alive
      /\ \/ a.aliveFreezeCnt = 0
         \/ /\ a.aliveFreezeCnt = 1 /\ m.aliveInitialized
            /\ alive = m.lastAliveCounter
  <2>1. CASE ~r.aliveInitialized
    <3>1. a = [r EXCEPT !.lastAliveCounter = alive, !.aliveFreezeCnt = 0,
                        !.aliveInitialized = TRUE]
      BY <2>1 DEF Sup!UpdateAliveMonitor, Sup!Baseline
    <3> QED
      BY <1>1, <3>1 DEF Sup!MonitorType
  <2>2. CASE r.aliveInitialized /\ alive = r.lastAliveCounter
    <3> DEFINE repeats == Sup!IncrementCounter(r.aliveFreezeCnt)
    <3>1. a = [r EXCEPT !.aliveFreezeCnt = repeats,
                        !.aliveError = @ \/ repeats >= FreezeLimit]
      BY <2>2 DEF Sup!UpdateAliveMonitor, Sup!Repeated
    <3>2. FreezeLimit \in Nat /\ FreezeLimit <= ByteMax
      BY LimitsAssumption
    <3>3. r.aliveFreezeCnt = 0
      BY <1>1, <2>2
    <3>4. repeats = 1
      BY <3>2, <3>3, Limits DEF Sup!IncrementCounter
    <3>5. ~(repeats >= FreezeLimit)
      BY <3>2, <3>4
    <3> HIDE DEF repeats, a
    <3>6. /\ a.aliveFreezeCnt = repeats
          /\ a.aliveError = (r.aliveError \/ repeats >= FreezeLimit)
          /\ a.aliveInitialized = r.aliveInitialized
          /\ a.lastAliveCounter = r.lastAliveCounter
      BY <1>1, <3>1 DEF Sup!MonitorType
    <3>7. ~a.aliveError
      BY <1>1, <3>5, <3>6
    <3> QED
      BY <1>1, <2>2, <3>4, <3>6, <3>7
  <2>3. CASE r.aliveInitialized /\ alive # r.lastAliveCounter
    <3>1. a = [r EXCEPT !.aliveError = FALSE, !.aliveFreezeCnt = 0,
                        !.lastAliveCounter = alive]
      BY <2>3 DEF Sup!UpdateAliveMonitor, Sup!Changed
    <3> QED
      BY <1>1, <2>3, <3>1 DEF Sup!MonitorType
  <2> QED
    BY <2>1, <2>2, <2>3
<1> HIDE DEF a
<1>5. /\ n.aliveError = a.aliveError
      /\ n.aliveInitialized = a.aliveInitialized
      /\ n.lastAliveCounter = a.lastAliveCounter
      /\ n.aliveFreezeCnt = a.aliveFreezeCnt
  BY <1>2, <1>3 DEF Sup!MonitorType
<1> QED
  BY <1>4, <1>5 DEF n

LEMMA RegularHandled ==
    ASSUME IInv, IInv', CountsOutlastTurn,
           NEW e \in regular, Regular(e), HandleMessage
    PROVE  Regular(e)'
<1>1. PICK r \in Nat, o \in Nat, a \in Nat, w \in Nat : Tracked(e, r, o, a, w)
  BY DEF Regular
<1>2. /\ e \in Ecus /\ e \in Boxes /\ AnyBox \in Boxes /\ e # AnyBox
      /\ UNCHANGED <<received, nodeVars>>
      /\ pc = "handle" /\ pc' # "handle" /\ NextBox
      /\ now \in 0 .. TickMod - 1 /\ monitors \in [Ecus -> Sup!MonitorType]
  BY RegularFields, Parts DEF IInv, Fields, HandleMessage, NextBox
<1>3. Step /\ ~CheckTimeouts /\ ~BuildStatus /\ ~Visits
  BY DEF HandleMessage, Step, CheckTimeouts, BuildStatus, Visits, VisitEmpty,
     TakeFrame, RearmOta
<1>4. (Visited(e)' <=> Visited(e)) /\ (InBetween(e)' <=> InBetween(e))
  BY <1>2, <1>3, VisitsAre DEF InBetween
<1>5. Values(e, r, o, a) /\ Order(e, r, o, a) /\ Memory(e, r, o) /\ Timed(e, w)
  BY <1>1 DEF Tracked
<1>6. Timed(e, w)'
  BY <1>2, <1>3, <1>4, <1>5, TimedStep
<1>7. Order(e, r, o, a)'
  BY <1>2, <1>4, <1>5 DEF Order, From
<1>8. ~Handling(e)'
  BY <1>2 DEF Handling
<1>9. Values(e, r, o, a)' /\ Memory(e, r, o)'
  <2>1. CASE rxMsg.node # e
    <3>1. monitors'[e] = monitors[e]
      BY <1>2, <2>1 DEF HandleMessage
    <3>2. ~Handling(e)
      BY <2>1 DEF Handling
    <3> QED
      BY <1>2, <1>5, <1>8, <3>1, <3>2 DEF Values, Memory, From, nodeVars
  <2>2. CASE rxMsg.node = e
    <3> DEFINE m == monitors[e]
               n == Sup!Accept(m, rxMsg.alive)
    <3>1. Handling(e) /\ rxMsg.alive \in Alive
      BY <1>2, <2>2, RegularFields DEF Handling
    <3>2. rxMsg.valid /\ Counted(counting[e], rxMsg.alive, r)
      BY <1>5, <3>1 DEF Values
    <3>3. monitors'[e] = n
      BY <1>2, <2>2, <3>2 DEF HandleMessage
    <3>4. /\ m \in Sup!MonitorType /\ ~m.aliveError
          /\ m.aliveInitialized =>
               \/ m.aliveFreezeCnt \in 0 .. 1 /\ rxMsg.alive # m.lastAliveCounter
               \/ m.aliveFreezeCnt = 0 /\ r = o - 1
      BY <1>2, <1>5, <3>1 DEF Memory
    <3>5. /\ ~n.aliveError /\ n.aliveInitialized
          /\ n.lastAliveCounter = rxMsg.alive
          /\ \/ n.aliveFreezeCnt = 0
             \/ /\ n.aliveFreezeCnt = 1 /\ m.aliveInitialized
                /\ rxMsg.alive = m.lastAliveCounter
      BY <1>2, <3>1, <3>4, AcceptRegular DEF CountsOutlastTurn
    <3> HIDE DEF n, m
    <3>6. n.aliveFreezeCnt = 0 \/ (n.aliveFreezeCnt = 1 /\ r = o - 1)
      BY <3>4, <3>5
    <3>7. Values(e, r, o, a)'
      BY <1>2, <1>5, <1>8, <3>2, <3>3, <3>5 DEF Values, From, nodeVars
    <3>8. Memory(e, r, o)'
      BY <1>8, <3>3, <3>5, <3>6 DEF Memory
    <3> QED
      BY <3>7, <3>8
  <2> QED
    BY <2>1, <2>2
<1>10. From(e, e)' => o * NodePeriod - sendIn'[e] <= w
  BY <1>1, <1>2 DEF Tracked, From, nodeVars
<1>11. Tracked(e, r, o, a, w)'
  BY <1>6, <1>7, <1>9, <1>10 DEF Tracked
<1> QED
  BY <1>11 DEF Regular

LEMMA RegularPolled ==
    ASSUME IInv, IInv', NEW e \in regular, Regular(e), CheckTimeouts \/ BuildStatus
    PROVE  Regular(e)'
<1>1. PICK r \in Nat, o \in Nat, a \in Nat, w \in Nat : Tracked(e, r, o, a, w)
  BY DEF Regular
<1>2. /\ UNCHANGED <<received, nodeVars>>
      /\ monitors'[e] = Sup!CheckTimeout(monitors[e])
      /\ monitors[e] \in Sup!MonitorType
  BY RegularFields DEF CheckTimeouts, BuildStatus, PollTimeouts, Sup!Checked
<1>3. /\ ~Handling(e) /\ ~Handling(e)'
      /\ ~InBetween(e) /\ ~InBetween(e)'
  BY DEF CheckTimeouts, BuildStatus, Handling, InBetween, Visited
<1>4. Values(e, r, o, a) /\ Order(e, r, o, a) /\ Memory(e, r, o) /\ Timed(e, w)
  BY <1>1 DEF Tracked
<1>5. Timed(e, w)'
  BY <1>4, TimedPoll
<1> DEFINE m == monitors[e]
           n == Sup!CheckTimeout(m)
<1>6. ~n.aliveError /\ (n.aliveInitialized => n = m)
  <2>1. ~m.aliveError
    BY <1>4 DEF Memory
  <2>2. CASE n = m
    BY <2>1, <2>2
  <2>3. CASE n = [m EXCEPT !.timeoutError = TRUE, !.aliveInitialized = FALSE,
                           !.aliveFreezeCnt = 0]
    <3> HIDE DEF n
    <3>1. n.aliveInitialized = FALSE /\ n.aliveError = m.aliveError
      BY <1>2, <2>3 DEF Sup!MonitorType
    <3> QED
      BY <2>1, <3>1
  <2> QED
    BY <2>2, <2>3 DEF Sup!CheckTimeout
<1> HIDE DEF n
<1>7. monitors'[e] = n
  BY <1>2 DEF n
<1>8. Values(e, r, o, a)'
  BY <1>2, <1>3, <1>4, <1>6, <1>7 DEF Values, From, nodeVars
<1>9. Order(e, r, o, a)'
  BY <1>2, <1>3, <1>4 DEF Order, From
<1>10. Memory(e, r, o)'
  BY <1>3, <1>4, <1>6, <1>7 DEF Memory
<1>11. From(e, e)' => o * NodePeriod - sendIn'[e] <= w
  BY <1>1, <1>2 DEF Tracked, From, nodeVars
<1>12. Tracked(e, r, o, a, w)'
  BY <1>5, <1>8, <1>9, <1>10, <1>11 DEF Tracked
<1> QED
  BY <1>12 DEF Regular

LEMMA RegularTick ==
    ASSUME IInv, IInv', NEW e \in regular, Regular(e), Tick
    PROVE  Regular(e)'
<1>1. PICK r \in Nat, o \in Nat, a \in Nat, w \in Nat : Tracked(e, r, o, a, w)
  BY DEF Regular
<1>2. /\ e \in Ecus /\ e # AnyBox /\ sendIn[e] \in Int
      /\ UNCHANGED <<monitors, received, rxMsg, counting>>
      /\ sendIn'[e] = sendIn[e] - 1
      /\ Handling(e)' <=> Handling(e)
  BY RegularFields DEF Tick, Handling
<1>3. Values(e, r, o, a) /\ Order(e, r, o, a) /\ Memory(e, r, o) /\ Timed(e, w)
  BY <1>1 DEF Tracked
<1>4. Timed(e, w + 1)' /\ (InBetween(e)' <=> InBetween(e))
  BY <1>3, TimedTick
<1>5. Values(e, r, o, a)' /\ Order(e, r, o, a)' /\ Memory(e, r, o)'
  BY <1>2, <1>3, <1>4, TrackedStays
<1>6. From(e, e)' => o * NodePeriod - sendIn'[e] <= w + 1
  <2>1. o * NodePeriod \in Int
    BY PeriodsAssumption
  <2>2. From(e, e)' => o * NodePeriod - sendIn[e] <= w
    BY <1>1, <1>2 DEF Tracked, From
  <2> QED
    BY <1>2, <2>1, <2>2
<1>7. Tracked(e, r, o, a, w + 1)'
  BY <1>4, <1>5, <1>6 DEF Tracked
<1>8. w + 1 \in Nat
  OBVIOUS
<1> QED
  BY <1>7, <1>8 DEF Regular

-----------------------------------------------------------------------------
(* The bus.                                                                *)

\* A frame goes to the mailbox of its node, or else to the catch-all.
LEMMA Lands ==
    ASSUME NEW f \in Frame, Arrive(f), AnyBox \in Boxes
    PROVE  \/ /\ f.node \in Boxes /\ received[f.node] = NoFrame
              /\ received' = [received EXCEPT ![f.node] = f]
           \/ /\ f.node \in Boxes => received[f.node] # NoFrame
              /\ received[AnyBox] = NoFrame
              /\ received' = [received EXCEPT ![AnyBox] = f]
           \/ /\ f.node \in Boxes => received[f.node] # NoFrame
              /\ received[AnyBox] # NoFrame
              /\ received' = received
<1>1. f.node \in Nat /\ f.node < AnyBox /\ AnyBox \in Nat
  BY Costs DEF Frame, OtaBox, AnyBox
<1>2. \A b \in Boxes : b \in Listening(f)
        <=> received[b] = NoFrame /\ (b = AnyBox \/ b = f.node)
  BY DEF Listening, Matches
<1>3. Listening(f) \subseteq Boxes /\ Boxes \subseteq Nat
  BY DEF Listening, Boxes
<1> DEFINE S == Listening(f)
           n == f.node
<1>4. \A b \in S : b \in Nat /\ (b = AnyBox \/ b = n)
  BY <1>2, <1>3
<1>5. CASE f.node \in Boxes /\ received[f.node] = NoFrame
  <2>1. n \in S
    BY <1>2, <1>5
  <2> HIDE DEF S, n
  <2>2. \A y \in S : n <= y
    BY <1>1, <1>4 DEF n
  <2>3. \A x \in S : (\A y \in S : x <= y) => x = n
    <3> SUFFICES ASSUME NEW x \in S, \A y \in S : x <= y
                 PROVE  x = n
      OBVIOUS
    <3>1. x <= n /\ n <= x /\ x \in Nat /\ n \in Nat
      BY <1>1, <1>4, <2>1, <2>2 DEF n
    <3> QED
      BY <3>1
  <2>4. Min(S) = n
    BY <2>1, <2>2, <2>3 DEF Min
  <2>5. Listening(f) # {} /\ Min(Listening(f)) = f.node
    BY <2>1, <2>4 DEF S, n
  <2> QED
    BY <1>5, <2>5 DEF Arrive
<1>6. CASE /\ ~(f.node \in Boxes /\ received[f.node] = NoFrame)
           /\ received[AnyBox] = NoFrame
  <2>1. AnyBox \in S /\ \A y \in S : y = AnyBox
    BY <1>2, <1>3, <1>6
  <2>2. AnyBox <= AnyBox
    BY <1>1
  <2>3. Min(S) = AnyBox
    BY <2>1, <2>2 DEF Min
  <2> QED
    BY <1>6, <2>1, <2>3 DEF Arrive
<1>7. CASE /\ ~(f.node \in Boxes /\ received[f.node] = NoFrame)
           /\ received[AnyBox] # NoFrame
  <2>1. S = {}
    BY <1>2, <1>3, <1>7
  <2> QED
    BY <1>7, <2>1 DEF Arrive
<1> QED
  BY <1>5, <1>6, <1>7

\* The bus takes none of the task's time.
LEMMA TimedStays ==
    ASSUME NEW e, NEW w, Timed(e, w), UNCHANGED <<supVars, pc, box, held>>
    PROVE  Timed(e, w)' /\ (InBetween(e)' <=> InBetween(e))
<1>1. Owed' = Owed
  BY DEF Owed, Unflagged, supVars
<1>2. (Visited(e)' <=> Visited(e)) /\ (Visited(AnyBox)' <=> Visited(AnyBox))
  BY DEF Visited
<1>3. Since(e)' = Since(e)
  BY <1>2 DEF Since
<1> QED
  BY <1>1, <1>2, <1>3 DEF Timed, InBetween

\* A frame of another node, or of none, arrives.
LEMMA OtherArrives ==
    ASSUME IInv, NEW e \in regular, Regular(e),
           NEW f \in Frame, f.node # e, Arrive(f),
           counting'[e] = counting[e], sendIn'[e] = sendIn[e],
           UNCHANGED <<supVars, pc, box, rxMsg, held>>
    PROVE  Regular(e)'
<1>1. PICK r \in Nat, o \in Nat, a \in Nat, w \in Nat : Tracked(e, r, o, a, w)
  BY DEF Regular
<1>2. /\ e \in Ecus /\ e \in Boxes /\ e # AnyBox /\ AnyBox \in Boxes
      /\ monitors'[e] = monitors[e] /\ (Handling(e)' <=> Handling(e))
  BY RegularFields DEF supVars, Handling
<1>3. Values(e, r, o, a) /\ Order(e, r, o, a) /\ Memory(e, r, o) /\ Timed(e, w)
  BY <1>1 DEF Tracked
<1>4. Timed(e, w)' /\ (InBetween(e)' <=> InBetween(e))
  BY <1>3, TimedStays
<1>5. /\ \A b \in Boxes : received'[b] = received[b] \/ received'[b].node # e
      /\ received'[e] = received[e]
      /\ \/ received'[AnyBox] = received[AnyBox]
         \/ received'[AnyBox] # NoFrame /\ received'[AnyBox].node # e
  <2>1. received \in [Boxes -> Slot] /\ f # NoFrame
    BY FramesFit, Parts DEF IInv, Held
  <2>2. f.node \in Nat /\ f.node # AnyBox
    BY Costs DEF Frame, OtaBox, AnyBox
  <2>3. CASE received' = received
    BY <2>3
  <2>4. CASE f.node \in Boxes /\ received' = [received EXCEPT ![f.node] = f]
    BY <1>2, <2>1, <2>2, <2>4
  <2>5. CASE received' = [received EXCEPT ![AnyBox] = f]
    BY <1>2, <2>1, <2>5
  <2> QED
    BY <1>2, <2>3, <2>4, <2>5, Lands
<1>6. Values(e, r, o, a)' /\ Order(e, r, o, a)' /\ Memory(e, r, o)'
  BY <1>2, <1>3, <1>4, <1>5, TrackedStays
<1>7. From(e, e)' => o * NodePeriod - sendIn'[e] <= w
  BY <1>1, <1>5 DEF Tracked, From
<1>8. Tracked(e, r, o, a, w)'
  BY <1>4, <1>6, <1>7 DEF Tracked
<1> QED
  BY <1>8 DEF Regular

\* Its own frame arrives: every frame that is still there, or was the last
\* handled, is one older.
LEMMA OwnArrives ==
    ASSUME IInv, NEW e \in regular, Regular(e), RegularSends(e)
    PROVE  Regular(e)'
<1> DEFINE c == counting[e]
           d == (c + 1) % AliveMod
           f == Valid(e, c)
<1>1. PICK r \in Nat, o \in Nat, a \in Nat, w \in Nat : Tracked(e, r, o, a, w)
  BY DEF Regular
<1>2. /\ e \in Ecus /\ e \in Boxes /\ e # AnyBox /\ AnyBox \in Boxes
      /\ sendIn[e] = 0 /\ sendIn'[e] = NodePeriod /\ counting'[e] = d
      /\ UNCHANGED <<supVars, pc, box, rxMsg, held>>
      /\ c \in Alive /\ Arrive(f) /\ received \in [Boxes -> Slot]
  BY RegularFields, Parts DEF IInv, Held, NodeFields, RegularSends
<1>3. /\ f \in Frame /\ f # NoFrame
      /\ f.node = e /\ f.valid /\ f.alive = c
  BY <1>2, FramesFit DEF Valid
<1>4. Values(e, r, o, a) /\ Order(e, r, o, a) /\ Memory(e, r, o) /\ Timed(e, w)
  BY <1>1 DEF Tracked
<1>5. Timed(e, w)' /\ (InBetween(e)' <=> InBetween(e))
  BY <1>2, <1>4, TimedStays
<1>6. (Handling(e)' <=> Handling(e)) /\ monitors'[e] = monitors[e]
  BY <1>2 DEF Handling, supVars
<1>7. \A x \in Alive, k \in Nat : Counted(c, x, k) => Counted(d, x, k + 1)
  BY <1>2, CountedOn
<1>8. Counted(d, c, 1)
  <2>1. Counted(d, c, 0 + 1)
    BY <1>2, <1>7, CountedNone
  <2> QED
    BY <2>1
<1>9. /\ r + 1 \in Nat /\ o + 1 \in Nat /\ a + 1 \in Nat /\ 1 \in Nat
      /\ NodePeriod \in Nat /\ AliveMod \in Nat /\ AliveMod > 1
  BY PeriodsAssumption, Limits
<1>10. (o + 1) * NodePeriod - NodePeriod = o * NodePeriod /\ o * NodePeriod \in Nat
  <2>1. (o + 1) * NodePeriod = o * NodePeriod + NodePeriod /\ o * NodePeriod \in Nat
    BY <1>9, OneMore
  <2> QED
    BY <1>9, <2>1
<1> HIDE DEF c, d, f
\* What the monitor holds, or the message that is handled for it.
<1>11. IF Handling(e)'
       THEN rxMsg'.valid /\ Counted(counting'[e], rxMsg'.alive, r + 1)
       ELSE monitors'[e].aliveInitialized =>
              Counted(counting'[e], monitors'[e].lastAliveCounter, r + 1)
  <2>1. CASE Handling(e)
    <3>1. rxMsg.valid /\ Counted(c, rxMsg.alive, r) /\ rxMsg.alive \in Alive
      BY <1>4, <2>1, RegularFields DEF Values, Handling, c
    <3> QED
      BY <1>2, <1>6, <1>7, <2>1, <3>1
  <2>2. CASE ~Handling(e)
    <3>1. /\ monitors[e].aliveInitialized =>
               Counted(c, monitors[e].lastAliveCounter, r)
          /\ monitors[e].lastAliveCounter \in Alive
      BY <1>4, <2>2, RegularFields DEF Values, c
    <3> QED
      BY <1>2, <1>6, <1>7, <2>2, <3>1
  <2> QED
    BY <2>1, <2>2
<1>12. From(AnyBox, e) =>
         a >= 1 /\ received[AnyBox].valid
           /\ Counted(d, received[AnyBox].alive, a + 1)
  <2> SUFFICES ASSUME From(AnyBox, e)
               PROVE  a >= 1 /\ received[AnyBox].valid
                        /\ Counted(d, received[AnyBox].alive, a + 1)
    OBVIOUS
  <2>1. a >= 1 /\ Counted(c, received[AnyBox].alive, a) /\ received[AnyBox].valid
    BY <1>2, <1>4 DEF Values, c
  <2>2. received[AnyBox].alive \in Alive
    BY <1>2, RegularFields DEF From, NoFrame
  <2> QED
    BY <1>7, <2>1, <2>2
<1>13. received[e] # NoFrame =>
         /\ From(e, e) /\ o >= 1 /\ received[e].valid
         /\ Counted(d, received[e].alive, o + 1)
         /\ o * NodePeriod <= w
  <2> SUFFICES ASSUME received[e] # NoFrame
               PROVE  /\ From(e, e) /\ o >= 1 /\ received[e].valid
                      /\ Counted(d, received[e].alive, o + 1)
                      /\ o * NodePeriod <= w
    OBVIOUS
  <2>1. /\ From(e, e) /\ o >= 1 /\ received[e].valid
        /\ Counted(c, received[e].alive, o)
    BY <1>2, <1>4 DEF Values, c
  <2>2. received[e].alive \in Alive
    BY <1>2, RegularFields
  <2>3. o * NodePeriod - 0 <= w
    BY <1>1, <1>2, <2>1 DEF Tracked
  <2> QED
    BY <1>7, <1>10, <2>1, <2>2, <2>3
<1>14. \A b \in Boxes : From(b, e) => b \in {e, AnyBox} /\ received[b].valid
  BY <1>4 DEF Values
<1>15. CASE received[e] = NoFrame /\ received' = [received EXCEPT ![e] = f]
  <2>1. /\ received'[e] = f /\ \A b \in Boxes : b # e => received'[b] = received[b]
    BY <1>2, <1>15
  <2>2. o = 0
    BY <1>2, <1>4, <1>15 DEF Values, From, NoFrame
  <2>3. Values(e, r + 1, 1, a + 1)'
    <3>1. \A b \in Boxes : From(b, e)' => b \in {e, AnyBox} /\ received'[b].valid
      BY <1>3, <1>14, <2>1 DEF From
    <3>2. From(e, e)' /\ Counted(counting'[e], received'[e].alive, 1)
      BY <1>2, <1>3, <1>8, <2>1 DEF From
    <3>3. From(AnyBox, e)' =>
            a + 1 >= 1 /\ Counted(counting'[e], received'[AnyBox].alive, a + 1)
      BY <1>2, <1>12, <2>1 DEF From
    <3>4. 1 >= 1
      OBVIOUS
    <3> QED
      BY <1>11, <3>1, <3>2, <3>3, <3>4 DEF Values
  <2>4. Order(e, r + 1, 1, a + 1)'
    <3>1. r >= 1 /\ r - o \in 1 .. AliveMod - 1
      BY <1>4, <2>2 DEF Order
    <3>2. From(AnyBox, e) =>
            InBetween(e) /\ a >= 1 /\ a - o \in 1 .. AliveMod - 1 /\ a < r
      BY <1>4, <1>12, <2>2 DEF Order
    <3>3. /\ (r + 1) - 1 \in 1 .. AliveMod - 1 /\ r + 1 >= 1
          /\ From(AnyBox, e) =>
               (a + 1) - 1 \in 1 .. AliveMod - 1 /\ a + 1 < r + 1
      BY <1>9, <2>2, <3>1, <3>2
    <3>4. (From(AnyBox, e)' <=> From(AnyBox, e)) /\ 1 <= 1
      BY <1>2, <2>1 DEF From
    <3> QED
      BY <1>5, <3>2, <3>3, <3>4 DEF Order
  <2>5. Memory(e, r + 1, 1)'
    <3>1. r # o - 1
      BY <2>2
    <3> QED
      BY <1>2, <1>4, <1>6, <3>1 DEF Memory
  <2>6. 1 * NodePeriod - sendIn'[e] <= w
    BY <1>2, <1>9
  <2>7. Tracked(e, r + 1, 1, a + 1, w)'
    BY <1>5, <2>3, <2>4, <2>5, <2>6 DEF Tracked
  <2> QED
    BY <1>9, <2>7 DEF Regular
\* The gaps stay as they are.
<1>16. ASSUME received[e] # NoFrame
       PROVE  /\ r + 1 >= 1
              /\ \/ (r + 1) - (o + 1) \in 1 .. AliveMod - 1
                 \/ r + 1 = (o + 1) - 1 /\ ~InBetween(e)'
              /\ Memory(e, r + 1, o + 1)'
              /\ o + 1 >= 1 /\ (o + 1) * NodePeriod - sendIn'[e] <= w
  <2>1. /\ r >= 1
        /\ r - o \in 1 .. AliveMod - 1 \/ (r = o - 1 /\ ~InBetween(e))
    BY <1>4 DEF Order
  <2>2. (r + 1) - (o + 1) = r - o /\ (r = o - 1 <=> r + 1 = (o + 1) - 1)
        /\ r + 1 >= 1 /\ o + 1 >= 1
    OBVIOUS
  <2>3. Memory(e, r + 1, o + 1)'
    BY <1>2, <1>4, <1>6, <2>2 DEF Memory
  <2>4. (o + 1) * NodePeriod - sendIn'[e] <= w
    BY <1>2, <1>10, <1>13, <1>16
  <2> QED
    BY <1>5, <2>1, <2>2, <2>3, <2>4
<1>17. CASE /\ received[e] # NoFrame /\ received[AnyBox] = NoFrame
            /\ received' = [received EXCEPT ![AnyBox] = f]
  <2>1. /\ received'[AnyBox] = f
        /\ \A b \in Boxes : b # AnyBox => received'[b] = received[b]
    BY <1>2, <1>17
  <2>2. Values(e, r + 1, o + 1, 1)'
    <3>1. \A b \in Boxes : From(b, e)' => b \in {e, AnyBox} /\ received'[b].valid
      BY <1>3, <1>14, <2>1 DEF From
    <3>2. From(e, e)' /\ Counted(counting'[e], received'[e].alive, o + 1)
      BY <1>2, <1>13, <1>17, <2>1 DEF From
    <3>3. Counted(counting'[e], received'[AnyBox].alive, 1)
      BY <1>2, <1>3, <1>8, <2>1
    <3>4. 1 >= 1
      OBVIOUS
    <3> QED
      BY <1>11, <1>16, <1>17, <3>1, <3>2, <3>3, <3>4 DEF Values
  <2>3. Order(e, r + 1, o + 1, 1)'
    <3>1. InBetween(e) => o <= 1
      BY <1>4, <1>17 DEF Order
    <3>2. IF InBetween(e)' THEN 1 = (o + 1) - 1 ELSE 1 < o + 1
      BY <1>5, <1>13, <1>17, <3>1
    <3>3. received'[AnyBox] # NoFrame
      BY <1>3, <2>1
    <3> QED
      BY <1>16, <1>17, <3>2, <3>3 DEF Order
  <2>4. Tracked(e, r + 1, o + 1, 1, w)'
    BY <1>5, <1>16, <1>17, <2>2, <2>3 DEF Tracked
  <2> QED
    BY <1>9, <2>4 DEF Regular
<1>18. CASE /\ received[e] # NoFrame /\ received[AnyBox] # NoFrame
            /\ received' = received
  <2>1. Values(e, r + 1, o + 1, a + 1)'
    <3>1. \A b \in Boxes : From(b, e)' => b \in {e, AnyBox} /\ received'[b].valid
      BY <1>14, <1>18 DEF From
    <3>2. From(e, e)' /\ Counted(counting'[e], received'[e].alive, o + 1)
      BY <1>2, <1>13, <1>18 DEF From
    <3>3. From(AnyBox, e)' =>
            a + 1 >= 1 /\ Counted(counting'[e], received'[AnyBox].alive, a + 1)
      BY <1>2, <1>12, <1>18 DEF From
    <3> QED
      BY <1>11, <1>16, <1>18, <3>1, <3>2, <3>3 DEF Values
  <2>2. Order(e, r + 1, o + 1, a + 1)'
    <3>1. From(AnyBox, e) =>
            IF InBetween(e)
            THEN a = o - 1 \/ (a - o \in 1 .. AliveMod - 1 /\ a < r)
            ELSE a < o
      BY <1>4 DEF Order
    <3>2. /\ a = o - 1 => a + 1 = (o + 1) - 1
          /\ (a + 1) - (o + 1) = a - o
          /\ a < r => a + 1 < r + 1
          /\ a < o => a + 1 < o + 1
      OBVIOUS
    <3>3. From(AnyBox, e)' <=> From(AnyBox, e)
      BY <1>18 DEF From
    <3> QED
      BY <1>5, <1>16, <1>18, <3>1, <3>2, <3>3 DEF Order
  <2>3. Tracked(e, r + 1, o + 1, a + 1, w)'
    BY <1>5, <1>16, <1>18, <2>1, <2>2 DEF Tracked
  <2> QED
    BY <1>9, <2>3 DEF Regular
<1> QED
  BY <1>2, <1>3, <1>15, <1>17, <1>18, Lands

-----------------------------------------------------------------------------
\* A visit finds no time left over from the call before it.
LEMMA NothingLeft ==
    ASSUME IInv, IInv', pc = "visit" => held = 0, [Next]_vars
    PROVE  (pc = "visit" => held = 0)'
<1>1. CASE OthersSend \/ (\E e \in Ecus : RegularSends(e)) \/ UNCHANGED vars
  BY <1>1 DEF OthersSend, RegularSends, vars
<1>2. CASE CheckTimeouts \/ BuildStatus
  BY <1>2 DEF CheckTimeouts, BuildStatus
<1>3. CASE Step /\ ~CheckTimeouts /\ ~BuildStatus
  BY <1>3, StepCosts
<1>4. CASE Tick
  BY <1>4 DEF Tick
<1> QED
  BY <1>1, <1>2, <1>3, <1>4 DEF Next

\* A node that counts is never taken for frozen, whatever the other nodes send
\* and however long the task is held up, as long as a turn of the loop and a
\* period are over before the node has counted around, and one repeated value
\* is not yet a freeze.
THEOREM CountingIsNotFrozen ==
    ASSUME CountsOutlastTurn
    PROVE  Spec => []NoFalseFreeze
<1>1. Init => AllRegular
  <2>1. Init => (pc = "visit" => held = 0)
    BY DEF Init
  <2> QED
    BY <2>1, RegularInit DEF AllRegular
<1>2. IInv /\ IInv' /\ AllRegular /\ [Next]_vars => AllRegular'
  <2> SUFFICES ASSUME IInv, IInv', AllRegular, [Next]_vars
               PROVE  AllRegular'
    OBVIOUS
  <2>0. regular' = regular
    BY DEF Next, RegularSends, OthersSend, Step, Tick, VisitEmpty, TakeFrame,
           HandleMessage, ServeRequest, Respond, RearmOta, CheckTimeouts, NotYet,
           BuildStatus, SendStatus, StatusFailed, StatusSent, Delay, nodeVars, vars
  <2>1. pc = "visit" => held = 0
    BY DEF AllRegular
  <2>2. (pc = "visit" => held = 0)'
    BY <2>1, NothingLeft
  <2> SUFFICES ASSUME NEW e \in regular
               PROVE  Regular(e)'
    BY <2>0, <2>2 DEF AllRegular
  <2>3. Regular(e)
    BY DEF AllRegular
  <2>4. CASE OthersSend
    <3>1. PICK f \in Frame : Arrive(f) /\ f.node # e
      <4>1. CASE Arrive(Other) \/ Arrive(Request)
        <5>1. Other.node # e /\ Request.node # e
          BY RegularFields, Costs DEF Other, Request, Ecus
        <5> QED
          BY <4>1, <5>1, FramesFit
      <4>2. ASSUME NEW x \in Ecus \ regular,
                   Arrive(Bad(x)) \/ \E alive \in {0, 1} : Arrive(Valid(x, alive))
            PROVE  \E f \in Frame : Arrive(f) /\ f.node # e
        <5>1. Bad(x).node # e /\ \A alive : Valid(x, alive).node # e
          BY DEF Bad, Valid
        <5> QED
          BY <4>2, <5>1, FramesFit, Limits
      <4> QED
        BY <2>4, <4>1, <4>2 DEF OthersSend
    <3> QED
      BY <2>3, <2>4, <3>1, OtherArrives DEF OthersSend, nodeVars
  <2>5. ASSUME NEW x \in Ecus, RegularSends(x)
        PROVE  Regular(e)'
    <3>1. CASE x = e
      BY <2>3, <2>5, <3>1, OwnArrives
    <3>2. CASE x # e
      <4> DEFINE f == Valid(x, counting[x])
      <4>1. f \in Frame /\ f.node # e /\ Arrive(f)
        BY <2>5, <3>2, FramesFit, RegularFields DEF RegularSends, Valid
      <4>2. counting'[e] = counting[e] /\ sendIn'[e] = sendIn[e]
        BY <2>5, <3>2, RegularFields, Parts DEF IInv, NodeFields, RegularSends
      <4> HIDE DEF f
      <4> QED
        BY <2>3, <2>5, <4>1, <4>2, OtherArrives DEF RegularSends
    <3> QED
      BY <3>1, <3>2
  <2>6. CASE Step
    <3>1. CASE (VisitEmpty \/ TakeFrame) /\ box = e
      BY <2>1, <2>3, <3>1, OwnVisited
    <3>2. CASE (VisitEmpty \/ TakeFrame) /\ box = AnyBox
      BY <2>1, <2>3, <3>2, AnyVisited
    <3>3. CASE \/ (VisitEmpty \/ TakeFrame) /\ box \notin {e, AnyBox}
               \/ ServeRequest \/ Respond \/ RearmOta
               \/ NotYet \/ SendStatus \/ StatusFailed \/ StatusSent \/ Delay
      BY <2>1, <2>3, <3>3, RegularSteps
    <3>4. CASE HandleMessage
      BY <2>3, <3>4, RegularHandled
    <3>5. CASE CheckTimeouts \/ BuildStatus
      BY <2>3, <3>5, RegularPolled
    <3> QED
      BY <2>6, <3>1, <3>2, <3>3, <3>4, <3>5 DEF Step
  <2>7. CASE Tick
    BY <2>3, <2>7, RegularTick
  <2>8. CASE UNCHANGED vars
    <3>1. PICK r \in Nat, o \in Nat, a \in Nat, w \in Nat : Tracked(e, r, o, a, w)
      BY <2>3 DEF Regular
    <3>2. UNCHANGED <<supVars, pc, box, held, received, rxMsg, nodeVars>>
      BY <2>8 DEF vars
    <3>3. Timed(e, w) /\ Values(e, r, o, a) /\ Order(e, r, o, a) /\ Memory(e, r, o)
      BY <3>1 DEF Tracked
    <3>4. Timed(e, w)' /\ (InBetween(e)' <=> InBetween(e))
      BY <3>2, <3>3, TimedStays
    <3>5. Values(e, r, o, a)' /\ Order(e, r, o, a)' /\ Memory(e, r, o)'
      <4>1. e \in Ecus /\ e # AnyBox
        BY RegularFields
      <4>2. /\ monitors'[e] = monitors[e] /\ counting'[e] = counting[e]
            /\ Handling(e)' <=> Handling(e)
        BY <3>2 DEF supVars, nodeVars, Handling
      <4> QED
        BY <3>2, <3>3, <3>4, <4>1, <4>2, TrackedStays
    <3>6. Tracked(e, r, o, a, w)'
      BY <3>1, <3>2, <3>4, <3>5 DEF Tracked, From, nodeVars
    <3> QED
      BY <3>6 DEF Regular
  <2> QED
    BY <2>4, <2>5, <2>6, <2>7, <2>8 DEF Next
<1>3. AllRegular => NoFalseFreeze
  <2> SUFFICES ASSUME AllRegular, NEW e \in regular
               PROVE  ~monitors[e].aliveError
    BY DEF NoFalseFreeze
  <2> QED
    BY DEF AllRegular, Regular, Tracked, Memory
<1> QED
  BY <1>1, <1>2, <1>3, Invariance, PTL DEF Spec

==============================================================================
