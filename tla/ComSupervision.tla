---------------------------- MODULE ComSupervision ----------------------------
(***************************************************************************)
(* The supervision of the five primary status messages by ECU6 and the     *)
(* GatewayStatus frame that reports it (src/Sources/services/com_gateway.c).*)
(* The CAN task hands every received frame to COM_GatewayHandleRxMessage,  *)
(* polls the timeouts in every turn of its loop, and builds GatewayStatus  *)
(* from time to time.  A frame is either refused by its checksum or length *)
(* or valid, in which case only its alive counter matters.  Logging and    *)
(* the ticks that throttle it are left out.                                *)
(***************************************************************************)
EXTENDS Integers, FiniteSets

CONSTANTS
    Ecus,           \* the monitored nodes: 1..5 in the code
    AliveMod,       \* COM_ALIVE_COUNTER_MASK + 1
    ByteMax,        \* 0xFF: diagnostic counters saturate here
    TimeoutTicks,   \* pdMS_TO_TICKS(COM_RX_TIMEOUT_MS)
    PollSlack,      \* most ticks between two timeout polls of the CAN task
    TickMod,        \* 2^32: TickType_t wraps here
    FreezeLimit,    \* COM_ALIVE_FREEZE_LIMIT
    RecoveryLimit   \* COM_CHECKSUM_RECOVERY_VALID_LIMIT

ASSUME NodesAssumption == IsFiniteSet(Ecus)
ASSUME LimitsAssumption ==
    /\ AliveMod \in Nat \ {0}
    /\ ByteMax \in Nat
    /\ FreezeLimit \in 1 .. ByteMax
    /\ RecoveryLimit \in 1 .. ByteMax
ASSUME TimeAssumption ==
    /\ TimeoutTicks \in Nat \ {0}
    /\ PollSlack \in Nat \ {0}
    /\ TickMod \in Nat
    /\ TickMod > TimeoutTicks + PollSlack

VARIABLES
    monitors,       \* rxMonitors[]
    gatewayRxMask,  \* the nodes whose bit is set
    blockedMsgCnt,
    gatewayState,
    aliveCounter,
    status,         \* the last GatewayStatus frame built
    now,            \* xTaskGetTickCount()
    sincePoll,      \* history: ticks since the timeouts were last polled
    history         \* history: what really arrived from each node

vars == <<monitors, gatewayRxMask, blockedMsgCnt, gatewayState,
          aliveCounter, status, now, sincePoll, history>>

Alive == 0 .. AliveMod - 1
NoAlive == AliveMod
GatewayStates == {"INIT", "NORMAL", "DEGRADED"}

MonitorType == [lastRxTick : 0 .. TickMod - 1, timeoutError : BOOLEAN,
                lastAliveCounter : Alive, aliveFreezeCnt : 0 .. ByteMax,
                aliveError : BOOLEAN, aliveInitialized : BOOLEAN,
                checksumError : BOOLEAN, checksumRecoveryCnt : 0 .. ByteMax]

StatusType == [gatewayState : GatewayStates, blockedMsgCnt : 0 .. ByteMax,
               aliveError : BOOLEAN, checksumError : BOOLEAN,
               rxMask : SUBSET Ecus, aliveCounter : Alive]

\* silence: ticks since the last valid frame, up to the longest that may go
\* unnoticed; goodRun: valid frames since the last refused one, up to the
\* recovery limit; alive, repeats: the last valid alive value since a timeout
\* was flagged and how many frames in a row repeated it, up to the limit.
HistoryType == [silence : 0 .. TimeoutTicks + PollSlack,
                goodRun : 0 .. RecoveryLimit,
                alive : Alive \cup {NoAlive}, repeats : 0 .. FreezeLimit]

-----------------------------------------------------------------------------
(* The static helpers, as functions from a monitor to the monitor they     *)
(* leave.  A definition named Faulty... is the one below it with a         *)
(* plausible mistake; nothing uses it but the mutation runs.               *)

Elapsed(from) == IF now >= from THEN now - from ELSE now - from + TickMod

FaultyIncrementCounter(c) == IF c <= ByteMax THEN c + 1 ELSE c

IncrementCounter(c) == IF c < ByteMax THEN c + 1 ELSE c

UpTo(limit, n) == IF n < limit THEN n ELSE limit

FaultySetChecksumError(m) == [m EXCEPT !.checksumError = TRUE]

SetChecksumError(m) ==
    [m EXCEPT !.checksumError = TRUE, !.checksumRecoveryCnt = 0]

UpdateChecksumRecovery(m) ==
    LET valid == IncrementCounter(m.checksumRecoveryCnt)
    IN  CASE ~m.checksumError -> m
          [] m.checksumError /\ valid < RecoveryLimit ->
               [m EXCEPT !.checksumRecoveryCnt = valid]
          [] m.checksumError /\ valid >= RecoveryLimit ->
               [m EXCEPT !.checksumError = FALSE, !.checksumRecoveryCnt = 0]

Baseline(m, alive) ==
    [m EXCEPT !.lastAliveCounter = alive, !.aliveFreezeCnt = 0,
              !.aliveInitialized = TRUE]

FaultyRepeated(m) ==
    LET repeats == IncrementCounter(m.aliveFreezeCnt)
    IN  [m EXCEPT !.aliveFreezeCnt = repeats,
                  !.aliveError = @ \/ repeats > FreezeLimit]

Repeated(m) ==
    LET repeats == IncrementCounter(m.aliveFreezeCnt)
    IN  [m EXCEPT !.aliveFreezeCnt = repeats,
                  !.aliveError = @ \/ repeats >= FreezeLimit]

FaultyChanged(m, alive) ==
    [m EXCEPT !.aliveError = FALSE, !.lastAliveCounter = alive]

Changed(m, alive) ==
    [m EXCEPT !.aliveError = FALSE, !.aliveFreezeCnt = 0,
              !.lastAliveCounter = alive]

UpdateAliveMonitor(m, alive) ==
    CASE ~m.aliveInitialized -> Baseline(m, alive)
      [] m.aliveInitialized /\ alive = m.lastAliveCounter -> Repeated(m)
      [] m.aliveInitialized /\ alive # m.lastAliveCounter -> Changed(m, alive)

FaultyAccept(m, alive) ==
    [UpdateAliveMonitor(UpdateChecksumRecovery(m), alive) EXCEPT
        !.timeoutError = FALSE]

Accept(m, alive) ==
    [UpdateAliveMonitor(UpdateChecksumRecovery(m), alive) EXCEPT
        !.timeoutError = FALSE, !.lastRxTick = now]

CheckTimeout(m) ==
    IF Elapsed(m.lastRxTick) >= TimeoutTicks /\ ~m.timeoutError
    THEN [m EXCEPT !.timeoutError = TRUE, !.aliveInitialized = FALSE,
                   !.aliveFreezeCnt = 0]
    ELSE m

\* COM_GatewayCheckTimeouts over all monitors.
Checked == [e \in Ecus |-> CheckTimeout(monitors[e])]

FaultyHasAnyAliveError(ms) == \E e \in Ecus : ms[e].aliveError

HasAnyAliveError(ms) ==
    \E e \in Ecus : ms[e].timeoutError \/ ms[e].aliveError
HasAnyChecksumError(ms) == \E e \in Ecus : ms[e].checksumError
HasAllMonitoredEcusSeen == gatewayRxMask = Ecus

FaultyStateFrom(ms) ==
    CASE HasAnyAliveError(ms) \/ HasAnyChecksumError(ms) -> "DEGRADED"
      [] ~HasAnyAliveError(ms) /\ ~HasAnyChecksumError(ms) -> "NORMAL"

\* COM_UpdateGatewayState.
StateFrom(ms) ==
    CASE HasAnyAliveError(ms) \/ HasAnyChecksumError(ms) -> "DEGRADED"
      [] ~HasAnyAliveError(ms) /\ ~HasAnyChecksumError(ms)
           /\ HasAllMonitoredEcusSeen -> "NORMAL"
      [] ~HasAnyAliveError(ms) /\ ~HasAnyChecksumError(ms)
           /\ ~HasAllMonitoredEcusSeen -> "INIT"

-----------------------------------------------------------------------------
\* Each monitor starts from the current tick, to avoid a false timeout.
InitialMonitors == [e \in Ecus |->
    [lastRxTick |-> now, timeoutError |-> FALSE, lastAliveCounter |-> 0,
     aliveFreezeCnt |-> 0, aliveError |-> FALSE,
     aliveInitialized |-> FALSE, checksumError |-> FALSE,
     checksumRecoveryCnt |-> 0]]

Init ==
    /\ now = 0
    /\ monitors = InitialMonitors
    /\ gatewayRxMask = {}
    /\ blockedMsgCnt = 0
    /\ gatewayState = "INIT"
    /\ aliveCounter = 0
    /\ status = [gatewayState |-> "INIT", blockedMsgCnt |-> 0,
                 aliveError |-> FALSE, checksumError |-> FALSE,
                 rxMask |-> {}, aliveCounter |-> 0]
    /\ sincePoll = 0
    /\ history = [e \in Ecus |-> [silence |-> 0, goodRun |-> RecoveryLimit,
                                  alive |-> NoAlive, repeats |-> 0]]

\* An identifier without a monitor.
BlockUnknown ==
    /\ blockedMsgCnt' = IncrementCounter(blockedMsgCnt)
    /\ UNCHANGED <<monitors, gatewayRxMask, gatewayState, aliveCounter,
                   status, now, sincePoll, history>>

\* A monitored identifier with a wrong checksum or length.
RefuseFrame(e) ==
    /\ monitors' = [monitors EXCEPT ![e] = SetChecksumError(@)]
    /\ blockedMsgCnt' = IncrementCounter(blockedMsgCnt)
    /\ history' = [history EXCEPT ![e].goodRun = 0]
    /\ UNCHANGED <<gatewayRxMask, gatewayState, aliveCounter, status, now,
                   sincePoll>>

\* The history after a valid frame.
Heard(h, alive) ==
    [silence |-> 0,
     goodRun |-> UpTo(RecoveryLimit, h.goodRun + 1),
     alive   |-> alive,
     repeats |-> IF alive = h.alive THEN UpTo(FreezeLimit, h.repeats + 1)
                                    ELSE 0]

AcceptFrame(e, alive) ==
    /\ monitors' = [monitors EXCEPT ![e] = Accept(@, alive)]
    /\ gatewayRxMask' = gatewayRxMask \cup {e}
    /\ history' = [history EXCEPT ![e] = Heard(@, alive)]
    /\ UNCHANGED <<blockedMsgCnt, gatewayState, aliveCounter, status, now,
                   sincePoll>>

\* The part of a poll that both the CAN task and the status builder do.
PollTimeouts ==
    /\ monitors' = Checked
    /\ history' = [e \in Ecus |->
         IF Checked[e].timeoutError /\ ~monitors[e].timeoutError
         THEN [history[e] EXCEPT !.alive = NoAlive, !.repeats = 0]
         ELSE history[e]]
    /\ sincePoll' = 0

CheckTimeouts ==
    /\ PollTimeouts
    /\ UNCHANGED <<gatewayRxMask, blockedMsgCnt, gatewayState, aliveCounter,
                   status, now>>

\* COM_GatewayBuildStatusMessage without the OTA and security bits.
BuildStatus ==
    /\ PollTimeouts
    /\ gatewayState' = StateFrom(Checked)
    /\ status' = [gatewayState |-> gatewayState',
                  blockedMsgCnt |-> blockedMsgCnt,
                  aliveError |-> HasAnyAliveError(Checked),
                  checksumError |-> HasAnyChecksumError(Checked),
                  rxMask |-> gatewayRxMask,
                  aliveCounter |-> aliveCounter]
    /\ aliveCounter' = (aliveCounter + 1) % AliveMod
    /\ UNCHANGED <<gatewayRxMask, blockedMsgCnt, now>>

\* The kernel tick.
Advance ==
    /\ now' = (now + 1) % TickMod
    /\ sincePoll' = sincePoll + 1
    /\ history' = [e \in Ecus |->
         [history[e] EXCEPT !.silence = UpTo(TimeoutTicks + PollSlack, @ + 1)]]
    /\ UNCHANGED <<monitors, gatewayRxMask, blockedMsgCnt, gatewayState,
                   aliveCounter, status>>

\* The CAN task polls once per turn of its loop, and a turn takes fewer than
\* PollSlack ticks: GatewayLoop says how many that are.
Tick == sincePoll < PollSlack /\ Advance

Next ==
    \/ BlockUnknown
    \/ \E e \in Ecus : RefuseFrame(e)
    \/ \E e \in Ecus, alive \in Alive : AcceptFrame(e, alive)
    \/ CheckTimeouts
    \/ BuildStatus
    \/ Tick

Spec == Init /\ [][Next]_vars

\* The nodes may fall silent; the tick and the CAN task may not.
FairSpec ==
    Spec /\ WF_vars(Tick) /\ WF_vars(CheckTimeouts) /\ WF_vars(BuildStatus)

-----------------------------------------------------------------------------
\* Every variable keeps the range its C type and its comments give it.
TypeOK ==
    /\ monitors \in [Ecus -> MonitorType]
    /\ gatewayRxMask \subseteq Ecus
    /\ blockedMsgCnt \in 0 .. ByteMax
    /\ gatewayState \in GatewayStates
    /\ aliveCounter \in Alive
    /\ status \in StatusType
    /\ now \in 0 .. TickMod - 1
    /\ sincePoll \in 0 .. PollSlack
    /\ history \in [Ecus -> HistoryType]

\* COM_GatewayCheckTimeouts flags a node exactly when it has been silent: never
\* before TimeoutTicks, always once a poll had the time to see it, and for as
\* long as the silence lasts, however often the tick counter wraps meanwhile.
TimeoutVerdict ==
    \A e \in Ecus :
        /\ monitors[e].timeoutError => history[e].silence >= TimeoutTicks
        /\ history[e].silence >= TimeoutTicks + PollSlack
             => monitors[e].timeoutError

\* A checksum fault stands exactly until RecoveryLimit valid frames have come
\* in a row: one refused frame in between starts the count again.
ChecksumVerdict ==
    \A e \in Ecus :
        monitors[e].checksumError <=> history[e].goodRun < RecoveryLimit

\* No frozen counter goes unnoticed: FreezeLimit repetitions with no timeout
\* between them leave the alive fault set.
FreezeNoticed ==
    \A e \in Ecus :
        history[e].repeats >= FreezeLimit => monitors[e].aliveError

\* The alive fault is raised by nothing else: not by the frame that follows a
\* timeout, nor by repetitions counted before it.
FreezeGenuine ==
    [][\A e \in Ecus :
         ~monitors[e].aliveError /\ monitors'[e].aliveError
           => history'[e].repeats >= FreezeLimit]_vars

Healthy(e) ==
    /\ history[e].silence < TimeoutTicks
    /\ history[e].goodRun = RecoveryLimit
    /\ ~monitors[e].aliveError

\* A GatewayStatus frame says NORMAL exactly when, as it is built, every node
\* was seen and every node is healthy, and INIT when only the first is missing;
\* no fault that was there, or appeared by silence, is left out of it.
StatusVerdict ==
    [][aliveCounter' # aliveCounter =>
         /\ status'.gatewayState = "NORMAL"
              <=> gatewayRxMask = Ecus /\ \A e \in Ecus : Healthy(e)
         /\ status'.gatewayState = "INIT"
              <=> gatewayRxMask # Ecus /\ \A e \in Ecus : Healthy(e)]_vars

\* A node that stays silent is reported: some GatewayStatus frame says DEGRADED
\* unless the node is heard again first.
SilenceReported ==
    \A e \in Ecus :
        history[e].silence >= TimeoutTicks
          ~> \/ status.gatewayState = "DEGRADED"
             \/ history[e].silence = 0

\* What the comment in COM_UpdateAliveMonitor and the recovery row of the
\* design document say: a valid frame with another alive value than the last
\* valid frame of this node clears the node's freeze fault.
ChangeClearsFreeze ==
    [][\A e \in Ecus :
         monitors'[e].lastAliveCounter # monitors[e].lastAliveCounter
           => ~monitors'[e].aliveError]_vars

=============================================================================
