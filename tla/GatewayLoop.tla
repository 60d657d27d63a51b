------------------------------ MODULE GatewayLoop ------------------------------
(***************************************************************************)
(* The loop of the CAN task composed with the supervision it drives, in    *)
(* time.  CanTask shows that each received frame is handled once, whatever *)
(* the interrupt does; ComSupervision what the handlers conclude from the  *)
(* order and the ticks in which they are called.  Here nodes send with a   *)
(* period and a counting alive value, frames wait in mailboxes or fall to  *)
(* the catch-all, and the calls that block (a line of the log, a frame to  *)
(* be sent) hold the task up, so that the order and the ticks are those of *)
(* the loop.  Between such calls the task computes, which takes no tick.   *)
(* No transfer ends in an error here: that is in CanTask.                  *)
(***************************************************************************)
EXTENDS Integers, FiniteSets, FiniteSetsExt

CONSTANTS
    NodeCount,      \* monitored nodes, and exact mailboxes for them: 5
    Period,         \* pdMS_TO_TICKS(CAN_TX_PERIOD_MS)
    NodePeriod,     \* ticks between two frames of a regular node: 100
    LogTicks,       \* most ticks that a line of the log takes, and less for
    NoticeTicks,    \*   the line about a timeout,
    FirstTicks,     \*   more for the line about the first GatewayStatus sent
    SendTicks,      \* pdMS_TO_TICKS(CAN_TX_TIMEOUT_MS)
    AliveMod, ByteMax, TimeoutTicks, TickMod, FreezeLimit, RecoveryLimit

Ecus == 1 .. NodeCount
OtaBox == NodeCount + 1
AnyBox == NodeCount + 2
Boxes == 1 .. AnyBox

ASSUME NodesAssumption == NodeCount \in Nat
ASSUME PeriodsAssumption ==
    /\ Period \in Nat \ {0}
    /\ NodePeriod \in Nat \ {0}
    /\ LogTicks \in Nat /\ NoticeTicks \in Nat /\ FirstTicks \in Nat
    /\ SendTicks \in Nat

\* The most lines that handling one frame makes: after a timeout the alive
\* supervision has nothing to say.
LinesPerFrame == 2

\* No more time than this passes between two polls of the timeouts: the lines
\* about new timeouts, sending and logging GatewayStatus, the sleep, and a frame
\* in every mailbox.
PollSlack ==
    NoticeTicks * NodeCount + (SendTicks + FirstTicks + LogTicks) + 1
        + (NodeCount + 1) * LinesPerFrame * LogTicks + (SendTicks + LogTicks)

ASSUME TimeAssumption ==
    /\ TimeoutTicks \in Nat \ {0}
    /\ TickMod \in Nat /\ TickMod > TimeoutTicks + PollSlack
ASSUME LimitsAssumption ==
    /\ AliveMod \in Nat /\ AliveMod > 1
    /\ ByteMax \in Nat
    /\ FreezeLimit \in 1 .. ByteMax
    /\ RecoveryLimit \in 2 .. ByteMax

VARIABLES
    monitors,           \* rxMonitors[]
    gatewayRxMask,      \* the nodes whose bit is set
    now,                \* xTaskGetTickCount()
    sincePoll,          \* history: ticks since the timeouts were last polled
    received,           \* the frame in each mailbox that has not been restarted
    pc,                 \* where the task is in its loop
    box,                \* the mailbox it visits
    rxMsg,              \* its copy of a message
    held,               \* ticks the call it is in may still take
    lastGatewayTxTick,
    gatewayTxErrorLogged,
    gatewayTxOkLogged,
    regular,            \* the nodes that send on time and count their alive value
    sendIn,             \* ticks until each of them sends again
    counting            \* the alive value it will send

\* What the helpers do to a monitor; the rest of the supervision's state has no
\* influence on the loop.
Sup == INSTANCE ComSupervision WITH
    blockedMsgCnt <- 0, gatewayState <- "INIT", aliveCounter <- 0,
    status <- <<>>, history <- <<>>

supVars == <<monitors, gatewayRxMask, now, sincePoll>>
txVars == <<lastGatewayTxTick, gatewayTxErrorLogged, gatewayTxOkLogged>>
nodeVars == <<regular, sendIn, counting>>
vars == <<supVars, received, pc, box, rxMsg, held, txVars, nodeVars>>

Alive == 0 .. AliveMod - 1

\* A frame: its sender, whether checksum and length hold, and its alive value.
\* Other is any identifier without a monitor, Request an OTA request.
Valid(e, alive) == [node |-> e, valid |-> TRUE, alive |-> alive]
Bad(e) == [node |-> e, valid |-> FALSE, alive |-> 0]
Other == [node |-> 0, valid |-> FALSE, alive |-> 0]
Request == [node |-> OtaBox, valid |-> FALSE, alive |-> 0]
NoFrame == [node |-> AnyBox, valid |-> FALSE, alive |-> 0]

-----------------------------------------------------------------------------
(* The bus and the mailboxes.                                              *)

Matches(b, f) == b = AnyBox \/ b = f.node
Listening(f) == {b \in Boxes : received[b] = NoFrame /\ Matches(b, f)}

Arrive(f) ==
    received' = IF Listening(f) = {} THEN received
                ELSE [received EXCEPT ![Min(Listening(f))] = f]

\* A node that runs as its simulator does: one frame each period, counting.
RegularSends(e) ==
    /\ e \in regular /\ sendIn[e] = 0
    /\ Arrive(Valid(e, counting[e]))
    /\ sendIn' = [sendIn EXCEPT ![e] = NodePeriod]
    /\ counting' = [counting EXCEPT ![e] = (@ + 1) % AliveMod]
    /\ UNCHANGED <<supVars, pc, box, rxMsg, held, txVars, regular>>

\* Anything else, at any time.  Whether a node that does not count repeats itself
\* is all that its alive values can tell.
OthersSend ==
    /\ \/ \E e \in Ecus \ regular :
            Arrive(Bad(e)) \/ \E alive \in {0, 1} : Arrive(Valid(e, alive))
       \/ Arrive(Other)
       \/ Arrive(Request)
    /\ UNCHANGED <<supVars, pc, box, rxMsg, held, txVars, nodeVars>>

-----------------------------------------------------------------------------
(* The lines of the log.  A definition named Faulty... is the one below it *)
(* with a plausible mistake; nothing uses it but the mutation runs.        *)

One(condition) == IF condition THEN 1 ELSE 0

\* COM_GatewayHandleRxMessage: one for the first frame of a node, one for each
\* fault that appears or goes, and none or one for a blocked identifier, which
\* a throttle decides.
AcceptLines(e, alive) ==
    LET m == monitors[e]
        n == Sup!Accept(m, alive)
    IN  One(e \notin gatewayRxMask)
          + One(m.checksumError # n.checksumError)
          + One(m.aliveError # n.aliveError)
          + One(m.timeoutError)

Lines(f) ==
    CASE f.node = 0 \/ f.node = OtaBox -> 1
      [] f.node \in Ecus /\ ~f.valid -> One(~monitors[f.node].checksumError)
      [] f.node \in Ecus /\ f.valid -> AcceptLines(f.node, f.alive)

\* COM_GatewayCheckTimeouts: one for each node that is flagged now.
NewTimeouts ==
    {e \in Ecus : Sup!Checked[e].timeoutError /\ ~monitors[e].timeoutError}

-----------------------------------------------------------------------------
(* The task.                                                               *)

\* The turn ends with the first frame: nothing is polled before the sleep.
FaultyNextBox ==
    \/ pc = "visit" /\ box < AnyBox /\ box' = box + 1 /\ pc' = "visit"
    \/ pc = "visit" /\ box = AnyBox /\ box' = 1 /\ pc' = "check"
    \/ pc # "visit" /\ box' = 1 /\ pc' = "asleep"

NextBox ==
    \/ box < AnyBox /\ box' = box + 1 /\ pc' = "visit"
    \/ box = AnyBox /\ box' = 1 /\ pc' = "check"

\* The transfer is busy.
VisitEmpty ==
    /\ pc = "visit" /\ received[box] = NoFrame
    /\ NextBox
    /\ UNCHANGED <<supVars, received, rxMsg, held, txVars, nodeVars>>

FaultyRestart == received' = received

Restart == received' = [received EXCEPT ![box] = NoFrame]

\* The message is copied, the mailbox started again, and the handler called:
\* its lines come before it reads the tick.
TakeFrame ==
    /\ pc = "visit" /\ received[box] # NoFrame /\ box # OtaBox
    /\ rxMsg' = received[box]
    /\ Restart
    /\ held' = LogTicks * Lines(rxMsg')
    /\ pc' = "handle"
    /\ UNCHANGED <<supVars, box, txVars, nodeVars>>

HandleMessage ==
    /\ pc = "handle"
    /\ LET e == rxMsg.node
       IN  \/ e \notin Ecus /\ UNCHANGED <<monitors, gatewayRxMask>>
           \/ /\ e \in Ecus /\ ~rxMsg.valid
              /\ monitors' = [monitors EXCEPT ![e] = Sup!SetChecksumError(@)]
              /\ UNCHANGED gatewayRxMask
           \/ /\ e \in Ecus /\ rxMsg.valid
              /\ monitors' =
                   [monitors EXCEPT ![e] = Sup!Accept(@, rxMsg.alive)]
              /\ gatewayRxMask' = gatewayRxMask \cup {e}
    /\ rxMsg' = NoFrame
    /\ held' = 0
    /\ NextBox
    /\ UNCHANGED <<now, sincePoll, received, txVars, nodeVars>>

\* OTA_HandleRequestMessage logs nothing; CAN_SendOtaResponse blocks.
ServeRequest ==
    /\ pc = "visit" /\ received[box] # NoFrame /\ box = OtaBox
    /\ held' = SendTicks
    /\ pc' = "respond"
    /\ UNCHANGED <<supVars, received, box, rxMsg, txVars, nodeVars>>

\* A failure is logged.
Respond ==
    /\ pc = "respond"
    /\ held' \in {0, LogTicks}
    /\ pc' = "rearm"
    /\ UNCHANGED <<supVars, received, box, rxMsg, txVars, nodeVars>>

RearmOta ==
    /\ pc = "rearm"
    /\ Restart
    /\ held' = 0
    /\ NextBox
    /\ UNCHANGED <<supVars, rxMsg, txVars, nodeVars>>

\* The tick is read first, the lines come after.
PollTimeouts ==
    /\ monitors' = Sup!Checked
    /\ held' = NoticeTicks * Cardinality(NewTimeouts)
    /\ sincePoll' = 0

CheckTimeouts ==
    /\ pc = "check"
    /\ PollTimeouts
    /\ pc' = "period"
    /\ UNCHANGED <<gatewayRxMask, now, received, box, rxMsg, txVars, nodeVars>>

PeriodOver == Sup!Elapsed(lastGatewayTxTick) >= Period

NotYet ==
    /\ pc = "period" /\ ~PeriodOver
    /\ pc' = "asleep" /\ held' = 0
    /\ UNCHANGED <<supVars, received, box, rxMsg, txVars, nodeVars>>

BuildStatus ==
    /\ pc = "period" /\ PeriodOver
    /\ lastGatewayTxTick' = now
    /\ PollTimeouts
    /\ pc' = "send"
    /\ UNCHANGED <<gatewayRxMask, now, received, box, rxMsg,
                   gatewayTxErrorLogged, gatewayTxOkLogged, nodeVars>>

SendStatus ==
    /\ pc = "send"
    /\ held' = SendTicks
    /\ pc' = "sent"
    /\ UNCHANGED <<supVars, received, box, rxMsg, txVars, nodeVars>>

\* The first failure, the first success and the first success after a failure
\* are logged.
StatusFailed ==
    /\ pc = "sent"
    /\ held' = LogTicks * One(~gatewayTxErrorLogged)
    /\ gatewayTxErrorLogged' = TRUE
    /\ pc' = "delay"
    /\ UNCHANGED <<supVars, received, box, rxMsg, lastGatewayTxTick,
                   gatewayTxOkLogged, nodeVars>>

StatusSent ==
    /\ pc = "sent"
    /\ held' = FirstTicks * One(~gatewayTxOkLogged)
                 + LogTicks * One(gatewayTxErrorLogged)
    /\ gatewayTxOkLogged' = TRUE
    /\ gatewayTxErrorLogged' = FALSE
    /\ pc' = "delay"
    /\ UNCHANGED <<supVars, received, box, rxMsg, lastGatewayTxTick, nodeVars>>

Delay ==
    /\ pc = "delay"
    /\ pc' = "asleep" /\ held' = 0
    /\ UNCHANGED <<supVars, received, box, rxMsg, txVars, nodeVars>>

\* The kernel tick: it ends vTaskDelay(1) and passes in calls that block.
Tick ==
    /\ \A e \in regular : sendIn[e] > 0
    /\ \/ pc = "asleep" /\ pc' = "visit" /\ held' = 0
       \/ pc # "asleep" /\ held > 0 /\ held' = held - 1 /\ pc' = pc
    /\ now' = (now + 1) % TickMod
    /\ sincePoll' = sincePoll + 1
    /\ sendIn' = [e \in Ecus |-> IF e \in regular THEN sendIn[e] - 1 ELSE 0]
    /\ UNCHANGED <<monitors, gatewayRxMask, received, box, rxMsg, txVars,
                   regular, counting>>

-----------------------------------------------------------------------------
\* After the start of the task; any of the nodes may be regular, and they are
\* at any point of their period.
Init ==
    /\ now = 0 /\ sincePoll = 0
    /\ monitors = Sup!InitialMonitors
    /\ gatewayRxMask = {}
    /\ received = [b \in Boxes |-> NoFrame]
    /\ pc = "visit" /\ box = 1 /\ rxMsg = NoFrame /\ held = 0
    /\ lastGatewayTxTick = now
    /\ gatewayTxErrorLogged = FALSE /\ gatewayTxOkLogged = FALSE
    /\ regular \in SUBSET Ecus
    /\ sendIn \in [Ecus -> 0 .. NodePeriod - 1]
    /\ \A e \in Ecus \ regular : sendIn[e] = 0
    /\ counting = [e \in Ecus |-> 0]

Step ==
    \/ VisitEmpty    \/ TakeFrame    \/ HandleMessage
    \/ ServeRequest  \/ Respond      \/ RearmOta
    \/ CheckTimeouts \/ NotYet       \/ BuildStatus
    \/ SendStatus    \/ StatusFailed \/ StatusSent   \/ Delay

Next ==
    \/ \E e \in Ecus : RegularSends(e)
    \/ OthersSend
    \/ Step
    \/ Tick

Spec == Init /\ [][Next]_vars

-----------------------------------------------------------------------------
TypeOK ==
    /\ monitors \in [Ecus -> Sup!MonitorType]
    /\ gatewayRxMask \subseteq Ecus
    /\ now \in 0 .. TickMod - 1
    /\ sincePoll \in Nat
    /\ received \in [Boxes -> [node : 0 .. AnyBox, valid : BOOLEAN, alive : Alive]]
    /\ pc \in {"visit", "handle", "respond", "rearm", "check", "period",
               "send", "sent", "delay", "asleep"}
    /\ box \in Boxes
    /\ held \in Nat
    /\ lastGatewayTxTick \in 0 .. TickMod - 1
    /\ regular \subseteq Ecus
    /\ sendIn \in [Ecus -> 0 .. NodePeriod]
    /\ counting \in [Ecus -> Alive]

\* The loop keeps the promise that ComSupervision rests on: a bounded number
\* of lines, hence of ticks, lies between two polls of the timeouts.
PollsInTime == sincePoll <= PollSlack

\* A node that counts is never taken for frozen, though its frames may be
\* lost while the task is held up, or be handled in another order than they
\* were sent, when one waits in its own mailbox and the next in the catch-all.
NoFalseFreeze == \A e \in regular : ~monitors[e].aliveError

\* "Monitored ECU message missing for COM_RX_TIMEOUT_MS": a node that sends on
\* time is never reported as timed out.
NoFalseTimeout == \A e \in regular : ~monitors[e].timeoutError

================================================================================
