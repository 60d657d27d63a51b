-------------------------------- MODULE CanTask --------------------------------
(***************************************************************************)
(* The CAN task of ECU6 (vCANTask in src/Sources/drivers/can.c) against    *)
(* the receive mailboxes, which the CAN interrupt fills at any moment, and *)
(* the kernel tick.  The task visits the mailboxes in turn, hands what it  *)
(* finds to com_gateway.c, polls the timeouts and, when the period has     *)
(* passed, stamps the time, builds GatewayStatus and sends it; then it     *)
(* sleeps until the next tick.  What the handlers do with a frame is       *)
(* OtaSecurity and ComSupervision; here it only matters that each frame    *)
(* reaches one of them.  Logging takes time, which the tick may pass in    *)
(* any step.                                                               *)
(***************************************************************************)
EXTENDS Integers, FiniteSets

CONSTANTS
    NodeCount,      \* monitored nodes, and exact mailboxes for them: 5
    Frames,         \* the frames that may be on the bus, one at a time each
    NoFrame,        \* no frame
    IdOf,           \* IdOf[f]: 1..NodeCount, OtaBox for 0x650, 0 for others
    Period,         \* pdMS_TO_TICKS(CAN_TX_PERIOD_MS)
    TurnTicks,      \* most ticks the task is awake between two looks at the period
    TickMod         \* 2^32: TickType_t wraps here

\* The mailboxes in the order of their numbers, which is the order of their
\* priority and the order the task visits them in.
NodeBoxes == 1 .. NodeCount
OtaBox == NodeCount + 1
AnyBox == NodeCount + 2
Boxes == 1 .. AnyBox

ASSUME NodesAssumption == NodeCount \in Nat
ASSUME FramesAssumption ==
    NoFrame \notin Frames /\ IdOf \in [Frames -> 0 .. OtaBox]
ASSUME PeriodAssumption ==
    /\ Period \in Nat \ {0}
    /\ TurnTicks \in Nat \ {0}
    /\ TickMod \in Nat
    /\ TickMod > Period + TurnTicks

VARIABLES
    transfer,           \* the driver's transfer of each mailbox
    message,            \* gatewayRxMessages[], otaRxMessage, gatewayAnyRxMessage
    armed,              \* gatewayRxArmed[], otaRxArmed, gatewayAnyRxArmed
    pc,                 \* where the task is in its loop
    box,                \* the mailbox it visits
    rxMsg,              \* its copy of a message
    now,                \* xTaskGetTickCount()
    lastGatewayTxTick,
    fate,               \* history: what became of each frame
    sinceStatus,        \* history: ticks since GatewayStatus was last sent
    ahead,              \* history: ticks by which the frames sent are ahead
                        \*   of one in each period
    sinceTurn           \* history: ticks since the period was last looked at

boxVars == <<transfer, message, armed>>
taskVars == <<pc, box, rxMsg, lastGatewayTxTick>>
timeVars == <<now, sinceStatus, ahead, sinceTurn>>
vars == <<boxVars, taskVars, timeVars, fate>>

\* A frame is off while it is not the gateway's business: not sent, or dealt
\* with.
Fates == {"off", "waiting", "lost"}

-----------------------------------------------------------------------------
(* The mailboxes and the driver.  A mailbox whose transfer is busy takes   *)
(* the next frame that matches it and completes; of several, the first.    *)

Matches(b, f) == b = AnyBox \/ b = IdOf[f]
Listening(f) == {b \in Boxes : transfer[b] = "busy" /\ Matches(b, f)}

ArriveIn(f, b) ==
    /\ transfer' = [transfer EXCEPT ![b] = "success"]
    /\ message' = [message EXCEPT ![b] = f]
    /\ fate' = [fate EXCEPT ![f] = "waiting"]

Arrive(f) ==
    /\ fate[f] # "waiting"
    /\ \/ \E b \in Listening(f) :
            (\A c \in Listening(f) : b <= c) /\ ArriveIn(f, b)
       \/ /\ Listening(f) = {}
          /\ fate' = [fate EXCEPT ![f] = "lost"]
          /\ UNCHANGED <<transfer, message>>
    /\ UNCHANGED <<armed, taskVars, timeVars>>

\* A transfer may also end in an error.
FailTransfer(b) ==
    /\ transfer[b] = "busy"
    /\ transfer' = [transfer EXCEPT ![b] = "error"]
    /\ UNCHANGED <<message, armed, taskVars, timeVars, fate>>

\* CAN_StartGatewayRxMailbox and its two siblings.  CAN_Receive refuses a busy
\* mailbox and starts any other.
StartRxMailbox(b) ==
    /\ transfer' = [transfer EXCEPT ![b] = "busy"]
    /\ armed' = [armed EXCEPT ![b] = armed[b] \/ transfer[b] # "busy"]

-----------------------------------------------------------------------------
(* The task, one action per step that an interrupt can come between.       *)
(* A definition named Faulty... is the one below it with a plausible       *)
(* mistake; nothing uses it but the mutation runs.                         *)

Elapsed(from) == IF now >= from THEN now - from ELSE now - from + TickMod

FaultyLastBox == OtaBox

LastBox == AnyBox

FaultyNextBox ==
    \/ box <= LastBox /\ box' = box + 1 /\ pc' = "start"
    \/ box > LastBox /\ box' = 1 /\ pc' = "check"

NextBox ==
    \/ box < LastBox /\ box' = box + 1 /\ pc' = "start"
    \/ box = LastBox /\ box' = 1 /\ pc' = "check"

Start ==
    /\ pc = "start"
    /\ \/ armed[box] /\ UNCHANGED boxVars
       \/ ~armed[box] /\ StartRxMailbox(box) /\ UNCHANGED message
    /\ pc' = "status"
    /\ UNCHANGED <<box, rxMsg, lastGatewayTxTick, timeVars, fate>>

NothingReceived ==
    /\ pc = "status" /\ transfer[box] = "busy"
    /\ NextBox
    /\ UNCHANGED <<boxVars, rxMsg, lastGatewayTxTick, timeVars, fate>>

FaultyDisarm == armed' = armed

Disarm == armed' = [armed EXCEPT ![box] = FALSE]

TransferFailed ==
    /\ pc = "status" /\ transfer[box] = "error"
    /\ Disarm
    /\ NextBox
    /\ UNCHANGED <<transfer, message, rxMsg, lastGatewayTxTick, timeVars, fate>>

FaultyAfterCopy == "handle"

AfterCopy == "rearm"

CopyMessage ==
    /\ pc = "status" /\ transfer[box] = "success" /\ box # OtaBox
    /\ rxMsg' = message[box]
    /\ Disarm
    /\ pc' = AfterCopy
    /\ UNCHANGED <<transfer, message, box, lastGatewayTxTick, timeVars, fate>>

\* OTA_HandleRequestMessage works on the mailbox's own message.
ServeRequest ==
    /\ pc = "status" /\ transfer[box] = "success" /\ box = OtaBox
    /\ Disarm
    /\ fate' = [fate EXCEPT ![message[box]] = "off"]
    /\ pc' = "respond"
    /\ UNCHANGED <<transfer, message, box, rxMsg, lastGatewayTxTick, timeVars>>

\* CAN_SendOtaResponse: a failure is logged, no more.
Respond ==
    /\ pc = "respond"
    /\ pc' = "rearm"
    /\ UNCHANGED <<boxVars, box, rxMsg, lastGatewayTxTick, timeVars, fate>>

Rearm ==
    /\ pc = "rearm"
    /\ StartRxMailbox(box)
    /\ \/ box = OtaBox /\ NextBox
       \/ box # OtaBox /\ pc' = "handle" /\ UNCHANGED box
    /\ UNCHANGED <<message, rxMsg, lastGatewayTxTick, timeVars, fate>>

FaultyReceived == message[box]

Received == rxMsg

\* COM_GatewayHandleRxMessage: supervised or counted as blocked.
HandleMessage ==
    /\ pc = "handle"
    /\ fate' = [fate EXCEPT ![Received] = "off"]
    /\ rxMsg' = NoFrame
    /\ NextBox
    /\ UNCHANGED <<boxVars, lastGatewayTxTick, timeVars>>

CheckTimeouts ==
    /\ pc = "check"
    /\ pc' = "period"
    /\ UNCHANGED <<boxVars, box, rxMsg, lastGatewayTxTick, timeVars, fate>>

FaultyPeriodOver == Elapsed(lastGatewayTxTick) > Period

PeriodOver == Elapsed(lastGatewayTxTick) >= Period

LookAtPeriod ==
    /\ pc = "period"
    /\ \/ PeriodOver /\ pc' = "stamp"
       \/ ~PeriodOver /\ pc' = "delay"
    /\ sinceTurn' = 0
    /\ UNCHANGED <<boxVars, box, rxMsg, lastGatewayTxTick, now, sinceStatus,
                   ahead, fate>>

FaultyStampedTick == (lastGatewayTxTick + Period) % TickMod

StampedTick == now

\* The tick is read again.
Stamp ==
    /\ pc = "stamp"
    /\ lastGatewayTxTick' = StampedTick
    /\ pc' = "build"
    /\ UNCHANGED <<boxVars, box, rxMsg, timeVars, fate>>

\* COM_GatewayBuildStatusMessage: it polls the timeouts, and the lines about
\* them hold it up before it packs the frame.
BuildStatus ==
    /\ pc = "build"
    /\ pc' = "send"
    /\ UNCHANGED <<boxVars, box, rxMsg, lastGatewayTxTick, timeVars, fate>>

\* CAN_SendMessage: a failure is logged, no more.
SendStatus ==
    /\ pc = "send"
    /\ sinceStatus' = 0
    /\ ahead' = ahead + Period
    /\ pc' = "delay"
    /\ UNCHANGED <<boxVars, box, rxMsg, lastGatewayTxTick, now, sinceTurn, fate>>

\* vTaskDelay(1): the next tick wakes the task.
Delay ==
    /\ pc = "delay"
    /\ pc' = "asleep"
    /\ UNCHANGED <<boxVars, box, rxMsg, lastGatewayTxTick, timeVars, fate>>

\* The history counts no further than this.
StatusCap == Period + 2 * TurnTicks + 1

UpTo(limit, n) == IF n < limit THEN n ELSE limit

\* The kernel tick, with a bound on the time the task is awake in a turn.
Tick ==
    /\ pc # "asleep" => sinceTurn < TurnTicks
    /\ now' = (now + 1) % TickMod
    /\ sinceTurn' = sinceTurn + 1
    /\ sinceStatus' = UpTo(StatusCap, sinceStatus + 1)
    /\ ahead' = IF ahead > 0 THEN ahead - 1 ELSE 0
    /\ pc' = IF pc = "asleep" THEN "start" ELSE pc
    /\ UNCHANGED <<boxVars, box, rxMsg, lastGatewayTxTick, fate>>

-----------------------------------------------------------------------------
\* After CAN_ConfigGatewayMailboxes, COM_GatewayInit and
\* CAN_StartGatewayRxMailboxes.
Init ==
    /\ transfer = [b \in Boxes |-> "busy"]
    /\ message = [b \in Boxes |-> NoFrame]
    /\ armed = [b \in Boxes |-> TRUE]
    /\ pc = "start" /\ box = 1 /\ rxMsg = NoFrame
    /\ now = 0 /\ lastGatewayTxTick = now
    /\ fate = [f \in Frames |-> "off"]
    /\ sinceStatus = 0 /\ ahead = 0 /\ sinceTurn = 0

Step ==
    \/ Start         \/ NothingReceived \/ TransferFailed
    \/ CopyMessage   \/ ServeRequest    \/ Respond
    \/ Rearm         \/ HandleMessage   \/ CheckTimeouts
    \/ LookAtPeriod  \/ Stamp           \/ BuildStatus
    \/ SendStatus    \/ Delay

Next ==
    \/ \E f \in Frames : Arrive(f)
    \/ \E b \in Boxes : FailTransfer(b)
    \/ Step
    \/ Tick

Spec == Init /\ [][Next]_vars

\* The task has the highest priority in use; frames and errors may never come.
FairSpec == Spec /\ WF_vars(Step) /\ WF_vars(Tick)

-----------------------------------------------------------------------------
TypeOK ==
    /\ transfer \in [Boxes -> {"busy", "success", "error"}]
    /\ message \in [Boxes -> Frames \cup {NoFrame}]
    /\ armed \in [Boxes -> BOOLEAN]
    /\ pc \in {"start", "status", "rearm", "handle", "respond", "check",
               "period", "stamp", "build", "send", "delay", "asleep"}
    /\ box \in Boxes
    /\ rxMsg \in Frames \cup {NoFrame}
    /\ now \in 0 .. TickMod - 1
    /\ lastGatewayTxTick \in 0 .. TickMod - 1
    /\ fate \in [Frames -> Fates]
    /\ sinceStatus \in 0 .. StatusCap
    /\ ahead \in Nat
    /\ sinceTurn \in 0 .. TurnTicks + 1

\* Where a frame waits to be handled: in a completed mailbox the task has not
\* taken it from, or in the task's copy.
Taken(b) == box = b /\ pc \in {"rearm", "respond"}
Waiting(b, f) == transfer[b] = "success" /\ message[b] = f /\ ~Taken(b)
Places(f) ==
    {b \in Boxes : Waiting(b, f)} \cup {p \in {0} : rxMsg = f}

\* A frame that was received is neither overwritten nor handled twice: until
\* it is handled it is in exactly one place, though the interrupt may refill a
\* mailbox as soon as CAN_Receive was called, and afterwards it is in none.
Custody ==
    \A f \in Frames :
        Cardinality(Places(f)) = IF fate[f] = "waiting" THEN 1 ELSE 0

\* "Poll all gateway RX mailboxes so simultaneous ECU frames are not lost": a
\* frame of a node is lost only while another of the same node still waits, or
\* after an error in its mailbox that the task has not seen to.
LossOnlyInBurst ==
    [][\A f \in Frames :
         fate[f] # "lost" /\ fate'[f] = "lost" /\ IdOf[f] \in NodeBoxes
           => \/ transfer[IdOf[f]] = "error"
              \/ \E g \in Frames \ {f} :
                   IdOf[g] = IdOf[f] /\ fate[g] = "waiting"]_vars

\* GatewayStatus is not sent in bursts.  The builder may be held up after the
\* stamp, and the frame after a late one follows it by less than the period; but
\* such hold-ups never add up, nor does the wrap of the tick: of any frames, n + 1
\* in a row take n periods less one turn of the loop, or more.  (Each frame puts
\* ahead up by a period and each tick brings it down.)
StatusNotEarly == ahead <= Period + TurnTicks

\* Two of them in a row are no farther apart than the period and the time the
\* loop takes to come by again, twice: once to look and once to act.
StatusNotLate == sinceStatus <= Period + 2 * TurnTicks

\* What the design document says of 0x650, "Received by the OTA RX mailbox":
\* at least a request that comes when no other waits or is still to be
\* answered, and no transfer of that mailbox failed, is received there and
\* not by the catch-all mailbox, whose frames get no response.
OtaMailboxReceives ==
    [][\A f \in Frames :
         /\ IdOf[f] = OtaBox /\ fate[f] # "waiting" /\ fate'[f] = "waiting"
         /\ \A g \in Frames : IdOf[g] = OtaBox => fate[g] # "waiting"
         /\ pc # "respond" /\ transfer[OtaBox] # "error"
         => transfer[OtaBox] = "busy"]_vars

\* Whatever a mailbox received is handled.
Attended == \A f \in Frames : fate[f] = "waiting" ~> fate[f] # "waiting"

\* A mailbox that completed or failed listens again.
MailboxesReopen ==
    \A b \in Boxes : transfer[b] # "busy" ~> transfer[b] = "busy"

================================================================================
