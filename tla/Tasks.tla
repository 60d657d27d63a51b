--------------------------------- MODULE Tasks ---------------------------------
(***************************************************************************)
(* The four tasks of ECU6 on their one processor, in time: vCANTask, which *)
(* CanTask models in detail and which here only computes, logs, sends and  *)
(* sleeps; vComSchedulerTask, which counts slots of 10 ms; vLEDTask; and   *)
(* vInitLogTask, of lower priority, which logs the boot and ends.  The     *)
(* lines of the log share one UART.  The kernel is external: preemption by *)
(* priority, time slicing among equals, vTaskDelay, vTaskDelayUntil.       *)
(***************************************************************************)
EXTENDS Integers, FiniteSets

CONSTANTS
    SlotTicks,          \* pdMS_TO_TICKS(10U)
    TenthSlots,         \* slots to one call of COM_Task100ms: 10
    SecondSlots,        \* slots to one call of COM_Task1000ms: 100
    CountMod,           \* 2^32: the counters are uint32_t
    TickMod,            \* 2^32: TickType_t wraps here
    LedDelay,           \* mainLED_DELAY: 500 ms
    BootLines,          \* lines that vInitLogTask prints: 7
    LineTicks,          \* most ticks a line is on the wire: 130 at 9600 baud
    LogTimeout,         \* LOG_TIMEOUT_MS: 200
    SendTicks,          \* CAN_TX_TIMEOUT_MS: 10
    TurnCalls,          \* most blocking calls in a turn of vCANTask
    SliceTicks          \* most ticks that a ready task, none of higher
                        \* priority being ready, takes to its next step

ASSUME SlotsAssumption ==
    /\ SlotTicks \in Nat /\ SlotTicks > SliceTicks
    /\ TenthSlots \in Nat \ {0}
    /\ SecondSlots \in {TenthSlots * n : n \in 1 .. 10}
    /\ CountMod \in Nat \ {0}
    /\ TickMod \in Nat /\ TickMod > SlotTicks + SliceTicks
ASSUME LinesAssumption ==
    /\ BootLines \in Nat /\ TurnCalls \in Nat
    /\ LineTicks \in 1 .. LogTimeout
    /\ SendTicks \in Nat \ {0} /\ SliceTicks \in Nat \ {0}
    /\ LedDelay \in Nat /\ LedDelay >= 4

\* The names of the tasks as main() gives them.
Tasks == {"InitLog", "LedTask", "CanTask", "SchedulerTask"}

Nobody == "nobody"

VARIABLES
    sleep,              \* ticks for which each task is still blocked
    waited,             \* ticks since it could run, and has not
    wire,               \* the task whose line the UART is sending
    bootLeft,           \* lines vInitLogTask has still to print; -1: deleted
    callsLeft,           \* blocking calls vCANTask may still make in this turn
    ledOn,              \* the LED pin is clear
    now,                \* xTaskGetTickCount()
    lastWakeTime,
    cycle10ms,
    gComScheduler10msCount,
    gComScheduler100msCount,
    gComScheduler1000msCount,
    gComSchedulerLastCycle10ms,
    sinceHook,          \* history: ticks since COM_Task1000ms was last called
    lost                \* history: who lost a line once the boot log was over

countVars == <<cycle10ms, gComScheduler10msCount, gComScheduler100msCount,
               gComScheduler1000msCount, gComSchedulerLastCycle10ms>>
slotVars == <<lastWakeTime, countVars, sinceHook>>
logVars == <<wire, bootLeft, callsLeft, lost>>
vars == <<sleep, waited, ledOn, now, slotVars, logVars>>

-----------------------------------------------------------------------------
(* The kernel.                                                             *)

Priority(t) == IF t = "InitLog" THEN 2 ELSE 3

BootLogging == bootLeft >= 0
Alive == IF BootLogging THEN Tasks ELSE Tasks \ {"InitLog"}
Ready == {t \in Alive : sleep[t] = 0}

\* The tasks that may have the processor.
MayRun == {t \in Ready : \A u \in Ready : Priority(u) <= Priority(t)}

\* A step of t after which it is blocked for n ticks.
RunThenBlock(t, n) ==
    /\ t \in MayRun
    /\ sleep' = [sleep EXCEPT ![t] = n]
    /\ waited' = [waited EXCEPT ![t] = 0]

Elapsed(from) == IF now >= from THEN now - from ELSE now - from + TickMod

\* vTaskDelayUntil: until the period after the last wake time is over.
UntilNextSlot ==
    IF Elapsed(lastWakeTime) < SlotTicks
    THEN SlotTicks - Elapsed(lastWakeTime) ELSE 0

\* The history counts no further than this.
HookCap == SlotTicks * SecondSlots + SliceTicks + 1

UpTo(limit, n) == IF n < limit THEN n ELSE limit

Tick ==
    /\ \A t \in MayRun : waited[t] < SliceTicks
    /\ now' = (now + 1) % TickMod
    /\ sleep' = [t \in Tasks |-> IF sleep[t] > 0 THEN sleep[t] - 1 ELSE 0]
    /\ waited' = [t \in Tasks |->
                    IF t \in MayRun THEN waited[t] + 1 ELSE waited[t]]
    /\ wire' = IF wire # Nobody /\ sleep[wire] = 1 THEN Nobody ELSE wire
    /\ sinceHook' = UpTo(HookCap, sinceHook + 1)
    /\ UNCHANGED <<bootLeft, callsLeft, lost, ledOn, lastWakeTime, countVars>>

-----------------------------------------------------------------------------
(* A definition named Faulty... is the one below it with a plausible       *)
(* mistake; nothing uses it but the mutation runs.                         *)

\* LOG_Print: UART_SendDataBlocking sends and blocks its caller, for no longer
\* than LOG_TIMEOUT_MS; while another line is being sent it refuses at once,
\* and LOG_Print ignores that.
LogPrint(t) ==
    \/ /\ wire = Nobody
       /\ \E n \in 1 .. LineTicks : RunThenBlock(t, n)
       /\ wire' = t
       /\ lost' = lost
    \/ /\ wire # Nobody
       /\ RunThenBlock(t, 0)
       /\ lost' = IF BootLogging THEN lost ELSE lost \cup {t}
       /\ wire' = wire

\* vInitLogTask.
BootLine ==
    /\ bootLeft > 0
    /\ LogPrint("InitLog")
    /\ bootLeft' = bootLeft - 1
    /\ UNCHANGED <<callsLeft, ledOn, now, slotVars>>

FaultyDeleteSelf == bootLeft' = 0

DeleteSelf == bootLeft' = -1

EndBootLog ==
    /\ bootLeft = 0
    /\ RunThenBlock("InitLog", 0)
    /\ DeleteSelf
    /\ UNCHANGED <<wire, callsLeft, lost, ledOn, now, slotVars>>

\* vLEDTask with ID 0, from the top of its loop and from between its delays.
\* The two lines about the heartbeat are commented out in the code.
FaultyLedOutput(on) == ledOn' = on /\ LogPrint("LedTask")

LedOutput(on) ==
    /\ ledOn' = on
    /\ RunThenBlock("LedTask", IF on THEN LedDelay \div 4 ELSE LedDelay)
    /\ UNCHANGED <<wire, lost>>

LedClear ==
    /\ ~ledOn /\ LedOutput(TRUE)
    /\ UNCHANGED <<bootLeft, callsLeft, now, slotVars>>

LedSet ==
    /\ ledOn /\ LedOutput(FALSE)
    /\ UNCHANGED <<bootLeft, callsLeft, now, slotVars>>

\* vCANTask: a line, a frame to send, and the delay that ends the turn.
CanLine ==
    /\ callsLeft > 0
    /\ LogPrint("CanTask")
    /\ callsLeft' = callsLeft - 1
    /\ UNCHANGED <<bootLeft, ledOn, now, slotVars>>

CanSend ==
    /\ callsLeft > 0
    /\ \E n \in 1 .. SendTicks : RunThenBlock("CanTask", n)
    /\ callsLeft' = callsLeft - 1
    /\ UNCHANGED <<wire, bootLeft, lost, ledOn, now, slotVars>>

CanDelay ==
    /\ RunThenBlock("CanTask", 1)
    /\ callsLeft' = TurnCalls
    /\ UNCHANGED <<wire, bootLeft, lost, ledOn, now, slotVars>>

\* vComSchedulerTask: one slot.
FaultyCycleAfter(cycle) == IF cycle > SecondSlots THEN 0 ELSE cycle

CycleAfter(cycle) == IF cycle % SecondSlots = 0 THEN 0 ELSE cycle

FaultyDelayUntil ==
    lastWakeTime' = now /\ RunThenBlock("SchedulerTask", SlotTicks)

DelayUntil ==
    /\ lastWakeTime' = (lastWakeTime + SlotTicks) % TickMod
    /\ RunThenBlock("SchedulerTask", UntilNextSlot)

Slot ==
    /\ LET cycle == cycle10ms + 1
           tenth == cycle % TenthSlots = 0
           second == cycle % SecondSlots = 0
       IN  /\ gComSchedulerLastCycle10ms' = cycle
           /\ gComScheduler10msCount' = (gComScheduler10msCount + 1) % CountMod
           /\ gComScheduler100msCount' =
                IF tenth THEN (gComScheduler100msCount + 1) % CountMod
                ELSE gComScheduler100msCount
           /\ gComScheduler1000msCount' =
                IF second THEN (gComScheduler1000msCount + 1) % CountMod
                ELSE gComScheduler1000msCount
           /\ sinceHook' = IF second THEN 0 ELSE sinceHook
           /\ cycle10ms' = CycleAfter(cycle)
    /\ DelayUntil
    /\ UNCHANGED <<ledOn, now, logVars>>

-----------------------------------------------------------------------------
\* After vTaskStartScheduler; the LED task starts with its delay.  The first
\* slot comes at once, as if a hook had been called one slot before.
Init ==
    /\ sleep = [t \in Tasks |-> IF t = "LedTask" THEN LedDelay ELSE 0]
    /\ waited = [t \in Tasks |-> 0]
    /\ wire = Nobody /\ lost = {}
    /\ bootLeft = BootLines /\ callsLeft = TurnCalls
    /\ ledOn = FALSE
    /\ now = 0 /\ lastWakeTime = 0
    /\ cycle10ms = 0 /\ gComSchedulerLastCycle10ms = 0
    /\ gComScheduler10msCount = 0 /\ gComScheduler100msCount = 0
    /\ gComScheduler1000msCount = 0
    /\ sinceHook = SlotTicks

InitLogStep == BootLine \/ EndBootLog
LedStep == LedClear \/ LedSet
CanStep == CanLine \/ CanSend \/ CanDelay

Next == InitLogStep \/ LedStep \/ CanStep \/ Slot \/ Tick

Spec == Init /\ [][Next]_vars

\* Time slicing gives each of the three tasks of high priority its turn; the
\* fourth has the processor whenever all of them are blocked.
FairSpec ==
    /\ Spec
    /\ WF_vars(Tick) /\ WF_vars(LedStep) /\ WF_vars(CanStep) /\ WF_vars(Slot)
    /\ SF_vars(InitLogStep)

-----------------------------------------------------------------------------
\* The counters grow at the ratios their names promise, the resets of
\* cycle10ms and the wrap of each counter included.
Ratios ==
    /\ gComScheduler10msCount =
         (TenthSlots * gComScheduler100msCount + (cycle10ms % TenthSlots))
           % CountMod
    /\ gComScheduler10msCount =
         (SecondSlots * gComScheduler1000msCount + cycle10ms) % CountMod

\* Every variable keeps its range, and the counters their ratios.
TypeOK ==
    /\ sleep \in [Tasks -> Nat]
    /\ waited \in [Tasks -> 0 .. SliceTicks]
    /\ wire \in Tasks \cup {Nobody}
    /\ bootLeft \in -1 .. BootLines
    /\ callsLeft \in 0 .. TurnCalls
    /\ ledOn \in BOOLEAN
    /\ now \in 0 .. TickMod - 1 /\ lastWakeTime \in 0 .. TickMod - 1
    /\ cycle10ms \in 0 .. SecondSlots - 1
    /\ gComSchedulerLastCycle10ms \in 0 .. SecondSlots
    /\ gComScheduler10msCount \in 0 .. CountMod - 1
    /\ gComScheduler100msCount \in 0 .. CountMod - 1
    /\ gComScheduler1000msCount \in 0 .. CountMod - 1
    /\ sinceHook \in 0 .. HookCap
    /\ lost \subseteq Tasks
    /\ Ratios

\* Once the boot log is over no line is refused for another: the only task
\* left that logs has to wait for its own line before it prints the next.
NoLineLost == lost = {}

\* Between two calls of COM_Task1000ms lie SecondSlots slots, but for the time
\* the task waits for the processor, which does not add up over the slots:
\* vTaskDelayUntil counts from the last wake time, whatever the slot took.
HookOnTime ==
    [][gComScheduler1000msCount' # gComScheduler1000msCount
         => sinceHook - SlotTicks * SecondSlots
              \in -SliceTicks .. SliceTicks]_vars

\* The boot log comes to its end, though every other task goes before it.
BootLogEnds == <>~BootLogging

================================================================================
