---------------------------------- MODULE Boot ---------------------------------
(***************************************************************************)
(* main.c and system_init.c over the tables of Board: the devices are      *)
(* brought up one after the other, the tasks created, and the scheduler    *)
(* started; then each task runs for the first time and uses its devices.   *)
(* The program ignores every result on the way but that of CAN_Init, which *)
(* decides an LED and no more.                                             *)
(***************************************************************************)
EXTENDS Board, FiniteSets

CONSTANTS
    TcbBytes            \* what the kernel takes from the heap for a task
                        \* besides its stack, at most

TcbAssumption == TcbBytes \in Nat

TaskNames == {"InitLog", "LedTask", "CanTask", "SchedulerTask"}

\* The calls of main() in order; "loop" is where it stays if the scheduler
\* does not start.
Steps == <<"clocks", "pins", "uart", "can", "InitLog", "LedTask", "CanTask",
           "SchedulerTask", "start">>

VARIABLES
    step,               \* the call main() is at: its place in Steps, or later
    configured,         \* the clock configuration is in effect
    pads,               \* the settings of each configured pad
    failed,             \* the drivers whose initialisation failed
    low,                \* pads whose output was cleared
    heap,               \* bytes the kernel has left
    tasks,              \* the tasks created
    running,            \* the scheduler runs
    started             \* the tasks that have run

vars == <<step, configured, pads, failed, low, heap, tasks, running, started>>

At(name) == step <= Len(Steps) /\ Steps[step] = name
Passed(name) == \E i \in DOMAIN Steps : Steps[i] = name /\ i < step

-----------------------------------------------------------------------------
(* main(), one action for each call.                                       *)

\* CLOCK_SYS_Init and CLOCK_SYS_UpdateConfiguration, which may refuse.
InitClocks ==
    /\ At("clocks")
    /\ configured' \in BOOLEAN
    /\ step' = step + 1
    /\ UNCHANGED <<pads, failed, low, heap, tasks, running, started>>

\* PINS_DRV_Init: of two settings of a pad the later holds.
PadsAfter(n) ==
    [index \in {PinTable[i].index : i \in 1 .. n} |->
       PinTable[CHOOSE i \in 1 .. n :
                  /\ PinTable[i].index = index
                  /\ \A j \in i + 1 .. n : PinTable[j].index # index]]

InitPins ==
    /\ At("pins")
    /\ pads' = PadsAfter(NUM_OF_CONFIGURED_PINS)
    /\ step' = step + 1
    /\ UNCHANGED <<configured, failed, low, heap, tasks, running, started>>

InitUart ==
    /\ At("uart")
    /\ failed' \in {failed, failed \cup {"uart"}}
    /\ step' = step + 1
    /\ UNCHANGED <<configured, pads, low, heap, tasks, running, started>>

LED4 == PortIndex("C", 4)

\* can_init: LED4 is cleared when CAN_Init succeeds.
InitCan ==
    /\ At("can")
    /\ \/ failed' = failed /\ low' = low \cup {LED4}
       \/ failed' = failed \cup {"can"} /\ low' = low
    /\ step' = step + 1
    /\ UNCHANGED <<configured, pads, heap, tasks, running, started>>

StackWords(task) ==
    configMINIMAL_STACK_SIZE * (IF task = "CanTask" THEN 4 ELSE 2)

Bytes(words) == 4 * words + TcbBytes

\* xTaskCreate fails for want of memory only, which main() ignores.
CreateTask(task) ==
    /\ At(task)
    /\ \/ /\ heap >= Bytes(StackWords(task))
          /\ heap' = heap - Bytes(StackWords(task))
          /\ tasks' = tasks \cup {task}
       \/ /\ heap < Bytes(StackWords(task))
          /\ UNCHANGED <<heap, tasks>>
    /\ step' = step + 1
    /\ UNCHANGED <<configured, pads, failed, low, running, started>>

\* The kernel's own tasks: idle and timer.
KernelBytes ==
    Bytes(configMINIMAL_STACK_SIZE) + Bytes(configTIMER_TASK_STACK_DEPTH)

StartScheduler ==
    /\ At("start")
    /\ \/ heap >= KernelBytes /\ heap' = heap - KernelBytes /\ running' = TRUE
       \/ heap < KernelBytes /\ UNCHANGED <<heap, running>>
    /\ step' = step + 1
    /\ UNCHANGED <<configured, pads, failed, low, tasks, started>>

-----------------------------------------------------------------------------
(* Each task up to its first use of a device.                              *)

LED1 == PortIndex("A", 10)

\* vLEDTask waits and clears LED1; the others leave the pins to their modules.
FirstRun(task) ==
    /\ running /\ task \in tasks \ started
    /\ started' = started \cup {task}
    /\ low' = IF task = "LedTask" THEN low \cup {LED1} ELSE low
    /\ UNCHANGED <<step, configured, pads, failed, heap, tasks, running>>

\* The modules each task uses, directly or through the kernel and the drivers,
\* and the pads that carry their signals.
ModulesOf(task) ==
    {<<"PIT", 0>>, <<"SIUL", 0>>}
      \cup (IF task \in {"InitLog", "CanTask"} THEN {UartInstance} ELSE {})
      \cup (IF task = "CanTask" THEN {CanInstance} ELSE {})

SignalsOf(task) ==
    (IF task \in {"InitLog", "CanTask"}
     THEN {<<"LIN2TX", TRUE>>, <<"LIN2RX", FALSE>>} ELSE {})
      \cup (IF task = "CanTask"
            THEN {<<"CAN0TX", TRUE>>, <<"CAN0RX", FALSE>>} ELSE {})

DriversOf(task) ==
    CASE task = "CanTask" -> {"uart", "can"}
      [] task = "InitLog" -> {"uart"}
      [] OTHER -> {}

Init ==
    /\ step = 1 /\ configured = FALSE
    /\ pads = [index \in {} |-> 0]
    /\ failed = {} /\ low = {} /\ heap = HeapSize
    /\ tasks = {} /\ running = FALSE /\ started = {}

Main ==
    \/ InitClocks \/ InitPins \/ InitUart \/ InitCan
    \/ \E task \in TaskNames : CreateTask(task)
    \/ StartScheduler

\* When every task has run nothing is left to happen here.
Next == Main \/ \E task \in TaskNames : FirstRun(task)

Spec == Init /\ [][Next]_vars

-----------------------------------------------------------------------------
TypeOK ==
    /\ step \in 1 .. Len(Steps) + 1
    /\ configured \in BOOLEAN /\ running \in BOOLEAN
    /\ \A index \in DOMAIN pads : pads[index].index = index
    /\ failed \subseteq {"uart", "can"}
    /\ low \subseteq {LED1, LED4}
    /\ heap \in 0 .. HeapSize
    /\ tasks \subseteq TaskNames /\ started \subseteq tasks

\* When tasks run the tick is the millisecond that pdMS_TO_TICKS takes it for,
\* and the bit rate of the bus, whose oscillator runs, is 500 kbit/s.
RatesRight ==
    /\ TickRate("drun") = configTICK_RATE_HZ
    /\ "FXOSC" \in ModeTable("drun").running /\ BitRate = 500000

\* What a task uses of the board: its modules are clocked in the mode the
\* program stays in, and each of its signals has one pad, of the right direction.
ModulesClocked(task) ==
    \A module \in ModulesOf(task) : Clocked(module, "drun")

SignalsOnPads(task) ==
    /\ \A s \in SignalsOf(task) :
         Cardinality({i \in DOMAIN pads :
                        pads[i].signal = s[1] /\ pads[i].drives = s[2]}) = 1
    /\ task = "LedTask" => LED1 \in DOMAIN pads /\ pads[LED1].drives

\* A driver is initialised.
Works(driver) == Passed(driver) /\ driver \notin failed

\* Whatever the boot is refused, and ignores, takes nothing else with it.  The
\* heap is enough for all tasks and the kernel's own, so that the scheduler starts
\* with every one of them; a task that runs has its pads, its modules' clocks and
\* the right rates unless the clocks were refused, and each of its drivers but
\* those whose own initialisation failed.  (These it uses nevertheless: no task
\* knows of the failure.)
OnlyRefusedMissing ==
    /\ Passed("start") => running /\ tasks = TaskNames
    /\ configured /\ running => RatesRight
    /\ \A task \in started :
         /\ SignalsOnPads(task)
         /\ configured => ModulesClocked(task)
         /\ \A driver \in DriversOf(task) \ failed : Works(driver)

================================================================================
