-------------------------------- MODULE Platform --------------------------------
(***************************************************************************)
(* Four parts of the program that share no state, side by side: Boot,      *)
(* Tasks, UartReceive and Frames.  Which one moves is chosen at the start, *)
(* so that their states add up and do not multiply.                        *)
(***************************************************************************)
EXTENDS Tasks

CONSTANTS
    TcbBytes,
    BUFFER_SIZE, IndexMod,
    ByteMax, ByteXor(_, _), CHECKSUM_BYTE, Monitored, OtherIds, StatusId,
    ResponseId, MaxDamage

VARIABLES
    part,
    step, configured, pads, failed, low, heap, tasks, running, started,
    buffer, bufferIdx, target, receiving,
    sent, frame, verdict

Booting == INSTANCE Boot
Uart == INSTANCE UartReceive
Bus == INSTANCE Frames

ASSUME BootAssumption == Booting!TcbAssumption
ASSUME UartAssumption == Uart!BufferAssumption
ASSUME BusAssumption ==
    Bus!FrameAssumption /\ Bus!IdsAssumption /\ Bus!XorAssumption

bootVars == <<step, configured, pads, failed, low, heap, tasks, running, started>>
uartVars == <<buffer, bufferIdx, target, receiving>>
busVars == <<sent, frame, verdict>>
allVars == <<part, vars, bootVars, uartVars, busVars>>

AllInit ==
    /\ part \in {"boot", "tasks", "uart", "frames"}
    /\ Booting!Init /\ Init /\ Uart!Init /\ Bus!Init

BootStep ==
    /\ part = "boot" /\ Booting!Next
    /\ UNCHANGED <<part, vars, uartVars, busVars>>

TasksStep(Action) ==
    /\ part = "tasks" /\ Action
    /\ UNCHANGED <<part, bootVars, uartVars, busVars>>

UartStep ==
    /\ part = "uart" /\ Uart!Next
    /\ UNCHANGED <<part, vars, bootVars, busVars>>

FramesStep ==
    /\ part = "frames" /\ Bus!Next
    /\ UNCHANGED <<part, vars, bootVars, uartVars>>

\* The boot ends when every task has run, the reception with its line.
Ended ==
    /\ \/ part = "boot" /\ Booting!Passed("start") /\ (running => started = tasks)
       \/ part = "uart" /\ ~receiving
    /\ UNCHANGED allVars

AllNext ==
    \/ BootStep
    \/ TasksStep(InitLogStep) \/ TasksStep(LedStep) \/ TasksStep(CanStep)
    \/ TasksStep(Slot) \/ TasksStep(Tick)
    \/ UartStep
    \/ FramesStep
    \/ Ended

\* The fairness of Tasks!FairSpec.
AllSpec ==
    /\ AllInit /\ [][AllNext]_allVars
    /\ WF_allVars(TasksStep(Tick)) /\ WF_allVars(TasksStep(LedStep))
    /\ WF_allVars(TasksStep(CanStep)) /\ WF_allVars(TasksStep(Slot))
    /\ SF_allVars(TasksStep(InitLogStep))

-----------------------------------------------------------------------------
\* Every variable of the four parts keeps its range.
AllTypeOK == TypeOK /\ Booting!TypeOK /\ Uart!TypeOK /\ Bus!TypeOK

\* See Boot.
OnlyRefusedMissing == Booting!OnlyRefusedMissing

\* See UartReceive.
NothingOverwritten == Uart!NothingOverwritten

\* See Frames.
FramesJudged == Bus!FramesJudged

\* See Tasks.
BootLogEndsThere == part = "tasks" => BootLogEnds

==============================================================================
