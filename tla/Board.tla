--------------------------------- MODULE Board ---------------------------------
(***************************************************************************)
(* The generated configuration of the board as tables, reduced to what the *)
(* program needs of it: which clock reaches which module in which mode,    *)
(* what each pad carries, the bit timing, the kernel's tick and heap.      *)
(* What the tables mean to the microcontroller, and the names of clocks    *)
(* and signals, is external.                                               *)
(***************************************************************************)
EXTENDS Integers, Sequences

MHz == 1000000

-----------------------------------------------------------------------------
(* clockMan1.c.  A definition named Faulty... is the one below it with a   *)
(* plausible mistake; nothing uses it but the mutation runs.               *)

Numbered(name, n) == [i \in 1 .. n |-> <<name, i - 1>>]

\* peripheralClockMcMeConfig0: each of them in MC_ME_PERIPH_CONFIG_1.
CanAndDmaClocks ==
    <<<<"DMA", 0>>, <<"DMAMUX", 0>>>> \o Numbered("FLEXCAN", 8)

LinClocks == Numbered("LIN", 18)

OtherClocks ==
    <<<<"PITRTI", 0>>, <<"SIUL", 0>>, <<"ENET_TIME", 0>>, <<"DMAMUX", 1>>,
      <<"ENET_TIME", 1>>, <<"PIT", 0>>>>

PeripheralClocks == CanAndDmaClocks \o LinClocks \o OtherClocks

FaultyPeripheralCount == 33

PeripheralCount == 34

\* The modes in which a module of MC_ME_PERIPH_CONFIG_1 has its clock, and those
\* of the other seven configurations.
PeriphConfig1 == {"safe", "drun", "run0", "run1", "run2", "run3"}

\* The oscillators that a mode keeps running and the source of its system clock.
OffDutyMode == [running |-> {"FIRC"}, sysclk |-> "FIRC"]

DrunMode ==
    [running |-> {"SIRC", "FIRC", "SXOSC", "FXOSC", "PLL"}, sysclk |-> "PLL_PHI0"]

RunModes ==
    [mode \in {"run0", "run1", "run2", "run3"} |-> OffDutyMode]

LowPowerModes ==
    [mode \in {"stop0", "standby0", "safe", "reset", "lpurun", "lpustop",
               "lpustandby"} |-> OffDutyMode]

\* sc_dc0 .. sc_dc6, and what each of these dividers feeds.
Dividers == <<1, 2, 4, 4, 2, 2, 8>>

Fed == <<"S160", "S80", "S40", "F40", "F80", "FS80", "F20">>

\* pll0Config.
Pll == [predivider |-> 2, mulFactorDiv |-> 32, phi0Divider |-> 4]

\* irc1Config, xosc1Config and the PLL behind it.
Frequency(source) ==
    CASE source = "FIRC" -> 16 * MHz
      [] source = "FXOSC" -> 40 * MHz
      [] source = "PLL_PHI0" ->
           (((40 * MHz) \div Pll.predivider) * Pll.mulFactorDiv)
             \div Pll.phi0Divider

ModeTable(mode) ==
    IF mode = "drun" THEN DrunMode
    ELSE IF mode \in DOMAIN RunModes THEN RunModes[mode] ELSE LowPowerModes[mode]

Divided(clock, mode) ==
    Frequency(ModeTable(mode).sysclk)
      \div Dividers[CHOOSE i \in DOMAIN Fed : Fed[i] = clock]

\* A module is clocked if it is among the configured ones and on in the mode.
Clocked(module, mode) ==
    /\ \E i \in 1 .. PeripheralCount : PeripheralClocks[i] = module
    /\ mode \in PeriphConfig1

-----------------------------------------------------------------------------
(* pin_mux.c, in the order of the array: PINS_DRV_Init walks it.           *)

Pad(index, signal, drives) ==
    [index |-> index, signal |-> signal, drives |-> drives]

UartRxPad == <<Pad(41, "LIN2RX", FALSE)>>

CanPads == <<Pad(16, "CAN0TX", TRUE), Pad(17, "CAN0RX", FALSE)>>

PortBPads == <<Pad(25, "input", FALSE), Pad(24, "input", FALSE)>>

\* Five pads from PD0 on, and four from PD5 on.
PortDLowPads == [i \in 1 .. 5 |-> Pad(47 + i, "input", FALSE)]

PortDHighPads == [i \in 1 .. 4 |-> Pad(52 + i, "input", FALSE)]

AnalogPad == <<Pad(20, "input", FALSE)>>

LedPad == <<Pad(10, "GPIO", TRUE)>>

UartTxPad == <<Pad(40, "LIN2TX", TRUE)>>

PinTable ==
    UartRxPad \o CanPads \o PortBPads \o PortDLowPads \o PortDHighPads
      \o AnalogPad \o LedPad \o UartTxPad

FaultyNUM_OF_CONFIGURED_PINS == 16

NUM_OF_CONFIGURED_PINS == 17

\* The index of a pad in its port: sixteen each, A is the first.
PortIndex(port, bit) ==
    16 * (CASE port = "A" -> 0 [] port = "C" -> 2) + bit

-----------------------------------------------------------------------------
(* uart_pal1.c, can_pal1.c, FreeRTOSConfig.h.                              *)

\* uart_pal1_instance and can_pal1_instance: LINFlexD 2 and FlexCAN 0.
UartInstance == <<"LIN", 2>>

CanInstance == <<"FLEXCAN", 0>>

\* The segments and the divider are stored less one.
CanTiming == [propSeg |-> 7, phaseSeg1 |-> 4, phaseSeg2 |-> 1, preDivider |-> 4]

BitQuanta ==
    1 + (CanTiming.propSeg + 1) + (CanTiming.phaseSeg1 + 1)
      + (CanTiming.phaseSeg2 + 1)

\* peClkSrc is the oscillator.
BitRate == Frequency("FXOSC") \div ((CanTiming.preDivider + 1) * BitQuanta)

configCPU_CLOCK_HZ == 40 * MHz
configTICK_RATE_HZ == 1000
configMINIMAL_STACK_SIZE == 200
configTIMER_TASK_STACK_DEPTH == 128

HeapSize == 32768

\* The port loads its timer channel, which counts F40, with the quotient.
TickRate(mode) ==
    Divided("F40", mode) \div (configCPU_CLOCK_HZ \div configTICK_RATE_HZ)

================================================================================
