----------------------------- MODULE PlatformProofs -----------------------------
(***************************************************************************)
(* The parts of Platform side by side: what is proved of each of them      *)
(* holds of all, since none touches another's state.  Tasks and Frames     *)
(* have their proofs in modules of their own, Boot and UartReceive here.   *)
(***************************************************************************)
EXTENDS Platform, TasksProofs, FiniteSetTheorems, SequenceTheorems

BusP == INSTANCE FramesProofs

-----------------------------------------------------------------------------
(* A step of the whole is a step of each part, or leaves it alone.         *)

LEMMA StepsOfParts ==
    ASSUME [AllNext]_allVars
    PROVE  /\ [Next]_vars
           /\ [Booting!Next]_bootVars
           /\ [Uart!Next]_uartVars
           /\ [Bus!Next]_busVars
  BY DEF AllNext, allVars, BootStep, TasksStep, UartStep, FramesStep, Ended, Next

\* FramesProofs is about the same operators as Frames.
LEMMA SameFrames ==
    /\ BusP!Byte = Bus!Byte /\ BusP!DLC = Bus!DLC /\ BusP!Places = Bus!Places
    /\ BusP!Payload = Bus!Payload /\ BusP!NoFrame = Bus!NoFrame
    /\ BusP!FrameType = Bus!FrameType
    /\ \A id, data, n : BusP!XorOf(id, data, n) = Bus!XorOf(id, data, n)
    /\ \A id : BusP!FindRxMonitor(id) = Bus!FindRxMonitor(id)
<1>1. /\ BusP!Byte = Bus!Byte /\ BusP!DLC = Bus!DLC /\ BusP!Places = Bus!Places
      /\ BusP!NoFrame = Bus!NoFrame
  BY DEF BusP!Byte, Bus!Byte, BusP!DLC, Bus!DLC, BusP!Places, Bus!Places,
     BusP!NoFrame, Bus!NoFrame
<1>2. BusP!Payload = Bus!Payload /\ BusP!FrameType = Bus!FrameType
  BY <1>1 DEF BusP!Payload, Bus!Payload, BusP!FrameType, Bus!FrameType
<1>3. ASSUME NEW id, NEW data, NEW n
      PROVE  BusP!XorOf(id, data, n) = Bus!XorOf(id, data, n)
  BY DEF BusP!XorOf, Bus!XorOf, BusP!LowByte, Bus!LowByte
<1>4. ASSUME NEW id
      PROVE  BusP!FindRxMonitor(id) = Bus!FindRxMonitor(id)
  BY DEF BusP!FindRxMonitor, Bus!FindRxMonitor
<1> QED
  BY <1>1, <1>2, <1>3, <1>4

LEMMA SameBus ==
    /\ BusP!FrameAssumption /\ BusP!IdsAssumption /\ BusP!XorAssumption
    /\ BusP!vars = busVars
    /\ BusP!Init <=> Bus!Init
    /\ BusP!TypeOK <=> Bus!TypeOK
    /\ BusP!Next <=> Bus!Next
    /\ BusP!Damage = Bus!Damage
<1>1. BusP!FrameAssumption /\ BusP!IdsAssumption /\ BusP!XorAssumption
  <2>1. BusP!Range(Monitored) = Bus!Range(Monitored)
        /\ (BusP!IsInjective(Monitored) <=> Bus!IsInjective(Monitored))
    BY DEF BusP!Range, Bus!Range, BusP!IsInjective, Bus!IsInjective
  <2>2. BusP!FrameAssumption
    BY BusAssumption DEF BusP!FrameAssumption, Bus!FrameAssumption
  <2>3. BusP!IdsAssumption
    BY <2>1, BusAssumption DEF BusP!IdsAssumption, Bus!IdsAssumption
  <2>4. BusP!XorAssumption
    BY BusAssumption, SameFrames DEF BusP!XorAssumption, Bus!XorAssumption
  <2> QED
    BY <2>2, <2>3, <2>4
<1>2. BusP!vars = busVars /\ (BusP!Init <=> Bus!Init)
      /\ (BusP!TypeOK <=> Bus!TypeOK)
  BY SameFrames
  DEF BusP!vars, busVars, BusP!Init, Bus!Init, BusP!TypeOK, Bus!TypeOK
<1>3. BusP!Damage = Bus!Damage
  BY SameFrames DEF BusP!Damage, Bus!Damage
<1>4. \A id, payload, checksum :
        BusP!Send(id, payload, checksum) <=> Bus!Send(id, payload, checksum)
  BY SameFrames DEF BusP!Send, Bus!Send, BusP!Prepared, Bus!Prepared
<1>5. \A id, payload :
        /\ BusP!NodeSends(id, payload) <=> Bus!NodeSends(id, payload)
        /\ BusP!StatusSent(payload) <=> Bus!StatusSent(payload)
        /\ BusP!ResponseSent(payload) <=> Bus!ResponseSent(payload)
  BY <1>4, SameFrames
  DEF BusP!NodeSends, Bus!NodeSends, BusP!StatusSent, Bus!StatusSent,
      BusP!ResponseSent, Bus!ResponseSent, BusP!calcChecksum, Bus!calcChecksum,
      BusP!CalculateChecksum, Bus!CalculateChecksum,
      BusP!CalculateResponseChecksum, Bus!CalculateResponseChecksum
<1>6. \A i, byte :
        /\ BusP!DamageByte(i, byte) <=> Bus!DamageByte(i, byte)
        /\ BusP!CutOff(byte) <=> Bus!CutOff(byte)
  <2>0. BusP!Cardinality(Bus!Damage) = Bus!Cardinality(Bus!Damage)
    BY DEF BusP!Cardinality, Bus!Cardinality
  <2>1. \A i, byte : BusP!DamageByte(i, byte) <=> Bus!DamageByte(i, byte)
    BY <1>3, <2>0, SameFrames DEF BusP!DamageByte, Bus!DamageByte
  <2>2. \A byte : BusP!CutOff(byte) <=> Bus!CutOff(byte)
    BY <1>3, <2>0, SameFrames DEF BusP!CutOff, Bus!CutOff
  <2> QED
    BY <2>1, <2>2
<1>7. BusP!VerifyChecksum(frame) <=> Bus!VerifyChecksum(frame)
  BY SameFrames
  DEF BusP!VerifyChecksum, Bus!VerifyChecksum, BusP!CalculateChecksum,
      Bus!CalculateChecksum
<1>8. BusP!HandleRxMessage <=> Bus!HandleRxMessage
  BY <1>7, SameFrames DEF BusP!HandleRxMessage, Bus!HandleRxMessage
<1>9. BusP!PanelReceives <=> Bus!PanelReceives
  BY SameFrames
  DEF BusP!PanelReceives, Bus!PanelReceives, BusP!calcChecksum, Bus!calcChecksum
<1>10. BusP!Next <=> Bus!Next
  <2>1. BusP!Range(Monitored) = Bus!Range(Monitored)
    BY DEF BusP!Range, Bus!Range
  <2> QED
    BY <1>5, <1>6, <1>8, <1>9, <2>1, SameFrames DEF BusP!Next, Bus!Next
<1> QED
  BY <1>1, <1>2, <1>3, <1>10

-----------------------------------------------------------------------------
(* The receive callback: the index stays below the place kept free, and    *)
(* from it on the buffer is empty as long as bytes are received.           *)

UartInv ==
    /\ Uart!TypeOK
    /\ bufferIdx <= BUFFER_SIZE - 2
    /\ \A i \in Uart!Places : i > bufferIdx => buffer[i] = "none"
    /\ receiving => buffer[bufferIdx] = "none"

LEMMA UartInit ==
    ASSUME Uart!Init
    PROVE  UartInv
  BY UartAssumption
  DEF Uart!BufferAssumption, Uart!Init, UartInv, Uart!TypeOK, Uart!Places,
      Uart!Bytes

\* A byte goes to the place of the index, which is the driver's target.
LEMMA ReceiveGood ==
    ASSUME UartInv, NEW byte \in Uart!Bytes \ {"none"}, Uart!Receive(byte)
    PROVE  /\ UartInv'
           /\ \A i \in Uart!Places : buffer[i] # "none" => buffer'[i] = buffer[i]
<1>1. /\ target = bufferIdx /\ bufferIdx \in Uart!Places
      /\ buffer' = [buffer EXCEPT ![bufferIdx] = byte]
      /\ buffer[bufferIdx] = "none"
  BY DEF Uart!Receive, UartInv, Uart!TypeOK
<1>2. /\ buffer' \in [Uart!Places -> Uart!Bytes] /\ buffer'[bufferIdx] = byte
      /\ \A i \in Uart!Places : i # bufferIdx => buffer'[i] = buffer[i]
  BY <1>1 DEF UartInv, Uart!TypeOK
<1>3. CASE Uart!GoOn(byte)
  <2>1. /\ bufferIdx' = (bufferIdx + 1) % IndexMod /\ target' = bufferIdx'
        /\ receiving' = receiving
    BY <1>2, <1>3 DEF Uart!Receive
  <2>2. byte = "other" /\ bufferIdx \in 0 .. BUFFER_SIZE - 3
    BY <1>1, <1>3, UartAssumption
    DEF Uart!GoOn, Uart!LastPlace, Uart!Bytes, UartInv, Uart!BufferAssumption,
        Uart!Places
  <2>3. bufferIdx' = bufferIdx + 1
    BY <2>1, <2>2, UartAssumption DEF Uart!BufferAssumption
  <2>4. UartInv'
    BY <1>1, <1>2, <2>1, <2>2, <2>3, UartAssumption
    DEF UartInv, Uart!TypeOK, Uart!Places, Uart!BufferAssumption, Uart!Receive
  <2> QED
    BY <1>1, <1>2, <2>4
<1>4. CASE ~Uart!GoOn(byte)
  <2>1. /\ receiving' = FALSE /\ bufferIdx' = bufferIdx /\ target' = target
    BY <1>2, <1>4 DEF Uart!Receive
  <2>2. bufferIdx <= BUFFER_SIZE - 2 /\ BUFFER_SIZE \in Nat
    BY UartAssumption DEF UartInv, Uart!BufferAssumption
  <2>3. buffer'[BUFFER_SIZE - 1] = "none"
    BY <1>1, <1>2, <2>2 DEF UartInv, Uart!TypeOK, Uart!Places
  <2>4. \A i \in Uart!Places : i < bufferIdx => buffer'[i] = "other"
    BY <1>1, <1>2 DEF UartInv, Uart!TypeOK, Uart!Places
  <2>5. \A i \in Uart!Places : i > bufferIdx => buffer'[i] = "none"
    BY <1>1, <1>2 DEF UartInv, Uart!Places
  <2>6. UartInv'
    BY <1>1, <1>2, <2>1, <2>2, <2>3, <2>4, <2>5 DEF UartInv, Uart!TypeOK
  <2> QED
    BY <1>1, <1>2, <2>6
<1> QED
  BY <1>3, <1>4

LEMMA UartStepGood ==
    ASSUME UartInv, [Uart!Next]_uartVars
    PROVE  UartInv'
<1>1. CASE Uart!Next
  BY <1>1, ReceiveGood DEF Uart!Next
<1>2. CASE UNCHANGED uartVars
  BY <1>2 DEF uartVars, UartInv, Uart!TypeOK
<1> QED
  BY <1>1, <1>2

\* rxCallback fills the buffer from the left and never up to the last place.
THEOREM UartInvariance == Uart!Spec => []UartInv
<1>1. Uart!Init => UartInv
  BY UartInit
<1>2. UartInv /\ [Uart!Next]_(Uart!vars) => UartInv'
  BY UartStepGood DEF Uart!vars, uartVars
<1> QED
  BY <1>1, <1>2, PTL DEF Uart!Spec

\* rxCallback never gives the driver a place that has been received into.
THEOREM ReceivedIsKept == Uart!Spec => Uart!NothingOverwritten
<1>1. UartInv /\ [Uart!Next]_(Uart!vars) =>
        [\A i \in Uart!Places : buffer[i] # "none" => buffer'[i] = buffer[i]
           ]_(Uart!vars)
  BY ReceiveGood DEF Uart!Next
<1> QED
  BY <1>1, UartInvariance, PTL DEF Uart!Spec, Uart!NothingOverwritten

-----------------------------------------------------------------------------
(* The tables of Board, entry by entry.                                    *)

Row(s, n, S) == s \in Seq(S) /\ Len(s) = n /\ n \in Nat

Entry(s, i, value) == i \in 1 .. Len(s) /\ s[i] = value

\* Of two rows put together.
LEMMA Joined ==
    ASSUME NEW S, NEW s, NEW t, NEW m, NEW n, Row(s, m, S), Row(t, n, S)
    PROVE  /\ Row(s \o t, m + n, S)
           /\ \A i, value : Entry(s, i, value) => Entry(s \o t, i, value)
           /\ \A i, value : Entry(t, i, value) => Entry(s \o t, m + i, value)
<1>1. /\ s \in Seq(S) /\ t \in Seq(S) /\ Len(s) = m /\ Len(t) = n
      /\ m \in Nat /\ n \in Nat
  BY DEF Row
<1>2. s \o t \in Seq(S)
  BY <1>1, ConcatProperties
<1>3. Len(s \o t) = m + n
  BY <1>1, ConcatProperties
<1>4. \A i \in 1 .. m + n :
           (s \o t)[i] = IF i <= Len(s) THEN s[i] ELSE t[i - Len(s)]
  BY <1>1, ConcatProperties
<1>5. ASSUME NEW i, NEW value, Entry(s, i, value)
      PROVE  Entry(s \o t, i, value)
  BY <1>1, <1>3, <1>4, <1>5 DEF Entry
<1>6. ASSUME NEW i, NEW value, Entry(t, i, value)
      PROVE  Entry(s \o t, m + i, value)
  <2>1. i \in 1 .. n /\ t[i] = value
    BY <1>1, <1>6 DEF Entry
  <2>2. m + i \in 1 .. m + n /\ ~(m + i <= m) /\ (m + i) - m = i
    BY <1>1, <2>1
  <2>3. (s \o t)[m + i] = t[(m + i) - m]
    BY <1>1, <1>4, <2>2
  <2> QED
    BY <1>3, <2>1, <2>2, <2>3 DEF Entry
<1>7. Row(s \o t, m + n, S)
  BY <1>1, <1>2, <1>3 DEF Row
<1> QED
  BY <1>5, <1>6, <1>7

LEMMA ARow ==
    ASSUME NEW S, NEW n \in Nat, NEW s \in [1 .. n -> S]
    PROVE  Row(s, n, S)
  BY DEF Row

\* The modules that the tasks use are among the configured clocks.
LEMMA ClocksAre ==
    /\ Booting!PeripheralClocks[3] = <<"FLEXCAN", 0>>
    /\ Booting!PeripheralClocks[13] = <<"LIN", 2>>
    /\ Booting!PeripheralClocks[30] = <<"SIUL", 0>>
    /\ Booting!PeripheralClocks[34] = <<"PIT", 0>>
<1> DEFINE S == {"DMA", "DMAMUX", "FLEXCAN", "LIN", "PITRTI", "SIUL",
                 "ENET_TIME", "PIT"} \X Nat
           two == <<<<"DMA", 0>>, <<"DMAMUX", 0>>>>
           can == Booting!Numbered("FLEXCAN", 8)
           lin == Booting!LinClocks
           rest == Booting!OtherClocks
<1>1. Row(two, 2, S)
  BY DEF Row
<1>2. Row(can, 8, S) /\ Entry(can, 1, <<"FLEXCAN", 0>>)
  <2>1. can = [i \in 1 .. 8 |-> <<"FLEXCAN", i - 1>>]
    BY DEF Booting!Numbered
  <2>2. can \in [1 .. 8 -> S]
    BY <2>1
  <2>3. Row(can, 8, S)
    BY <2>2, ARow
  <2> QED
    BY <2>1, <2>3 DEF Row, Entry
<1>3. Row(lin, 18, S) /\ Entry(lin, 3, <<"LIN", 2>>)
  <2>1. lin = [i \in 1 .. 18 |-> <<"LIN", i - 1>>]
    BY DEF Booting!LinClocks, Booting!Numbered
  <2>2. lin \in [1 .. 18 -> S]
    BY <2>1
  <2>3. Row(lin, 18, S)
    BY <2>2, ARow
  <2> QED
    BY <2>1, <2>3 DEF Row, Entry
<1>4. Row(rest, 6, S) /\ Entry(rest, 2, <<"SIUL", 0>>)
      /\ Entry(rest, 6, <<"PIT", 0>>)
  BY DEF Booting!OtherClocks, Row, Entry
<1>5. Booting!PeripheralClocks = ((two \o can) \o lin) \o rest
  BY DEF Booting!PeripheralClocks, Booting!CanAndDmaClocks
<1> HIDE DEF S, two, can, lin, rest
<1>6. /\ Row(two \o can, 2 + 8, S)
      /\ Entry(two \o can, 2 + 1, <<"FLEXCAN", 0>>)
  BY <1>1, <1>2, Joined
<1>7. Row(two \o can, 10, S) /\ Entry(two \o can, 3, <<"FLEXCAN", 0>>)
  BY <1>6
<1>8. /\ Row((two \o can) \o lin, 10 + 18, S)
      /\ Entry((two \o can) \o lin, 3, <<"FLEXCAN", 0>>)
      /\ Entry((two \o can) \o lin, 10 + 3, <<"LIN", 2>>)
  BY <1>3, <1>7, Joined
<1>9. Row((two \o can) \o lin, 28, S)
      /\ Entry((two \o can) \o lin, 13, <<"LIN", 2>>)
  BY <1>8
<1> DEFINE most == (two \o can) \o lin
           all == most \o rest
<1> HIDE DEF most
<1>10. /\ Entry(all, 3, <<"FLEXCAN", 0>>) /\ Entry(all, 13, <<"LIN", 2>>)
       /\ Entry(all, 28 + 2, <<"SIUL", 0>>) /\ Entry(all, 28 + 6, <<"PIT", 0>>)
  <2>1. /\ Row(most, 28, S) /\ Entry(most, 3, <<"FLEXCAN", 0>>)
        /\ Entry(most, 13, <<"LIN", 2>>)
    BY <1>8, <1>9 DEF most
  <2> QED
    BY <1>4, <2>1, Joined
<1>11. Booting!PeripheralClocks = all
  BY <1>5 DEF most
<1> HIDE DEF all
<1>12. Entry(all, 30, <<"SIUL", 0>>) /\ Entry(all, 34, <<"PIT", 0>>)
  BY <1>10
<1> QED
  BY <1>10, <1>11, <1>12 DEF Entry

\* The pads, in the order of the table.
LEMMA PinsAre ==
    /\ Entry(Booting!PinTable, 1, Booting!Pad(41, "LIN2RX", FALSE))
    /\ Entry(Booting!PinTable, 2, Booting!Pad(16, "CAN0TX", TRUE))
    /\ Entry(Booting!PinTable, 3, Booting!Pad(17, "CAN0RX", FALSE))
    /\ Entry(Booting!PinTable, 4, Booting!Pad(25, "input", FALSE))
    /\ Entry(Booting!PinTable, 5, Booting!Pad(24, "input", FALSE))
    /\ \A i \in 1 .. 5 :
         Entry(Booting!PinTable, 5 + i, Booting!Pad(47 + i, "input", FALSE))
    /\ \A i \in 1 .. 4 :
         Entry(Booting!PinTable, 10 + i, Booting!Pad(52 + i, "input", FALSE))
    /\ Entry(Booting!PinTable, 15, Booting!Pad(20, "input", FALSE))
    /\ Entry(Booting!PinTable, 16, Booting!Pad(10, "GPIO", TRUE))
    /\ Entry(Booting!PinTable, 17, Booting!Pad(40, "LIN2TX", TRUE))
<1> DEFINE S == [index : Nat, drives : BOOLEAN,
                 signal : {"LIN2RX", "CAN0TX", "CAN0RX", "input", "GPIO",
                           "LIN2TX"}]
           rx == Booting!UartRxPad
           can == Booting!CanPads
           b == Booting!PortBPads
           dLow == Booting!PortDLowPads
           dHigh == Booting!PortDHighPads
           analog == Booting!AnalogPad
           led == Booting!LedPad
           tx == Booting!UartTxPad
<1>1. Row(rx, 1, S) /\ Entry(rx, 1, Booting!Pad(41, "LIN2RX", FALSE))
  BY DEF Row, Entry, Booting!UartRxPad, Booting!Pad
<1>2. /\ Row(can, 2, S) /\ Entry(can, 1, Booting!Pad(16, "CAN0TX", TRUE))
      /\ Entry(can, 2, Booting!Pad(17, "CAN0RX", FALSE))
  BY DEF Row, Entry, Booting!CanPads, Booting!Pad
<1>3. /\ Row(b, 2, S) /\ Entry(b, 1, Booting!Pad(25, "input", FALSE))
      /\ Entry(b, 2, Booting!Pad(24, "input", FALSE))
  BY DEF Row, Entry, Booting!PortBPads, Booting!Pad
<1>4. /\ Row(dLow, 5, S)
      /\ \A i \in 1 .. 5 : Entry(dLow, i, Booting!Pad(47 + i, "input", FALSE))
  <2>1. dLow = [i \in 1 .. 5 |-> Booting!Pad(47 + i, "input", FALSE)]
    BY DEF Booting!PortDLowPads
  <2>2. dLow \in [1 .. 5 -> S]
    BY <2>1 DEF Booting!Pad
  <2>3. Row(dLow, 5, S)
    BY <2>2, ARow
  <2> QED
    BY <2>1, <2>3 DEF Row, Entry
<1>5. /\ Row(dHigh, 4, S)
      /\ \A i \in 1 .. 4 : Entry(dHigh, i, Booting!Pad(52 + i, "input", FALSE))
  <2>1. dHigh = [i \in 1 .. 4 |-> Booting!Pad(52 + i, "input", FALSE)]
    BY DEF Booting!PortDHighPads
  <2>2. dHigh \in [1 .. 4 -> S]
    BY <2>1 DEF Booting!Pad
  <2>3. Row(dHigh, 4, S)
    BY <2>2, ARow
  <2> QED
    BY <2>1, <2>3 DEF Row, Entry
<1>6. Row(analog, 1, S) /\ Entry(analog, 1, Booting!Pad(20, "input", FALSE))
  BY DEF Row, Entry, Booting!AnalogPad, Booting!Pad
<1>7. Row(led, 1, S) /\ Entry(led, 1, Booting!Pad(10, "GPIO", TRUE))
  BY DEF Row, Entry, Booting!LedPad, Booting!Pad
<1>8. Row(tx, 1, S) /\ Entry(tx, 1, Booting!Pad(40, "LIN2TX", TRUE))
  BY DEF Row, Entry, Booting!UartTxPad, Booting!Pad
<1> DEFINE r3 == rx \o can
           r5 == r3 \o b
           r10 == r5 \o dLow
           r14 == r10 \o dHigh
           r15 == r14 \o analog
           r16 == r15 \o led
           r17 == r16 \o tx
<1>9. Booting!PinTable = r17
  BY DEF Booting!PinTable
<1> HIDE DEF S, rx, can, b, dLow, dHigh, analog, led, tx
<1>10. /\ Row(r3, 3, S)
       /\ Entry(r3, 1, Booting!Pad(41, "LIN2RX", FALSE))
       /\ Entry(r3, 2, Booting!Pad(16, "CAN0TX", TRUE))
       /\ Entry(r3, 3, Booting!Pad(17, "CAN0RX", FALSE))
  <2>1. /\ Row(r3, 1 + 2, S)
        /\ Entry(r3, 1, Booting!Pad(41, "LIN2RX", FALSE))
        /\ Entry(r3, 1 + 1, Booting!Pad(16, "CAN0TX", TRUE))
        /\ Entry(r3, 1 + 2, Booting!Pad(17, "CAN0RX", FALSE))
    BY <1>1, <1>2, Joined
  <2>2. 1 + 2 = 3 /\ 1 + 1 = 2
    OBVIOUS
  <2> QED
    BY <2>1, <2>2
<1> HIDE DEF r3
<1>11. /\ Row(r5, 5, S)
       /\ \A i, v : Entry(r3, i, v) => Entry(r5, i, v)
       /\ Entry(r5, 4, Booting!Pad(25, "input", FALSE))
       /\ Entry(r5, 5, Booting!Pad(24, "input", FALSE))
  <2>1. /\ Row(r5, 3 + 2, S)
        /\ \A i, v : Entry(r3, i, v) => Entry(r5, i, v)
        /\ Entry(r5, 3 + 1, Booting!Pad(25, "input", FALSE))
        /\ Entry(r5, 3 + 2, Booting!Pad(24, "input", FALSE))
    BY <1>3, <1>10, Joined
  <2>2. 3 + 1 = 4 /\ 3 + 2 = 5
    OBVIOUS
  <2> QED
    BY <2>1, <2>2
<1> HIDE DEF r5
<1>12. /\ Row(r10, 10, S)
       /\ \A i, v : Entry(r5, i, v) => Entry(r10, i, v)
       /\ \A i \in 1 .. 5 :
            Entry(r10, 5 + i, Booting!Pad(47 + i, "input", FALSE))
  <2>1. /\ Row(r10, 5 + 5, S)
        /\ \A i, v : Entry(r5, i, v) => Entry(r10, i, v)
        /\ \A i, v : Entry(dLow, i, v) => Entry(r10, 5 + i, v)
    BY <1>4, <1>11, Joined
  <2>2. 5 + 5 = 10
    OBVIOUS
  <2> QED
    BY <1>4, <2>1, <2>2
<1> HIDE DEF r10
<1>13. /\ Row(r14, 14, S)
       /\ \A i, v : Entry(r10, i, v) => Entry(r14, i, v)
       /\ \A i \in 1 .. 4 :
            Entry(r14, 10 + i, Booting!Pad(52 + i, "input", FALSE))
  <2>1. /\ Row(r14, 10 + 4, S)
        /\ \A i, v : Entry(r10, i, v) => Entry(r14, i, v)
        /\ \A i, v : Entry(dHigh, i, v) => Entry(r14, 10 + i, v)
    BY <1>5, <1>12, Joined
  <2>2. 10 + 4 = 14
    OBVIOUS
  <2> QED
    BY <1>5, <2>1, <2>2
<1> HIDE DEF r14
<1>14. /\ Row(r15, 15, S)
       /\ \A i, v : Entry(r14, i, v) => Entry(r15, i, v)
       /\ Entry(r15, 15, Booting!Pad(20, "input", FALSE))
  <2>1. /\ Row(r15, 14 + 1, S)
        /\ \A i, v : Entry(r14, i, v) => Entry(r15, i, v)
        /\ Entry(r15, 14 + 1, Booting!Pad(20, "input", FALSE))
    BY <1>6, <1>13, Joined
  <2>2. 14 + 1 = 15
    OBVIOUS
  <2> QED
    BY <2>1, <2>2
<1> HIDE DEF r15
<1>15. /\ Row(r16, 16, S)
       /\ \A i, v : Entry(r15, i, v) => Entry(r16, i, v)
       /\ Entry(r16, 16, Booting!Pad(10, "GPIO", TRUE))
  <2>1. /\ Row(r16, 15 + 1, S)
        /\ \A i, v : Entry(r15, i, v) => Entry(r16, i, v)
        /\ Entry(r16, 15 + 1, Booting!Pad(10, "GPIO", TRUE))
    BY <1>7, <1>14, Joined
  <2>2. 15 + 1 = 16
    OBVIOUS
  <2> QED
    BY <2>1, <2>2
<1> HIDE DEF r16
<1>16. /\ \A i, v : Entry(r16, i, v) => Entry(r17, i, v)
       /\ Entry(r17, 17, Booting!Pad(40, "LIN2TX", TRUE))
  <2>1. /\ \A i, v : Entry(r16, i, v) => Entry(r17, i, v)
        /\ Entry(r17, 16 + 1, Booting!Pad(40, "LIN2TX", TRUE))
    BY <1>8, <1>15, Joined
  <2>2. 16 + 1 = 17
    OBVIOUS
  <2> QED
    BY <2>1, <2>2
<1> HIDE DEF r17
<1>17. /\ \A i, v : Entry(r14, i, v) => Entry(r17, i, v)
       /\ \A i, v : Entry(r10, i, v) => Entry(r17, i, v)
       /\ \A i, v : Entry(r5, i, v) => Entry(r17, i, v)
       /\ \A i, v : Entry(r3, i, v) => Entry(r17, i, v)
  BY <1>11, <1>12, <1>13, <1>14, <1>15, <1>16
<1> QED
  BY <1>9, <1>10, <1>11, <1>12, <1>13, <1>14, <1>15, <1>16, <1>17

\* No two entries set the same pad, and each of the signals that a task uses has
\* one entry.
LEMMA PinFacts ==
    /\ \A i, j \in 1 .. 17 :
         Booting!PinTable[i].index = Booting!PinTable[j].index => i = j
    /\ \A i \in 1 .. 17 :
         /\ Booting!PinTable[i].signal = "LIN2RX" <=> i = 1
         /\ Booting!PinTable[i].signal = "CAN0TX" <=> i = 2
         /\ Booting!PinTable[i].signal = "CAN0RX" <=> i = 3
         /\ Booting!PinTable[i].signal = "LIN2TX" <=> i = 17
    /\ Booting!PinTable[1].drives = FALSE /\ Booting!PinTable[2].drives = TRUE
    /\ Booting!PinTable[3].drives = FALSE /\ Booting!PinTable[17].drives = TRUE
    /\ Booting!PinTable[16].drives = TRUE /\ Booting!PinTable[16].index = 10
<1> DEFINE P(i) == Booting!PinTable[i]
<1>1. /\ P(1) = Booting!Pad(41, "LIN2RX", FALSE)
      /\ P(2) = Booting!Pad(16, "CAN0TX", TRUE)
      /\ P(3) = Booting!Pad(17, "CAN0RX", FALSE)
      /\ P(4) = Booting!Pad(25, "input", FALSE)
      /\ P(5) = Booting!Pad(24, "input", FALSE)
      /\ P(15) = Booting!Pad(20, "input", FALSE)
      /\ P(16) = Booting!Pad(10, "GPIO", TRUE)
      /\ P(17) = Booting!Pad(40, "LIN2TX", TRUE)
  BY PinsAre DEF Entry
<1>2. ASSUME NEW i \in 6 .. 14
      PROVE  P(i) = Booting!Pad(42 + i, "input", FALSE)
  <2>1. CASE i \in 6 .. 10
    <3> DEFINE k == i - 5
    <3>1. k \in 1 .. 5 /\ 5 + k = i /\ 47 + k = 42 + i
      BY <2>1
    <3> HIDE DEF k
    <3>2. P(5 + k) = Booting!Pad(47 + k, "input", FALSE)
      BY <3>1, PinsAre DEF Entry
    <3> QED
      BY <3>1, <3>2
  <2>2. CASE i \in 11 .. 14
    <3> DEFINE k == i - 10
    <3>1. k \in 1 .. 4 /\ 10 + k = i /\ 52 + k = 42 + i
      BY <2>2
    <3> HIDE DEF k
    <3>2. P(10 + k) = Booting!Pad(52 + k, "input", FALSE)
      BY <3>1, PinsAre DEF Entry
    <3> QED
      BY <3>1, <3>2
  <2>3. i \in 6 .. 10 \/ i \in 11 .. 14
    OBVIOUS
  <2> QED
    BY <2>1, <2>2, <2>3
<1> HIDE DEF P
<1>3. ASSUME NEW i \in 1 .. 17
      PROVE  \/ i = 1 \/ i = 2 \/ i = 3 \/ i = 4 \/ i = 5 \/ i = 15 \/ i = 16
             \/ i = 17 \/ i \in 6 .. 14
  OBVIOUS
<1>4. ASSUME NEW i \in 1 .. 17
      PROVE  P(i).index = IF i = 1 THEN 41 ELSE IF i = 2 THEN 16
                          ELSE IF i = 3 THEN 17 ELSE IF i = 4 THEN 25
                          ELSE IF i = 5 THEN 24 ELSE IF i = 15 THEN 20
                          ELSE IF i = 16 THEN 10 ELSE IF i = 17 THEN 40
                          ELSE 42 + i
  BY <1>1, <1>2, <1>3 DEF Booting!Pad
<1>5. ASSUME NEW i \in 1 .. 17
      PROVE  P(i).signal = IF i = 1 THEN "LIN2RX" ELSE IF i = 2 THEN "CAN0TX"
                           ELSE IF i = 3 THEN "CAN0RX" ELSE IF i = 16 THEN "GPIO"
                           ELSE IF i = 17 THEN "LIN2TX" ELSE "input"
  BY <1>1, <1>2, <1>3 DEF Booting!Pad
<1>6. \A i, j \in 1 .. 17 : P(i).index = P(j).index => i = j
  BY <1>4
<1>7. \A i \in 1 .. 17 : /\ P(i).signal = "LIN2RX" <=> i = 1
                         /\ P(i).signal = "CAN0TX" <=> i = 2
                         /\ P(i).signal = "CAN0RX" <=> i = 3
                         /\ P(i).signal = "LIN2TX" <=> i = 17
  BY <1>5
<1>8. /\ P(1).drives = FALSE /\ P(2).drives = TRUE /\ P(3).drives = FALSE
      /\ P(17).drives = TRUE /\ P(16).drives = TRUE /\ P(16).index = 10
  BY <1>1 DEF Booting!Pad
<1> QED
  BY <1>6, <1>7, <1>8 DEF P

\* What the pads carry once they are set: each what its entry says.
LEMMA PadsSet ==
    ASSUME NEW set, set = Booting!PadsAfter(17)
    PROVE  /\ \A i \in 1 .. 17 :
                /\ Booting!PinTable[i].index \in DOMAIN set
                /\ set[Booting!PinTable[i].index] = Booting!PinTable[i]
           /\ \A index \in DOMAIN set : \E i \in 1 .. 17 :
                index = Booting!PinTable[i].index
<1> DEFINE P(i) == Booting!PinTable[i]
           Last(i, index) == /\ P(i).index = index
                             /\ \A j \in i + 1 .. 17 : P(j).index # index
<1>1. set = [index \in {P(i).index : i \in 1 .. 17} |->
                P(CHOOSE i \in 1 .. 17 : Last(i, index))]
  BY DEF Booting!PadsAfter
<1>2. \A i, j \in 1 .. 17 : P(i).index = P(j).index => i = j
  BY PinFacts
<1> HIDE DEF P
<1>3. ASSUME NEW i \in 1 .. 17
      PROVE  P(i).index \in DOMAIN set /\ set[P(i).index] = P(i)
  <2>1. Last(i, P(i).index)
    BY <1>2
  <2>2. \A j \in 1 .. 17 : Last(j, P(i).index) => j = i
    BY <1>2
  <2> HIDE DEF Last
  <2>3. (CHOOSE j \in 1 .. 17 : Last(j, P(i).index)) = i
    BY <2>1, <2>2
  <2>4. P(i).index \in {P(j).index : j \in 1 .. 17}
    OBVIOUS
  <2>5. set[P(i).index] = P(CHOOSE j \in 1 .. 17 : Last(j, P(i).index))
    BY <1>1, <2>4
  <2> QED
    BY <1>1, <2>3, <2>4, <2>5
<1>4. \A index \in DOMAIN set : \E i \in 1 .. 17 : index = P(i).index
  BY <1>1
<1> QED
  BY <1>3, <1>4 DEF P

-----------------------------------------------------------------------------
(* What a task needs when it first runs.                                   *)

Carriers(s) == {i \in DOMAIN pads : pads[i].signal = s[1] /\ pads[i].drives = s[2]}

\* The i-th row of the table is the only one that carries signal s.
OnlyPin(i, s) ==
    \A j \in 1 .. 17 : Booting!PinTable[j].signal = s[1] <=> j = i

\* The pads of a signal that one entry gives them.
LEMMA OnePad ==
    ASSUME pads = Booting!PadsAfter(17), NEW s, NEW i \in 1 .. 17,
           OnlyPin(i, s),
           Booting!PinTable[i].drives = s[2]
    PROVE  Booting!Cardinality(Carriers(s)) = 1
<1> DEFINE P(j) == Booting!PinTable[j]
<1>1. /\ \A j \in 1 .. 17 : P(j).index \in DOMAIN pads
                           /\ pads[P(j).index] = P(j)
      /\ \A index \in DOMAIN pads : \E j \in 1 .. 17 : index = P(j).index
  BY PadsSet
<1>2. P(i).signal = s[1] /\ P(i).drives = s[2]
  BY DEF OnlyPin
<1>3. \A j \in 1 .. 17 : P(j).signal = s[1] => j = i
  BY DEF OnlyPin
<1> HIDE DEF P
<1>4. Carriers(s) = {P(i).index}
  <2>1. P(i).index \in Carriers(s)
    BY <1>1, <1>2 DEF Carriers
  <2>2. ASSUME NEW index \in Carriers(s)
        PROVE  index = P(i).index
    <3>1. PICK j \in 1 .. 17 : index = P(j).index
      BY <1>1 DEF Carriers
    <3>2. P(j).signal = s[1]
      BY <1>1, <3>1 DEF Carriers
    <3> QED
      BY <1>3, <3>1, <3>2
  <2> QED
    BY <2>1, <2>2
<1>5. Booting!Cardinality(Carriers(s)) = Cardinality(Carriers(s))
  BY DEF Booting!Cardinality, Cardinality
<1> QED
  BY <1>4, <1>5, FS_Singleton

LEMMA Rates == Booting!RatesRight
<1>1. Booting!MHz = 1000000
  BY DEF Booting!MHz
<1>2. /\ Booting!Frequency("FXOSC") = 40000000
      /\ Booting!Frequency("PLL_PHI0") = 160000000
  BY <1>1 DEF Booting!Frequency, Booting!Pll
<1>3. /\ Booting!ModeTable("drun").sysclk = "PLL_PHI0"
      /\ "FXOSC" \in Booting!ModeTable("drun").running
  BY DEF Booting!ModeTable, Booting!DrunMode
<1>4. Booting!Dividers[CHOOSE i \in DOMAIN Booting!Fed : Booting!Fed[i] = "F40"] = 4
  <2>1. DOMAIN Booting!Fed = 1 .. 7 /\ Booting!Fed[4] = "F40"
        /\ \A i \in 1 .. 7 : Booting!Fed[i] = "F40" => i = 4
    BY DEF Booting!Fed
  <2>2. (CHOOSE i \in DOMAIN Booting!Fed : Booting!Fed[i] = "F40") = 4
    BY <2>1
  <2>3. Booting!Dividers[4] = 4
    BY DEF Booting!Dividers
  <2> QED
    BY <2>2, <2>3
<1>5. Booting!Divided("F40", "drun") = 40000000
  BY <1>2, <1>3, <1>4 DEF Booting!Divided
<1>6. Booting!TickRate("drun") = Booting!configTICK_RATE_HZ
  BY <1>1, <1>5
  DEF Booting!TickRate, Booting!configTICK_RATE_HZ, Booting!configCPU_CLOCK_HZ
<1>7. Booting!BitRate = 500000
  BY <1>2 DEF Booting!BitRate, Booting!BitQuanta, Booting!CanTiming
<1> QED
  BY <1>3, <1>6, <1>7 DEF Booting!RatesRight

\* The places of the calls.
LEMMA StepsAre ==
    /\ Len(Booting!Steps) = 9 /\ DOMAIN Booting!Steps = 1 .. 9
    /\ Booting!Steps[1] = "clocks" /\ Booting!Steps[2] = "pins"
    /\ Booting!Steps[3] = "uart" /\ Booting!Steps[4] = "can"
    /\ Booting!Steps[5] = "InitLog" /\ Booting!Steps[6] = "LedTask"
    /\ Booting!Steps[7] = "CanTask" /\ Booting!Steps[8] = "SchedulerTask"
    /\ Booting!Steps[9] = "start"
  BY DEF Booting!Steps

\* A task that runs after all the calls finds its modules clocked by the tables,
\* its signals on pads, and its drivers initialised unless that failed.
LEMMA TasksAreProvided ==
    ASSUME pads = Booting!PadsAfter(17), step = 10,
           NEW task \in Booting!TaskNames
    PROVE  /\ Booting!ModulesClocked(task)
           /\ Booting!SignalsOnPads(task)
           /\ \A driver \in Booting!DriversOf(task) \ failed : Booting!Works(driver)
<1>1. Booting!ModulesClocked(task)
  BY ClocksAre
  DEF Booting!ModulesClocked, Booting!ModulesOf, Booting!UartInstance, Booting!CanInstance,
      Booting!Clocked, Booting!PeripheralCount, Booting!PeriphConfig1
<1>2. ASSUME NEW s \in Booting!SignalsOf(task)
      PROVE  Booting!Cardinality(Carriers(s)) = 1
  <2>1. \/ s = <<"LIN2TX", TRUE>> \/ s = <<"LIN2RX", FALSE>>
        \/ s = <<"CAN0TX", TRUE>> \/ s = <<"CAN0RX", FALSE>>
    BY DEF Booting!SignalsOf
  <2>2. CASE s = <<"LIN2TX", TRUE>>
    <3>1. s[1] = "LIN2TX" /\ s[2] = TRUE
      BY <2>2
    <3>2. OnlyPin(17, s)
      BY <3>1, PinFacts DEF OnlyPin
    <3>3. Booting!PinTable[17].drives = s[2]
      BY <3>1, PinFacts
    <3> QED
      BY <3>2, <3>3, OnePad
  <2>3. CASE s = <<"LIN2RX", FALSE>>
    <3>1. s[1] = "LIN2RX" /\ s[2] = FALSE
      BY <2>3
    <3>2. OnlyPin(1, s)
      BY <3>1, PinFacts DEF OnlyPin
    <3>3. Booting!PinTable[1].drives = s[2]
      BY <3>1, PinFacts
    <3> QED
      BY <3>2, <3>3, OnePad
  <2>4. CASE s = <<"CAN0TX", TRUE>>
    <3>1. s[1] = "CAN0TX" /\ s[2] = TRUE
      BY <2>4
    <3>2. OnlyPin(2, s)
      BY <3>1, PinFacts DEF OnlyPin
    <3>3. Booting!PinTable[2].drives = s[2]
      BY <3>1, PinFacts
    <3> QED
      BY <3>2, <3>3, OnePad
  <2>5. CASE s = <<"CAN0RX", FALSE>>
    <3>1. s[1] = "CAN0RX" /\ s[2] = FALSE
      BY <2>5
    <3>2. OnlyPin(3, s)
      BY <3>1, PinFacts DEF OnlyPin
    <3>3. Booting!PinTable[3].drives = s[2]
      BY <3>1, PinFacts
    <3> QED
      BY <3>2, <3>3, OnePad
  <2> QED
    BY <2>1, <2>2, <2>3, <2>4, <2>5
<1>3. \A driver \in Booting!DriversOf(task) : Booting!Passed(driver)
  BY StepsAre DEF Booting!DriversOf, Booting!Passed
<1>6. \A driver \in Booting!DriversOf(task) \ failed : Booting!Works(driver)
  BY <1>3 DEF Booting!Works
<1>4. Booting!LED1 \in DOMAIN pads /\ pads[Booting!LED1].drives
  <2>1. Booting!LED1 = 10
    BY DEF Booting!LED1, Booting!PortIndex
  <2> QED
    BY <2>1, PinFacts, PadsSet
<1>5. \A s \in Booting!SignalsOf(task) :
        Booting!Cardinality({i \in DOMAIN pads :
                pads[i].signal = s[1] /\ pads[i].drives = s[2]}) = 1
  BY <1>2 DEF Carriers
<1>7. Booting!SignalsOnPads(task)
  BY <1>4, <1>5, Zenon DEF Booting!SignalsOnPads
<1> QED
  BY <1>1, <1>6, <1>7

-----------------------------------------------------------------------------
(* The boot: the calls before the one main() is at have done their work, and    *)
(* the heap has paid for the tasks created so far.                              *)

\* The heap holds the four tasks and the kernel's two.
HeapSuffices ==
    3 * Booting!Bytes(Booting!StackWords("LedTask"))
      + Booting!Bytes(Booting!StackWords("CanTask")) + Booting!KernelBytes
      <= Booting!HeapSize

BootInv ==
    /\ Booting!TypeOK
    /\ \/ step <= 5 /\ tasks = {} /\ heap = 32768
       \/ step = 6 /\ tasks = {"InitLog"} /\ heap = 31168 - TcbBytes
       \/ step = 7 /\ tasks = {"InitLog", "LedTask"} /\ heap = 29568 - 2 * TcbBytes
       \/ /\ step = 8 /\ tasks = {"InitLog", "LedTask", "CanTask"}
          /\ heap = 26368 - 3 * TcbBytes
       \/ step = 9 /\ tasks = Booting!TaskNames /\ heap = 24768 - 4 * TcbBytes
       \/ step = 10 /\ tasks = Booting!TaskNames /\ heap = 23456 - 6 * TcbBytes
    /\ step > 2 => pads = Booting!PadsAfter(17)
    /\ running <=> step = 10
    /\ started # {} => running

LEMMA Costs ==
    /\ TcbBytes \in Nat /\ Booting!HeapSize = 32768
    /\ \A task \in Booting!TaskNames :
         Booting!Bytes(Booting!StackWords(task)) =
           (IF task = "CanTask" THEN 3200 ELSE 1600) + TcbBytes
    /\ Booting!KernelBytes = 1312 + 2 * TcbBytes
    /\ HeapSuffices => 6 * TcbBytes <= 23456
<1>1. TcbBytes \in Nat
  BY BootAssumption DEF Booting!TcbAssumption
<1>2. Booting!HeapSize = 32768
  BY DEF Booting!HeapSize
<1>3. \A task \in Booting!TaskNames :
         Booting!Bytes(Booting!StackWords(task)) =
           (IF task = "CanTask" THEN 3200 ELSE 1600) + TcbBytes
  BY <1>1
  DEF Booting!TaskNames, Booting!Bytes, Booting!StackWords,
      Booting!configMINIMAL_STACK_SIZE
<1>4. Booting!KernelBytes = 1312 + 2 * TcbBytes
  BY <1>1
  DEF Booting!KernelBytes, Booting!Bytes, Booting!configMINIMAL_STACK_SIZE,
      Booting!configTIMER_TASK_STACK_DEPTH
<1>5. HeapSuffices => 6 * TcbBytes <= 23456
  BY <1>1, <1>2, <1>3, <1>4 DEF HeapSuffices, Booting!TaskNames
<1> QED
  BY <1>1, <1>2, <1>3, <1>4, <1>5

\* What the heap has left after a task.
LEMMA Spent ==
    ASSUME NEW N \in Nat, NEW left \in 0 .. N, NEW cost \in Nat, left >= cost
    PROVE  left - cost \in 0 .. N
OBVIOUS

\* Nine calls.
LEMMA Counted ==
    ASSUME NEW n
    PROVE  n \in 1 .. Len(Booting!Steps) + 1 <=> n \in 1 .. 10
<1>1. Len(Booting!Steps) + 1 = 10
  BY DEF Booting!Steps
<1> QED
  BY <1>1, Zenon

LEMMA BootInit ==
    ASSUME Booting!Init
    PROVE  BootInv
<1>1. /\ step = 1 /\ configured = FALSE /\ failed = {} /\ low = {} /\ tasks = {}
      /\ running = FALSE /\ started = {}
  BY DEF Booting!Init
<1>2. heap = 32768 /\ heap \in 0 .. Booting!HeapSize
  BY Costs DEF Booting!Init
<1>3. \A index \in DOMAIN pads : pads[index].index = index
  BY DEF Booting!Init
<1>4. step \in 1 .. Len(Booting!Steps) + 1
  BY <1>1, Counted
<1>5. /\ configured \in BOOLEAN /\ running \in BOOLEAN
      /\ failed \subseteq {"uart", "can"}
      /\ low \subseteq {Booting!LED1, Booting!LED4}
      /\ tasks \subseteq Booting!TaskNames /\ started \subseteq tasks
  BY <1>1
<1>6. Booting!TypeOK
  BY <1>2, <1>3, <1>4, <1>5 DEF Booting!TypeOK
<1> QED
  BY <1>1, <1>2, <1>6 DEF BootInv

\* Where main() is at a call.
LEMMA Places ==
    ASSUME step \in 1 .. 10
    PROVE  /\ Booting!At("clocks") <=> step = 1
           /\ Booting!At("pins") <=> step = 2
           /\ Booting!At("uart") <=> step = 3
           /\ Booting!At("can") <=> step = 4
           /\ Booting!At("InitLog") <=> step = 5
           /\ Booting!At("LedTask") <=> step = 6
           /\ Booting!At("CanTask") <=> step = 7
           /\ Booting!At("SchedulerTask") <=> step = 8
           /\ Booting!At("start") <=> step = 9
<1>1. \/ step = 1 \/ step = 2 \/ step = 3 \/ step = 4 \/ step = 5 \/ step = 6
      \/ step = 7 \/ step = 8 \/ step = 9 \/ step = 10
  OBVIOUS
<1> QED
  BY <1>1, StepsAre DEF Booting!At

\* Setting the pads leaves each entry of theirs at its index.
LEMMA PadsKept ==
    ASSUME NEW index \in DOMAIN Booting!PadsAfter(17)
    PROVE  Booting!PadsAfter(17)[index].index = index
<1> DEFINE set == Booting!PadsAfter(17)
<1>1. /\ \A i \in 1 .. 17 :
           set[Booting!PinTable[i].index] = Booting!PinTable[i]
      /\ \A j \in DOMAIN set : \E i \in 1 .. 17 : j = Booting!PinTable[i].index
  BY PadsSet
<1> QED
  BY <1>1

LEMMA BootTypeKept ==
    ASSUME Booting!TypeOK, [Booting!Next]_bootVars
    PROVE  Booting!TypeOK'
<1>1. step \in 1 .. 10
  BY Counted DEF Booting!TypeOK
<1>10. heap \in 0 .. Booting!HeapSize /\ Booting!HeapSize \in Nat
  <2>1. heap \in 0 .. Booting!HeapSize
    BY DEF Booting!TypeOK
  <2>2. Booting!HeapSize \in Nat
    BY Costs
  <2> QED
    BY <2>1, <2>2
<1>9. Len(Booting!Steps) = 9
  BY StepsAre
<1>2. CASE \/ Booting!InitClocks \/ Booting!InitUart \/ Booting!InitCan
  <2>1. /\ step \in {1, 3, 4} /\ step' = step + 1
        /\ pads' = pads /\ heap' = heap
        /\ tasks' = tasks /\ running' = running /\ started' = started
    BY <1>1, <1>2, Places
    DEF Booting!InitClocks, Booting!InitUart, Booting!InitCan
  <2>2. configured' \in BOOLEAN
    BY <1>2
    DEF Booting!TypeOK, Booting!InitClocks, Booting!InitUart, Booting!InitCan
  <2>3. /\ failed' \subseteq {"uart", "can"}
        /\ low' \subseteq {Booting!LED1, Booting!LED4}
    BY <1>2
    DEF Booting!TypeOK, Booting!InitClocks, Booting!InitUart, Booting!InitCan
  <2>4. step' \in 1 .. 10
    BY <1>1, <2>1
  <2>5. step' \in 1 .. Len(Booting!Steps) + 1
    BY <1>1, <2>1, <2>4, Counted
  <2> QED
    BY <2>1, <2>2, <2>3, <2>5 DEF Booting!TypeOK
<1>3. CASE Booting!InitPins
  <2>1. pads' = Booting!PadsAfter(17)
    BY <1>3 DEF Booting!InitPins, Booting!NUM_OF_CONFIGURED_PINS
  <2>2. \A index \in DOMAIN pads' : pads'[index].index = index
    BY <2>1, PadsKept
  <2> QED
    <3>1. /\ step' \in 1 .. 10 /\ configured' = configured /\ heap' = heap
          /\ failed' = failed /\ low' = low /\ running' = running
          /\ started' = started /\ tasks' = tasks
      BY <1>1, <1>3, <1>9 DEF Booting!InitPins, Booting!At
    <3>2. step' \in 1 .. Len(Booting!Steps) + 1
      BY <1>1, <3>1, Counted
    <3> QED
      BY <2>2, <3>1, <3>2 DEF Booting!TypeOK
<1>4. ASSUME NEW task \in Booting!TaskNames, Booting!CreateTask(task)
      PROVE  Booting!TypeOK'
  <2>1. Booting!Bytes(Booting!StackWords(task)) \in Nat
    BY Costs
  <2>2. \/ heap >= Booting!Bytes(Booting!StackWords(task))
           /\ heap' = heap - Booting!Bytes(Booting!StackWords(task))
        \/ heap' = heap
    BY <1>4 DEF Booting!CreateTask
  <2>3. heap' \in 0 .. Booting!HeapSize
    BY <1>10, <2>1, <2>2, Spent, Zenon
  <2>4. /\ step' \in 1 .. 10
        /\ configured' = configured /\ pads' = pads /\ failed' = failed
        /\ low' = low /\ running' = running /\ started' = started
        /\ tasks' \in {tasks, tasks \cup {task}}
    BY <1>1, <1>4, <1>9 DEF Booting!CreateTask, Booting!At
  <2>5. step' \in 1 .. Len(Booting!Steps) + 1
    BY <2>3, <2>4, Counted
  <2> QED
    BY <2>3, <2>4, <2>5 DEF Booting!TypeOK
<1>5. CASE Booting!StartScheduler
  <2>1. /\ \/ heap >= Booting!KernelBytes /\ heap' = heap - Booting!KernelBytes
           \/ heap' = heap
        /\ running' \in {running, TRUE}
    BY <1>5 DEF Booting!StartScheduler
  <2>2. heap' \in 0 .. Booting!HeapSize
    <3>1. Booting!KernelBytes \in Nat
      BY Costs
    <3> QED
      BY <1>10, <2>1, <3>1, Spent, Zenon
  <2>3. /\ step' \in 1 .. 10
        /\ configured' = configured /\ pads' = pads /\ failed' = failed
        /\ low' = low /\ tasks' = tasks /\ started' = started
    BY <1>1, <1>5, <1>9 DEF Booting!StartScheduler, Booting!At
  <2>4. step' \in 1 .. Len(Booting!Steps) + 1
    BY <2>2, <2>3, Counted
  <2> QED
    BY <2>1, <2>2, <2>3, <2>4 DEF Booting!TypeOK
<1>6. ASSUME NEW task \in Booting!TaskNames, Booting!FirstRun(task)
      PROVE  Booting!TypeOK'
  BY <1>6 DEF Booting!FirstRun, Booting!TypeOK
<1>7. CASE UNCHANGED bootVars
  BY <1>7 DEF bootVars, Booting!TypeOK
<1> QED
  BY <1>2, <1>3, <1>4, <1>5, <1>6, <1>7 DEF Booting!Next, Booting!Main

LEMMA BootStepGood ==
    ASSUME HeapSuffices, BootInv, [Booting!Next]_bootVars
    PROVE  BootInv'
<1>0. Booting!TypeOK
  BY DEF BootInv
<1>1. step \in 1 .. 10 /\ 6 * TcbBytes <= 23456 /\ TcbBytes \in Nat
  <2>1. step \in 1 .. 10
    BY <1>0, Counted DEF Booting!TypeOK
  <2>2. 6 * TcbBytes <= 23456 /\ TcbBytes \in Nat
    BY Costs
  <2> QED
    BY <2>1, <2>2
<1>2. Booting!TypeOK'
  BY <1>0, BootTypeKept
<1>9. heap \in Nat
  <2> DEFINE size == Booting!HeapSize
  <2>1. heap \in 0 .. size
    BY <1>0 DEF Booting!TypeOK
  <2>2. size \in Nat
    BY DEF Booting!HeapSize
  <2> HIDE DEF size
  <2> QED
    BY <2>1, <2>2
<1>3. CASE \/ Booting!InitClocks \/ Booting!InitUart \/ Booting!InitCan
  <2>1. step \in {1, 3, 4} /\ step' = step + 1 /\ pads' = pads /\ heap' = heap
        /\ tasks' = tasks /\ running' = running /\ started' = started
    BY <1>1, <1>3, StepsAre
    DEF Booting!InitClocks, Booting!InitUart, Booting!InitCan, Booting!At
  <2> QED
    BY <1>2, <2>1 DEF BootInv
<1>4. CASE Booting!InitPins
  <2>1. step = 2 /\ step' = step + 1 /\ heap' = heap
        /\ tasks' = tasks /\ running' = running /\ started' = started
        /\ pads' = Booting!PadsAfter(17)
    BY <1>1, <1>4, StepsAre
    DEF Booting!InitPins, Booting!At, Booting!NUM_OF_CONFIGURED_PINS
  <2> QED
    BY <1>2, <2>1 DEF BootInv
<1>5. ASSUME NEW task \in Booting!TaskNames, Booting!CreateTask(task)
      PROVE  BootInv'
  <2>1. \/ step = 5 /\ task = "InitLog"
        \/ step = 6 /\ task = "LedTask"
        \/ step = 7 /\ task = "CanTask"
        \/ step = 8 /\ task = "SchedulerTask"
    BY <1>1, <1>5, Places DEF Booting!CreateTask, Booting!TaskNames
  <2> DEFINE cost == Booting!Bytes(Booting!StackWords(task))
  <2>2. cost = (IF task = "CanTask" THEN 3200 ELSE 1600) + TcbBytes
    BY <1>5, Costs
  <2>3. /\ heap' = heap - ((IF task = "CanTask" THEN 3200 ELSE 1600) + TcbBytes)
        /\ tasks' = tasks \cup {task}
    <3>1. \/ heap >= cost /\ heap' = heap - cost /\ tasks' = tasks \cup {task}
          \/ heap < cost
      BY <1>5 DEF Booting!CreateTask
    <3> HIDE DEF cost
    <3>2. ~(heap < cost)
      BY <1>1, <1>9, <2>1, <2>2 DEF BootInv
    <3> QED
      BY <2>2, <3>1, <3>2
  <2>4. step' = step + 1 /\ pads' = pads /\ running' = running
        /\ started' = started
    BY <1>5 DEF Booting!CreateTask
  <2> QED
    BY <1>1, <1>2, <2>1, <2>3, <2>4 DEF BootInv, Booting!TaskNames
<1>6. CASE Booting!StartScheduler
  <2>0. Booting!KernelBytes = 1312 + 2 * TcbBytes
    BY Costs
  <2>1. step = 9 /\ heap >= Booting!KernelBytes
    <3>1. step = 9
      BY <1>1, <1>6, Places DEF Booting!StartScheduler
    <3>2. heap = 24768 - 4 * TcbBytes
      BY <3>1 DEF BootInv
    <3> QED
      BY <1>1, <2>0, <3>1, <3>2
  <2>2. /\ heap' = heap - (1312 + 2 * TcbBytes) /\ running' = TRUE
        /\ step' = step + 1 /\ pads' = pads /\ tasks' = tasks
        /\ started' = started
    <3>1. ~(heap < Booting!KernelBytes)
      <4> DEFINE kernel == Booting!KernelBytes
      <4>1. heap \in Nat /\ kernel \in Nat /\ heap >= kernel
        BY <1>1, <1>9, <2>0, <2>1
      <4> HIDE DEF kernel
      <4>2. ~(heap < kernel)
        BY <4>1
      <4> QED
        BY <4>2 DEF kernel
    <3> QED
      BY <1>6, <2>0, <3>1 DEF Booting!StartScheduler
  <2> QED
    BY <1>1, <1>2, <2>1, <2>2 DEF BootInv
<1>7. ASSUME NEW task \in Booting!TaskNames, Booting!FirstRun(task)
      PROVE  BootInv'
  BY <1>2, <1>7 DEF Booting!FirstRun, BootInv
<1>8. CASE UNCHANGED bootVars
  BY <1>2, <1>8 DEF bootVars, BootInv
<1> QED
  BY <1>3, <1>4, <1>5, <1>6, <1>7, <1>8 DEF Booting!Next, Booting!Main

LEMMA ProvidedInBoot ==
    ASSUME BootInv
    PROVE  Booting!OnlyRefusedMissing
<1>1. Booting!Passed("start") => step = 10
  BY StepsAre DEF Booting!Passed, BootInv, Booting!TypeOK
<1>2. step = 10 => running /\ tasks = Booting!TaskNames
  BY DEF BootInv
<1>3. ASSUME NEW task \in started
      PROVE  /\ Booting!SignalsOnPads(task)
             /\ Booting!ModulesClocked(task)
             /\ \A driver \in Booting!DriversOf(task) \ failed :
                  Booting!Works(driver)
  <2>1. step = 10 /\ pads = Booting!PadsAfter(17) /\ task \in Booting!TaskNames
    BY DEF BootInv, Booting!TypeOK
  <2> QED
    BY <2>1, TasksAreProvided
<1> QED
  BY <1>1, <1>2, <1>3, Rates DEF Booting!OnlyRefusedMissing

\* Every variable of the boot keeps its range.
THEOREM BootTypeCorrect == Booting!Spec => []Booting!TypeOK
<1>1. Booting!Init => Booting!TypeOK
  BY BootInit DEF BootInv
<1>2. Booting!TypeOK /\ [Booting!Next]_(Booting!vars) => Booting!TypeOK'
  BY BootTypeKept DEF Booting!vars, bootVars
<1> QED
  BY <1>1, <1>2, PTL DEF Booting!Spec

\* Whichever of its calls the boot is refused, if the heap suffices all four tasks
\* are created and run, their signals on pads; and what such a task lacks of clocks,
\* rates and drivers is what was refused itself.
THEOREM BootIsOrdered ==
    ASSUME HeapSuffices
    PROVE  Booting!Spec => []Booting!OnlyRefusedMissing
<1>1. Booting!Init => BootInv
  BY BootInit
<1>2. BootInv /\ [Booting!Next]_(Booting!vars) => BootInv'
  BY BootStepGood DEF Booting!vars, bootVars
<1>3. BootInv => Booting!OnlyRefusedMissing
  BY ProvidedInBoot
<1> QED
  BY <1>1, <1>2, <1>3, PTL DEF Booting!Spec

-----------------------------------------------------------------------------
(* The whole implements each of its parts, and so keeps what they keep.    *)

\* Whatever the whole does, each part sees steps of its own or none.
THEOREM PartsAreKept ==
    AllSpec => Spec /\ Booting!Spec /\ Uart!Spec /\ Bus!Spec
<1>1. AllInit => Init /\ Booting!Init /\ Uart!Init /\ Bus!Init
  BY DEF AllInit
<1>2. [AllNext]_allVars =>
        /\ [Next]_vars
        /\ [Booting!Next]_(Booting!vars)
        /\ [Uart!Next]_(Uart!vars)
        /\ [Bus!Next]_(Bus!vars)
  BY StepsOfParts
  DEF Booting!vars, bootVars, Uart!vars, uartVars, Bus!vars, busVars
<1> QED
  BY <1>1, <1>2, PTL DEF AllSpec, Spec, Booting!Spec, Uart!Spec, Bus!Spec

\* Every variable of the four parts keeps its range.
THEOREM AllTypesCorrect == AllSpec => []AllTypeOK
<1>1. UartInv => Uart!TypeOK
  BY DEF UartInv
<1>2. Bus!Spec => []Bus!TypeOK
  <2>1. Bus!Init => BusP!IInv
    BY SameBus, BusP!InitGood
  <2>2. BusP!IInv /\ [Bus!Next]_(Bus!vars) => BusP!IInv'
    BY SameBus, BusP!StepGood DEF Bus!vars, BusP!vars
  <2>3. BusP!IInv => Bus!TypeOK
    BY SameBus DEF BusP!IInv
  <2> QED
    BY <2>1, <2>2, <2>3, PTL DEF Bus!Spec
<1>3. TypeOK /\ Booting!TypeOK /\ Uart!TypeOK /\ Bus!TypeOK => AllTypeOK
  BY DEF AllTypeOK
<1> QED
  BY <1>1, <1>2, <1>3, PartsAreKept, TypeCorrect, BootTypeCorrect,
     UartInvariance, PTL

\* In the whole, too, a task lacks nothing but what the boot was refused.
THEOREM AllOnlyRefusedMissing ==
    ASSUME HeapSuffices
    PROVE  AllSpec => []OnlyRefusedMissing
<1>1. Booting!OnlyRefusedMissing => OnlyRefusedMissing
  BY DEF OnlyRefusedMissing
<1> QED
  BY <1>1, PartsAreKept, BootIsOrdered, PTL

\* The boot log keeps its lines in the whole as well.
THEOREM AllLinesKept == AllSpec => []NoLineLost
  BY PartsAreKept, NoLineIsLost, PTL

\* COM_Task1000ms is called on time.
THEOREM AllHooksOnTime == AllSpec => HookOnTime
  BY PartsAreKept, HooksAreOnTime, PTL

\* No received byte is written over.
THEOREM AllReceivedKept == AllSpec => NothingOverwritten
<1>1. Uart!NothingOverwritten => NothingOverwritten
  BY DEF NothingOverwritten
<1> QED
  BY <1>1, PartsAreKept, ReceivedIsKept, PTL

\* Each frame is judged for what the wire has done to it.
THEOREM AllFramesJudged == AllSpec => FramesJudged
<1> DEFINE Right ==
             /\ verdict' = "accepted" =>
                  /\ Bus!Cardinality(Bus!Damage) # 1 \/ Bus!Damage = {Bus!DLC}
                  /\ frame.id \in Bus!Range(Monitored) => Bus!DLC \notin Bus!Damage
             /\ Bus!Damage = {} /\ frame.id \notin OtherIds => verdict' = "accepted"
             /\ frame.id \in OtherIds <=> verdict' = "blocked"
<1>1. Bus!Init => BusP!IInv
  BY SameBus, BusP!InitGood
<1>2. BusP!IInv /\ [Bus!Next]_(Bus!vars) => BusP!IInv'
  BY SameBus, BusP!StepGood DEF Bus!vars, BusP!vars
<1>3. BusP!Judged => Right
  <2>1. /\ BusP!Cardinality(Bus!Damage) = Bus!Cardinality(Bus!Damage)
        /\ BusP!Range(Monitored) = Bus!Range(Monitored)
    BY DEF BusP!Cardinality, Bus!Cardinality, BusP!Range, Bus!Range
  <2> QED
    BY <2>1, SameBus, SameFrames DEF BusP!Judged
<1>4. BusP!IInv /\ [Bus!Next]_(Bus!vars) =>
        [frame # Bus!NoFrame /\ frame' = Bus!NoFrame => Right]_(Bus!vars)
  BY <1>3, SameBus, SameFrames, BusP!JudgedRightly DEF Bus!vars, busVars
<1>5. Bus!Spec => Bus!FramesJudged
  BY <1>1, <1>2, <1>4, PTL DEF Bus!Spec, Bus!FramesJudged
<1>6. Bus!FramesJudged => FramesJudged
  BY DEF FramesJudged
<1> QED
  BY <1>5, <1>6, PartsAreKept, PTL

================================================================================
