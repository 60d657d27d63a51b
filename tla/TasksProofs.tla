------------------------------ MODULE TasksProofs ------------------------------
(***************************************************************************)
(* The shared UART, for every number and length of lines and every timing  *)
(* of the tasks: after the boot log no line is lost.                       *)
(***************************************************************************)
EXTENDS Tasks, TLAPS

\* A line on the wire keeps the task that prints it asleep, only two tasks
\* print, and one of them only until it deletes itself.
WireGood ==
    /\ wire \in {Nobody, "InitLog", "CanTask"}
    /\ wire # Nobody => sleep[wire] > 0
    /\ wire = "InitLog" => BootLogging

IInv ==
    /\ sleep \in [Tasks -> Int]
    /\ bootLeft \in Int
    /\ now \in Int /\ lastWakeTime \in Int
    /\ WireGood
    /\ NoLineLost

-----------------------------------------------------------------------------
\* A task that has the processor is awake.
LEMMA RunnerAwake ==
    ASSUME NEW t, NEW n, RunThenBlock(t, n)
    PROVE  /\ t \in Tasks /\ sleep[t] = 0
           /\ sleep' = [sleep EXCEPT ![t] = n]
  BY DEF RunThenBlock, MayRun, Ready, Alive

\* A line is sent, or refused while another task's line is being sent.
LEMMA PrintGood ==
    ASSUME IInv, NEW t \in {"InitLog", "CanTask"}, LogPrint(t),
           bootLeft' \in Int, t = "InitLog" => BootLogging /\ BootLogging',
           BootLogging => BootLogging', now' = now, lastWakeTime' = lastWakeTime
    PROVE  IInv'
<1>1. CASE wire = Nobody
  <2>1. PICK n \in 1 .. LineTicks : RunThenBlock(t, n)
    BY <1>1 DEF LogPrint
  <2>2. wire' = t /\ lost' = lost
    BY <1>1 DEF LogPrint
  <2>3. t \in Tasks /\ sleep' = [sleep EXCEPT ![t] = n]
    BY <2>1, RunnerAwake
  <2>4. n \in Int /\ n > 0
    BY <2>1, LinesAssumption
  <2>5. QED
    BY <2>2, <2>3, <2>4 DEF IInv, WireGood, NoLineLost, Nobody
<1>2. CASE wire # Nobody
  <2>1. RunThenBlock(t, 0) /\ wire' = wire
    BY <1>2 DEF LogPrint
  <2>2. t \in Tasks /\ sleep[t] = 0 /\ sleep' = [sleep EXCEPT ![t] = 0]
    BY <2>1, RunnerAwake
  <2>3. wire # t /\ wire \in {"InitLog", "CanTask"} /\ sleep[wire] > 0
    BY <1>2, <2>2 DEF IInv, WireGood
  <2>4. BootLogging
    BY <2>3 DEF IInv, WireGood
  <2>5. lost' = lost
    BY <1>2, <2>4 DEF LogPrint
  <2>6. QED
    BY <2>1, <2>2, <2>3, <2>4, <2>5 DEF IInv, WireGood, NoLineLost, Tasks, Nobody
<1>3. QED
  BY <1>1, <1>2

\* A step that leaves the wire alone may put any task that is awake to sleep.
LEMMA BlockGood ==
    ASSUME IInv, NEW t, NEW n \in Int, RunThenBlock(t, n), wire' = wire,
           lost' = lost, bootLeft' = bootLeft, now' = now, lastWakeTime' \in Int
    PROVE  IInv'
<1>1. t \in Tasks /\ sleep[t] = 0 /\ sleep' = [sleep EXCEPT ![t] = n]
  BY RunnerAwake
<1>2. wire # t
  BY <1>1 DEF IInv, WireGood, Tasks, Nobody
<1>3. QED
  BY <1>1, <1>2 DEF IInv, WireGood, NoLineLost, Tasks, Nobody, BootLogging

LEMMA TickGood ==
    ASSUME IInv, Tick
    PROVE  IInv'
<1>1. /\ now' \in Int /\ lastWakeTime' = lastWakeTime /\ bootLeft' = bootLeft
      /\ lost' = lost
  BY SlotsAssumption DEF Tick, IInv, countVars
<1>2. sleep' = [t \in Tasks |-> IF sleep[t] > 0 THEN sleep[t] - 1 ELSE 0]
  BY DEF Tick
<1>3. sleep' \in [Tasks -> Int]
  BY <1>2 DEF IInv
<1>4. CASE wire # Nobody /\ sleep[wire] # 1
  <2>1. wire' = wire /\ wire \in Tasks /\ sleep[wire] > 0 /\ sleep[wire] \in Int
    BY <1>4 DEF Tick, IInv, WireGood, Tasks
  <2>2. sleep'[wire] = sleep[wire] - 1 /\ sleep'[wire] > 0
    BY <1>2, <1>4, <2>1
  <2>3. QED
    BY <1>1, <1>3, <2>1, <2>2 DEF IInv, WireGood, NoLineLost, BootLogging
<1>5. CASE wire = Nobody \/ sleep[wire] = 1
  <2>1. wire' = Nobody
    BY <1>5 DEF Tick
  <2>2. QED
    BY <1>1, <1>3, <2>1 DEF IInv, WireGood, NoLineLost, Nobody
<1>6. QED
  BY <1>4, <1>5

\* The boot log ends after its last line was sent.
LEMMA EndBootLogGood ==
    ASSUME IInv, EndBootLog
    PROVE  IInv'
<1>1. /\ sleep["InitLog"] = 0 /\ sleep' = [sleep EXCEPT !["InitLog"] = 0]
      /\ wire' = wire /\ lost' = lost /\ bootLeft' = -1
      /\ now' = now /\ lastWakeTime' = lastWakeTime
  BY RunnerAwake DEF EndBootLog, DeleteSelf, slotVars
<1>2. wire # "InitLog"
  BY <1>1 DEF IInv, WireGood, Nobody
<1>3. QED
  BY <1>1, <1>2 DEF IInv, WireGood, NoLineLost, Tasks, Nobody

LEMMA InitGood ==
    ASSUME Init
    PROVE  IInv
  BY SlotsAssumption, LinesAssumption
  DEF Init, IInv, WireGood, NoLineLost, Tasks, Nobody

LEMMA StepGood ==
    ASSUME IInv, [Next]_vars
    PROVE  IInv'
<1>1. CASE BootLine
  BY <1>1, PrintGood DEF BootLine, BootLogging, IInv, slotVars
<1>2. CASE EndBootLog
  BY <1>2, EndBootLogGood
<1>3. ASSUME NEW on \in BOOLEAN, LedOutput(on), bootLeft' = bootLeft,
             now' = now, slotVars' = slotVars
      PROVE  IInv'
  <2>1. PICK n \in Int : RunThenBlock("LedTask", n)
    BY <1>3, LinesAssumption DEF LedOutput
  <2>2. wire' = wire /\ lost' = lost /\ lastWakeTime' \in Int
    BY <1>3 DEF LedOutput, slotVars, IInv
  <2>3. QED
    BY <1>3, <2>1, <2>2, BlockGood
<1>4. CASE LedStep
  BY <1>3, <1>4 DEF LedStep, LedClear, LedSet
<1>5. CASE CanLine
  BY <1>5, PrintGood DEF CanLine, BootLogging, IInv, slotVars
<1>6. CASE CanSend
  <2>1. PICK n \in 1 .. SendTicks : RunThenBlock("CanTask", n)
    BY <1>6 DEF CanSend
  <2>2. n \in Int
    BY LinesAssumption
  <2>3. /\ wire' = wire /\ lost' = lost /\ bootLeft' = bootLeft
        /\ now' = now /\ lastWakeTime' \in Int
    BY <1>6 DEF CanSend, slotVars, IInv
  <2>4. QED
    BY <2>1, <2>2, <2>3, BlockGood
<1>7. CASE CanDelay
  <2>1. /\ RunThenBlock("CanTask", 1) /\ wire' = wire /\ lost' = lost
        /\ bootLeft' = bootLeft /\ now' = now /\ lastWakeTime' \in Int
    BY <1>7 DEF CanDelay, slotVars, IInv
  <2>2. QED
    BY <2>1, BlockGood
<1>8. CASE Slot
  <2>1. /\ RunThenBlock("SchedulerTask", UntilNextSlot)
        /\ lastWakeTime' = (lastWakeTime + SlotTicks) % TickMod
        /\ wire' = wire /\ lost' = lost /\ bootLeft' = bootLeft /\ now' = now
    BY <1>8 DEF Slot, DelayUntil, logVars
  <2>2. lastWakeTime' \in Int /\ UntilNextSlot \in Int
    BY <2>1, SlotsAssumption DEF IInv, UntilNextSlot, Elapsed
  <2>3. QED
    BY <2>1, <2>2, BlockGood
<1>9. CASE Tick
  BY <1>9, TickGood
<1>10. CASE UNCHANGED vars
  BY <1>10 DEF vars, slotVars, logVars, IInv, WireGood, NoLineLost, BootLogging
<1>11. QED
  BY <1>1, <1>2, <1>4, <1>5, <1>6, <1>7, <1>8, <1>9, <1>10
  DEF Next, InitLogStep, CanStep

\* The inductive invariant.
THEOREM Invariance == Spec => []IInv
<1>1. Init => IInv
  BY InitGood
<1>2. IInv /\ [Next]_vars => IInv'
  BY StepGood
<1>3. QED
  BY <1>1, <1>2, PTL DEF Spec

\* LOG_Print loses no line once vInitLogTask has ended.
THEOREM NoLineIsLost == Spec => []NoLineLost
<1>1. IInv => NoLineLost
  BY DEF IInv
<1>2. QED
  BY <1>1, Invariance, PTL

-----------------------------------------------------------------------------
(***************************************************************************)
(* The slots of vComSchedulerTask and its counters.  While the task sleeps *)
(* it wakes at lastWakeTime; while it waits for the processor it is as far *)
(* past that as it has waited.  So what a slot takes is made up for in the *)
(* next sleep, and the calls of a hook lie whole slots apart, but for the  *)
(* wait before the first and the wait before the second.                   *)
(***************************************************************************)

\* Ticks since the last slot should have begun.
Phase(s, w) == IF s > 0 THEN SlotTicks - s ELSE SlotTicks + w

SlotsKept ==
    LET s == sleep["SchedulerTask"]
        w == waited["SchedulerTask"]
    IN  /\ s \in 0 .. SlotTicks
        /\ s > 0 => w = 0 /\ (now + s) % TickMod = lastWakeTime
        /\ s = 0 => (lastWakeTime + w) % TickMod = now
        /\ sinceHook <= cycle10ms * SlotTicks + Phase(s, w)
        /\ sinceHook >= cycle10ms * SlotTicks + Phase(s, w) - SliceTicks

\* TypeOK without the ratios.
TaskFields ==
    /\ sleep \in [Tasks -> Nat]
    /\ waited \in [Tasks -> 0 .. SliceTicks]
    /\ wire \in Tasks \cup {Nobody}
    /\ bootLeft \in -1 .. BootLines
    /\ callsLeft \in 0 .. TurnCalls
    /\ ledOn \in BOOLEAN
    /\ lost \subseteq Tasks

SlotFields ==
    /\ now \in 0 .. TickMod - 1 /\ lastWakeTime \in 0 .. TickMod - 1
    /\ cycle10ms \in 0 .. SecondSlots - 1
    /\ gComSchedulerLastCycle10ms \in 0 .. SecondSlots
    /\ gComScheduler10msCount \in 0 .. CountMod - 1
    /\ gComScheduler100msCount \in 0 .. CountMod - 1
    /\ gComScheduler1000msCount \in 0 .. CountMod - 1
    /\ sinceHook \in 0 .. HookCap

SlotInv == TaskFields /\ SlotFields /\ Ratios /\ SlotsKept

-----------------------------------------------------------------------------
(* Remainders, for every modulus.                                          *)

LEMMA Remainder ==
    ASSUME NEW m \in Nat \ {0}, NEW q \in Int, NEW r \in 0 .. m - 1
    PROVE  (q * m + r) % m = r
  OBVIOUS

LEMMA Divided ==
    ASSUME NEW m \in Nat \ {0}, NEW x \in Int
    PROVE  /\ x = m * (x \div m) + (x % m)
           /\ x % m \in 0 .. m - 1 /\ x \div m \in Int
  BY SMT

LEMMA Distribute ==
    ASSUME NEW i \in Int, NEW j \in Int, NEW k \in Int
    PROVE  (i + j) * k = i * k + j * k /\ k * i = i * k /\ i * k \in Int
  OBVIOUS

LEMMA ShiftedRemainder ==
    ASSUME NEW m \in Nat \ {0}, NEW x \in Int, NEW k \in Int
    PROVE  (x + k * m) % m = x % m
<1> DEFINE q == x \div m
           r == x % m
<1>1. q \in Int /\ r \in 0 .. m - 1 /\ x = m * q + r
  BY Divided
<1> HIDE DEF q, r
<1>2. q * m \in Int /\ k * m \in Int /\ q + k \in Int /\ r \in Int
  BY <1>1
<1>3. x = q * m + r
  BY <1>1, Distribute
<1>4. x + k * m = (q + k) * m + r
  <2>1. (q + k) * m = q * m + k * m
    BY <1>1, Distribute
  <2> QED
    BY <1>2, <1>3, <2>1
<1>5. ((q + k) * m + r) % m = r
  BY <1>1, <1>2, Remainder
<1> QED
  BY <1>4, <1>5 DEF r

LEMMA NextRemainder ==
    ASSUME NEW m \in Nat \ {0}, NEW x \in Int
    PROVE  ((x % m) + 1) % m = (x + 1) % m
<1> DEFINE q == x \div m
           r == x % m
<1>1. q \in Int /\ r \in 0 .. m - 1 /\ x = m * q + r
  BY Divided
<1> HIDE DEF q, r
<1>2. q * m \in Int /\ r + 1 \in Int /\ m * q = q * m
  BY <1>1, Distribute
<1>3. x + 1 = (r + 1) + q * m
  BY <1>1, <1>2
<1>4. ((r + 1) + q * m) % m = (r + 1) % m
  BY <1>1, <1>2, ShiftedRemainder
<1> QED
  BY <1>3, <1>4 DEF r

\* A counter that is below its modulus goes on by one, or back to zero.
LEMMA NextCount ==
    ASSUME NEW m \in Nat \ {0}, NEW c \in 0 .. m - 1
    PROVE  /\ (c + 1) % m = IF c + 1 = m THEN 0 ELSE c + 1
           /\ (c + 1) % m \in 0 .. m - 1
           /\ c % m = c
  OBVIOUS

\* A moment s ahead is s - 1 ahead once time has gone on.
LEMMA NextMoment ==
    ASSUME NEW m \in Nat \ {0}, NEW c \in 0 .. m - 1, NEW s \in Nat, s > 0
    PROVE  (((c + 1) % m) + (s - 1)) % m = (c + s) % m
<1>1. CASE c + 1 # m
  <2>1. (c + 1) % m = c + 1
    BY <1>1, NextCount
  <2>2. (c + 1) + (s - 1) = c + s
    OBVIOUS
  <2> QED
    BY <2>1, <2>2
<1>2. CASE c + 1 = m
  <2>0. (c + 1) % m = 0
    BY <1>2, NextCount
  <2>1. /\ 0 + (s - 1) = s - 1
        /\ c + s = (s - 1) + 1 * m
    BY <1>2
  <2>2. s - 1 \in Int /\ 1 \in Int
    OBVIOUS
  <2>3. ((s - 1) + 1 * m) % m = (s - 1) % m
    BY <2>2, ShiftedRemainder
  <2> QED
    BY <2>0, <2>1, <2>3
<1> QED
  BY <1>1, <1>2

\* A count n that wraps at m stands to c as k to 1, off by d.
Scaled(m, k, c, d, n) == n = (k * c + d) % m

\* A count n that stands to c as k to 1, off by d, does so after n has grown by
\* k and c by one, whichever of them wraps.
LEMMA ScaledCount ==
    ASSUME NEW m \in Nat \ {0}, NEW c \in 0 .. m - 1, NEW k \in Nat, NEW d \in Int,
           NEW n, Scaled(m, k, c, d, n)
    PROVE  /\ (n + 1) % m = (k * c + (d + 1)) % m
           /\ d + 1 = k => (n + 1) % m = (k * ((c + 1) % m) + 0) % m
<1>0. n = (k * c + d) % m
  BY DEF Scaled
<1>1. k * c \in Int /\ k * m \in Int /\ k * c + d \in Int
  BY Distribute
<1>2. (n + 1) % m = ((k * c + d) + 1) % m
  BY <1>0, <1>1, NextRemainder
<1>3. (k * c + d) + 1 = k * c + (d + 1)
  BY <1>1
<1>4. ASSUME d + 1 = k
      PROVE  (n + 1) % m = (k * ((c + 1) % m) + 0) % m
  <2>1. k * (c + 1) = k * c + k
    BY Distribute
  <2>2. (n + 1) % m = (k * (c + 1)) % m
    BY <1>1, <1>2, <1>3, <1>4, <2>1
  <2>3. CASE c + 1 = m
    <3>1. (c + 1) % m = 0 /\ k * 0 + 0 = 0
      BY <2>3, NextCount
    <3>2. (0 + k * m) % m = 0 % m
      <4>1. m \in Nat \ {0} /\ 0 \in Int /\ k \in Int
        OBVIOUS
      <4> QED
        BY <4>1, ShiftedRemainder, Zenon
    <3>3. 0 + k * m = k * (c + 1)
      BY <1>1, <2>3
    <3> QED
      BY <2>2, <3>1, <3>2, <3>3
  <2>4. CASE c + 1 # m
    <3>1. (c + 1) % m = c + 1
      BY <2>4, NextCount
    <3>2. k * (c + 1) + 0 = k * (c + 1)
      BY <1>1, <2>1
    <3> QED
      BY <2>2, <3>1, <3>2
  <2> QED
    BY <2>3, <2>4
<1> QED
  BY <1>2, <1>3, <1>4

-----------------------------------------------------------------------------
LEMMA Slots ==
    /\ SlotTicks \in Nat /\ SliceTicks \in Nat /\ SliceTicks > 0
    /\ SlotTicks > SliceTicks
    /\ TenthSlots \in Nat \ {0} /\ SecondSlots \in Nat \ {0}
    /\ SecondSlots % TenthSlots = 0
    /\ CountMod \in Nat \ {0}
    /\ TickMod \in Nat \ {0} /\ TickMod > SlotTicks + SliceTicks
    /\ SlotTicks * SecondSlots \in Nat
    /\ HookCap = SlotTicks * SecondSlots + SliceTicks + 1 /\ HookCap \in Nat
<1>1. /\ SlotTicks \in Nat /\ SliceTicks \in Nat /\ SliceTicks > 0
      /\ SlotTicks > SliceTicks /\ TenthSlots \in Nat \ {0}
      /\ CountMod \in Nat \ {0}
      /\ TickMod \in Nat \ {0} /\ TickMod > SlotTicks + SliceTicks
  BY SlotsAssumption, LinesAssumption
<1>2. PICK n \in 1 .. 10 : SecondSlots = TenthSlots * n
  BY SlotsAssumption
<1>3. SecondSlots \in Nat \ {0}
  <2>1. TenthSlots * n \in Nat /\ TenthSlots * n >= 1
    <3>1. \A i \in Nat \ {0}, j \in 1 .. 10 : i * j \in Nat /\ i * j >= 1
      OBVIOUS
    <3> QED
      BY <1>1, <3>1
  <2> QED
    BY <1>2, <2>1
<1>4. SecondSlots % TenthSlots = 0
  <2>1. 0 \in 0 .. TenthSlots - 1 /\ n \in Int
    BY <1>1
  <2>2. (n * TenthSlots + 0) % TenthSlots = 0
    BY <1>1, <2>1, Remainder
  <2>3. n * TenthSlots + 0 = TenthSlots * n
    BY <1>1, <2>1
  <2> QED
    BY <1>2, <2>2, <2>3
<1>5. \A i, j \in Nat : i * j \in Nat
  OBVIOUS
<1>6. SlotTicks * SecondSlots \in Nat
  BY <1>1, <1>3, <1>5
<1> QED
  BY <1>1, <1>3, <1>4, <1>6 DEF HookCap

LEMMA SlotInvIs ==
    SlotInv <=> TypeOK /\ SlotsKept
  BY DEF SlotInv, TypeOK, TaskFields, SlotFields

LEMMA SlotInit ==
    ASSUME Init
    PROVE  SlotInv
<1>1. TaskFields
  <2>1. LedDelay \in Nat /\ BootLines \in Nat /\ TurnCalls \in Nat
        /\ SliceTicks \in Nat
    BY LinesAssumption, Slots
  <2>2. \A t \in Tasks : (IF t = "LedTask" THEN LedDelay ELSE 0) \in Nat
    BY <2>1
  <2>3. sleep \in [Tasks -> Nat]
    BY <2>2 DEF Init
  <2>4. waited \in [Tasks -> 0 .. SliceTicks]
    BY <2>1 DEF Init
  <2>5. bootLeft \in -1 .. BootLines /\ callsLeft \in 0 .. TurnCalls
    BY <2>1 DEF Init
  <2> QED
    BY <2>3, <2>4, <2>5 DEF Init, TaskFields
<1>2. SlotFields
  <2>1. SlotTicks \in 0 .. HookCap
    <3>1. SlotTicks <= SlotTicks * SecondSlots
      <4>1. \A i \in Nat, j \in Nat \ {0} : i <= i * j
        OBVIOUS
      <4> QED
        BY <4>1, Slots
    <3> QED
      BY <3>1, Slots
  <2> QED
    BY <2>1, Slots DEF Init, SlotFields
<1>3. Ratios
  <2>1. /\ TenthSlots * 0 + (0 % TenthSlots) = 0 /\ SecondSlots * 0 + 0 = 0
        /\ 0 % CountMod = 0
    BY Slots, NextCount
  <2> QED
    BY <2>1 DEF Init, Ratios
<1>4. SlotsKept
  <2>1. 0 * SlotTicks + Phase(0, 0) = SlotTicks /\ (0 + 0) % TickMod = 0
    BY Slots, NextCount DEF Phase
  <2>2. sleep["SchedulerTask"] = 0 /\ waited["SchedulerTask"] = 0
    BY DEF Init, Tasks
  <2>3. now = 0 /\ lastWakeTime = 0 /\ cycle10ms = 0 /\ sinceHook = SlotTicks
    BY DEF Init
  <2>4. /\ 0 \in 0 .. SlotTicks /\ ~(0 > 0)
        /\ SlotTicks <= SlotTicks /\ SlotTicks >= SlotTicks - SliceTicks
    BY Slots
  <2> QED
    BY <2>1, <2>2, <2>3, <2>4, Slots DEF SlotsKept, Phase
<1> QED
  BY <1>1, <1>2, <1>3, <1>4 DEF SlotInv

\* What a step of another task does to the scheduler task: nothing.
LEMMA OtherRuns ==
    ASSUME SlotInv, NEW t \in Tasks \ {"SchedulerTask"}, NEW n \in Nat,
           RunThenBlock(t, n), UNCHANGED <<now, slotVars>>
    PROVE  /\ sleep' \in [Tasks -> Nat]
           /\ waited' \in [Tasks -> 0 .. SliceTicks]
           /\ SlotFields' /\ Ratios' /\ SlotsKept'
<1>1. /\ sleep' = [sleep EXCEPT ![t] = n] /\ waited' = [waited EXCEPT ![t] = 0]
      /\ sleep \in [Tasks -> Nat] /\ waited \in [Tasks -> 0 .. SliceTicks]
  BY DEF RunThenBlock, SlotInv, TaskFields
<1>2. /\ sleep' \in [Tasks -> Nat] /\ waited' \in [Tasks -> 0 .. SliceTicks]
      /\ sleep'["SchedulerTask"] = sleep["SchedulerTask"]
      /\ waited'["SchedulerTask"] = waited["SchedulerTask"]
  BY <1>1, Slots DEF Tasks
<1>3. SlotFields' /\ Ratios'
  BY DEF SlotInv, SlotFields, Ratios, slotVars, countVars
<1>4. SlotsKept'
  BY <1>2 DEF SlotInv, SlotsKept, Phase, slotVars, countVars
<1> QED
  BY <1>2, <1>3, <1>4

LEMMA LogPrintRuns ==
    ASSUME SlotInv, NEW t \in Tasks \ {"SchedulerTask"}, LogPrint(t),
           UNCHANGED <<now, slotVars>>, UNCHANGED ledOn,
           bootLeft' \in -1 .. BootLines, callsLeft' \in 0 .. TurnCalls
    PROVE  SlotInv'
<1>1. PICK n \in Nat : RunThenBlock(t, n)
  BY LinesAssumption DEF LogPrint
<1>2. /\ sleep' \in [Tasks -> Nat] /\ waited' \in [Tasks -> 0 .. SliceTicks]
      /\ SlotFields' /\ Ratios' /\ SlotsKept'
  BY <1>1, OtherRuns
<1>3. wire' \in Tasks \cup {Nobody} /\ lost' \subseteq Tasks
  BY DEF LogPrint, SlotInv, TaskFields
<1> QED
  BY <1>2, <1>3 DEF SlotInv, TaskFields

LEMMA TickSlots ==
    ASSUME SlotInv, Tick
    PROVE  SlotInv'
<1> DEFINE s == sleep["SchedulerTask"]
           w == waited["SchedulerTask"]
<1>0. /\ TaskFields /\ SlotFields /\ Ratios
      /\ now \in 0 .. TickMod - 1 /\ lastWakeTime \in 0 .. TickMod - 1
      /\ sinceHook \in Nat /\ cycle10ms \in 0 .. SecondSlots - 1
  BY DEF SlotInv, SlotFields
<1>1. /\ s \in 0 .. SlotTicks /\ w \in 0 .. SliceTicks
      /\ s > 0 => w = 0 /\ (now + s) % TickMod = lastWakeTime
      /\ s = 0 => (lastWakeTime + w) % TickMod = now
      /\ sinceHook <= cycle10ms * SlotTicks + Phase(s, w)
      /\ sinceHook >= cycle10ms * SlotTicks + Phase(s, w) - SliceTicks
  <2>1. w \in 0 .. SliceTicks
    BY <1>0 DEF TaskFields, Tasks
  <2>2. SlotsKept
    BY DEF SlotInv
  <2>3. s \in 0 .. SlotTicks
    BY <2>2 DEF SlotsKept
  <2>4. s > 0 => w = 0 /\ (now + s) % TickMod = lastWakeTime
    BY <2>2 DEF SlotsKept
  <2>5. s = 0 => (lastWakeTime + w) % TickMod = now
    BY <2>2 DEF SlotsKept
  <2>6. /\ sinceHook <= cycle10ms * SlotTicks + Phase(s, w)
        /\ sinceHook >= cycle10ms * SlotTicks + Phase(s, w) - SliceTicks
    BY <2>2 DEF SlotsKept
  <2> QED
    BY <2>1, <2>3, <2>4, <2>5, <2>6
<1>2. s = 0 => "SchedulerTask" \in MayRun
  BY DEF MayRun, Ready, Alive, Priority, Tasks
<1>3. s = 0 => w < SliceTicks
  BY <1>2 DEF Tick
<1>4. /\ sleep' = [t \in Tasks |-> IF sleep[t] > 0 THEN sleep[t] - 1 ELSE 0]
      /\ waited' = [t \in Tasks |->
                      IF t \in MayRun THEN waited[t] + 1 ELSE waited[t]]
      /\ now' = (now + 1) % TickMod
      /\ UNCHANGED <<bootLeft, callsLeft, lost, ledOn, lastWakeTime, countVars>>
  BY DEF Tick
<1>5. sleep' \in [Tasks -> Nat] /\ waited' \in [Tasks -> 0 .. SliceTicks]
  <2>1. \A t \in Tasks : sleep[t] \in Nat /\ waited[t] \in 0 .. SliceTicks
    BY <1>0 DEF TaskFields
  <2>2. \A t \in MayRun : t \in Tasks /\ waited[t] < SliceTicks
    BY DEF Tick, MayRun, Ready, Alive
  <2>3. \A t \in Tasks : (IF sleep[t] > 0 THEN sleep[t] - 1 ELSE 0) \in Nat
    BY <2>1
  <2>4. \A t \in Tasks :
          (IF t \in MayRun THEN waited[t] + 1 ELSE waited[t]) \in 0 .. SliceTicks
    BY <2>1, <2>2, Slots
  <2> QED
    BY <1>4, <2>3, <2>4
<1>6. /\ sleep'["SchedulerTask"] = IF s > 0 THEN s - 1 ELSE 0
      /\ s = 0 => waited'["SchedulerTask"] = w + 1
      /\ s > 0 => waited'["SchedulerTask"] = w
  <2>1. "SchedulerTask" \in Tasks
    BY DEF Tasks
  <2>2. s > 0 => "SchedulerTask" \notin MayRun
    BY DEF MayRun, Ready
  <2> QED
    BY <1>2, <1>4, <2>1, <2>2, <1>1
<1> DEFINE s2 == sleep'["SchedulerTask"]
           w2 == waited'["SchedulerTask"]
<1>7. cycle10ms * SlotTicks \in Nat
      /\ cycle10ms * SlotTicks + SlotTicks <= SlotTicks * SecondSlots
  <2>1. \A i, j, k \in Nat : i + 1 <= j => i * k \in Nat /\ i * k + k <= k * j
    <3> SUFFICES ASSUME NEW i \in Nat, NEW j \in Nat, NEW k \in Nat, i + 1 <= j
                 PROVE  i * k \in Nat /\ i * k + k <= k * j
      OBVIOUS
    <3>1. (i + 1) * k = i * k + k /\ i * k \in Nat /\ j * k = k * j
      OBVIOUS
    <3>2. (i + 1) * k <= j * k
      OBVIOUS
    <3> QED
      BY <3>1, <3>2
  <2> QED
    BY <1>0, <2>1, Slots
<1>8. Phase(s2, w2) = Phase(s, w) + 1 /\ Phase(s, w) \in Nat
      /\ Phase(s, w) + 1 <= SlotTicks + SliceTicks
  <2>1. CASE s = 0
    BY <1>1, <1>3, <1>6, <2>1, Slots DEF Phase
  <2>2. CASE s > 1
    BY <1>1, <1>6, <2>2, Slots DEF Phase
  <2>3. CASE s = 1
    BY <1>1, <1>6, <2>3, Slots DEF Phase
  <2> QED
    BY <1>1, <2>1, <2>2, <2>3
<1>9. sinceHook' = sinceHook + 1 /\ sinceHook' \in 0 .. HookCap
  <2>1. sinceHook + 1 <= HookCap - 1
    BY <1>0, <1>1, <1>7, <1>8, Slots
  <2> QED
    BY <1>0, <2>1, Slots DEF Tick, UpTo
<1>10. /\ s2 \in 0 .. SlotTicks
       /\ s2 > 0 => w2 = 0 /\ (now' + s2) % TickMod = lastWakeTime
       /\ s2 = 0 => (lastWakeTime + w2) % TickMod = now'
  <2>1. CASE s = 0
    <3>1. (lastWakeTime + (w + 1)) % TickMod = (((lastWakeTime + w) % TickMod) + 1) % TickMod
      <4>1. lastWakeTime + w \in Int /\ lastWakeTime + (w + 1) = (lastWakeTime + w) + 1
        BY <1>0, <1>1, Slots
      <4> QED
        BY <4>1, NextRemainder, Slots
    <3> QED
      <4>1. s2 = 0 /\ w2 = w + 1
        BY <1>6, <2>1
      <4>2. 0 \in 0 .. SlotTicks /\ ~(0 > 0)
        BY Slots
      <4>3. (lastWakeTime + w2) % TickMod = now'
        BY <1>1, <1>4, <2>1, <3>1, <4>1
      <4> QED
        BY <4>1, <4>2, <4>3
  <2>2. CASE s > 0
    <3>1. (now' + (s - 1)) % TickMod = (now + s) % TickMod
      <4>1. s \in Nat /\ s > 0 /\ TickMod \in Nat \ {0}
        BY <1>1, <2>2, Slots
      <4> HIDE DEF s
      <4>2. (((now + 1) % TickMod) + (s - 1)) % TickMod = (now + s) % TickMod
        BY <1>0, <4>1, NextMoment
      <4> QED
        BY <1>4, <4>2
    <3>2. s2 = s - 1 /\ w2 = 0
      BY <1>1, <1>6, <2>2
    <3>3. s2 = 0 => (lastWakeTime + 0) % TickMod = now'
      <4>1. s2 = 0 => s = 1 /\ now' = lastWakeTime
        BY <1>1, <1>4, <2>2, <3>2
      <4>2. lastWakeTime % TickMod = lastWakeTime
        BY <1>0, NextCount, Slots
      <4> QED
        BY <1>0, <4>1, <4>2
    <3> QED
      <4>1. s2 \in 0 .. SlotTicks
        BY <1>1, <2>2, <3>2, Slots
      <4> QED
        BY <1>1, <2>2, <3>1, <3>2, <3>3, <4>1
  <2> QED
    BY <1>1, <2>1, <2>2
<1>11. SlotsKept'
  <2>1. /\ sinceHook' <= cycle10ms * SlotTicks + Phase(s2, w2)
        /\ sinceHook' >= cycle10ms * SlotTicks + Phase(s2, w2) - SliceTicks
    BY <1>0, <1>1, <1>7, <1>8, <1>9, Slots
  <2>2. cycle10ms' = cycle10ms /\ lastWakeTime' = lastWakeTime
    BY <1>4 DEF countVars
  <2> HIDE DEF s, w
  <2> QED
    BY <1>10, <2>1, <2>2 DEF SlotsKept, Phase
<1>12. SlotFields' /\ Ratios'
  <2>1. now' \in 0 .. TickMod - 1
    BY <1>0, <1>4, NextCount, Slots
  <2> QED
    BY <1>0, <1>4, <1>9, <2>1 DEF SlotFields, Ratios, countVars
<1>13. TaskFields'
  BY <1>0, <1>4, <1>5 DEF TaskFields, Tick
<1> QED
  BY <1>11, <1>12, <1>13 DEF SlotInv

-----------------------------------------------------------------------------
LEMMA AddedRemainder ==
    ASSUME NEW m \in Nat \ {0}, NEW x \in Int, NEW y \in Int
    PROVE  ((x % m) + y) % m = (x + y) % m
<1> DEFINE q == x \div m
           r == x % m
<1>1. q \in Int /\ r \in 0 .. m - 1 /\ x = m * q + r
  BY Divided
<1> HIDE DEF q, r
<1>2. q * m \in Int /\ r + y \in Int /\ m * q = q * m
  BY <1>1, Distribute
<1>3. x + y = (r + y) + q * m
  BY <1>1, <1>2
<1>4. ((r + y) + q * m) % m = (r + y) % m
  BY <1>1, <1>2, ShiftedRemainder
<1> QED
  BY <1>3, <1>4 DEF r

\* The clock shows n when w ticks have passed since it showed c.
At(m, c, w, n) == n = (c + w) % m

\* The difference of two moments on the clock, whichever of them has wrapped.
LEMMA ElapsedSince ==
    ASSUME NEW m \in Nat \ {0}, NEW c \in 0 .. m - 1, NEW w \in 0 .. m - 1,
           NEW n, At(m, c, w, n)
    PROVE  /\ n \in 0 .. m - 1
           /\ (IF n >= c THEN n - c ELSE n - c + m) = w
<1>0. n = (c + w) % m
  BY DEF At
<1>1. CASE c + w < m
  <2>1. c + w \in 0 .. m - 1
    BY <1>1
  <2>2. n = c + w
    BY <1>0, <2>1, NextCount
  <2> QED
    BY <2>1, <2>2
<1>2. CASE c + w >= m
  <2>1. c + w - m \in 0 .. m - 1 /\ c + w = (c + w - m) + 1 * m
    BY <1>2
  <2>2. c + w - m \in Int /\ 1 \in Int
    OBVIOUS
  <2>3. ((c + w - m) + 1 * m) % m = (c + w - m) % m
    BY <2>2, ShiftedRemainder
  <2>4. (c + w - m) % m = c + w - m
    BY <2>1, NextCount
  <2>5. n = c + w - m
    BY <1>0, <2>1, <2>3, <2>4
  <2> QED
    BY <2>1, <2>5
<1> QED
  BY <1>1, <1>2


\* A slot has the scheduler sleep for what is left of the time to the next.
LEMMA SlotSleeps ==
    ASSUME SlotInv, DelayUntil
    PROVE  LET w == waited["SchedulerTask"]
               s2 == sleep'["SchedulerTask"]
           IN  /\ sleep["SchedulerTask"] = 0
               /\ w \in 0 .. SliceTicks
               /\ s2 = SlotTicks - w /\ s2 \in 1 .. SlotTicks
               /\ waited'["SchedulerTask"] = 0
               /\ lastWakeTime' \in 0 .. TickMod - 1
               /\ (now + s2) % TickMod = lastWakeTime'
               /\ sleep' \in [Tasks -> Nat]
               /\ waited' \in [Tasks -> 0 .. SliceTicks]
<1> DEFINE w == waited["SchedulerTask"]
<1>1. /\ sleep' = [sleep EXCEPT !["SchedulerTask"] = UntilNextSlot]
      /\ waited' = [waited EXCEPT !["SchedulerTask"] = 0]
      /\ sleep["SchedulerTask"] = 0
      /\ lastWakeTime' = (lastWakeTime + SlotTicks) % TickMod
  BY DEF DelayUntil, RunThenBlock, MayRun, Ready
<1>2. /\ sleep \in [Tasks -> Nat] /\ waited \in [Tasks -> 0 .. SliceTicks]
      /\ now \in 0 .. TickMod - 1 /\ lastWakeTime \in 0 .. TickMod - 1
  BY DEF SlotInv, TaskFields, SlotFields
<1>3. w \in 0 .. SliceTicks
  BY <1>2 DEF Tasks
<1>4. (lastWakeTime + w) % TickMod = now
  BY <1>1 DEF SlotInv, SlotsKept
<1> HIDE DEF w
<1>5. Elapsed(lastWakeTime) = w
  <2>1. w \in 0 .. TickMod - 1 /\ TickMod \in Nat \ {0}
    BY <1>3, Slots
  <2>2. (IF now >= lastWakeTime THEN now - lastWakeTime
         ELSE now - lastWakeTime + TickMod) = w
    <3>1. At(TickMod, lastWakeTime, w, now)
      BY <1>4 DEF At
    <3> QED
      BY <1>2, <2>1, <3>1, ElapsedSince
  <2> QED
    BY <2>2 DEF Elapsed
<1>6. /\ UntilNextSlot = SlotTicks - w /\ UntilNextSlot \in 1 .. SlotTicks
  BY <1>3, <1>5, Slots DEF UntilNextSlot
<1>7. sleep'["SchedulerTask"] = UntilNextSlot
  BY <1>1, <1>2 DEF Tasks
<1>8. waited'["SchedulerTask"] = 0
  BY <1>1, <1>2 DEF Tasks
<1>9. sleep' \in [Tasks -> Nat] /\ waited' \in [Tasks -> 0 .. SliceTicks]
  <2>1. UntilNextSlot \in Nat /\ 0 \in 0 .. SliceTicks
    BY <1>6, Slots
  <2> QED
    BY <1>1, <1>2, <2>1
<1>10. lastWakeTime' \in 0 .. TickMod - 1
  <2>1. lastWakeTime + SlotTicks \in Int /\ TickMod \in Nat \ {0}
    BY <1>2, Slots
  <2> QED
    BY <1>1, <2>1, Divided
<1>11. (now + (SlotTicks - w)) % TickMod = lastWakeTime'
  <2>1. /\ lastWakeTime + w \in Int /\ SlotTicks - w \in Int
        /\ TickMod \in Nat \ {0}
        /\ (lastWakeTime + w) + (SlotTicks - w) = lastWakeTime + SlotTicks
    BY <1>2, <1>3, Slots
  <2>2. (((lastWakeTime + w) % TickMod) + (SlotTicks - w)) % TickMod
          = ((lastWakeTime + w) + (SlotTicks - w)) % TickMod
    BY <2>1, AddedRemainder
  <2> QED
    BY <1>1, <1>4, <2>1, <2>2
<1> QED
  BY <1>1, <1>3, <1>6, <1>7, <1>8, <1>9, <1>10, <1>11 DEF w

\* The counters go on together, whichever of them is reset or wraps.
LEMMA SlotCounts ==
    ASSUME SlotFields, Ratios, Slot
    PROVE  /\ Ratios'
           /\ cycle10ms' \in 0 .. SecondSlots - 1
           /\ gComSchedulerLastCycle10ms' \in 0 .. SecondSlots
           /\ gComScheduler10msCount' \in 0 .. CountMod - 1
           /\ gComScheduler100msCount' \in 0 .. CountMod - 1
           /\ gComScheduler1000msCount' \in 0 .. CountMod - 1
           /\ \/ /\ cycle10ms' = cycle10ms + 1 /\ sinceHook' = sinceHook
                 /\ gComScheduler1000msCount' = gComScheduler1000msCount
              \/ /\ cycle10ms + 1 = SecondSlots
                 /\ cycle10ms' = 0 /\ sinceHook' = 0
<1> DEFINE c == cycle10ms + 1
           tens == gComScheduler10msCount
           tenths == gComScheduler100msCount
           seconds == gComScheduler1000msCount
           part == cycle10ms % TenthSlots
<1>1. /\ gComSchedulerLastCycle10ms' = c
      /\ tens' = (tens + 1) % CountMod
      /\ tenths' = IF c % TenthSlots = 0 THEN (tenths + 1) % CountMod ELSE tenths
      /\ seconds' = IF c % SecondSlots = 0 THEN (seconds + 1) % CountMod
                    ELSE seconds
      /\ sinceHook' = IF c % SecondSlots = 0 THEN 0 ELSE sinceHook
      /\ cycle10ms' = IF c % SecondSlots = 0 THEN 0 ELSE c
  BY DEF Slot, CycleAfter
<1>2. /\ cycle10ms \in 0 .. SecondSlots - 1
      /\ tens \in 0 .. CountMod - 1 /\ tenths \in 0 .. CountMod - 1
      /\ seconds \in 0 .. CountMod - 1
      /\ CountMod \in Nat \ {0}
      /\ TenthSlots \in Nat \ {0} /\ SecondSlots \in Nat \ {0}
  BY Slots DEF SlotFields
<1>3. /\ tens = (TenthSlots * tenths + part) % CountMod
      /\ tens = (SecondSlots * seconds + cycle10ms) % CountMod
  BY DEF Ratios
<1>4. /\ c \in 1 .. SecondSlots
      /\ c % SecondSlots = IF c = SecondSlots THEN 0 ELSE c
  <2>1. (cycle10ms + 1) % SecondSlots
          = IF cycle10ms + 1 = SecondSlots THEN 0 ELSE cycle10ms + 1
    BY <1>2, NextCount
  <2> QED
    BY <1>2, <2>1
<1>5. c % TenthSlots = (IF part + 1 = TenthSlots THEN 0 ELSE part + 1)
      /\ part \in 0 .. TenthSlots - 1
  <2>1. part \in 0 .. TenthSlots - 1
    BY <1>2, Divided
  <2>2. (part + 1) % TenthSlots = c % TenthSlots
    <3>1. cycle10ms \in Int
      BY <1>2
    <3> QED
      BY <1>2, <3>1, NextRemainder, Zenon
  <2> HIDE DEF part, c
  <2>3. (part + 1) % TenthSlots = IF part + 1 = TenthSlots THEN 0 ELSE part + 1
    BY <1>2, <2>1, NextCount
  <2> QED
    BY <2>1, <2>2, <2>3
<1>6. /\ \A n \in 0 .. CountMod - 1 : (n + 1) % CountMod \in 0 .. CountMod - 1
  BY <1>2, NextCount
<1>7. /\ tens' \in 0 .. CountMod - 1 /\ tenths' \in 0 .. CountMod - 1
      /\ seconds' \in 0 .. CountMod - 1
  BY <1>1, <1>2, <1>6
<1>8. /\ cycle10ms' \in 0 .. SecondSlots - 1
      /\ gComSchedulerLastCycle10ms' \in 0 .. SecondSlots
      /\ c = SecondSlots => cycle10ms' = 0 /\ sinceHook' = 0
                            /\ seconds' = (seconds + 1) % CountMod
      /\ c # SecondSlots => cycle10ms' = c /\ sinceHook' = sinceHook
                            /\ seconds' = seconds
  BY <1>1, <1>2, <1>4
<1>9. tens' = (SecondSlots * seconds' + cycle10ms') % CountMod
  <2>1. /\ (tens + 1) % CountMod
             = (SecondSlots * seconds + (cycle10ms + 1)) % CountMod
        /\ cycle10ms + 1 = SecondSlots
             => (tens + 1) % CountMod
                  = (SecondSlots * ((seconds + 1) % CountMod) + 0) % CountMod
    <3>1. /\ CountMod \in Nat \ {0} /\ seconds \in 0 .. CountMod - 1
          /\ SecondSlots \in Nat /\ cycle10ms \in Int
          /\ Scaled(CountMod, SecondSlots, seconds, cycle10ms, tens)
      BY <1>2, <1>3 DEF Scaled
    <3> HIDE DEF tens, seconds
    <3> QED
      BY <3>1, ScaledCount
  <2> HIDE DEF tens, seconds
  <2>2. CASE c = SecondSlots
    BY <1>1, <1>8, <2>1, <2>2
  <2>3. CASE c # SecondSlots
    BY <1>1, <1>8, <2>1, <2>3
  <2> QED
    BY <2>2, <2>3
<1>10. cycle10ms' % TenthSlots = c % TenthSlots
  <2>1. CASE c = SecondSlots
    <3>1. 0 % TenthSlots = 0
      BY <1>2, NextCount
    <3> QED
      BY <1>8, <2>1, <3>1, Slots
  <2>2. CASE c # SecondSlots
    BY <1>8, <2>2
  <2> QED
    BY <2>1, <2>2
<1>11. tens' = (TenthSlots * tenths' + (cycle10ms' % TenthSlots)) % CountMod
  <2> HIDE DEF tens, tenths, part, c
  <2>1. /\ (tens + 1) % CountMod = (TenthSlots * tenths + (part + 1)) % CountMod
        /\ part + 1 = TenthSlots
             => (tens + 1) % CountMod
                  = (TenthSlots * ((tenths + 1) % CountMod) + 0) % CountMod
    <3>1. /\ CountMod \in Nat \ {0} /\ tenths \in 0 .. CountMod - 1
          /\ TenthSlots \in Nat /\ part \in Int
          /\ Scaled(CountMod, TenthSlots, tenths, part, tens)
      BY <1>2, <1>3, <1>5 DEF Scaled
    <3> QED
      BY <3>1, ScaledCount
  <2>2. CASE part + 1 = TenthSlots
    <3>1. c % TenthSlots = 0
      BY <1>5, <2>2
    <3> QED
      BY <1>1, <1>10, <2>1, <2>2, <3>1
  <2>3. CASE part + 1 # TenthSlots
    <3>1. c % TenthSlots = part + 1 /\ part + 1 # 0
      BY <1>5, <2>3
    <3> QED
      BY <1>1, <1>10, <2>1, <2>3, <3>1
  <2> QED
    BY <2>2, <2>3
<1>12. Ratios'
  BY <1>9, <1>11 DEF Ratios
<1> QED
  BY <1>7, <1>8, <1>12

\* A slot that does not call the hook adds a slot to the bound on the time since
\* it was called, and has the scheduler sleep for one; a slot that does begins
\* anew.
LEMMA SlotRuns ==
    ASSUME SlotInv, Slot
    PROVE  /\ SlotInv'
           /\ gComScheduler1000msCount' # gComScheduler1000msCount
                => sinceHook - SlotTicks * SecondSlots \in -SliceTicks .. SliceTicks
<1> DEFINE w == waited["SchedulerTask"]
           s2 == sleep'["SchedulerTask"]
<1>1. /\ SlotFields /\ Ratios /\ TaskFields /\ DelayUntil /\ now' = now
      /\ UNCHANGED <<ledOn, wire, bootLeft, callsLeft, lost>>
      /\ cycle10ms \in 0 .. SecondSlots - 1 /\ sinceHook \in 0 .. HookCap
  BY DEF SlotInv, SlotFields, Slot, logVars
<1>2. /\ sleep["SchedulerTask"] = 0
      /\ w \in 0 .. SliceTicks
      /\ s2 = SlotTicks - w /\ s2 \in 1 .. SlotTicks
      /\ waited'["SchedulerTask"] = 0
      /\ lastWakeTime' \in 0 .. TickMod - 1
      /\ (now + s2) % TickMod = lastWakeTime'
      /\ sleep' \in [Tasks -> Nat]
      /\ waited' \in [Tasks -> 0 .. SliceTicks]
  BY <1>1, SlotSleeps
<1>3. /\ Ratios'
      /\ cycle10ms' \in 0 .. SecondSlots - 1
      /\ gComSchedulerLastCycle10ms' \in 0 .. SecondSlots
      /\ gComScheduler10msCount' \in 0 .. CountMod - 1
      /\ gComScheduler100msCount' \in 0 .. CountMod - 1
      /\ gComScheduler1000msCount' \in 0 .. CountMod - 1
      /\ \/ /\ cycle10ms' = cycle10ms + 1 /\ sinceHook' = sinceHook
            /\ gComScheduler1000msCount' = gComScheduler1000msCount
         \/ /\ cycle10ms + 1 = SecondSlots
            /\ cycle10ms' = 0 /\ sinceHook' = 0
  BY <1>1, SlotCounts
<1>4. /\ sinceHook <= cycle10ms * SlotTicks + Phase(0, w)
      /\ sinceHook >= cycle10ms * SlotTicks + Phase(0, w) - SliceTicks
  BY <1>2 DEF SlotInv, SlotsKept
<1> HIDE DEF w, s2
<1>5. Phase(0, w) = SlotTicks + w /\ Phase(s2, 0) = w
  BY <1>2, Slots DEF Phase
<1>6. /\ (cycle10ms + 1) * SlotTicks = cycle10ms * SlotTicks + SlotTicks
      /\ cycle10ms * SlotTicks \in Int
      /\ cycle10ms + 1 = SecondSlots
           => (cycle10ms + 1) * SlotTicks = SlotTicks * SecondSlots
  <2>1. cycle10ms \in Int /\ 1 \in Int /\ SlotTicks \in Int
        /\ SecondSlots \in Int /\ 1 * SlotTicks = SlotTicks
    BY <1>1, Slots
  <2>2. (cycle10ms + 1) * SlotTicks = cycle10ms * SlotTicks + 1 * SlotTicks
        /\ cycle10ms * SlotTicks \in Int
    BY <2>1, Distribute
  <2>3. SecondSlots * SlotTicks = SlotTicks * SecondSlots
    BY <2>1, Distribute
  <2> QED
    BY <2>1, <2>2, <2>3
<1>7. /\ sinceHook <= (cycle10ms + 1) * SlotTicks + w
      /\ sinceHook >= (cycle10ms + 1) * SlotTicks + w - SliceTicks
  BY <1>1, <1>2, <1>4, <1>5, <1>6, Slots
<1>8. /\ sinceHook' <= cycle10ms' * SlotTicks + Phase(s2, 0)
      /\ sinceHook' >= cycle10ms' * SlotTicks + Phase(s2, 0) - SliceTicks
      /\ sinceHook' \in 0 .. HookCap
  <2>1. CASE cycle10ms' = cycle10ms + 1 /\ sinceHook' = sinceHook
    BY <1>1, <1>5, <1>7, <2>1
  <2>2. CASE cycle10ms' = 0 /\ sinceHook' = 0
    <3>1. /\ 0 <= 0 * SlotTicks + w /\ 0 >= 0 * SlotTicks + w - SliceTicks
          /\ 0 \in 0 .. HookCap
      BY <1>2, Slots
    <3>2. /\ sinceHook' <= cycle10ms' * SlotTicks + w
          /\ sinceHook' >= cycle10ms' * SlotTicks + w - SliceTicks
          /\ sinceHook' \in 0 .. HookCap
      BY <2>2, <3>1
    <3> QED
      BY <1>5, <3>2
  <2> QED
    BY <1>3, <2>1, <2>2
<1>9. SlotsKept'
  <2>1. s2 \in 0 .. SlotTicks /\ s2 > 0
    BY <1>2
  <2>2. waited'["SchedulerTask"] = 0 /\ (now' + s2) % TickMod = lastWakeTime'
    BY <1>1, <1>2
  <2> QED
    BY <1>8, <2>1, <2>2 DEF SlotsKept, Phase, s2
<1>10. SlotFields'
  BY <1>1, <1>2, <1>3, <1>8 DEF SlotFields
<1>11. TaskFields'
  BY <1>1, <1>2 DEF TaskFields
<1>12. SlotInv'
  BY <1>3, <1>9, <1>10, <1>11 DEF SlotInv
<1>13. ASSUME gComScheduler1000msCount' # gComScheduler1000msCount
       PROVE  sinceHook - SlotTicks * SecondSlots \in -SliceTicks .. SliceTicks
  <2>1. (cycle10ms + 1) * SlotTicks = SlotTicks * SecondSlots
    BY <1>3, <1>6, <1>13
  <2>2. /\ sinceHook <= SlotTicks * SecondSlots + w
        /\ sinceHook >= SlotTicks * SecondSlots + w - SliceTicks
    BY <1>7, <2>1
  <2> QED
    BY <1>1, <1>2, <2>2, Slots
<1> QED
  BY <1>12, <1>13

LEMMA SlotStep ==
    ASSUME SlotInv, [Next]_vars
    PROVE  SlotInv'
<1>1. /\ SlotFields /\ Ratios /\ TaskFields /\ SlotsKept
      /\ bootLeft \in -1 .. BootLines /\ callsLeft \in 0 .. TurnCalls
      /\ BootLines \in Nat /\ TurnCalls \in Nat
      /\ LedDelay \in Nat /\ LedDelay \div 4 \in Nat /\ SendTicks \in Nat
  BY LinesAssumption DEF SlotInv, TaskFields
<1>2. CASE BootLine
  <2>1. bootLeft' \in -1 .. BootLines /\ callsLeft' \in 0 .. TurnCalls
    BY <1>1, <1>2 DEF BootLine
  <2> QED
    BY <1>2, <2>1, LogPrintRuns DEF BootLine, Tasks
<1>3. CASE EndBootLog
  <2>1. /\ sleep' \in [Tasks -> Nat] /\ waited' \in [Tasks -> 0 .. SliceTicks]
        /\ SlotFields' /\ Ratios' /\ SlotsKept'
    BY <1>3, OtherRuns DEF EndBootLog, Tasks
  <2>2. bootLeft' \in -1 .. BootLines
    BY <1>1, <1>3 DEF EndBootLog, DeleteSelf
  <2> QED
    BY <1>1, <1>3, <2>1, <2>2 DEF SlotInv, TaskFields, EndBootLog
<1>4. ASSUME NEW on \in BOOLEAN, LedOutput(on),
             UNCHANGED <<bootLeft, callsLeft, now, slotVars>>
      PROVE  SlotInv'
  <2>1. PICK n \in Nat : RunThenBlock("LedTask", n)
    BY <1>1, <1>4 DEF LedOutput
  <2>2. /\ sleep' \in [Tasks -> Nat] /\ waited' \in [Tasks -> 0 .. SliceTicks]
        /\ SlotFields' /\ Ratios' /\ SlotsKept'
    BY <1>4, <2>1, OtherRuns DEF Tasks
  <2> QED
    BY <1>1, <1>4, <2>2 DEF SlotInv, TaskFields, LedOutput
<1>5. CASE LedStep
  BY <1>4, <1>5 DEF LedStep, LedClear, LedSet
<1>6. CASE CanLine
  <2>1. bootLeft' \in -1 .. BootLines /\ callsLeft' \in 0 .. TurnCalls
    BY <1>1, <1>6 DEF CanLine
  <2> QED
    BY <1>6, <2>1, LogPrintRuns DEF CanLine, Tasks
<1>7. ASSUME NEW n \in Nat, RunThenBlock("CanTask", n),
             callsLeft' \in 0 .. TurnCalls,
             UNCHANGED <<wire, bootLeft, lost, ledOn, now, slotVars>>
      PROVE  SlotInv'
  <2>1. /\ sleep' \in [Tasks -> Nat] /\ waited' \in [Tasks -> 0 .. SliceTicks]
        /\ SlotFields' /\ Ratios' /\ SlotsKept'
    BY <1>7, OtherRuns DEF Tasks
  <2> QED
    BY <1>1, <1>7, <2>1 DEF SlotInv, TaskFields
<1>8. CASE CanSend
  <2>1. PICK n \in 1 .. SendTicks : RunThenBlock("CanTask", n)
    BY <1>8 DEF CanSend
  <2>2. n \in Nat /\ callsLeft' \in 0 .. TurnCalls
    BY <1>1, <1>8 DEF CanSend
  <2> QED
    BY <1>7, <1>8, <2>1, <2>2 DEF CanSend
<1>9. CASE CanDelay
  <2>1. callsLeft' \in 0 .. TurnCalls /\ RunThenBlock("CanTask", 1)
    BY <1>1, <1>9 DEF CanDelay
  <2> QED
    BY <1>7, <1>9, <2>1 DEF CanDelay
<1>10. CASE Slot
  BY <1>10, SlotRuns
<1>11. CASE Tick
  BY <1>11, TickSlots
<1>12. CASE UNCHANGED vars
  BY <1>12 DEF vars, slotVars, countVars, logVars, SlotInv, TaskFields,
     SlotFields, Ratios, SlotsKept, Phase
<1> QED
  BY <1>2, <1>3, <1>5, <1>6, <1>8, <1>9, <1>10, <1>11, <1>12
  DEF Next, InitLogStep, CanStep

\* The counters of vComSchedulerTask keep their ratios, and the task is never
\* further from its last wake time than a slot and a slice.
THEOREM SlotInvariance == Spec => []SlotInv
<1>1. Init => SlotInv
  BY SlotInit
<1>2. SlotInv /\ [Next]_vars => SlotInv'
  BY SlotStep
<1> QED
  BY <1>1, <1>2, PTL DEF Spec

\* Every variable keeps its range, and the three counters of the scheduler keep
\* the ratios of their periods, the resets of cycle10ms and the wrap of every
\* counter included.
THEOREM TypeCorrect == Spec => []TypeOK
<1>1. SlotInv => TypeOK
  BY SlotInvIs
<1> QED
  BY <1>1, SlotInvariance, PTL

\* Between two calls of COM_Task1000ms lie SecondSlots slots, but for one wait
\* for the processor, for every length of a slot and every load of the processor
\* that leaves the task its turn.
THEOREM HooksAreOnTime == Spec => HookOnTime
<1> DEFINE Step == gComScheduler1000msCount' # gComScheduler1000msCount
                     => sinceHook - SlotTicks * SecondSlots
                          \in -SliceTicks .. SliceTicks
<1>1. SlotInv /\ [Next]_vars => Step
  <2> SUFFICES ASSUME SlotInv, [Next]_vars,
                      gComScheduler1000msCount' # gComScheduler1000msCount
               PROVE  Step
    OBVIOUS
  <2>1. CASE Slot
    BY <2>1, SlotRuns
  <2>2. CASE UNCHANGED slotVars \/ Tick \/ UNCHANGED vars
    BY <2>2 DEF slotVars, countVars, Tick, vars
  <2> QED
    BY <2>1, <2>2 DEF Next, InitLogStep, LedStep, CanStep, BootLine, EndBootLog,
       LedClear, LedSet, CanLine, CanSend, CanDelay
<1> QED
  BY <1>1, SlotInvariance, PTL DEF Spec, HookOnTime

================================================================================
