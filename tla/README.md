# ECU6 gateway: verification project

TLA+ models of the CAN gateway ECU6 of the *Automotive Cluster* (MPC5748G,
FreeRTOS), the TLC configurations that check them on small instances, and
proofs, checked by TLAPS, of the safety properties for all values of the
constants. Paths below are relative to `src/`.

## 1. The system

ECU6 listens to the status messages of five other nodes, supervises them
(checksum, alive counter, timeout), reports the result every 100 ms in
`GatewayStatus` (0x601), and serves an over-the-air update protocol (request
0x650, response 0x651) guarded by a seed/key security access with a lockout.

`main.c` creates four tasks: the boot log, the LED, the CAN task and a
scheduler task. The last three share the highest priority in use (idle + 3).
Preemption and time slicing are on, the tick is 1000 Hz and `TickType_t` has 32
bits. **All state of `com_gateway.c` is touched by the CAN task alone**, so its
handlers run to completion with respect to each other; what does interleave
with them is the CAN interrupt (it fills mailboxes at any moment) and the tick.
The tasks share the processor, the UART of the log, and nothing else.

| Component | State | Operations | Talks to | Module |
| --- | --- | --- | --- | --- |
| OTA handler and security access, `Sources/services/com_gateway.c` | `security*`, `ota*`, `activeSwVersion` | `OTA_HandleRequestMessage`; the status builder polls the lockout and moves VERIFYING on | reads the tick | `OtaSecurity` |
| Supervision, same file | `rxMonitors[]`, `gatewayRxMask`, `blockedMsgCnt`, `gatewayState` | `COM_GatewayHandleRxMessage`, `COM_GatewayCheckTimeouts`, `COM_GatewayBuildStatusMessage` | reads the tick, logs | `ComSupervision`, `Frames` |
| CAN task and mailboxes, `Sources/drivers/can.c` | driver transfers, `gatewayRxMessages[]`, `*Armed` flags, `lastGatewayTxTick` | loop of `vCANTask`: visit 5 node mailboxes, the OTA mailbox, the catch-all; poll timeouts; every 100 ms build and send status; `vTaskDelay(1)` | calls every operation of `com_gateway.c` | `CanTask`, `GatewayLoop`, `StatusPublication` |
| Scheduler task, `ms_scheduler.c` | slot counters | counts 10/100/1000 ms slots | the kernel | `Tasks` |
| Logger and boot log, `logger.c` | the UART | `LOG_Print` blocks its caller up to 200 ms; `vInitLogTask` logs seven lines and ends | called from two tasks | `Tasks` |
| LED, `gpio.c` | the pin | sets and clears it | the kernel | `Tasks`, `Boot` |
| UART reception, `uart.c` | `buffer`, `bufferIdx` | `rxCallback` | the driver | `UartReceive` |
| Boot, `main.c`, `system_init.c` | what was brought up | one call after the other | the generated tables | `Boot` |
| Generated configuration, `Generated_Code/` | none | tables | read by the drivers | `Board` |
| Panel bridge, `CANOE/ECU6_Panel_Bridge.can` | sequence, last seed, checksum, what it shows | nine buttons, two receive handlers | the bus | `PanelBridge`, `Frames` |
| Node simulators, `CANOE/ECU1.can` .. `ECU5.can` | alive counter | one frame each 100 ms | the bus | `GatewayLoop`, `Frames` |

What is hard here, each located in `PROJECT.json` under `hazards`:

- *The interrupt against the task.* A mailbox is started again before the frame
  taken from it is handled; requests and frames arrive at any point of the loop,
  and a burst brings two frames of a node to the task in the wrong order.
- *Time.* Timeouts, the lockout and the transmit period are unsigned differences
  of a wrapping counter, looked at only when the loop comes by, and the loop is
  held up by its own log.
- *Long protocol sequences.* Only START looks at `securityUnlocked`; DATA, END
  and ACTIVATE trust that every path which locks left the session first.
- *The status frame as an actor.* Building it changes the OTA state and the
  lockout, before its transmission succeeds or fails.
- *One UART, two tasks that log.* The driver refuses the second line, and
  `LOG_Print` ignores that.
- *A lossy bus between tester and ECU6*, with a seed that is issued only once.
- *Tables written apart from each other.* Lengths, dividers, pads and checksums
  must agree between files nobody compares.

### What makes each component correct

- OTA: no session makes progress while locked; a lockout is served in full and
  then ends; failures are remembered; what is activated is what was verified and
  published; a NACK never moves anything forward.
- Supervision: the faults agree with what arrived from each node - silence,
  repeated alive values, refused frames - and the reported state with the faults.
- CAN task: no received frame is lost in software or handled twice, every
  mailbox reopens, status frames neither come in bursts nor stay away, the timeouts are polled
  within a bounded time, and no order of frames makes a counting node look frozen.
- Tasks: slots do not drift, counters keep their ratios, the boot log ends, and
  after it no line is lost.
- Boot and tables: the tables fit each other and what the tasks use, and a call that
  is refused, which the boot ignores, takes nothing else with it.
- Frames and tester: every implementation of the checksum agrees, a damaged byte
  is noticed; the panel shows the state ECU6 is in unless a frame was lost, and
  right intentions are refused only after a loss.

## 2. The modules

### `OtaSecurity` (with `UpdateSession`, `MCOtaSecurity`)

`OTA_HandleRequestMessage` and everything it calls. Each branch that ends in a
response is one action (`RejectFrame` ... `Abort`), because a request is handled
to completion. The static helpers are operators on the record `sec` (all
`security*` variables) or `ota` (all `ota*` variables), so a chain of calls in the
code is a chain of applications: `ResetUnlock(RecordFailure(Settled))` is what a
wrong key does. `Settled` is `Security_IsLockoutActive`, which every known
command runs first. `PublishStatus` is the part of the status builder that
touches this state, `Tick` the kernel tick.

`lastOtaCommand`, `otaCalculatedChecksum`, `otaExpectedAuth` and
`otaReceivedAuth` are written and never read again, and are left out.
`lockoutAge` is a history variable: the real age of the lockout, against which
the tick arithmetic of the code is judged.

`UpdateSession` is the abstract specification: a version appears only at the end
of a session that was authorised, opened, filled, checked and offered.
`OtaSecurity` implements it under `Session == INSTANCE UpdateSession WITH ...`:
the phase is `closed` while security is locked, and otherwise read off the OTA
state; the image is given up with the session.

### `ComSupervision` (with `MCComSupervision`)

`COM_GatewayHandleRxMessage` is split by outcome: `BlockUnknown`, `RefuseFrame`,
`AcceptFrame`. A frame is reduced to its sender, whether its checksum and length
hold, and its alive value; how the checksum is computed is in `Frames`.
`CheckTimeouts` and `BuildStatus` are the two other entry points; both poll the
timeouts. Logging and the ticks that throttle it are left out: they change only
the log. (The two constants of the blocked-frame log,
`COM_BLOCKED_LOG_INITIAL_LIMIT` and `COM_BLOCKED_LOG_PERIOD`, are used in the
source and defined nowhere in it.) `history` records for each node what really
arrived; the monitors are judged by it.

### `CanTask` (with `MCCanTask`)

The loop of `vCANTask`, one action per step an interrupt may come between, for
any number of node mailboxes. `Arrive` is the hardware: a frame goes to the first
mailbox that listens and matches, or is lost. `FailTransfer` is a transfer that
ends in an error. Both are external, modelled from how `can.c` uses the driver:
in particular `CAN_Receive` is taken to refuse only a busy mailbox, and the order
of matching to be that of the mailbox numbers. What handlers do with a frame is
in the modules above; here a frame has a `fate`. The two frames of the node are
interchangeable, so `FrameSymmetry` is sound; the run that uses it checks no liveness.

`LookAtPeriod`, `Stamp`, `BuildStatus` and `SendStatus` are four steps, and ticks may
pass before each of them: the code stamps `lastGatewayTxTick` (`can.c:410`) before the
builder, which polls the timeouts and logs what it finds, up to five lines of some
60 ms. A frame held up there is late, and the next one follows it by less than the
period, by a few milliseconds in the worst case. The distance of two frames has
therefore no useful lower bound. What holds, and what `StatusNotEarly` says, is that
the hold-ups do not add up: any *n* + 1 frames in a row take *n* periods less one
turn of the loop, or more. The history variable `ahead` measures it: each frame puts
it up by a period, each tick brings it down. `StatusNotLate` measures from sending to
sending too. The tick itself matters only by its difference to
`lastGatewayTxTick`, so `TimeView` of the run leaves it out.

### `GatewayLoop` (with `MCGatewayLoop`)

The same loop composed with the supervision it drives, in time. The helpers of
`ComSupervision` are taken over with `Sup == INSTANCE ComSupervision WITH ...`:
its monitors and mask are this module's, the rest of its state has no
influence on the loop. A step that calls `LOG_Print` or `CAN_SendMessage` gives
the task `held` ticks it may be blocked for, at most `LogTicks` for each line that the
code prints there (`AcceptLines`, `NewTimeouts`, ...), `NoticeTicks` and `FirstTicks` for
the two lines whose length is told apart; between such calls it
computes, which takes no tick. A node is *regular* if it sends with its period
and counts, as the simulators do, or sends anything at any time; any
subset may be regular, at any point of their periods. Here the order in which
frames are handled, and the ticks at which handlers and polls run, are those that
the loop produces, not arbitrary ones. No transfer ends in an error here
(`can.c:308-311` and its two siblings are in `CanTask` only): such a mailbox takes no frame until
the next turn starts it again, so frames that would wait in it go to the catch-all or
are lost. Only differences of ticks
matter to it, and equality of a node's alive values, and neither of what the monitor
will overwrite before it reads it again; `TimeView` takes states that differ in no
more than that for one.

### `StatusPublication` (with `MCStatusPublication`) and `PanelBridge` (with `MCPanelBridge`)

`StatusPublication` is `OtaSecurity` composed with the transmission of
`GatewayStatus`, which may fail after the builder already changed the OTA state.
`PanelBridge` extends it by the tester: the nine buttons of the panel, each of
which sends one request, a bus that may lose the request, the response and the
status frame, and the two handlers that read them. `seedMissed`, `missed` and
`sentChunks` are history. One request is on its way at a time. `PanelView` leaves
out the last response and the last status frame, which no guard, and no property
beyond the step that sends them, reads.

### `Tasks`, `UartReceive`, `Boot` over `Board`, `Frames` (with `Platform`, `MCPlatform`)

`Tasks` is the four tasks on one processor: `MayRun` is the kernel's choice
(external: highest priority first, time slices among equals), `RunThenBlock` a
step of a task that ends in a blocking call. `LogPrint` is `LOG_Print` on the
shared UART: it sends and blocks, or is refused at once. `Slot` is one turn of
`vComSchedulerTask` with its three hooks; `vCANTask` is reduced to
what it does with time: lines, frames, a delay.

`UartReceive` is `rxCallback` with its index and buffer. Nothing in the program
starts a reception; the model does, at the first byte.

`Board` holds the generated tables, reduced to what the program relies on: which
modules are clocked in which mode, the divider chain from oscillator to tick and bit
rate, which pad carries which signal, stack sizes and heap. `Boot` is `main()`
call by call over these tables, every result the program ignores left open, and
then the first run of each task, which needs its modules, pads and drivers. `failed` holds
the drivers whose initialisation was refused. The program goes on and uses such a device
all the same, so no property says that it does not; `OnlyRefusedMissing` says
that nothing else is missing then.

`Frames` is one frame from its sender to its receiver: the checksum as the
simulators, the panel bridge, the status builder and the response builder
compute it, a bus that damages up to `MaxDamage` bytes or cuts the frame off,
and the two receivers with their different tests.

The four share no state. `Platform` puts them side by side for one run: a variable
chosen at the start says which of them moves, so their states add up. `MCPlatform`
gives it the values TLC needs.

### `OtaSecurityProofs`, `ComSupervisionProofs`, `CanTaskProofs`, `GatewayLoopProofs`, `PanelBridgeProofs`, `TasksProofs`, `FramesProofs`, `PlatformProofs`

The theorems (section 5). `PlatformProofs` holds those of `Boot` and `UartReceive`,
and of the four parts together.

A definition named `Faulty...` stands before the one it differs from by one
plausible mistake (a dropped reset, a wrong comparison). No specification uses
it. Put in place of the right one it makes the property that `PROJECT.json`
names for it fail, which shows that the property depends on that code.

## 3. The runs

| Run | What it asks | Outcome |
| --- | --- | --- |
| `Ota` | security access, lockout and update session under every order of requests, status frames and ticks; refinement of `UpdateSession`; every lockout and verification ends | holds |
| `ComMonitor` | one node: timeout, checksum and alive verdicts against what arrived; silence is reported | holds |
| `ComStatus` | two nodes: the state in each status frame is the aggregate of their real condition | holds |
| `CanMailboxes` | custody of every received frame; a node's frame is lost only in a burst or after an error; status frames neither in bursts nor too far apart | holds |
| `CanAttended` | every received frame is handled, every mailbox reopens | holds |
| `Gateway` | the loop with a log that blocks: bounded time between two polls, no false alive freeze | holds |
| `Panel` | tester and ECU6 over a lossy bus: the state shown, the reason of every failure, chunks missing or doubled, VERIFYING before READY | holds |
| `Platform` | boot, tasks, reception, frames | holds |
| `ComFreezeClears` | a changed alive value clears the freeze fault | **violated** |
| `CanRequests` | the OTA mailbox receives the requests | **violated** |
| `StatusShownAlways` | VERIFYING is on the bus before READY | **violated** |
| `GatewayHeldUp` | a node that sends on time is never reported as timed out | **violated** |

### Where the code and its documents differ

- `ComFreezeClears`: after a freeze and then a timeout, the first valid frame only
  sets a new baseline; `aliveError` stays until the alive value changes once
  more. The comment in `COM_UpdateAliveMonitor` and the recovery row of
  `design.md` say otherwise.
- `CanRequests`: the OTA mailbox is started again only after the response was
  sent. A request that reaches ECU6 between the response and that call goes to
  the catch-all mailbox, is counted as blocked and is never answered.
  `design.md` says that 0x650 is received by the OTA mailbox. The property
  already excuses bursts, failed transfers and requests sent before the response.
- `StatusShownAlways`: the builder leaves VERIFYING when the frame is *built*. If
  `CAN_SendMessage` fails, no frame on the bus ever said VERIFYING, though the
  comment in the builder says it stays visible for one frame.
- `GatewayHeldUp`: `lastRxTick` is when a frame was handled, not when it came. A
  line of the log takes 50 to 90 ms at 9600 baud; after a few lines the frames of
  a punctual node wait in their mailboxes while the builder polls the timeouts,
  and the node is flagged. `design.md` calls a timeout a missing message.

Seen while modelling, without a run of their own:

- *A line lost during the boot log.* While `vInitLogTask` is sending, a line of the
  CAN task is refused and not tried again (`logger.c:27`), whereas `design.md:84`
  says that the timeout "logs the event". `NoLineLost` therefore begins where the
  boot log ends.
- *The last cycle.* `gComSchedulerLastCycle10ms` is recorded before the counter is
  reset (`ms_scheduler.c:44`), so it reaches 100; `scheduler_evidence.cmm:16` says
  that it rolls 1..99. The type invariant allows it.
- *LED4.* `can_init` clears PC4, but pad 36 is not in the pin table, so its output
  is never enabled; `requirements_status.md:96` lists the LED as a sign of success.
- *The boot log.* `vInitLogTask` prints "CAN_INIT completed" and "UART_INIT completed"
  (`logger.c:39-40`) whatever `CAN_Init` and `UART_Init` have returned, and `vCANTask`
  uses a controller that was not initialised. Nothing in the repository says what
  should happen then.
- *Consecutive attempts.* `design.md` speaks of consecutive wrong attempts, while
  an accepted DATA frame between two wrong authentication bytes does not reset the
  streak; only the right key or a served lockout does, which is what
  `FailuresRemembered` states of the code.

What the checksums do not promise, and no document says they do: two wrong bytes
of a frame may cancel; two chunks of an image lost or doubled cancel too; all
five monitored identifiers have the low byte 0x01, so a frame under the wrong one
of them passes. If the response to ACTIVATE is lost and the tester repeats the
command, it gets a NACK and FAILED although the version has advanced.

## 4. Bounds and fairness

The limits of the code (256-byte buffer, 300 and 3000 ticks, 32-bit counter) are
constants; TLC gives them the smallest values at which all cases happen, the
proofs cover all others.

- *Bytes* are two bits wide, one bit in `Panel`. The constants that are XORed keep
  their low bits, so right and wrong keys, authentication bytes and checksums all
  occur, the version wraps and the counters saturate.
- *Failure limit* 2 in `Ota` and `Panel` (the code: 3): a failure that locks out and
  one that does not.
- *Buffer and payload*: two bytes each in `Ota`: frames that fit, fill the rest, or
  overflow after an accepted one. In `Panel` two chunks fit and a third does not;
  `sentChunks` counts no further than that, which is a guard of the chunk button.
- *Time*: `TickMod` exceeds the longest interval measured, by one in `Ota`,
  `ComMonitor` and `CanMailboxes`, so every interval wraps at some time. In
  `CanMailboxes` and the `Gateway` runs the view makes every shift of the clock the same
  state, in the latter every shift of the alive counter too. That counter has twelve values in `Gateway`: `PollSlack` is 10 there, so eleven
  periods are the least that outlast a turn, as the theorem needs (section 5).
- *Freeze and recovery limits*: 3 and 2 in `ComMonitor`, so both counters pass
  intermediate values. `Gateway` has freeze limit 2, the least at which a single
  repetition is no freeze: one may happen there, a second must not. Two nodes in `ComStatus` let one hide the other's fault
  if the aggregation were wrong; nodes are symmetric there (no liveness).
- *Mailboxes*: one node with two frames, a request and an unknown identifier. The
  node mailboxes do not interact except through the order of visits and the
  catch-all, and each frame may return any number of times. `CanAttended` needs one
  frame and one request. `GatewayHeldUp` has two nodes: one whose lines hold the
  task up, one whose frames wait.
- *Platform*: a slot of three ticks, hooks at every 2nd and 4th slot, counters that
  wrap at 3 and ticks at 7, two lines of boot log; a buffer of 16 bytes with an index that
  wraps at the buffer's end, as in the code; frames of four two-bit bytes with up to
  two damaged. The tables of `Board` have the values of the code.
- *Named bounds in guards*: `PollSlack` of `ComSupervision` (how long the loop may leave
  a timeout unpolled), `PollSlack` of `OtaSecurity` (the same of a lockout) and
  `TurnTicks` of `CanTask` (how many ticks the loop takes from one look at the period to
  the next) stand for the time that logging, blocking sends and tasks of equal priority
  take. They are assumptions there. For the first, `GatewayLoop` derives a bound from
  `LinesPerFrame` and the longest blocking calls, as `PollsInTime`, which is proved. It
  says nothing of the second: the lockout is polled only by the builder of the status
  frame and by a request, so its slack is about a period and two turns, by the
  argument of `StatusNotLate`; no theorem links the two. `SliceTicks` in `Tasks`
  is how long a ready task may wait for its turn, `TurnCalls` how many blocking calls
  a turn of the CAN task makes at most. `sinceStatus`, `sinceHook` and `history` stop
  counting at a named cap, past every value a property distinguishes.

Fairness: weak fairness of the tick, and of the steps of the three tasks of the
highest priority (`PublishStatus`, `CheckTimeouts`, `BuildStatus`, `Step`,
`LedStep`, `CanStep`, `Slot`). They loop for ever, block only with timeouts and
share their priority with time slicing. `vInitLogTask` has strong fairness: it
has the processor again and again, whenever the others are blocked, but not
for good. No frame, request or failure is fair: they may never come. Every
next-state relation is free of deadlock, which TLC checks; the boot and the
reception, which really end, have a stuttering `Ended` step in `Platform` that
is enabled only where they should end.

## 5. What is proved

For all values of the constants that satisfy the ASSUMEs of the modules: sizes
are natural numbers, the tick counter's period exceeds the longest interval
measured, XOR of two bytes is a byte, requests are well formed. All of them hold
of the code's values.

`OtaSecurityProofs`: `TypeCorrect`, `ProgressIsUnlocked`, `FlagsCoherent`,
`LockoutIsCoherent`, `ImageIsVerified`, `PendingIsVerifying`, `LockoutIsServed`,
`FailuresAreRemembered`, `NacksNeverAdvance`, and `HandlerImplementsSession`, that
the handler implements `UpdateSession`. The inductive invariant `IInv` has five
parts: what the security record alone satisfies, what the session alone
satisfies, how they are coupled (progress needs the unlock; a lockout means
FAILED), that the measured age of a lockout is its real one, and ranges. None of the
invariants is inductive by itself: that DATA cannot run while locked needs that
a seed can only wait while locked, which in turn needs that the right key takes the
seed back; that an overflowed buffer is never verified needs that an overflow
always failed the session. One lemma per helper says that it keeps a good record good;
the step proof has one step per action.

`ComSupervisionProofs`: `TypeCorrect`, `TimeoutsAreRight`, `ChecksumFaultsAreRight`,
`FreezesAreNoticed`, `FreezesAreGenuine`, `StatusIsRight`. The invariant says for
each node that its recovery counter equals the run of valid frames, its freeze
counter the repetitions, and that while no timeout stands the tick difference
equals the silence; a timeout that stands makes the difference irrelevant, which is
why a long silence may wrap the counter unharmed. Between polls a node may be
silent for longer than the limit by at most `sincePoll`, which the invariant
must say for `TimeoutVerdict` to follow.

`CanTaskProofs`, for any number of nodes and frames: `TypeCorrect`,
`FramesInCustody`, `StatusInTime`, `StatusApart`, `LossesAreBursts`. `Custody`
counts places and is not inductive. Its invariant says instead that a frame waits
exactly when the task's copy or some mailbox holds it, that no two of them hold
it at once (`InOnePlace`), that a completed mailbox holds a frame of its own and
is unarmed only after an error or because the task is just emptying it
(`BoxesGood`), and that the task has a copy exactly between taking a frame and
handling it (`CopyGood`). The last clause is what makes it harmless that the interrupt
may refill the mailbox from then on. `TimeGood` says, for each place between a
look at the period and the transmission, how old the stamp may be (`SinceStamp`), that
outside them no more ticks have passed since the last frame than since the stamp,
and that `ahead` and the age of the stamp together stay within a period and a turn, so
that what is ahead at a look that finds the period over is at most a turn. Both
bounds on the status frames follow.

`GatewayLoopProofs`, for any number of nodes, any period and any length of a line:

- `PollsAreInTime`. Of each place in the loop, `Allowance` says how many ticks may
  have passed there since the timeouts were last polled: what the calls after the poll
  may take, and for each mailbox already visited the lines of one frame. The
  invariant is that `sincePoll + held`, with what the present call may still take,
  stays within it (`InTurn`). It needs `LinesPerFrame`, that handling one frame logs at most twice,
  though four faults may change: after a timeout the alive supervision is uninitialised and
  has nothing to say, and the first frame of a node ends no recovery (`MonitorGood`).
- `CountingIsNotFrozen`. Frames of a regular node are handled late, some are lost, and two
  may change places, when one waits in the node's own mailbox and a later one in the
  catch-all. The invariant (`Regular`) measures age in frames: how many the node sent
  since the one last taken from a mailbox (`r`), since the one in its own mailbox (`o`) and
  since the one in the catch-all (`a`), and `w`, how long ago the own mailbox was visited.
  `Counted` ties each to the alive value that is there; two values less than a count
  apart differ (`CountedApart`). `Timed` bounds `w` by a turn of the loop, at each
  place of it by what the calls until then may take, as above. The frame in the own mailbox is the first
  one sent since it was visited, so `o` times the period is no more than `w` and a
  period. `Order` says that `r`, `o` and `a` then lie less than a count apart, with one exception:
  the catch-all may give the frame just before the one that waits in the own mailbox, when
  the frame handled before it was a whole count older. Its value repeats once, the frame it
  overtook follows and changes it again (`Memory`).

  The hypothesis `CountsOutlastTurn` is that the node does not count around within a turn
  and a period, and that one repetition is not a freeze. It holds of the code, narrowly. The
  counter has 16 values, the period is 100 ticks, the limit is 3. At 9600 baud, ten
  bits to a character, the longest of the ordinary lines (73 characters, with an uptime of ten digits)
  takes 77 ticks, the line about a timeout (58) 61, the one about the first status
  frame sent (83) 87; a transmission takes 10. With five nodes `PollSlack` is
  305 + 10 + 87 + 77 + 1 + 12 * 77 + 87 = 1491, against 15 * 100 = 1500. Time that other tasks take
  from the CAN task while it computes is not in this sum. With freeze limit 1 the property
  needs one period more: TLC finds the exception above.

`PanelBridgeProofs`, for any order of buttons and any losses: `PanelShowsTheTruth`,
`FailuresComeFromLoss`, `VerifyingIsShown`, `OneChunkIsNoticed`. Neither side sees the
other's seed. The invariant `SeedKnown` says that a tester that missed no seed holds the
one ECU6 waits for, and that a DATA frame on its way was made with the tester's present
seed, which holds because only one request is on its way and only a response changes the seed.
An image that is being verified has passed its checksum (`Shapes`), so the status frame
that says VERIFYING can only lead to READY_TO_ACTIVATE, the one exception that
`ShownIsTrue` allows. XOR stays uninterpreted there: key and authentication byte agree
because both sides compute the same expression, whatever it is.

`OneChunkIsNoticed` needs the laws of exclusive-or (`XorLaws`: it is associative, 0 is
neutral, a byte cancels itself) and a chunk whose own bytes do not cancel (11 22 33 44 leave 44).
`ChecksumJoins` says that the checksum of two parts in a row is the exclusive-or of
theirs, for images of any length, by induction over the second part. So the
buffer, which holds whole chunks of the panel, and the panel's own sum each only tell whether
their number of chunks is even (`ChunkInv`), and with one chunk more or less they differ.

`BridgeIsCovered` closes the composition: what the tester sends is always a
well-formed request (`WireGood`), so behind any buttons and losses ECU6 behaves as
`StatusPublication`, and the handler as `OtaSecurity`. All that is proved of the
handler holds there too; `BridgeImplementsSession` and `BridgeServesLockouts` are
two instances. The hypothesis is that `Requests` has all well-formed frames and that the
payload length fits in its byte.

`TasksProofs`: `NoLineIsLost`, for any number and length of lines and any timing. A line
on the wire keeps the task that prints it asleep for as long as it is sent; only
`vInitLogTask` and `vCANTask` print, and the first only until it deletes itself. So
whoever finds the wire busy is the other of the two, while the boot log goes on
(`WireGood`). `TypeCorrect` has the ratios of the slot counters, which survive the wrap of each
because it is a multiple of the next (`Ratios`), and `HooksAreOnTime` that the hooks do not drift: the
distance from the last wake time never exceeds a slot and a slice, and
`sinceHook` is the slots since the hook, times their length, up to that slice (`SlotInv`).

`FramesProofs`: `FramesAreJudged`, for every length of a frame, every set of identifiers and
every operation that takes different bytes to different bytes (`XorAssumption`). The sum
over two payloads that differ in one place differs from that place on, which is an
induction over the bytes after it.

`PlatformProofs`:

- `ReceivedIsKept`, for every buffer that the index can count
  (`BufferAssumption`). The index never passes the last place but one, and from it on
  the buffer is empty as long as bytes are received.
- `BootIsOrdered`, over the generated tables as they are, that `OnlyRefusedMissing`
  holds whichever of the ignored results are failures. `BootInv` says of each step of
  `main()` which tasks exist and what is left of the heap; that the tables agree
  (clocks in the mode, one pad for each signal, the rates) is computed entry by entry. The
  hypothesis `HeapSuffices` is that heap_2, which nothing was freed to before, holds the
  four stacks, the kernel's two and
  six control blocks: 9312 + 6 `TcbBytes` <= 32768, or at most 3909 bytes for a
  control block with its headers. It has 100 to 200. It does not say that a task's
  devices work: a driver in `failed` is excepted.
- `PartsAreKept`, that in the joint run each part behaves as its own specification, so the
  theorems of the parts carry over (`AllTypesCorrect`, `AllOnlyRefusedMissing`, `AllLinesKept`,
  `AllHooksOnTime`, `AllReceivedKept`, `AllFramesJudged`).

Induction over data is done without the library's induction theorems, which take an
operator as a parameter: that a set of naturals with 0 and every successor is all of
them (`Induction`) follows from the least element of its complement, and each induction
names the set of lengths for which it holds. The checksums are recursive functions, not
operators, for this.

Every invariant and action property of a passing run is a theorem, some under a hypothesis
of their own, named above. Only
model-checked: all liveness (`LockoutReleased`, `VerificationResolves`,
`SilenceReported`, `Attended`, `MailboxesReopen`, `BootLogEndsThere`), which rests on
fairness and is out of the prover's reach.

### What is taken from outside

The kernel schedules by priority with time slices among equals, and
`vTaskDelayUntil` counts from the last wake time. The CAN driver offers a frame to
mailboxes in the order of their numbers and refuses a reception only on a busy
one. The UART driver refuses a line while another is being sent, and calls back
once for each byte. The tables mean to the microcontroller what their field names
say. Each is marked external in the map.

## 6. What is not modelled

- `monitoring.c` is an unused type, an earlier form of the one in `com_gateway.c`.
- `CAN_ReceiveMessage` has no caller. A failing mailbox *configuration* is logged
  and otherwise ignored by the code; the models start from a configured device.
- The wording and throttling of the log; signals in frames that ECU6 never reads.
- Of the generated code: clock monitors, auxiliary clock selectors, the low-power
  peripheral sets, electrical settings of pads, the FD bit timing, and the
  pin names of `pin_mux.h`, of which the program uses only the count. The DMA
  configuration is never initialised; the CPU component is empty.
- The CAPL tests and the host-side Python model: tests, and a second implementation
  that differs from the firmware; read for what they say of the program. The
  database and the debugger scripts hold no logic.

## 7. Plan

Done: every module of section 2, its runs, and a theorem for every safety property
they check. Left, most important first:

1. `GatewayLoop` implements `ComSupervision`, with the status and the history added to
   it: the verdicts of the supervision then hold of the loop with the `PollSlack`
   that `PollsAreInTime` gives, and not only of a supervision that assumes it.
2. `CanTask` and `GatewayLoop` as two views of one loop: the order of its steps in the
   second is one the first allows.
3. `TaskTurn`: that the turn of the CAN task in `Tasks` makes no more blocking calls
   than `GatewayLoop` lets it.
