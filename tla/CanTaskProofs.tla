---------------------------- MODULE CanTaskProofs ----------------------------
(***************************************************************************)
(* Custody of received frames and the distance of the status frames, for   *)
(* every number of mailboxes and frames and every period and tick length.  *)
(***************************************************************************)
EXTENDS CanTask, TLAPS, FiniteSetTheorems

(***************************************************************************)
(* The inductive invariant, in four parts.                                 *)
(***************************************************************************)

\* A completed mailbox holds a frame that matches it, and is stopped only by an
\* error or because the task has just emptied it.
BoxesGood ==
    \A b \in Boxes :
        /\ transfer[b] = "success" => message[b] \in Frames
        /\ transfer[b] = "success" /\ b \in NodeBoxes => IdOf[message[b]] = b
        /\ ~armed[b] => transfer[b] = "error" \/ Taken(b)

\* The task holds a copy exactly from taking a frame to handling it.
CopyGood ==
    /\ rxMsg # NoFrame <=> (pc = "handle" \/ (pc = "rearm" /\ box # OtaBox))
    /\ pc \in {"rearm", "respond"} => transfer[box] = "success"
    /\ pc = "respond" => box = OtaBox
    /\ pc = "rearm" /\ box # OtaBox => rxMsg = message[box]

\* Custody without counting.
InOnePlace ==
    \A f \in Frames :
        /\ fate[f] = "waiting" <=> rxMsg = f \/ \E b \in Boxes : Waiting(b, f)
        /\ \A b \in Boxes : Waiting(b, f) =>
             rxMsg # f /\ \A c \in Boxes : Waiting(c, f) => b = c

\* What the task takes for the time since it last stamped the tick.
SinceStamp == Elapsed(lastGatewayTxTick)

\* But between a look that finds the period over and the stamp, the tick
\* difference is what has passed since the stamp.  What it exceeds the period by
\* has passed since the period was last looked at.  The frames are ahead by no more
\* than a turn when the tick is stamped, and by a period more when the frame is
\* sent; then both go down together.
TimeGood ==
    /\ pc \in {"stamp", "build", "send", "delay", "asleep"} =>
         sinceTurn <= TurnTicks
    /\ pc = "stamp" => /\ sinceStatus <= Period + TurnTicks + sinceTurn
                       /\ ahead <= TurnTicks
    /\ pc \in {"build", "send"} =>
         /\ SinceStamp <= sinceTurn
         /\ sinceStatus <= Period + TurnTicks + sinceTurn
         /\ ahead > 0 => ahead + SinceStamp <= TurnTicks
    /\ pc \notin {"stamp", "build", "send"} =>
         /\ SinceStamp <= Period - 1 + sinceTurn
         /\ sinceStatus <= SinceStamp
         /\ ahead > 0 => ahead + SinceStamp <= Period + TurnTicks

IInv == TypeOK /\ BoxesGood /\ CopyGood /\ InOnePlace /\ TimeGood

-----------------------------------------------------------------------------
\* The mailboxes, and the places of the program the task is at.
LEMMA BoxFacts ==
    /\ Boxes \subseteq Nat /\ OtaBox \in Boxes /\ AnyBox \in Boxes /\ 1 \in Boxes
    /\ NodeBoxes \subseteq Boxes /\ OtaBox \notin NodeBoxes
    /\ AnyBox \notin NodeBoxes
    /\ \A b \in Boxes : b < AnyBox => b + 1 \in Boxes
  BY NodesAssumption DEF Boxes, OtaBox, AnyBox, NodeBoxes

\* NextBox goes to a mailbox that is not being emptied.
LEMMA NextBoxGood ==
    ASSUME box \in Boxes, NextBox
    PROVE  box' \in Boxes /\ pc' \in {"start", "check"}
  BY BoxFacts DEF NextBox, LastBox

LEMMA InitGood == Init => IInv
<1>1. SUFFICES ASSUME Init PROVE IInv
  OBVIOUS
<1>2. TypeOK
  BY <1>1, BoxFacts, PeriodAssumption
  DEF Init, TypeOK, Fates, StatusCap
<1>3. BoxesGood /\ CopyGood
  BY <1>1, FramesAssumption DEF Init, BoxesGood, CopyGood, Taken
<1>4. InOnePlace
  BY <1>1, FramesAssumption DEF Init, InOnePlace, Waiting, Taken
<1>5. TimeGood
  BY <1>1, PeriodAssumption DEF Init, TimeGood, SinceStamp, Elapsed
<1>6. QED
  BY <1>2, <1>3, <1>4, <1>5 DEF IInv

-----------------------------------------------------------------------------
(***************************************************************************)
(* The mailboxes and the task's copy, step by step.                        *)
(***************************************************************************)

LEMMA TypeStep ==
    ASSUME TypeOK, TimeGood, Next
    PROVE  TypeOK'
<1> USE DEF TypeOK, boxVars, taskVars, timeVars
<1>1. CASE \E f \in Frames : Arrive(f)
  BY <1>1 DEF Arrive, ArriveIn, Listening, Fates
<1>2. CASE \E b \in Boxes : FailTransfer(b)
  BY <1>2 DEF FailTransfer
<1>3. CASE Start
  BY <1>3 DEF Start, StartRxMailbox
<1>4. CASE NothingReceived \/ TransferFailed
  BY <1>4, NextBoxGood DEF NothingReceived, TransferFailed, Disarm
<1>5. CASE CopyMessage
  BY <1>5 DEF CopyMessage, Disarm, AfterCopy
<1>6. CASE ServeRequest
  BY <1>6 DEF ServeRequest, Disarm, Fates
<1>7. CASE Respond
  BY <1>7 DEF Respond
<1>8. CASE Rearm
  BY <1>8, NextBoxGood DEF Rearm, StartRxMailbox
<1>9. CASE HandleMessage
  BY <1>9, NextBoxGood DEF HandleMessage, Received, Fates
<1>10. CASE CheckTimeouts \/ BuildStatus \/ Delay
  BY <1>10 DEF CheckTimeouts, BuildStatus, Delay
<1>11. CASE LookAtPeriod \/ Stamp
  BY <1>11, PeriodAssumption DEF LookAtPeriod, Stamp, StampedTick
<1>12. CASE SendStatus
  BY <1>12, PeriodAssumption DEF SendStatus, StatusCap
<1>13. CASE Tick
  <2>1. now' \in 0 .. TickMod - 1
    BY <1>13, PeriodAssumption DEF Tick
  <2>2. sinceStatus' \in 0 .. StatusCap
    BY <1>13, PeriodAssumption DEF Tick, UpTo, StatusCap
  <2>3. sinceTurn' \in 0 .. TurnTicks + 1
    BY <1>13, PeriodAssumption DEF Tick, TimeGood
  <2>4. QED
    BY <1>13, <2>1, <2>2, <2>3 DEF Tick
<1>14. QED
  BY <1>1, <1>2, <1>3, <1>4, <1>5, <1>6, <1>7, <1>8, <1>9, <1>10, <1>11,
     <1>12, <1>13 DEF Next, Step

LEMMA BoxesStep ==
    ASSUME TypeOK, BoxesGood, CopyGood, Next
    PROVE  BoxesGood' /\ CopyGood'
<1> USE FramesAssumption
    DEF TypeOK, BoxesGood, CopyGood, Taken, boxVars, taskVars
<1>1. CASE \E f \in Frames : Arrive(f)
  <2>1. PICK f \in Frames : Arrive(f)
    BY <1>1
  <2>2. ASSUME NEW b \in Listening(f), ArriveIn(f, b)
        PROVE  BoxesGood' /\ CopyGood'
    <3>1. /\ b \in Boxes /\ transfer[b] = "busy" /\ ~Taken(b)
          /\ b \in NodeBoxes => IdOf[f] = b
      BY <2>2, BoxFacts DEF Listening, Matches
    <3>2. /\ transfer' = [transfer EXCEPT ![b] = "success"]
          /\ message' = [message EXCEPT ![b] = f]
          /\ armed' = armed /\ rxMsg' = rxMsg /\ pc' = pc /\ box' = box
      BY <2>1, <2>2 DEF Arrive, ArriveIn
    <3>3. BoxesGood'
      BY <3>1, <3>2
    <3>4. CopyGood'
      BY <3>1, <3>2
    <3>5. QED
      BY <3>3, <3>4
  <2>3. QED
    BY <2>1, <2>2 DEF Arrive
<1>2. CASE \E b \in Boxes : FailTransfer(b)
  BY <1>2 DEF FailTransfer
<1>3. CASE Start
  <2>1. CASE armed[box]
    BY <1>3, <2>1 DEF Start
  <2>2. CASE ~armed[box]
    <3>1. transfer[box] = "error"
      BY <1>3, <2>2 DEF Start
    <3>2. /\ transfer' = [transfer EXCEPT ![box] = "busy"]
          /\ armed' = [armed EXCEPT ![box] = TRUE]
          /\ message' = message /\ box' = box /\ rxMsg' = rxMsg
          /\ pc = "start" /\ pc' = "status"
      BY <1>3, <2>2, <3>1 DEF Start, StartRxMailbox
    <3>3. QED
      BY <3>1, <3>2
  <2>3. QED
    BY <2>1, <2>2
<1>4. CASE NothingReceived \/ TransferFailed
  BY <1>4, NextBoxGood DEF NothingReceived, TransferFailed, Disarm
<1>5. CASE CopyMessage
  BY <1>5 DEF CopyMessage, Disarm, AfterCopy
<1>6. CASE ServeRequest
  BY <1>6, BoxFacts DEF ServeRequest, Disarm
<1>7. CASE Respond
  BY <1>7 DEF Respond
<1>8. CASE Rearm
  BY <1>8, NextBoxGood DEF Rearm, StartRxMailbox
<1>9. CASE HandleMessage
  BY <1>9, NextBoxGood DEF HandleMessage
<1>10. CASE CheckTimeouts \/ Delay
  BY <1>10 DEF CheckTimeouts, Delay
<1>11. CASE LookAtPeriod
  BY <1>11 DEF LookAtPeriod
<1>12. CASE Stamp \/ BuildStatus \/ SendStatus
  BY <1>12 DEF Stamp, BuildStatus, SendStatus
<1>13. CASE Tick
  BY <1>13 DEF Tick
<1>14. QED
  BY <1>1, <1>2, <1>3, <1>4, <1>5, <1>6, <1>7, <1>8, <1>9, <1>10, <1>11,
     <1>12, <1>13 DEF Next, Step

-----------------------------------------------------------------------------
(***************************************************************************)
(* Custody, step by step.                                                  *)
(***************************************************************************)

LEMMA CustodyStep ==
    ASSUME IInv, Next
    PROVE  InOnePlace'
<1> USE FramesAssumption
    DEF IInv, TypeOK, InOnePlace, Waiting, Taken, boxVars, taskVars
<1>1. CASE \E f \in Frames : Arrive(f)
  <2>1. PICK f \in Frames : Arrive(f)
    BY <1>1
  <2>2. ASSUME NEW b \in Listening(f), ArriveIn(f, b)
        PROVE  InOnePlace'
    <3>1. b \in Boxes /\ transfer[b] = "busy" /\ ~Taken(b)
      BY <2>2 DEF Listening, CopyGood
    <3>2. /\ fate[f] # "waiting"
          /\ transfer' = [transfer EXCEPT ![b] = "success"]
          /\ message' = [message EXCEPT ![b] = f]
          /\ fate' = [fate EXCEPT ![f] = "waiting"]
          /\ rxMsg' = rxMsg /\ pc' = pc /\ box' = box
      BY <2>1, <2>2 DEF Arrive, ArriveIn
    <3>3. rxMsg # f /\ \A c \in Boxes : ~Waiting(c, f)
      BY <3>2
    <3>4. \A c \in Boxes : Waiting(c, f)' <=> c = b
      BY <3>1, <3>2, <3>3
    <3>5. \A g \in Frames \ {f}, c \in Boxes : Waiting(c, g)' <=> Waiting(c, g)
      BY <3>1, <3>2
    <3>6. QED
      BY <3>1, <3>2, <3>3, <3>4, <3>5
  <2>3. CASE fate' = [fate EXCEPT ![f] = "lost"] /\ UNCHANGED <<transfer, message>>
    BY <2>1, <2>3 DEF Arrive
  <2>4. QED
    BY <2>1, <2>2, <2>3 DEF Arrive
<1>2. CASE \E b \in Boxes : FailTransfer(b)
  BY <1>2 DEF FailTransfer
<1>3. CASE Start
  BY <1>3 DEF Start, StartRxMailbox, BoxesGood
<1>4. CASE NothingReceived \/ TransferFailed
  BY <1>4, NextBoxGood DEF NothingReceived, TransferFailed
<1>5. CASE CopyMessage
  BY <1>5 DEF CopyMessage, AfterCopy, BoxesGood, CopyGood
<1>6. CASE ServeRequest
  BY <1>6 DEF ServeRequest, BoxesGood, CopyGood
<1>7. CASE Respond
  BY <1>7 DEF Respond
<1>8. CASE Rearm
  BY <1>8, NextBoxGood DEF Rearm, StartRxMailbox
<1>9. CASE HandleMessage
  BY <1>9, NextBoxGood DEF HandleMessage, Received, CopyGood
<1>10. CASE CheckTimeouts \/ Delay
  BY <1>10 DEF CheckTimeouts, Delay
<1>11. CASE LookAtPeriod
  BY <1>11 DEF LookAtPeriod
<1>12. CASE Stamp \/ BuildStatus \/ SendStatus
  BY <1>12 DEF Stamp, BuildStatus, SendStatus
<1>13. CASE Tick
  BY <1>13 DEF Tick
<1>14. QED
  BY <1>1, <1>2, <1>3, <1>4, <1>5, <1>6, <1>7, <1>8, <1>9, <1>10, <1>11,
     <1>12, <1>13 DEF Next, Step

-----------------------------------------------------------------------------
(***************************************************************************)
(* Time, step by step.                                                     *)
(***************************************************************************)

\* The difference of the tick counter grows with it, across its wrap.
LEMMA ElapsedGrows ==
    ASSUME NEW t \in 0 .. TickMod - 1, NEW l \in 0 .. TickMod - 1,
           NEW d \in Nat, d + 1 < TickMod,
           d = IF t >= l THEN t - l ELSE t - l + TickMod,
           NEW u, u = (t + 1) % TickMod
    PROVE  d + 1 = IF u >= l THEN u - l ELSE u - l + TickMod
<1>1. u = IF t = TickMod - 1 THEN 0 ELSE t + 1
  BY PeriodAssumption
<1>2. QED
  BY <1>1, PeriodAssumption

LEMMA TimeStep ==
    ASSUME IInv, Next
    PROVE  TimeGood'
<1> USE PeriodAssumption DEF IInv, TypeOK, TimeGood
<1>0. SinceStamp \in Nat
  BY DEF SinceStamp, Elapsed
<1>1. CASE \/ \E f \in Frames : Arrive(f)
           \/ \E b \in Boxes : FailTransfer(b)
  BY <1>1 DEF Arrive, FailTransfer, taskVars, timeVars, SinceStamp, Elapsed
<1>2. CASE Start \/ CopyMessage \/ ServeRequest \/ Respond
  BY <1>2 DEF Start, CopyMessage, AfterCopy, ServeRequest, Respond, timeVars,
              SinceStamp, Elapsed
<1>3. CASE NothingReceived \/ TransferFailed \/ HandleMessage
  BY <1>3, NextBoxGood
  DEF NothingReceived, TransferFailed, HandleMessage, timeVars, SinceStamp,
      Elapsed
<1>4. CASE Rearm
  BY <1>4, NextBoxGood DEF Rearm, timeVars, SinceStamp, Elapsed
<1>5. CASE CheckTimeouts \/ BuildStatus \/ Delay
  BY <1>5 DEF CheckTimeouts, BuildStatus, Delay, timeVars, SinceStamp, Elapsed
<1>6. CASE LookAtPeriod
  <2>1. /\ pc = "period" /\ sinceTurn' = 0 /\ sinceStatus' = sinceStatus
        /\ ahead' = ahead /\ SinceStamp' = SinceStamp
    BY <1>6 DEF LookAtPeriod, SinceStamp, Elapsed
  <2>2. CASE PeriodOver /\ pc' = "stamp"
    BY <1>0, <2>1, <2>2 DEF PeriodOver, SinceStamp
  <2>3. CASE ~PeriodOver /\ pc' = "delay"
    BY <1>0, <2>1, <2>3 DEF PeriodOver, SinceStamp
  <2>4. QED
    BY <1>6, <2>2, <2>3 DEF LookAtPeriod
<1>7. CASE Stamp
  <2>1. /\ pc = "stamp" /\ pc' = "build" /\ sinceTurn' = sinceTurn
        /\ sinceStatus' = sinceStatus /\ ahead' = ahead /\ SinceStamp' = 0
    BY <1>7 DEF Stamp, StampedTick, timeVars, SinceStamp, Elapsed
  <2>2. QED
    BY <2>1
<1>8. CASE SendStatus
  <2>1. /\ pc = "send" /\ pc' = "delay" /\ sinceTurn' = sinceTurn
        /\ sinceStatus' = 0 /\ ahead' = ahead + Period
        /\ SinceStamp' = SinceStamp
    BY <1>8 DEF SendStatus, SinceStamp, Elapsed
  <2>2. QED
    BY <1>0, <2>1
<1>9. CASE Tick
  <2>1. /\ sinceTurn' = sinceTurn + 1
        /\ sinceStatus' = UpTo(StatusCap, sinceStatus + 1)
        /\ ahead' = IF ahead > 0 THEN ahead - 1 ELSE 0
        /\ pc' = IF pc = "asleep" THEN "start" ELSE pc
        /\ sinceTurn <= TurnTicks /\ (pc # "asleep" => sinceTurn < TurnTicks)
    BY <1>9 DEF Tick
  <2>2. sinceStatus' \in Nat /\ sinceStatus' <= sinceStatus + 1
    BY <2>1 DEF UpTo, StatusCap
  <2>3. /\ Period \in Nat /\ TurnTicks \in Nat /\ TickMod > Period + TurnTicks
        /\ sinceTurn \in Nat /\ sinceStatus \in Nat /\ ahead \in Nat
        /\ SinceStamp \in Nat
    BY <1>0 DEF StatusCap
  <2>4. CASE pc = "stamp"
    <3>1. pc' = "stamp" /\ sinceTurn' = sinceTurn + 1 /\ sinceTurn < TurnTicks
      BY <2>1, <2>4
    <3>2. sinceStatus <= Period + TurnTicks + sinceTurn /\ ahead <= TurnTicks
      BY <2>4
    <3>3. sinceStatus' <= Period + TurnTicks + sinceTurn' /\ ahead' <= TurnTicks
      BY <2>1, <2>2, <2>3, <3>2
    <3>4. QED
      BY <2>3, <3>1, <3>3
  <2>5. CASE pc # "stamp"
    <3>1. SinceStamp + 1 < TickMod
      BY <2>1, <2>3, <2>5
    <3>2. SinceStamp' = SinceStamp + 1
      BY <1>0, <1>9, <3>1, ElapsedGrows DEF Tick, SinceStamp, Elapsed
    <3>3. CASE pc \in {"build", "send"}
      <4>1. pc' = pc /\ sinceTurn' = sinceTurn + 1 /\ sinceTurn < TurnTicks
        BY <2>1, <3>3
      <4>2. /\ SinceStamp <= sinceTurn
            /\ sinceStatus <= Period + TurnTicks + sinceTurn
            /\ ahead > 0 => ahead + SinceStamp <= TurnTicks
        BY <3>3
      <4>3. /\ SinceStamp' <= sinceTurn'
            /\ sinceStatus' <= Period + TurnTicks + sinceTurn'
            /\ ahead' > 0 => ahead' + SinceStamp' <= TurnTicks
        BY <2>1, <2>2, <2>3, <3>2, <4>2
      <4>4. QED
        BY <2>3, <3>3, <4>1, <4>3
    <3>4. CASE pc \notin {"stamp", "build", "send"}
      <4>1. /\ pc' \notin {"stamp", "build", "send"}
            /\ pc' \in {"delay", "asleep"} => sinceTurn < TurnTicks
        BY <2>1, <3>4
      <4>2. /\ SinceStamp <= Period - 1 + sinceTurn
            /\ sinceStatus <= SinceStamp
            /\ ahead > 0 => ahead + SinceStamp <= Period + TurnTicks
        BY <3>4
      <4>3. /\ SinceStamp' <= Period - 1 + sinceTurn'
            /\ sinceStatus' <= SinceStamp'
            /\ ahead' > 0 => ahead' + SinceStamp' <= Period + TurnTicks
        BY <2>1, <2>2, <2>3, <3>2, <4>2
      <4>4. sinceTurn' = sinceTurn + 1
        BY <2>1
      <4>5. QED
        BY <2>3, <4>1, <4>3, <4>4
    <3>5. QED
      BY <2>5, <3>3, <3>4
  <2>6. QED
    BY <2>4, <2>5
<1>10. QED
  BY <1>1, <1>2, <1>3, <1>4, <1>5, <1>6, <1>7, <1>8, <1>9 DEF Next, Step

-----------------------------------------------------------------------------
(***************************************************************************)
(* The theorems.                                                           *)
(***************************************************************************)

\* The four parts are inductive together: the mailboxes, the copy, the custody
\* of frames and the tick difference keep each other right in every step of
\* the task, the interrupt and the tick.
THEOREM Invariance == Spec => []IInv
<1>1. IInv /\ [Next]_vars => IInv'
  <2>1. ASSUME IInv, Next PROVE IInv'
    BY <2>1, TypeStep, BoxesStep, CustodyStep, TimeStep DEF IInv
  <2>2. ASSUME IInv, UNCHANGED vars PROVE IInv'
    BY <2>2 DEF IInv, TypeOK, BoxesGood, CopyGood, InOnePlace, TimeGood,
                Waiting, Taken, SinceStamp, Elapsed, vars, boxVars, taskVars, timeVars
  <2>3. QED
    BY <2>1, <2>2
<1>2. QED
  BY InitGood, <1>1, PTL DEF Spec

\* The variables of the task and its mailboxes keep their types; the task is
\* never awake longer than the bound on a turn allows.
THEOREM TypeCorrect == Spec => []TypeOK
<1>1. IInv => TypeOK
  BY DEF IInv
<1>2. QED
  BY Invariance, <1>1, PTL

\* A received frame is in exactly one place until it is handled, and in none
\* afterwards: no frame is overwritten or handled twice, whenever the interrupt
\* refills a mailbox that the task is emptying.
THEOREM FramesInCustody == Spec => []Custody
<1>1. IInv => Custody
  <2>1. SUFFICES ASSUME IInv, NEW f \in Frames
                 PROVE  Cardinality(Places(f))
                          = IF fate[f] = "waiting" THEN 1 ELSE 0
    BY DEF Custody
  <2>2. /\ fate[f] = "waiting" <=> rxMsg = f \/ \E b \in Boxes : Waiting(b, f)
        /\ \A b \in Boxes : Waiting(b, f) =>
             rxMsg # f /\ \A c \in Boxes : Waiting(c, f) => b = c
    BY <2>1 DEF IInv, InOnePlace
  <2>3. 0 \notin Boxes
    BY NodesAssumption DEF Boxes, AnyBox
  <2>4. CASE rxMsg = f
    <3>1. Places(f) = {0}
      BY <2>2, <2>4 DEF Places
    <3>2. QED
      BY <2>2, <2>4, <3>1, FS_Singleton
  <2>5. CASE rxMsg # f /\ \E b \in Boxes : Waiting(b, f)
    <3>1. PICK b \in Boxes : Waiting(b, f)
      BY <2>5
    <3>2. Places(f) = {b}
      BY <2>2, <2>5, <3>1 DEF Places
    <3>3. QED
      BY <2>2, <3>1, <3>2, FS_Singleton
  <2>6. CASE rxMsg # f /\ ~\E b \in Boxes : Waiting(b, f)
    <3>1. Places(f) = {}
      BY <2>6 DEF Places
    <3>2. QED
      BY <2>2, <2>6, <3>1, FS_EmptySet
  <2>7. QED
    BY <2>4, <2>5, <2>6
<1>2. QED
  BY Invariance, <1>1, PTL

\* GatewayStatus is sent no later than the period and two turns of the loop
\* after the one before.
THEOREM StatusInTime == Spec => []StatusNotLate
<1>1. IInv => StatusNotLate
  BY PeriodAssumption
  DEF IInv, TypeOK, TimeGood, SinceStamp, Elapsed, StatusNotLate
<1>2. QED
  BY Invariance, <1>1, PTL

\* And not in bursts: wherever the task is held up in building and sending it, any
\* n + 1 frames in a row take n periods less one turn of the loop, or more.
THEOREM StatusApart == Spec => []StatusNotEarly
<1>1. IInv => StatusNotEarly
  BY PeriodAssumption
  DEF IInv, TypeOK, TimeGood, SinceStamp, Elapsed, StatusNotEarly
<1>2. QED
  BY Invariance, <1>1, PTL

\* A frame of a node is lost only in a burst of that node, or after an error in
\* its mailbox that the task has not seen to.
THEOREM LossesAreBursts == Spec => LossOnlyInBurst
<1> DEFINE Burst ==
      \A f \in Frames :
        fate[f] # "lost" /\ fate'[f] = "lost" /\ IdOf[f] \in NodeBoxes
          => \/ transfer[IdOf[f]] = "error"
             \/ \E g \in Frames \ {f} :
                  IdOf[g] = IdOf[f] /\ fate[g] = "waiting"
<1>1. IInv /\ [Next]_vars => [Burst]_vars
  <2>1. SUFFICES ASSUME IInv, Next, NEW f \in Frames,
                        fate[f] # "lost", fate'[f] = "lost",
                        IdOf[f] \in NodeBoxes, transfer[IdOf[f]] # "error"
                 PROVE  \E g \in Frames \ {f} :
                          IdOf[g] = IdOf[f] /\ fate[g] = "waiting"
    BY DEF vars
  <2>2. PICK h \in Frames : Arrive(h)
    <3>1. CASE HandleMessage
      BY <2>1, <3>1 DEF HandleMessage, IInv, TypeOK
    <3>2. CASE ServeRequest
      BY <2>1, <3>2 DEF ServeRequest, IInv, TypeOK
    <3>3. CASE ~HandleMessage /\ ~ServeRequest /\ ~\E h \in Frames : Arrive(h)
      BY <2>1, <3>3
      DEF Next, Step, FailTransfer, Start, NothingReceived, TransferFailed,
          CopyMessage, Respond, Rearm, CheckTimeouts, LookAtPeriod,
          Stamp, BuildStatus, SendStatus, Delay, Tick
    <3>4. QED
      BY <3>1, <3>2, <3>3
  <2>3. h = f /\ fate[f] # "waiting" /\ Listening(f) = {}
    BY <2>1, <2>2 DEF Arrive, ArriveIn, IInv, TypeOK
  <2> DEFINE b == IdOf[f]
  <2>4. b \in Boxes /\ b # OtaBox /\ transfer[b] = "success"
    BY <2>1, <2>3, BoxFacts DEF Listening, Matches, IInv, TypeOK
  <2>5. message[b] \in Frames /\ IdOf[message[b]] = b
    BY <2>1, <2>4 DEF IInv, BoxesGood
  <2>6. fate[message[b]] = "waiting"
    <3>1. CASE Taken(b)
      <4>1. pc = "rearm" /\ box = b
        BY <2>1, <2>4, <3>1 DEF Taken, IInv, CopyGood
      <4>2. rxMsg = message[b]
        BY <2>1, <2>4, <4>1 DEF IInv, CopyGood
      <4>3. QED
        BY <2>1, <2>5, <4>2 DEF IInv, InOnePlace
    <3>2. CASE ~Taken(b)
      BY <2>1, <2>4, <2>5, <3>2 DEF IInv, InOnePlace, Waiting
    <3>3. QED
      BY <3>1, <3>2
  <2>7. message[b] # f
    BY <2>3, <2>6
  <2>8. QED
    BY <2>5, <2>6, <2>7
<1>2. QED
  BY Invariance, <1>1, PTL DEF Spec, LossOnlyInBurst

=============================================================================
