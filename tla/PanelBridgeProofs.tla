--------------------------- MODULE PanelBridgeProofs ---------------------------
(***************************************************************************)
(* The tester and the status frame, for every size of byte, buffer and     *)
(* timer and any exclusive-or: what a frame that gets through tells the    *)
(* panel is true, only a seed that was lost costs an honest tester a       *)
(* failure, and an image one chunk off is not accepted.                    *)
(***************************************************************************)
EXTENDS PanelBridge, OtaSecurityProofs, WellFoundedInduction, SequenceTheorems

(***************************************************************************)
(* The invariant.  Of the two records only their fields matter, and that   *)
(* the failures are counted.                                               *)
(***************************************************************************)

SecType ==
    [unlocked : BOOLEAN, locked : BOOLEAN, seedIssued : BOOLEAN,
     errorCounter : Int, failureStreak : Nat,
     lockoutActive : BOOLEAN, lockoutStart : Int]

SecShape ==
    /\ sec \in SecType
    /\ now \in Int

\* What the buffer and the checksum are does not matter here.
OtaShape ==
    ota \in [state : OtaStates, verifyPending : BOOLEAN, verifyOk : BOOLEAN,
             buffer : {ota.buffer}, overflow : BOOLEAN,
             expectedChecksum : {ota.expectedChecksum}]

\* An image that is being verified has passed.
Shapes ==
    /\ SecShape /\ OtaShape
    /\ ota.state = "VERIFYING" => ota.verifyOk

\* Unless it missed one, the tester holds the seed that ECU6 waits for, and a
\* DATA frame on its way was made with it: one request at a time.
SeedKnown ==
    /\ seedMissed \in BOOLEAN
    /\ ~seedMissed => lastSeed = securitySeed
    /\ wire.cmd = "DATA" => wire.auth = calcOtaDataAuth(wire.seq, wire.arg)

BInv == Shapes /\ SeedKnown /\ ShownIsTrue

-----------------------------------------------------------------------------
(* What handling a request does, as far as the tester is concerned.        *)

\* The helpers leave a security record a security record.
LEMMA HelpersShape ==
    ASSUME NEW s \in SecType
    PROVE  /\ ResetUnlock(s) \in SecType
           /\ [s EXCEPT !.seedIssued = TRUE] \in SecType
           /\ [s EXCEPT !.seedIssued = TRUE].failureStreak = s.failureStreak
           /\ ResetUnlock(s).failureStreak = s.failureStreak
           /\ ClearFailureStreak(s) \in SecType
           /\ ClearFailureStreak(s).failureStreak = 0
           /\ MarkUnlocked(s) \in SecType
           /\ MarkUnlocked(s).failureStreak = 0
<1>1. ASSUME NEW z \in SecType
      PROVE  /\ ClearFailureStreak(z) \in SecType
             /\ ClearFailureStreak(z).failureStreak = 0
  <2>1. ClearFailureStreak(z) =
          [z EXCEPT !.failureStreak = 0, !.lockoutActive = FALSE,
                    !.lockoutStart = 0]
    BY DEF ClearFailureStreak
  <2>2. ClearFailureStreak(z) \in SecType
    <3>1. \A y \in SecType, i \in Nat : [y EXCEPT !.failureStreak = i] \in SecType
      BY DEF SecType
    <3>2. \A y \in SecType, i \in Int : [y EXCEPT !.lockoutStart = i] \in SecType
      BY DEF SecType
    <3>3. \A y \in SecType : [y EXCEPT !.lockoutActive = FALSE] \in SecType
      BY DEF SecType
    <3>4. ClearFailureStreak(z) =
            [[[z EXCEPT !.failureStreak = 0] EXCEPT !.lockoutActive = FALSE]
               EXCEPT !.lockoutStart = 0]
      BY <2>1 DEF SecType
    <3>5. [z EXCEPT !.failureStreak = 0] \in SecType
      BY <3>1
    <3>6. [[z EXCEPT !.failureStreak = 0] EXCEPT !.lockoutActive = FALSE]
            \in SecType
      BY <3>3, <3>5
    <3>7. 0 \in Int
      OBVIOUS
    <3>8. QED
      BY <3>2, <3>4, <3>6, <3>7, Zenon
  <2>3. ClearFailureStreak(z).failureStreak = 0
    BY <2>1 DEF SecType
  <2>4. QED
    BY <2>2, <2>3
<1>2. [s EXCEPT !.unlocked = TRUE, !.locked = FALSE, !.seedIssued = FALSE]
        \in SecType
  BY DEF SecType
<1>3. MarkUnlocked(s) \in SecType /\ MarkUnlocked(s).failureStreak = 0
  BY <1>1, <1>2 DEF MarkUnlocked
<1>4. ResetUnlock(s) \in SecType /\ ResetUnlock(s).failureStreak = s.failureStreak
  BY DEF ResetUnlock, SecType
<1>5. /\ [s EXCEPT !.seedIssued = TRUE] \in SecType
      /\ [s EXCEPT !.seedIssued = TRUE].failureStreak = s.failureStreak
  BY DEF SecType
<1>6. QED
  BY <1>1, <1>3, <1>4, <1>5

\* Ending a lockout that was served forgives, and never charges.
LEMMA SettledShape ==
    ASSUME SecShape
    PROVE  Settled \in SecType /\ Settled.failureStreak <= sec.failureStreak
<1>1. CASE Settled = sec
  BY <1>1 DEF SecShape, SecType
<1>2. CASE Settled # sec
  <2>1. Settled = ClearFailureStreak(ResetUnlock(sec))
    BY <1>2 DEF Settled, UpdateLockout
  <2>2. sec \in SecType /\ sec.failureStreak \in Nat
    BY DEF SecShape, SecType
  <2>3. ResetUnlock(sec) \in SecType
    BY <2>2, HelpersShape
  <2>4. Settled \in SecType /\ Settled.failureStreak = 0
    BY <2>1, <2>3, HelpersShape
  <2>5. QED
    BY <2>2, <2>4
<1>3. QED
  BY <1>1, <1>2

\* Of the commands only a key or a DATA frame that is refused counts a failure.
LEMMA FailureEffect ==
    ASSUME SecShape, NEW r, HandleRequest(r)
    PROVE  /\ SecShape'
           /\ sec'.failureStreak > sec.failureStreak
                => KeyRefused(r) \/ DataUnauthentic(r)
<1> DEFINE t == RecordFailure(Settled)
<1> USE SettledShape DEF SecShape
<1>1. now' \in Int
  BY DEF HandleRequest, RejectUnknown, RejectLockedOut, Serve,
         RequestSeed, KeyWithoutSeed, KeyAccepted, KeyRefused, StartLocked,
         Start, InvalidSequence, DataTooLong, DataUnauthentic, DataOverflow,
         DataStored, EndVerified, EndMismatch, Activate, Abort
<1>2. CASE sec' \in {sec, Settled}
  BY <1>1, <1>2 DEF SecType
<1>3. CASE RequestSeed(r)
  <2>1. sec' = [ResetUnlock(Settled) EXCEPT !.seedIssued = TRUE]
    BY <1>3 DEF RequestSeed
  <2>2. ResetUnlock(Settled) \in SecType
    BY HelpersShape
  <2>3. /\ sec' \in SecType
        /\ sec'.failureStreak = ResetUnlock(Settled).failureStreak
    BY <2>1, <2>2, HelpersShape
  <2>4. sec'.failureStreak = Settled.failureStreak
    BY <2>3, HelpersShape
  <2>5. QED
    BY <1>1, <2>3, <2>4 DEF SecType
<1>4. CASE KeyAccepted(r)
  <2>1. sec' = MarkUnlocked(Settled)
    BY <1>4 DEF KeyAccepted
  <2>2. sec' \in SecType /\ sec'.failureStreak = 0
    BY <2>1, HelpersShape
  <2>3. QED
    BY <1>1, <2>2 DEF SecType
<1>5. t \in SecType
  <2> DEFINE c == CountFailure(Settled)
  <2> DEFINE n == Settled.failureStreak
             e == Settled.errorCounter
  <2>0. n \in Nat /\ e \in Int
    BY DEF SecType
  <2>1. c \in SecType
    <3>1. /\ (IF n < FailureLimit THEN n + 1 ELSE n) \in Nat
          /\ IncrementCounter(e) \in Int
      BY <2>0, SizesAssumption DEF IncrementCounter
    <3>2. c = [Settled EXCEPT !.errorCounter = IncrementCounter(e),
                              !.failureStreak =
                                 IF n < FailureLimit THEN n + 1 ELSE n]
      BY DEF CountFailure, SecType
    <3>3. QED
      BY <3>1, <3>2 DEF SecType
  <2>2. EnterLockout(c) \in SecType
    BY <2>1 DEF EnterLockout, SecType
  <2>3. QED
    BY <2>1, <2>2 DEF RecordFailure
<1>6. CASE KeyRefused(r)
  <2>1. sec' = ResetUnlock(t)
    BY <1>6 DEF KeyRefused
  <2>2. sec' \in SecType
    BY <1>5, <2>1, HelpersShape
  <2>3. QED
    BY <1>1, <1>6, <2>2
<1>7. CASE DataUnauthentic(r)
  <2>1. sec' = t
    BY <1>7 DEF DataUnauthentic
  <2>2. QED
    BY <1>1, <1>5, <1>7, <2>1
<1>8. QED
  BY <1>2, <1>3, <1>4, <1>6, <1>7
  DEF HandleRequest, RejectUnknown, RejectLockedOut, KeyWithoutSeed,
      StartLocked, Start, InvalidSequence, DataTooLong, DataOverflow, DataStored, EndVerified,
      EndMismatch, Activate, Abort

\* A command never makes an image ready.
LEMMA SessionEffect ==
    ASSUME Shapes, NEW r, HandleRequest(r)
    PROVE  /\ OtaShape'
           /\ ota'.state = "VERIFYING" => ota'.verifyOk
           /\ ota'.state = "READY_TO_ACTIVATE" => ota.state = "READY_TO_ACTIVATE"
<1>1. CASE ota' = ota
  BY <1>1 DEF Shapes, OtaShape, OtaStates
<1>2. CASE RequestSeed(r)
  BY <1>2 DEF RequestSeed, SeedSession, ResetDataBuffer, Shapes, OtaShape, OtaStates
<1>3. CASE StartLocked(r)
  BY <1>3 DEF StartLocked, Shapes, OtaShape, OtaStates
<1>4. CASE Start(r)
  BY <1>4 DEF Start, StartSession, ResetDataBuffer, Shapes, OtaShape, OtaStates
<1>5. CASE ota' = FailSession(ota)
  BY <1>5 DEF FailSession, Shapes, OtaShape, OtaStates
<1>6. CASE KeyRefused(r)
  BY <1>1, <1>5, <1>6 DEF KeyRefused, FailIfLockedOut
<1>7. CASE DataOverflow(r)
  BY <1>7 DEF DataOverflow, FailSession, Shapes, OtaShape, OtaStates
<1>8. CASE DataStored(r)
  BY <1>8 DEF DataStored, Shapes, OtaShape, OtaStates
<1>9. CASE EndVerified(r)
  BY <1>9 DEF EndVerified, EndSession, Shapes, OtaShape, OtaStates
<1>10. CASE EndMismatch(r)
  BY <1>10 DEF EndMismatch, FailSession, Shapes, OtaShape, OtaStates
<1>11. CASE Activate(r)
  BY <1>11 DEF Activate, Shapes, OtaShape, OtaStates
<1>12. CASE Abort(r)
  BY <1>12 DEF Abort, FailSession, ResetDataBuffer, Shapes, OtaShape, OtaStates
<1>13. QED
  BY <1>1, <1>2, <1>3, <1>4, <1>5, <1>6, <1>7, <1>8, <1>9, <1>10, <1>11, <1>12
  DEF HandleRequest, RejectUnknown, RejectLockedOut, KeyWithoutSeed,
      KeyAccepted, InvalidSequence, DataTooLong, DataUnauthentic
\* The response says where the command left the session.
LEMMA ResponseEffect ==
    ASSUME NEW r, HandleRequest(r)
    PROVE  response'.state = ota'.state
  BY DEF HandleRequest, RejectUnknown, RejectLockedOut, RequestSeed,
         KeyWithoutSeed, KeyAccepted, KeyRefused, StartLocked, Start,
         InvalidSequence, DataTooLong, DataUnauthentic, DataOverflow,
         DataStored, EndVerified, EndMismatch, Activate, Abort,
         Ack, Nack, BuildResponse

\* A new seed and the response that carries it are one thing.
LEMMA SeedEffect ==
    ASSUME NEW r, HandleRequest(r)
    PROVE  \/ CarriesSeed(response') /\ response'.detail = securitySeed'
           \/ ~CarriesSeed(response') /\ securitySeed' = securitySeed
<1>1. CASE RequestSeed(r)
  BY <1>1 DEF RequestSeed, Serve, Ack, BuildResponse, CarriesSeed
<1>2. CASE ~RequestSeed(r)
  BY <1>2
  DEF HandleRequest, RejectUnknown, RejectLockedOut, Serve,
      KeyWithoutSeed, KeyAccepted, KeyRefused, StartLocked, Start,
      InvalidSequence, DataTooLong, DataUnauthentic, DataOverflow,
      DataStored, EndVerified, EndMismatch, Activate, Abort,
      Ack, Nack, BuildResponse, CarriesSeed
<1>3. QED
  BY <1>1, <1>2

\* GatewayStatus makes an image ready that was being verified, and does nothing
\* else to a session.
LEMMA PublishEffect ==
    ASSUME Shapes, PublishStatus
    PROVE  /\ Shapes'
           /\ securitySeed' = securitySeed
           /\ sec'.failureStreak <= sec.failureStreak
           /\ \/ ota'.state = ota.state
              \/ ota.state = "VERIFYING" /\ ota'.state = "READY_TO_ACTIVATE"
<1>1. SecShape' /\ sec'.failureStreak <= sec.failureStreak
  BY SettledShape DEF PublishStatus, Shapes, SecShape
<1>2. ota' = AfterStatusPublish(ota) /\ securitySeed' = securitySeed
  BY DEF PublishStatus
<1>3. CASE ota' = ota
  BY <1>1, <1>2, <1>3 DEF Shapes, OtaShape, OtaStates
<1>4. CASE ota' # ota
  <2>1. /\ ota.state = "VERIFYING" /\ ota.verifyOk
        /\ ota' = [ota EXCEPT !.verifyPending = FALSE,
                              !.state = "READY_TO_ACTIVATE"]
    BY <1>2, <1>4 DEF AfterStatusPublish, Shapes
  <2>2. QED
    BY <1>1, <1>2, <2>1 DEF Shapes, OtaShape, OtaStates
<1>5. QED
  BY <1>3, <1>4

-----------------------------------------------------------------------------
(* The steps.                                                              *)

\* Of the response that arrives the tester takes seed and state; of one that is
\* lost it knows nothing any more.
LEMMA TakeRequestGood ==
    ASSUME BInv, TakeRequest
    PROVE  BInv'
<1>1. HandleRequest(wire) /\ wire' = NoRequest
  BY DEF TakeRequest
<1>2. Shapes'
  BY <1>1, FailureEffect, SessionEffect DEF BInv, Shapes
<1>3. wire'.cmd # "DATA"
  BY <1>1 DEF NoRequest
<1>4. CASE ResponseArrives
  <2>1. ShownIsTrue'
    BY <1>1, <1>4, ResponseEffect DEF ResponseArrives, ShownIsTrue
  <2>2. SeedKnown'
    BY <1>1, <1>3, <1>4, SeedEffect DEF ResponseArrives, SeedKnown, BInv
  <2>3. QED
    BY <1>2, <2>1, <2>2 DEF BInv
<1>5. CASE ResponseLost
  <2>1. ShownIsTrue'
    BY <1>5 DEF ResponseLost, ShownIsTrue
  <2>2. SeedKnown'
    BY <1>1, <1>3, <1>5, SeedEffect DEF ResponseLost, SeedKnown, BInv
  <2>3. QED
    BY <1>2, <2>1, <2>2 DEF BInv
<1>6. QED
  BY <1>4, <1>5 DEF TakeRequest

\* The frame says the state before it was built.
LEMMA StatusGood ==
    ASSUME BInv, StatusArrives \/ StatusLost
    PROVE  BInv'
<1>1. PublishStatus /\ UNCHANGED <<panelVars, wire, seedMissed>>
  BY DEF StatusArrives, StatusLost, SendStatus
<1>2. Shapes' /\ securitySeed' = securitySeed
  BY <1>1, PublishEffect DEF BInv
<1>3. SeedKnown'
  BY <1>1, <1>2 DEF BInv, SeedKnown, panelVars, calcOtaDataAuth
<1>4. CASE StatusArrives
  <2>1. panelState' = ota.state
    BY <1>4 DEF StatusArrives, SendStatus, PackedState
  <2>2. ShownIsTrue'
    BY <1>1, <2>1, PublishEffect DEF BInv, ShownIsTrue
  <2>3. QED
    BY <1>2, <1>3, <2>2 DEF BInv
<1>5. CASE StatusLost
  BY <1>2, <1>3, <1>5 DEF BInv, StatusLost, ShownIsTrue
<1>6. QED
  BY <1>4, <1>5

LEMMA TickGood ==
    ASSUME BInv, BTick
    PROVE  BInv'
<1>1. /\ sec' = sec /\ ota' = ota /\ securitySeed' = securitySeed
      /\ UNCHANGED <<panelVars, viewVars, wire>>
  BY DEF BTick, Tick
<1>2. now' \in Int
  BY TimeAssumption DEF BTick, Tick, BInv, Shapes, SecShape
<1>3. Shapes'
  BY <1>1, <1>2 DEF BInv, Shapes, SecShape, OtaShape
<1>4. SeedKnown' /\ ShownIsTrue'
  BY <1>1 DEF BInv, SeedKnown, ShownIsTrue, panelVars, viewVars, calcOtaDataAuth
<1>5. QED
  BY <1>3, <1>4 DEF BInv

\* A button puts a request on its way, a DATA frame with the tester's seed.
LEMMA PressGood ==
    ASSUME BInv, Press
    PROVE  BInv'
<1>1. UNCHANGED <<pvars, viewVars, lastSeed>>
  BY DEF Press, PressRequestSeed, PressCorrectKey, PressWrongKey, PressStart,
         PressChunk, PressEnd, PressEndWrongCrc, PressActivate, PressAbort,
         Plainly, sendOtaCommand
<1>2. wire'.cmd = "DATA" =>
        wire'.auth = calcOtaDataAuth(wire'.seq, wire'.arg)
  BY DEF Press, PressRequestSeed, PressCorrectKey, PressWrongKey, PressStart,
         PressChunk, PressEnd, PressEndWrongCrc, PressActivate, PressAbort,
         Plainly, sendOtaCommand
<1>3. Shapes'
  BY <1>1 DEF BInv, Shapes, SecShape, OtaShape, pvars, vars
<1>4. SeedKnown'
  BY <1>1, <1>2 DEF BInv, SeedKnown, pvars, vars, viewVars, calcOtaDataAuth
<1>5. ShownIsTrue'
  BY <1>1 DEF BInv, ShownIsTrue, pvars, vars, viewVars
<1>6. QED
  BY <1>3, <1>4, <1>5 DEF BInv

LEMMA StepGood ==
    ASSUME BInv, [BNext]_bvars
    PROVE  BInv'
<1>1. CASE LoseRequest
  <2>1. /\ wire'.cmd # "DATA"
        /\ UNCHANGED <<pvars, panelVars, viewVars>>
    BY <1>1 DEF LoseRequest, NoRequest
  <2>2. Shapes'
    BY <2>1 DEF BInv, Shapes, SecShape, OtaShape, pvars, vars
  <2>3. SeedKnown' /\ ShownIsTrue'
    BY <2>1 DEF BInv, SeedKnown, ShownIsTrue, pvars, vars, panelVars, viewVars
  <2>4. QED
    BY <2>2, <2>3 DEF BInv
<1>2. CASE UNCHANGED bvars
  <2>1. UNCHANGED <<pvars, panelVars, viewVars, wire>>
    BY <1>2 DEF bvars
  <2>2. Shapes'
    BY <2>1 DEF BInv, Shapes, SecShape, OtaShape, pvars, vars
  <2>3. SeedKnown' /\ ShownIsTrue'
    BY <2>1 DEF BInv, SeedKnown, ShownIsTrue, pvars, vars, panelVars, viewVars,
                calcOtaDataAuth
  <2>4. QED
    BY <2>2, <2>3 DEF BInv
<1>3. QED
  BY <1>1, <1>2, PressGood, TakeRequestGood, StatusGood, TickGood DEF BNext

LEMMA InitGood ==
    ASSUME BInit
    PROVE  BInv
<1>1. Shapes
  BY DEF BInit, PInit, Init, Shapes, SecShape, SecType, OtaShape, OtaStates
<1>2. SeedKnown
  BY DEF BInit, SeedKnown, NoRequest
<1>3. ShownIsTrue
  BY DEF BInit, PInit, Init, ShownIsTrue
<1>4. QED
  BY <1>1, <1>2, <1>3 DEF BInv

-----------------------------------------------------------------------------
\* The inductive invariant.
THEOREM TesterInvariance == BSpec => []BInv
<1>1. BInit => BInv
  BY InitGood
<1>2. BInv /\ [BNext]_bvars => BInv'
  BY StepGood
<1>3. QED
  BY <1>1, <1>2, PTL DEF BSpec

\* What the panel shows is the state of ECU6 unless the last frame was lost.
THEOREM PanelShowsTheTruth == BSpec => []ShownIsTrue
<1>1. BInv => ShownIsTrue
  BY DEF BInv
<1>2. QED
  BY <1>1, TesterInvariance, PTL

\* Only handling a request counts failures.
LEMMA FailureStep ==
    ASSUME BInv, [BNext]_bvars, sec'.failureStreak > sec.failureStreak
    PROVE  TakeRequest
<1>1. sec.failureStreak \in Nat
  BY DEF BInv, Shapes, SecShape, SecType
<1>2. sec' # sec
  BY <1>1
<1>3. ~(StatusArrives \/ StatusLost)
  <2>1. ASSUME PublishStatus
        PROVE  FALSE
    <3>1. sec'.failureStreak <= sec.failureStreak /\ Shapes'
      BY <2>1, PublishEffect DEF BInv
    <3>2. sec'.failureStreak \in Nat
      BY <3>1 DEF Shapes, SecShape, SecType
    <3>3. QED
      BY <1>1, <3>1, <3>2
  <2>2. QED
    BY <2>1 DEF StatusArrives, StatusLost, SendStatus
<1>4. ~Press
  BY <1>2 DEF Press, PressRequestSeed, PressCorrectKey, PressWrongKey,
     PressStart, PressChunk, PressEnd, PressEndWrongCrc, PressActivate,
     PressAbort, Plainly, sendOtaCommand, pvars, vars
<1>5. QED
  BY <1>2, <1>3, <1>4 DEF BNext, LoseRequest, BTick, Tick, bvars, pvars, vars

\* A tester that got the last seed is never charged for an honest request.
THEOREM FailuresComeFromLoss == BSpec => FailuresFromLoss
<1>1. ASSUME BInv, [BNext]_bvars, sec'.failureStreak > sec.failureStreak,
             Honest, ~seedMissed
      PROVE  FALSE
  <2>1. HandleRequest(wire)
    BY <1>1, FailureStep DEF TakeRequest
  <2>2. KeyRefused(wire) \/ DataUnauthentic(wire)
    BY <1>1, <2>1, FailureEffect DEF BInv, Shapes
  <2>3. /\ lastSeed = securitySeed
        /\ wire.cmd = "DATA" => wire.auth = DataAuth(wire.seq, wire.arg)
    BY <1>1 DEF BInv, SeedKnown, calcOtaDataAuth, DataAuth
  <2>4. ~KeyRefused(wire)
    BY <1>1, <2>3 DEF KeyRefused, Serve, CalculateKey, Honest
  <2>5. ~DataUnauthentic(wire)
    BY <2>3 DEF DataUnauthentic, Serve, AuthValid
  <2>6. QED
    BY <2>2, <2>4, <2>5
<1>2. BInv /\ [BNext]_bvars =>
        [sec'.failureStreak > sec.failureStreak /\ Honest => seedMissed]_bvars
  BY <1>1
<1>3. QED
  BY <1>2, TesterInvariance, PTL DEF BSpec, FailuresFromLoss

\* When an image becomes ready, the panel was sent VERIFYING just before, if the
\* frame was sent at all.
THEOREM VerifyingIsShown == BSpec => VerifyingShownIfSent
<1>1. ASSUME BInv, [BNext]_bvars, ota.state = "VERIFYING",
             ota'.state = "READY_TO_ACTIVATE"
      PROVE  shown' = "VERIFYING" \/ txStatus' = "failed"
  <2>1. ~TakeRequest
    BY <1>1, SessionEffect DEF TakeRequest, BInv
  <2>2. ~Press
    BY <1>1 DEF Press, PressRequestSeed, PressCorrectKey, PressWrongKey,
       PressStart, PressChunk, PressEnd, PressEndWrongCrc, PressActivate,
       PressAbort, Plainly, sendOtaCommand, pvars, vars
  <2>3. StatusArrives \/ StatusLost
    BY <1>1, <2>1, <2>2
    DEF BNext, LoseRequest, BTick, Tick, bvars, pvars, vars
  <2>4. QED
    BY <1>1, <2>3 DEF StatusArrives, StatusLost, SendStatus, PackedState
<1>2. BInv /\ [BNext]_bvars =>
        [ota.state = "VERIFYING" /\ ota'.state = "READY_TO_ACTIVATE"
           => shown' = "VERIFYING" \/ txStatus' = "failed"]_pvars
  BY <1>1
<1>3. QED
  BY <1>2, TesterInvariance, PTL DEF BSpec, VerifyingShownIfSent

-----------------------------------------------------------------------------
(* Induction over a set of naturals.                                       *)

LEMMA Induction ==
    ASSUME NEW S \in SUBSET Nat, 0 \in S, \A n \in S : n + 1 \in S
    PROVE  S = Nat
<1> DEFINE R == {ss \in Nat \X Nat : ss[1] < ss[2]}
           T == Nat \ S
<1>1. IsWellFoundedOn(R, Nat)
  BY NatLessThanWellFounded DEF OpToRel
<1> SUFFICES ASSUME S # Nat
             PROVE  FALSE
  OBVIOUS
<1>2. PICK x \in T : \A y \in T : ~ (<<y, x>> \in R)
  <2> HIDE DEF R
  <2> QED
    BY <1>1, WFMin
<1>3. x # 0 /\ x \in Nat
  OBVIOUS
<1>4. \A y \in T : ~(y < x)
  BY <1>2
<1>5. x - 1 \in Nat /\ x - 1 \notin T
  BY <1>3, <1>4
<1> QED
  BY <1>3, <1>5

-----------------------------------------------------------------------------
(* The checksum of an image, for every exclusive-or: of two parts it is    *)
(* that of the one with that of the other.                                 *)

XorLaws ==
    \A a, b, c \in Byte :
        /\ ByteXor(a, b) \in Byte
        /\ ByteXor(ByteXor(a, b), c) = ByteXor(a, ByteXor(b, c))
        /\ ByteXor(a, 0) = a /\ ByteXor(0, a) = a /\ ByteXor(a, a) = 0

\* sum is the checksum after each byte of the first n.
SumsOf(sum, s, n) ==
    sum = [i \in 0 .. n |-> IF i = 0 THEN 0 ELSE ByteXor(sum[i - 1], s[i])]

LEMMA SumsExist ==
    ASSUME NEW s, NEW n \in Nat
    PROVE  \E sum : SumsOf(sum, s, n)
<1> DEFINE S == {m \in Nat : \E sum : SumsOf(sum, s, m)}
<1>1. 0 \in S
  <2> DEFINE sum == [i \in 0 .. 0 |-> 0]
  <2>1. SumsOf(sum, s, 0)
    BY DEF SumsOf
  <2> QED
    BY <2>1
<1>2. ASSUME NEW m \in S
      PROVE  m + 1 \in S
  <2>1. PICK sum : SumsOf(sum, s, m)
    BY <1>2
  <2> DEFINE next == [i \in 0 .. m + 1 |->
                        IF i <= m THEN sum[i] ELSE ByteXor(sum[m], s[m + 1])]
  <2>2. m \in Nat /\ m + 1 \in Nat
    BY <1>2
  <2>3. /\ DOMAIN sum = 0 .. m
        /\ \A i \in 0 .. m :
             sum[i] = IF i = 0 THEN 0 ELSE ByteXor(sum[i - 1], s[i])
    BY <2>1 DEF SumsOf
  <2>4. ASSUME NEW i \in 0 .. m + 1
        PROVE  next[i] = IF i = 0 THEN 0 ELSE ByteXor(next[i - 1], s[i])
    <3>1. CASE i = 0
      BY <2>2, <2>3, <3>1
    <3>2. CASE i \in 1 .. m
      <4>1. next[i] = sum[i] /\ next[i - 1] = sum[i - 1]
        BY <2>2, <3>2
      <4> QED
        BY <2>2, <2>3, <3>2, <4>1
    <3>3. CASE i = m + 1
      <4>1. next[i] = ByteXor(sum[m], s[m + 1]) /\ next[m] = sum[m]
            /\ i - 1 = m /\ i # 0
        BY <2>2, <3>3
      <4> QED
        BY <3>3, <4>1
    <3> QED
      BY <2>2, <3>1, <3>2, <3>3
  <2>5. SumsOf(next, s, m + 1)
    <3>1. next = [i \in 0 .. m + 1 |-> next[i]]
      OBVIOUS
    <3> HIDE DEF next
    <3> QED
      BY <2>4, <3>1 DEF SumsOf
  <2> QED
    BY <2>2, <2>5
<1>3. S = Nat
  <2>1. S \in SUBSET Nat
    OBVIOUS
  <2> HIDE DEF S
  <2> QED
    BY <1>1, <1>2, <2>1, Induction
<1> QED
  BY <1>3

LEMMA ChecksumIs ==
    ASSUME NEW s \in Seq(Byte)
    PROVE  \E sum : /\ DataChecksum(s) = sum[Len(s)] /\ sum[0] = 0
                    /\ \A i \in 0 .. Len(s) - 1 :
                         sum[i + 1] = ByteXor(sum[i], s[i + 1])
<1>0. Len(s) \in Nat
  BY LenProperties
<1> DEFINE n == Len(s)
<1> HIDE DEF n
<1>1. n \in Nat
  BY <1>0 DEF n
<1> DEFINE sum == CHOOSE f : SumsOf(f, s, n)
<1>2. SumsOf(sum, s, n)
  BY <1>1, SumsExist
<1>3. DataChecksum(s) = sum[n]
  BY DEF DataChecksum, SumsOf, n
<1> HIDE DEF sum
<1>4. \A i \in 0 .. n : sum[i] = IF i = 0 THEN 0 ELSE ByteXor(sum[i - 1], s[i])
  BY <1>2 DEF SumsOf
<1>5. sum[0] = 0
  BY <1>1, <1>4
<1>6. ASSUME NEW i \in 0 .. n - 1
      PROVE  sum[i + 1] = ByteXor(sum[i], s[i + 1])
  <2>1. i + 1 \in 0 .. n /\ i + 1 # 0 /\ (i + 1) - 1 = i
    BY <1>1
  <2> QED
    BY <1>4, <2>1
<1> QED
  BY <1>3, <1>5, <1>6 DEF n

LEMMA ChecksumIsByte ==
    ASSUME NEW s \in Seq(Byte)
    PROVE  DataChecksum(s) \in Byte
<1> DEFINE n == Len(s)
<1>1. n \in Nat /\ \A i \in 1 .. n : s[i] \in Byte
  BY LenProperties, ElementOfSeq
<1>2. PICK sum : /\ DataChecksum(s) = sum[n] /\ sum[0] = 0
                 /\ \A i \in 0 .. n - 1 : sum[i + 1] = ByteXor(sum[i], s[i + 1])
  BY ChecksumIs
<1> DEFINE S == {i \in Nat : i <= n => sum[i] \in Byte}
<1> HIDE DEF n
<1>3. 0 \in S
  BY <1>2, SizesAssumption DEF Byte
<1>4. ASSUME NEW i \in S
      PROVE  i + 1 \in S
  <2> SUFFICES ASSUME i + 1 <= n
               PROVE  sum[i + 1] \in Byte
    OBVIOUS
  <2>1. i \in 0 .. n - 1 /\ i + 1 \in 1 .. n
    BY <1>1
  <2>2. sum[i] \in Byte /\ s[i + 1] \in Byte
    BY <1>1, <2>1
  <2> QED
    BY <1>2, <2>1, <2>2, ByteAssumption
<1>5. S = Nat
  <2>1. S \in SUBSET Nat
    OBVIOUS
  <2> HIDE DEF S
  <2> QED
    BY <1>3, <1>4, <2>1, Induction
<1> QED
  BY <1>1, <1>2, <1>5

LEMMA XorJoins ==
    ASSUME XorLaws, NEW a \in Byte, NEW b \in Byte, NEW c \in Byte
    PROVE  /\ ByteXor(ByteXor(a, b), c) = ByteXor(a, ByteXor(b, c))
           /\ ByteXor(b, c) \in Byte
  BY DEF XorLaws

LEMMA XorZero ==
    ASSUME XorLaws, NEW a \in Byte
    PROVE  ByteXor(a, 0) = a
  BY DEF XorLaws

LEMMA ChecksumJoins ==
    ASSUME XorLaws, NEW s \in Seq(Byte), NEW t \in Seq(Byte)
    PROVE  DataChecksum(s \o t) = ByteXor(DataChecksum(s), DataChecksum(t))
<1> DEFINE st == s \o t
           m == Len(s)
           n == Len(t)
<1>1. /\ m \in Nat /\ n \in Nat /\ st \in Seq(Byte) /\ Len(st) = m + n
      /\ \A i \in 1 .. m + n : st[i] = IF i <= m THEN s[i] ELSE t[i - m]
      /\ \A i \in 1 .. n : t[i] \in Byte
  BY LenProperties, ConcatProperties, ElementOfSeq
<1> HIDE DEF st
<1>2. PICK u : /\ DataChecksum(s) = u[m] /\ u[0] = 0
               /\ \A i \in 0 .. m - 1 : u[i + 1] = ByteXor(u[i], s[i + 1])
  BY ChecksumIs
<1>3. PICK v : /\ DataChecksum(t) = v[n] /\ v[0] = 0
               /\ \A i \in 0 .. n - 1 : v[i + 1] = ByteXor(v[i], t[i + 1])
  BY ChecksumIs
<1>4. PICK w : /\ DataChecksum(st) = w[m + n] /\ w[0] = 0
               /\ \A i \in 0 .. m + n - 1 :
                    w[i + 1] = ByteXor(w[i], st[i + 1])
  <2>1. PICK w : /\ DataChecksum(st) = w[Len(st)] /\ w[0] = 0
                 /\ \A i \in 0 .. Len(st) - 1 :
                      w[i + 1] = ByteXor(w[i], st[i + 1])
    BY <1>1, ChecksumIs
  <2> QED
    BY <1>1, <2>1
<1>5. u[m] \in Byte
  BY <1>2, ChecksumIsByte
<1> HIDE DEF m, n
<1>6. w[m] = u[m]
  <2> DEFINE S == {i \in Nat : i <= m => w[i] = u[i]}
  <2>1. 0 \in S
    BY <1>2, <1>4
  <2>2. ASSUME NEW i \in S
        PROVE  i + 1 \in S
    <3> SUFFICES ASSUME i + 1 <= m
                 PROVE  w[i + 1] = u[i + 1]
      OBVIOUS
    <3>1. i \in 0 .. m - 1 /\ i \in 0 .. m + n - 1 /\ i + 1 \in 1 .. m + n
      BY <1>1
    <3>2. w[i] = u[i] /\ st[i + 1] = s[i + 1]
      BY <1>1, <3>1
    <3> QED
      BY <1>2, <1>4, <3>1, <3>2
  <2>3. S = Nat
    <3>1. S \in SUBSET Nat
      OBVIOUS
    <3> HIDE DEF S
    <3> QED
      BY <2>1, <2>2, <3>1, Induction
  <2> QED
    BY <1>1, <2>3
<1>7. w[m + n] = ByteXor(u[m], v[n])
  <2> DEFINE S == {i \in Nat : i <= n => /\ v[i] \in Byte
                                         /\ w[m + i] = ByteXor(u[m], v[i])}
  <2>1. 0 \in S
    <3>1. v[0] \in Byte
      BY <1>3, SizesAssumption DEF Byte
    <3>2. w[m + 0] = ByteXor(u[m], v[0])
      <4>1. ByteXor(u[m], 0) = u[m]
        BY <1>5, XorZero
      <4>2. m + 0 = m
        BY <1>1
      <4> QED
        BY <1>3, <1>6, <4>1, <4>2
    <3> QED
      BY <3>1, <3>2
  <2>2. ASSUME NEW i \in S
        PROVE  i + 1 \in S
    <3> SUFFICES ASSUME i + 1 <= n
                 PROVE  /\ v[i + 1] \in Byte
                        /\ w[m + (i + 1)] = ByteXor(u[m], v[i + 1])
      OBVIOUS
    <3>1. i \in 0 .. n - 1 /\ i + 1 \in 1 .. n /\ m + i \in 0 .. m + n - 1
          /\ (m + i) + 1 \in 1 .. m + n /\ ~((m + i) + 1 <= m)
          /\ ((m + i) + 1) - m = i + 1 /\ m + (i + 1) = (m + i) + 1
      BY <1>1
    <3>2. v[i] \in Byte /\ w[m + i] = ByteXor(u[m], v[i]) /\ t[i + 1] \in Byte
      BY <1>1, <3>1
    <3>3. w[(m + i) + 1] = ByteXor(w[m + i], t[i + 1])
      <4>1. st[(m + i) + 1] = t[i + 1]
        <5> DEFINE k == (m + i) + 1
        <5>1. k \in 1 .. m + n /\ ~(k <= m) /\ k - m = i + 1
          BY <3>1
        <5> HIDE DEF k
        <5>2. st[k] = IF k <= m THEN s[k] ELSE t[k - m]
          BY <1>1, <5>1
        <5> QED
          BY <5>1, <5>2 DEF k
      <4> QED
        BY <1>4, <3>1, <4>1
    <3>4. v[i + 1] = ByteXor(v[i], t[i + 1])
      BY <1>3, <3>1
    <3>5. ByteXor(ByteXor(u[m], v[i]), t[i + 1]) = ByteXor(u[m], v[i + 1])
          /\ v[i + 1] \in Byte
      <4> DEFINE a == u[m]
                 b == v[i]
                 c == t[i + 1]
      <4>1. a \in Byte /\ b \in Byte /\ c \in Byte
        BY <1>5, <3>2
      <4>2. ByteXor(b, c) = v[i + 1]
        BY <3>4
      <4> HIDE DEF a, b, c
      <4>3. /\ ByteXor(ByteXor(a, b), c) = ByteXor(a, ByteXor(b, c))
            /\ ByteXor(b, c) \in Byte
        BY <4>1, XorJoins
      <4> QED
        BY <4>2, <4>3 DEF a, b, c
    <3> QED
      BY <3>1, <3>2, <3>3, <3>5
  <2>3. S = Nat
    <3>1. S \in SUBSET Nat
      OBVIOUS
    <3> HIDE DEF S
    <3> QED
      BY <2>1, <2>2, <3>1, Induction
  <2>4. n \in S
    BY <1>1, <2>3
  <2> QED
    BY <1>1, <2>4
<1> QED
  BY <1>2, <1>3, <1>4, <1>7 DEF st, m, n

LEMMA MulOne ==
    ASSUME NEW d \in Int, NEW p \in Nat, 0 <= d * p, d * p < p
    PROVE  d = 0
<1>1. CASE d >= 1
  <2>1. d * p >= p
    BY <1>1
  <2> QED
    BY <2>1
<1>2. CASE d <= -1
  <2>1. d * p <= -p
    BY <1>2
  <2> QED
    BY <2>1
<1> QED
  BY <1>1, <1>2

LEMMA DivExact ==
    ASSUME NEW m \in Nat, NEW p \in Nat, p # 0
    PROVE  (m * p) \div p = m
<1> DEFINE x == m * p
           q == x \div p
           r == x % p
<1>0. x \in Int
  OBVIOUS
<1> HIDE DEF x
<1>1. q \in Int /\ r \in 0 .. p - 1 /\ x = p * q + r
  BY <1>0
<1> HIDE DEF q, r
<1>2. x = m * p
  BY DEF x
<1>3. p * q = q * p
  BY <1>1
<1>4. (m - q) * p = m * p - q * p
  BY <1>1
<1>5. (m - q) * p = r
  BY <1>1, <1>2, <1>3, <1>4
<1>6. m - q = 0
  BY <1>1, <1>5, MulOne
<1> QED
  BY <1>1, <1>6 DEF q, x

-----------------------------------------------------------------------------
(* The image is made of chunks.  Its checksum only tells whether their     *)
(* number is even.                                                         *)

Parity(n) == IF n % 2 = 0 THEN 0 ELSE DataChecksum(Chunk)

IsChunks(s, m) ==
    /\ s \in Seq(Byte)
    /\ Len(s) = m * PayloadMax
    /\ DataChecksum(s) = Parity(m)

\* What the panel has added up is the parity of what it sent, and the buffer
\* of ECU6 holds whole chunks.
ChunkInv ==
    /\ wire.cmd = "DATA" => wire.arg = PayloadMax /\ wire.data = Chunk
    /\ sentChunks \in Nat
    /\ lastPayloadChecksum = Parity(sentChunks)
    /\ \E m \in Nat : IsChunks(ota.buffer, m)

LEMMA ChunkIsImage ==
    /\ Chunk \in Seq(Byte)
    /\ Len(Chunk) = PayloadMax
    /\ SubSeq(Chunk, 1, PayloadMax) = Chunk
<1>1. PayloadMax \in Nat /\ Chunk \in [1 .. PayloadMax -> Byte]
  BY SizesAssumption, ChunkAssumption
<1>2. Chunk \in Seq(Byte) /\ Len(Chunk) = PayloadMax
  BY <1>1
<1>3. SubSeq(Chunk, 1, PayloadMax) = [i \in 1 .. PayloadMax |-> Chunk[i]]
  BY <1>1, <1>2
<1>4. Chunk = [i \in 1 .. PayloadMax |-> Chunk[i]]
  BY <1>1
<1> QED
  BY <1>2, <1>3, <1>4

\* One chunk more turns the parity.
LEMMA ParityTurns ==
    ASSUME XorLaws, NEW n \in Nat
    PROVE  Parity(n + 1) = ByteXor(Parity(n), DataChecksum(Chunk))
<1>1. DataChecksum(Chunk) \in Byte
  BY ChunkIsImage, ChecksumIsByte
<1>2. /\ ByteXor(0, DataChecksum(Chunk)) = DataChecksum(Chunk)
      /\ ByteXor(DataChecksum(Chunk), DataChecksum(Chunk)) = 0
  BY <1>1 DEF XorLaws
<1>3. (n % 2 = 0) <=> ((n + 1) % 2 # 0)
  OBVIOUS
<1> QED
  BY <1>2, <1>3 DEF Parity

LEMMA NoChunks == IsChunks(<< >>, 0)
<1>1. << >> \in Seq(Byte) /\ Len(<< >>) = 0
  OBVIOUS
<1>2. DataChecksum(<< >>) = 0
  BY <1>1, ChecksumIs
<1>3. 0 * PayloadMax = 0 /\ 0 % 2 = 0
  BY SizesAssumption
<1> QED
  BY <1>1, <1>2, <1>3 DEF IsChunks, Parity

LEMMA OneMoreChunk ==
    ASSUME XorLaws, NEW s, NEW m \in Nat, IsChunks(s, m)
    PROVE  IsChunks(s \o Chunk, m + 1)
<1>1. s \in Seq(Byte) /\ Len(s) = m * PayloadMax /\ DataChecksum(s) = Parity(m)
  BY DEF IsChunks
<1>2. s \o Chunk \in Seq(Byte) /\ Len(s \o Chunk) = Len(s) + PayloadMax
  BY <1>1, ChunkIsImage, ConcatProperties
<1>3. (m + 1) * PayloadMax = m * PayloadMax + PayloadMax
  BY SizesAssumption
<1>4. DataChecksum(s \o Chunk) = Parity(m + 1)
  BY <1>1, ChunkIsImage, ChecksumJoins, ParityTurns
<1> QED
  BY <1>1, <1>2, <1>3, <1>4 DEF IsChunks

\* A request leaves the buffer alone, empties it, or adds its payload.
LEMMA BufferEffect ==
    ASSUME OtaShape, NEW r, HandleRequest(r)
    PROVE  \/ ota'.buffer \in {ota.buffer, << >>}
           \/ /\ r.cmd = "DATA"
              /\ ota'.buffer = ota.buffer \o SubSeq(r.data, 1, r.arg)
<1>1. CASE ota' = ota
  BY <1>1
<1>2. CASE RequestSeed(r)
  BY <1>2 DEF RequestSeed, SeedSession, ResetDataBuffer, OtaShape
<1>3. CASE StartLocked(r)
  BY <1>3 DEF StartLocked, OtaShape
<1>4. CASE Start(r)
  BY <1>4 DEF Start, StartSession, ResetDataBuffer, OtaShape
<1>5. CASE ota' = FailSession(ota)
  BY <1>5 DEF FailSession, OtaShape
<1>6. CASE KeyRefused(r)
  BY <1>1, <1>5, <1>6 DEF KeyRefused, FailIfLockedOut
<1>7. CASE DataOverflow(r)
  BY <1>7 DEF DataOverflow, FailSession, OtaShape
<1>8. CASE DataStored(r)
  BY <1>8 DEF DataStored, Serve, OtaShape
<1>9. CASE EndVerified(r)
  BY <1>9 DEF EndVerified, EndSession, OtaShape
<1>10. CASE EndMismatch(r)
  BY <1>10 DEF EndMismatch, FailSession, OtaShape
<1>11. CASE Activate(r)
  BY <1>11 DEF Activate, OtaShape
<1>12. CASE Abort(r)
  BY <1>12 DEF Abort, FailSession, ResetDataBuffer, OtaShape
<1>13. QED
  BY <1>1, <1>2, <1>3, <1>4, <1>5, <1>6, <1>7, <1>8, <1>9, <1>10, <1>11, <1>12
  DEF HandleRequest, RejectUnknown, RejectLockedOut, KeyWithoutSeed,
      KeyAccepted, InvalidSequence, DataTooLong, DataUnauthentic

LEMMA ChunkInit ==
    ASSUME BInit
    PROVE  ChunkInv
<1>1. wire.cmd # "DATA" /\ ota.buffer = << >>
      /\ sentChunks = 0 /\ lastPayloadChecksum = 0
  BY DEF BInit, PInit, Init, NoRequest
<1>2. Parity(0) = 0
  BY DEF Parity
<1> QED
  BY <1>1, <1>2, NoChunks DEF ChunkInv

LEMMA ChunkStep ==
    ASSUME XorLaws, BInv, ChunkInv, [BNext]_bvars
    PROVE  ChunkInv'
<1>1. CASE PressStart
  <2>1. /\ wire'.cmd # "DATA" /\ ota' = ota
        /\ sentChunks' = 0 /\ lastPayloadChecksum' = 0
    BY <1>1 DEF PressStart, sendOtaCommand, pvars, vars
  <2>2. Parity(0) = 0
    BY DEF Parity
  <2> QED
    BY <2>1, <2>2 DEF ChunkInv
<1>2. CASE PressChunk
  <2>1. /\ wire'.arg = PayloadMax /\ wire'.data = Chunk /\ ota' = ota
        /\ sentChunks' = sentChunks + 1
        /\ lastPayloadChecksum' =
             ByteXor(lastPayloadChecksum, DataChecksum(Chunk))
    BY <1>2 DEF PressChunk, sendOtaCommand, pvars, vars
  <2>2. /\ sentChunks' \in Nat
        /\ lastPayloadChecksum' = Parity(sentChunks')
    BY <2>1, ParityTurns DEF ChunkInv
  <2> QED
    BY <2>1, <2>2 DEF ChunkInv
<1>3. CASE Press /\ ~PressStart /\ ~PressChunk
  <2>1. /\ wire'.cmd # "DATA" /\ ota' = ota
        /\ UNCHANGED <<lastPayloadChecksum, sentChunks>>
    BY <1>3 DEF Press, PressRequestSeed, PressCorrectKey, PressWrongKey,
       PressEnd, PressEndWrongCrc, PressActivate, PressAbort,
       Plainly, sendOtaCommand, pvars, vars
  <2> QED
    BY <2>1 DEF ChunkInv
<1>4. CASE TakeRequest
  <2>1. /\ HandleRequest(wire) /\ wire'.cmd # "DATA"
        /\ UNCHANGED <<lastPayloadChecksum, sentChunks>>
    BY <1>4 DEF TakeRequest, NoRequest
  <2>2. \/ ota'.buffer \in {ota.buffer, << >>}
        \/ ota'.buffer = ota.buffer \o Chunk
    BY <2>1, BufferEffect, ChunkIsImage DEF BInv, Shapes, ChunkInv
  <2>3. PICK m \in Nat : IsChunks(ota.buffer, m)
    BY DEF ChunkInv
  <2>4. \E n \in Nat : IsChunks(ota'.buffer, n)
    <3>1. CASE ota'.buffer = << >>
      BY <3>1, NoChunks
    <3>2. CASE ota'.buffer = ota.buffer
      BY <2>3, <3>2
    <3>3. CASE ota'.buffer = ota.buffer \o Chunk
      <4>1. IsChunks(ota.buffer \o Chunk, m + 1)
        BY <2>3, OneMoreChunk
      <4>2. m + 1 \in Nat
        BY <2>3
      <4> QED
        BY <3>3, <4>1, <4>2
    <3> QED
      BY <2>2, <3>1, <3>2, <3>3
  <2> QED
    BY <2>1, <2>4 DEF ChunkInv
<1>5. CASE StatusArrives \/ StatusLost
  <2>1. /\ PublishStatus
        /\ UNCHANGED <<wire, lastPayloadChecksum, sentChunks>>
    BY <1>5 DEF StatusArrives, StatusLost, SendStatus, panelVars
  <2>2. ota'.buffer = ota.buffer
    BY <2>1 DEF PublishStatus, AfterStatusPublish, BInv, Shapes, OtaShape
  <2> QED
    BY <2>1, <2>2 DEF ChunkInv
<1>6. CASE LoseRequest \/ BTick \/ UNCHANGED bvars
  <2>1. /\ wire' = wire \/ wire'.cmd # "DATA"
        /\ UNCHANGED <<ota, lastPayloadChecksum, sentChunks>>
    BY <1>6 DEF LoseRequest, BTick, Tick, NoRequest, bvars, pvars, vars,
                panelVars
  <2> QED
    BY <2>1 DEF ChunkInv
<1> QED
  BY <1>1, <1>2, <1>3, <1>4, <1>5, <1>6 DEF BNext

\* Only a verified END begins the verification.
LEMMA VerifyingStep ==
    ASSUME BInv, [BNext]_bvars, ota.state # "VERIFYING",
           ota'.state = "VERIFYING"
    PROVE  TakeRequest /\ EndVerified(wire)
<1>1. ~PublishStatus
  BY DEF PublishStatus, AfterStatusPublish, BInv, Shapes, OtaShape
<1>2. ~Press
  BY DEF Press, PressRequestSeed, PressCorrectKey, PressWrongKey, PressStart,
     PressChunk, PressEnd, PressEndWrongCrc, PressActivate, PressAbort,
     Plainly, sendOtaCommand, pvars, vars
<1>3. TakeRequest
  BY <1>1, <1>2
  DEF BNext, LoseRequest, StatusArrives, StatusLost, SendStatus, BTick, Tick,
      bvars, pvars, vars
<1>4. HandleRequest(wire)
  BY <1>3 DEF TakeRequest
<1>5. ~RequestSeed(wire) /\ ~StartLocked(wire) /\ ~Start(wire)
  BY DEF RequestSeed, SeedSession, StartLocked, Start, StartSession,
         ResetDataBuffer, BInv, Shapes, OtaShape
<1>6. ota' # ota /\ ota' # FailSession(ota)
  BY DEF FailSession, BInv, Shapes, OtaShape
<1>7. ~DataOverflow(wire) /\ ~EndMismatch(wire) /\ ~DataStored(wire)
      /\ ~Activate(wire) /\ ~Abort(wire)
  BY DEF DataOverflow, EndMismatch, DataStored, Activate, Abort, FailSession,
         ResetDataBuffer, BInv, Shapes, OtaShape
<1>8. ~KeyRefused(wire)
  BY <1>6 DEF KeyRefused, FailIfLockedOut
<1> QED
  BY <1>3, <1>4, <1>5, <1>6, <1>7, <1>8
  DEF HandleRequest, RejectUnknown, RejectLockedOut, KeyWithoutSeed,
      KeyAccepted, InvalidSequence, DataTooLong, DataUnauthentic

\* An image one chunk short or one chunk long is not accepted by an honest END,
\* for any exclusive-or and a chunk whose bytes do not cancel out (those of the
\* panel, 11 22 33 44, leave 44).
THEOREM OneChunkIsNoticed ==
    ASSUME XorLaws, DataChecksum(Chunk) # 0
    PROVE  BSpec => OneChunkNoticed
<1>1. BInit => BInv /\ ChunkInv
  BY InitGood, ChunkInit
<1>2. BInv /\ ChunkInv /\ [BNext]_bvars => BInv' /\ ChunkInv'
  BY StepGood, ChunkStep
<1> DEFINE stored == Len(ota.buffer) \div PayloadMax
<1>3. ASSUME BInv, ChunkInv, [BNext]_bvars, ota.state # "VERIFYING",
             ota'.state = "VERIFYING", Honest
      PROVE  stored # sentChunks - 1 /\ stored # sentChunks + 1
  <2>1. wire.cmd = "END" /\ DataChecksum(ota.buffer) = wire.arg
    BY <1>3, VerifyingStep DEF EndVerified, Serve, ChecksumMatches
  <2>2. DataChecksum(ota.buffer) = Parity(sentChunks) /\ sentChunks \in Nat
    BY <1>3, <2>1 DEF Honest, ChunkInv
  <2>3. PICK m \in Nat : /\ Len(ota.buffer) = m * PayloadMax
                         /\ DataChecksum(ota.buffer) = Parity(m)
    BY <1>3 DEF ChunkInv, IsChunks
  <2>4. PayloadMax \in Nat /\ PayloadMax # 0
    <3>1. ASSUME PayloadMax = 0
          PROVE  FALSE
      BY <3>1, ChunkIsImage, ChecksumIs
    <3> QED
      BY <3>1, SizesAssumption
  <2>5. stored = m
    BY <2>3, <2>4, DivExact
  <2>6. Parity(m) = Parity(sentChunks)
    BY <2>2, <2>3
  <2> HIDE DEF stored
  <2>7. m % 2 = sentChunks % 2
    BY <2>2, <2>6 DEF Parity
  <2> QED
    BY <2>2, <2>5, <2>7
<1>4. BInv /\ ChunkInv /\ [BNext]_bvars =>
        [ota.state # "VERIFYING" /\ ota'.state = "VERIFYING" /\ Honest
           => stored # sentChunks - 1 /\ stored # sentChunks + 1]_bvars
  BY <1>3
<1> QED
  BY <1>1, <1>2, <1>4, PTL DEF BSpec, OneChunkNoticed

-----------------------------------------------------------------------------
(* Whatever is pressed and lost, ECU6 is driven as its own specification   *)
(* has it, so all that is proved of the handler holds behind the bridge.   *)

\* A button makes a well-formed frame, of bytes it computed from bytes.
WireGood ==
    /\ wire = NoRequest \/ wire \in RequestType
    /\ {panelSequence, lastSeed, lastPayloadChecksum} \subseteq Byte

LEMMA PressWireGood ==
    ASSUME PayloadMax \in Byte, WireGood, Press
    PROVE  WireGood'
<1> DEFINE Fields(c, a, u, d) ==
             /\ wire' = [cmd |-> c, seq |-> nextSequence, arg |-> a,
                         auth |-> u, data |-> d]
             /\ panelSequence' = nextSequence
             /\ lastSeed' = lastSeed
<1>1. 0 \in Byte /\ nextSequence \in Byte
  BY SizesAssumption DEF nextSequence, Byte, WireGood
<1>2. \A a, b \in Byte : ByteXor(a, b) \in Byte
  BY ByteAssumption
<1>3. DataChecksum(Chunk) \in Byte
  BY ChunkIsImage, ChecksumIsByte
<1>4. NoData \in [1 .. PayloadMax -> Byte] /\ Chunk \in [1 .. PayloadMax -> Byte]
  BY <1>1, ChunkAssumption DEF NoData
<1>5. {KeyXor, AuthXor, WrongKeyXor, WrongCrcXor} \subseteq Byte
  BY ByteAssumption, WrongAssumption
<1>6. PICK c \in Commands, a \in Byte, u \in Byte,
           d \in [1 .. PayloadMax -> Byte] : Fields(c, a, u, d)
  <2>1. CASE PressChunk
    <3>1. calcOtaDataAuth(nextSequence, PayloadMax) \in Byte
      BY <1>1, <1>2, <1>5 DEF calcOtaDataAuth, WireGood
    <3>2. Fields("DATA", PayloadMax,
                 calcOtaDataAuth(nextSequence, PayloadMax), Chunk)
      BY <2>1 DEF PressChunk, sendOtaCommand
    <3> QED
      BY <1>4, <3>1, <3>2 DEF Commands
  <2>2. CASE Press /\ ~PressChunk
    <3>1. /\ ByteXor(lastSeed, KeyXor) \in Byte
          /\ ByteXor(lastSeed, WrongKeyXor) \in Byte
          /\ lastPayloadChecksum \in Byte
          /\ ByteXor(lastPayloadChecksum, WrongCrcXor) \in Byte
      BY <1>2, <1>5 DEF WireGood
    <3>2. \E c \in Commands, a \in Byte : Fields(c, a, 0, NoData)
      BY <1>1, <2>2, <3>1
      DEF Press, PressRequestSeed, PressCorrectKey, PressWrongKey, PressStart,
          PressEnd, PressEndWrongCrc, PressActivate, PressAbort, Plainly,
          sendOtaCommand, Commands
    <3> QED
      BY <1>1, <1>4, <3>2
  <2> QED
    BY <2>1, <2>2
<1>7. wire' \in RequestType
  BY <1>1, <1>6 DEF RequestType
<1>8. lastPayloadChecksum' \in Byte
  BY <1>1, <1>2, <1>3
  DEF Press, PressRequestSeed, PressCorrectKey, PressWrongKey, PressStart,
      PressChunk, PressEnd, PressEndWrongCrc, PressActivate, PressAbort,
      Plainly, WireGood
<1> QED
  BY <1>1, <1>6, <1>7, <1>8 DEF WireGood

\* Every step of the bridge is one of ECU6 and its transmission, or none.
LEMMA BridgeStep ==
    ASSUME RequestType \subseteq Requests, WireGood, [BNext]_bvars
    PROVE  [PNext]_pvars
<1>1. CASE TakeRequest
  <2>1. wire \in Requests /\ HandleRequest(wire) /\ UNCHANGED <<txStatus, shown>>
    BY <1>1 DEF TakeRequest, WireGood
  <2> QED
    BY <2>1 DEF PNext, Otherwise
<1>2. CASE StatusArrives \/ StatusLost
  BY <1>2 DEF StatusArrives, StatusLost, PNext
<1>3. CASE BTick
  BY <1>3 DEF BTick, PNext, Otherwise
<1>4. CASE Press \/ LoseRequest
  BY <1>4 DEF Press, PressRequestSeed, PressCorrectKey, PressWrongKey,
     PressStart, PressChunk, PressEnd, PressEndWrongCrc, PressActivate,
     PressAbort, Plainly, sendOtaCommand, LoseRequest
<1>5. CASE UNCHANGED bvars
  BY <1>5 DEF bvars
<1> QED
  BY <1>1, <1>2, <1>3, <1>4, <1>5 DEF BNext

\* Transmission adds nothing to what the handler may do.
LEMMA PublicationStep ==
    ASSUME [PNext]_pvars
    PROVE  [Next]_vars
  BY DEF PNext, SendStatus, Otherwise, Next, pvars

LEMMA BridgeWireGood ==
    ASSUME PayloadMax \in Byte, WireGood, [BNext]_bvars, Outputs'
    PROVE  WireGood'
<1>1. CASE Press
  BY <1>1, PressWireGood
<1>2. CASE TakeRequest
  <2>1. lastSeed' \in Byte
    <3>1. CASE lastSeed' = lastSeed
      BY <3>1 DEF WireGood
    <3>2. CASE CarriesSeed(response') /\ lastSeed' = response'.detail
      <4>1. response'.detail = securitySeed'
        BY <1>2, <3>2, SeedEffect DEF TakeRequest
      <4> QED
        BY <3>2, <4>1 DEF Outputs
    <3> QED
      BY <1>2, <3>1, <3>2 DEF TakeRequest, ResponseArrives, ResponseLost
  <2> QED
    BY <1>2, <2>1 DEF TakeRequest, WireGood
<1>3. CASE LoseRequest \/ StatusArrives \/ StatusLost \/ BTick \/ UNCHANGED bvars
  <2>1. /\ wire' \in {wire, NoRequest}
        /\ UNCHANGED <<panelSequence, lastSeed, lastPayloadChecksum>>
    BY <1>3 DEF LoseRequest, StatusArrives, StatusLost, BTick, bvars, panelVars
  <2> QED
    BY <2>1 DEF WireGood
<1> QED
  BY <1>1, <1>2, <1>3 DEF BNext

\* Behind any tester, and any bus, ECU6 and its transmission behave as
\* StatusPublication, and the handler as OtaSecurity, with any well-formed frame
\* for a request: what the tester sends is well formed.
THEOREM BridgeIsCovered ==
    ASSUME RequestType \subseteq Requests, PayloadMax \in Byte
    PROVE  BSpec => PSpec /\ Spec
<1>1. BInit => PInit /\ IInv /\ WireGood
  <2> SUFFICES ASSUME BInit
               PROVE  PInit /\ IInv /\ WireGood
    OBVIOUS
  <2>1. PInit /\ Init
    BY DEF BInit, PInit
  <2>2. WireGood
    BY ZeroInRange DEF BInit, WireGood
  <2> QED
    BY <2>1, <2>2, InvariantInit
<1>2. IInv /\ WireGood /\ [BNext]_bvars =>
        /\ [PNext]_pvars /\ [Next]_vars
        /\ IInv' /\ WireGood'
  <2> SUFFICES ASSUME IInv, WireGood, [BNext]_bvars
               PROVE  /\ [PNext]_pvars /\ [Next]_vars
                      /\ IInv' /\ WireGood'
    OBVIOUS
  <2>1. [PNext]_pvars /\ [Next]_vars
    BY BridgeStep, PublicationStep
  <2>2. IInv'
    BY <2>1, InvariantStep
  <2>3. WireGood'
    BY <2>2, BridgeWireGood DEF IInv
  <2> QED
    BY <2>1, <2>2, <2>3
<1>3. PInit => Init
  BY DEF PInit
<1> QED
  BY <1>1, <1>2, <1>3, PTL DEF BSpec, PSpec, Spec

\* So the tester sees the abstract update session: a version moves only at the
\* end of one that was authorised, verified and published.
THEOREM BridgeImplementsSession ==
    ASSUME RequestType \subseteq Requests, PayloadMax \in Byte
    PROVE  BSpec => ImplementsSession
  BY BridgeIsCovered, HandlerImplementsSession, PTL

\* And its failures are remembered, and its lockouts served in full, in any
\* order of buttons.
THEOREM BridgeServesLockouts ==
    ASSUME RequestType \subseteq Requests, PayloadMax \in Byte
    PROVE  BSpec => LockoutServed /\ FailuresRemembered
  BY BridgeIsCovered, LockoutIsServed, FailuresAreRemembered, PTL

================================================================================
