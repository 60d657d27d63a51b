----------------------------- MODULE OtaSecurity -----------------------------
(***************************************************************************)
(* The OTA request handler of ECU6 and the security access that guards it  *)
(* (src/Sources/services/com_gateway.c).  One CAN request 0x650 is handled *)
(* to completion and answered with one response 0x651, so every branch of  *)
(* OTA_HandleRequestMessage is one action here.  Two more things move this *)
(* state: the kernel tick, against which the lockout is timed, and the     *)
(* periodic GatewayStatus frame, whose builder polls the lockout and moves *)
(* a verified image to READY_TO_ACTIVATE.                                  *)
(*                                                                         *)
(* Every static variable the code below reads is kept, the booleans and    *)
(* counters of the security access in the record sec, those of the OTA     *)
(* session in the record ota.  lastOtaCommand, otaCalculatedChecksum,      *)
(* otaExpectedAuth and otaReceivedAuth are written and never read again by *)
(* the program; they are left out.                                         *)
(***************************************************************************)
EXTENDS Integers, Sequences

CONSTANTS
    ByteMax,        \* largest uint8_t value: 0xFF in the code
    CounterMod,     \* period of otaResponseCounter: 16 in the code
    BufferSize,     \* OTA_DATA_BUFFER_SIZE
    PayloadMax,     \* OTA_DATA_PAYLOAD_MAX
    FailureLimit,   \* OTA_SECURITY_LOCKOUT_LIMIT
    LockoutTicks,   \* pdMS_TO_TICKS(OTA_SECURITY_LOCKOUT_MS)
    PollSlack,      \* how late the status task may poll an expired lockout
    TickMod,        \* 2^32: TickType_t wraps here
    SeedBase,       \* OTA_SECURITY_SEED_BASE
    KeyXor,         \* OTA_SECURITY_KEY_XOR
    AuthXor,        \* OTA_DATA_AUTH_XOR
    ByteXor(_, _),      \* ^ on bytes
    Requests        \* the well-formed 0x650 frames a tester may send

Byte == 0 .. ByteMax

Commands == {"START", "DATA", "END", "ACTIVATE", "ABORT",
             "REQUEST_SEED", "SEND_KEY"}

\* data[0] is the command, data[1] the sequence number, data[2] the key, the
\* payload length or the image checksum, data[3] the authentication byte of a
\* DATA frame and data[4..7] its payload.
RequestType == [cmd : Commands \cup {"UNKNOWN"}, seq : Byte, arg : Byte,
                auth : Byte, data : [1 .. PayloadMax -> Byte]]

ASSUME SizesAssumption ==
    /\ ByteMax \in Nat \ {0}
    /\ CounterMod \in 1 .. ByteMax + 1
    /\ BufferSize \in Nat
    /\ PayloadMax \in Nat
    /\ FailureLimit \in Nat \ {0}
ASSUME TimeAssumption ==
    /\ LockoutTicks \in Nat \ {0}
    /\ PollSlack \in Nat
    /\ TickMod \in Nat
    /\ TickMod > LockoutTicks + PollSlack
ASSUME ByteAssumption ==
    /\ {SeedBase, KeyXor, AuthXor} \subseteq Byte
    /\ \A a, b \in Byte : ByteXor(a, b) \in Byte
ASSUME RequestsAssumption == \A r \in Requests : r \in RequestType

VARIABLES
    sec,                \* securityUnlocked ... securityLockoutStartTick
    ota,                \* otaState, otaVerifyPending, otaDataBuffer ...
    securitySeed,
    activeSwVersion,
    otaResponseCounter,
    response,           \* the last 0x651 frame built
    now,                \* xTaskGetTickCount()
    lockoutAge          \* history: ticks since the present lockout began

vars == <<sec, ota, securitySeed, activeSwVersion, otaResponseCounter,
          response, now, lockoutAge>>

OtaStates == {"IDLE", "START", "RECEIVING", "VERIFYING",
              "READY_TO_ACTIVATE", "SUCCESS", "FAILED"}

\* OTA_DETAIL_*.  They share their byte with the seed, so they stay numbers.
ACCEPTED            == 0
INVALID_ID          == 16
INVALID_DLC         == 17
UNKNOWN_COMMAND     == 18
INVALID_SEQUENCE    == 20
INVALID_DATA_LENGTH == 21
BUFFER_OVERFLOW     == 22
CHECKSUM_MISMATCH   == 23
INVALID_AUTH        == 24
SECURITY_LOCKED     == 32
SEED_REQUIRED       == 33
INVALID_KEY         == 34
SECURITY_LOCKOUT    == 35

SecurityType == [unlocked : BOOLEAN, locked : BOOLEAN, seedIssued : BOOLEAN,
                 errorCounter : Byte, failureStreak : 0 .. FailureLimit,
                 lockoutActive : BOOLEAN, lockoutStart : 0 .. TickMod - 1]
OtaType == [state : OtaStates, verifyPending : BOOLEAN, verifyOk : BOOLEAN,
            buffer : Seq(Byte), overflow : BOOLEAN, expectedChecksum : Byte]
ResponseType == [code : {"NONE", "ACK", "NACK"},
                 cmd : Commands \cup {"UNKNOWN", "NONE"}, seq : Byte,
                 detail : Nat, state : OtaStates, version : Byte,
                 counter : 0 .. CounterMod - 1]

-----------------------------------------------------------------------------
(* The static helpers: each maps the record it is called on to the record  *)
(* it leaves behind, so that a chain of calls is a chain of applications.  *)
(* A definition named Faulty... is the one below it with a plausible       *)
(* mistake; nothing uses it but the mutation runs.                         *)

\* Unsigned subtraction of two tick counts.
Elapsed(from) == IF now >= from THEN now - from ELSE now - from + TickMod

IncrementCounter(c) == IF c < ByteMax THEN c + 1 ELSE c

CalculateKey(seed) == ByteXor(seed, KeyXor)

GenerateSeed ==
    ByteXor(ByteXor(ByteXor(SeedBase, otaResponseCounter), sec.errorCounter),
        activeSwVersion)

ClearFailureStreak(s) ==
    [s EXCEPT !.failureStreak = 0, !.lockoutActive = FALSE, !.lockoutStart = 0]

FaultyResetUnlock(s) ==
    [ClearFailureStreak(s) EXCEPT !.unlocked = FALSE, !.locked = TRUE,
                                  !.seedIssued = FALSE]

ResetUnlock(s) ==
    [s EXCEPT !.unlocked = FALSE, !.locked = TRUE, !.seedIssued = FALSE]

FaultyMarkUnlocked(s) ==
    ClearFailureStreak([s EXCEPT !.unlocked = TRUE, !.locked = FALSE])

MarkUnlocked(s) ==
    ClearFailureStreak(
        [s EXCEPT !.unlocked = TRUE, !.locked = FALSE, !.seedIssued = FALSE])

LockoutOver(s) == s.lockoutActive /\ Elapsed(s.lockoutStart) >= LockoutTicks

FaultyUpdateLockout(s) == IF LockoutOver(s) THEN ResetUnlock(s) ELSE s

UpdateLockout(s) ==
    IF LockoutOver(s) THEN ClearFailureStreak(ResetUnlock(s)) ELSE s

CountFailure(s) ==
    [s EXCEPT !.errorCounter = IncrementCounter(@),
              !.failureStreak = IF @ < FailureLimit THEN @ + 1 ELSE @]

FaultyEnterLockout(s) ==
    [s EXCEPT !.lockoutActive = TRUE, !.unlocked = FALSE, !.locked = TRUE,
              !.seedIssued = FALSE]

EnterLockout(s) ==
    [s EXCEPT !.lockoutActive = TRUE, !.lockoutStart = now,
              !.unlocked = FALSE, !.locked = TRUE, !.seedIssued = FALSE]

StreakExhausted(s) == s.failureStreak >= FailureLimit

RecordFailure(s) ==
    LET failed == CountFailure(s)
    IN  IF StreakExhausted(failed) THEN EnterLockout(failed) ELSE failed

FaultyFailSession(o) == [o EXCEPT !.state = "FAILED"]

FailSession(o) == [o EXCEPT !.state = "FAILED", !.verifyPending = FALSE]

FaultyFailIfLockedOut(o, s) == o

\* What Security_RecordFailure does to the OTA session when it locks out.
FailIfLockedOut(o, s) == IF s.lockoutActive THEN FailSession(o) ELSE o

ResetDataBuffer(o) ==
    [o EXCEPT !.buffer = << >>, !.overflow = FALSE,
              !.expectedChecksum = 0, !.verifyOk = FALSE]

\* The session REQUEST_SEED leaves, and the one START opens.
FaultySeedSession(o) == ResetDataBuffer(o)

SeedSession(o) ==
    [ResetDataBuffer(o) EXCEPT !.state = "IDLE", !.verifyPending = FALSE]

StartSession(o) ==
    [ResetDataBuffer(o) EXCEPT !.state = "START", !.verifyPending = FALSE]

DataChecksum(buffer) ==
    LET sum[i \in 0 .. Len(buffer)] ==
          IF i = 0 THEN 0 ELSE ByteXor(sum[i - 1], buffer[i])
    IN  sum[Len(buffer)]

DataAuth(seq, len) == ByteXor(ByteXor(ByteXor(securitySeed, seq), len), AuthXor)

FaultyAdvanceVersion(v) == IF v > ByteMax THEN 1 ELSE v + 1

AdvanceVersion(v) == IF v >= ByteMax THEN 1 ELSE v + 1

\* The security record a handler sees once Security_IsLockoutActive has run.
Settled == UpdateLockout(sec)

-----------------------------------------------------------------------------
Init ==
    /\ sec = [unlocked |-> FALSE, locked |-> TRUE, seedIssued |-> FALSE,
              errorCounter |-> 0, failureStreak |-> 0,
              lockoutActive |-> FALSE, lockoutStart |-> 0]
    /\ ota = [state |-> "IDLE", verifyPending |-> FALSE, verifyOk |-> FALSE,
              buffer |-> << >>, overflow |-> FALSE, expectedChecksum |-> 0]
    /\ securitySeed = SeedBase
    /\ activeSwVersion = 1
    /\ otaResponseCounter = 0
    /\ response = [code |-> "NONE", cmd |-> "NONE", seq |-> 0, detail |-> 0,
                   state |-> "IDLE", version |-> 1, counter |-> 0]
    /\ now = 0
    /\ lockoutAge = 0

FaultyBuildResponse(cmd, seq, code, detail) ==
    /\ response' = [code |-> code, cmd |-> cmd, seq |-> seq,
                    detail |-> detail, state |-> ota.state,
                    version |-> activeSwVersion',
                    counter |-> otaResponseCounter]
    /\ otaResponseCounter' = (otaResponseCounter + 1) % CounterMod

\* OTA_BuildResponse, called after the command has taken effect.
BuildResponse(cmd, seq, code, detail) ==
    /\ response' = [code |-> code, cmd |-> cmd, seq |-> seq,
                    detail |-> detail, state |-> ota'.state,
                    version |-> activeSwVersion',
                    counter |-> otaResponseCounter]
    /\ otaResponseCounter' = (otaResponseCounter + 1) % CounterMod

Ack(r, detail)  == BuildResponse(r.cmd, r.seq, "ACK", detail)
Nack(r, detail) == BuildResponse(r.cmd, r.seq, "NACK", detail)

\* A frame of another identifier or length: nothing of it is echoed.
RejectFrame(detail) ==
    /\ UNCHANGED <<sec, ota, securitySeed, activeSwVersion, now, lockoutAge>>
    /\ BuildResponse("NONE", 0, "NACK", detail)

\* An unknown command is refused before the lockout is looked at.
RejectUnknown(r) ==
    /\ r.cmd \notin Commands
    /\ UNCHANGED <<sec, ota, securitySeed, activeSwVersion, now, lockoutAge>>
    /\ Nack(r, UNKNOWN_COMMAND)

RejectLockedOut(r) ==
    /\ r.cmd \in Commands
    /\ Settled.lockoutActive
    /\ sec' = Settled
    /\ UNCHANGED <<ota, securitySeed, activeSwVersion, now, lockoutAge>>
    /\ Nack(r, SECURITY_LOCKOUT)

\* The request has passed the lockout check: an expired lockout is gone, and
\* one that starts in this step starts now.
Serve(r, cmd) ==
    /\ r.cmd = cmd
    /\ ~Settled.lockoutActive
    /\ lockoutAge' = 0
    /\ now' = now

RequestSeed(r) ==
    /\ Serve(r, "REQUEST_SEED")
    /\ sec' = [ResetUnlock(Settled) EXCEPT !.seedIssued = TRUE]
    /\ ota' = SeedSession(ota)
    /\ securitySeed' = GenerateSeed
    /\ UNCHANGED activeSwVersion
    /\ Ack(r, securitySeed')

KeyWithoutSeed(r) ==
    /\ Serve(r, "SEND_KEY")
    /\ ~Settled.seedIssued
    /\ sec' = Settled
    /\ UNCHANGED <<ota, securitySeed, activeSwVersion>>
    /\ Nack(r, SEED_REQUIRED)

KeyAccepted(r) ==
    /\ Serve(r, "SEND_KEY")
    /\ Settled.seedIssued
    /\ r.arg = CalculateKey(securitySeed)
    /\ sec' = MarkUnlocked(Settled)
    /\ UNCHANGED <<ota, securitySeed, activeSwVersion>>
    /\ Ack(r, ACCEPTED)

KeyRefused(r) ==
    /\ Serve(r, "SEND_KEY")
    /\ Settled.seedIssued
    /\ r.arg # CalculateKey(securitySeed)
    /\ sec' = ResetUnlock(RecordFailure(Settled))
    /\ ota' = FailIfLockedOut(ota, RecordFailure(Settled))
    /\ UNCHANGED <<securitySeed, activeSwVersion>>
    /\ Nack(r, INVALID_KEY)

FaultyStartLocked(r) ==
    /\ Serve(r, "START")
    /\ ~Settled.unlocked
    /\ sec' = Settled
    /\ ota' = StartSession(ota)
    /\ UNCHANGED <<securitySeed, activeSwVersion>>
    /\ Nack(r, SECURITY_LOCKED)

StartLocked(r) ==
    /\ Serve(r, "START")
    /\ ~Settled.unlocked
    /\ sec' = Settled
    /\ ota' = [ota EXCEPT !.verifyPending = FALSE]
    /\ UNCHANGED <<securitySeed, activeSwVersion>>
    /\ Nack(r, SECURITY_LOCKED)

Start(r) ==
    /\ Serve(r, "START")
    /\ Settled.unlocked
    /\ sec' = Settled
    /\ ota' = StartSession(ota)
    /\ UNCHANGED <<securitySeed, activeSwVersion>>
    /\ Ack(r, ACCEPTED)

Receiving == ota.state \in {"START", "RECEIVING"}

FaultyActivationAllowed ==
    ota.state \in {"VERIFYING", "READY_TO_ACTIVATE"} /\ ota.verifyOk

ActivationAllowed == ota.state = "READY_TO_ACTIVATE" /\ ota.verifyOk

InvalidSequence(r) ==
    /\ \/ Serve(r, "DATA") /\ ~Receiving
       \/ Serve(r, "END") /\ ~Receiving
       \/ Serve(r, "ACTIVATE") /\ ~ActivationAllowed
    /\ sec' = Settled
    /\ ota' = FailSession(ota)
    /\ UNCHANGED <<securitySeed, activeSwVersion>>
    /\ Nack(r, INVALID_SEQUENCE)

\* OTA_StoreDataPayload checks length, authentication and room in this order.
LengthValid(r) == r.arg <= PayloadMax
AuthValid(r)   == r.auth = DataAuth(r.seq, r.arg)
PayloadFits(r) == Len(ota.buffer) + r.arg <= BufferSize

DataTooLong(r) ==
    /\ Serve(r, "DATA") /\ Receiving
    /\ ~LengthValid(r)
    /\ sec' = Settled
    /\ ota' = FailSession(ota)
    /\ UNCHANGED <<securitySeed, activeSwVersion>>
    /\ Nack(r, INVALID_DATA_LENGTH)

DataUnauthentic(r) ==
    /\ Serve(r, "DATA") /\ Receiving
    /\ LengthValid(r) /\ ~AuthValid(r)
    /\ sec' = RecordFailure(Settled)
    /\ ota' = FailSession(ota)
    /\ UNCHANGED <<securitySeed, activeSwVersion>>
    /\ Nack(r, INVALID_AUTH)

DataOverflow(r) ==
    /\ Serve(r, "DATA") /\ Receiving
    /\ LengthValid(r) /\ AuthValid(r) /\ ~PayloadFits(r)
    /\ sec' = Settled
    /\ ota' = [FailSession(ota) EXCEPT !.overflow = TRUE]
    /\ UNCHANGED <<securitySeed, activeSwVersion>>
    /\ Nack(r, BUFFER_OVERFLOW)

DataStored(r) ==
    /\ Serve(r, "DATA") /\ Receiving
    /\ LengthValid(r) /\ AuthValid(r) /\ PayloadFits(r)
    /\ sec' = Settled
    /\ ota' = [ota EXCEPT !.state = "RECEIVING",
                          !.buffer = @ \o SubSeq(r.data, 1, r.arg)]
    /\ UNCHANGED <<securitySeed, activeSwVersion>>
    /\ Ack(r, ACCEPTED)

FaultyChecksumMatches(r) == DataChecksum(ota.buffer) = ota.expectedChecksum

ChecksumMatches(r) == DataChecksum(ota.buffer) = r.arg

FaultyEndSession(sum) ==
    [ota EXCEPT !.state = "VERIFYING", !.verifyOk = TRUE,
                !.expectedChecksum = sum]

EndSession(sum) ==
    [ota EXCEPT !.state = "VERIFYING", !.verifyPending = TRUE,
                !.verifyOk = TRUE, !.expectedChecksum = sum]

EndVerified(r) ==
    /\ Serve(r, "END") /\ Receiving
    /\ ChecksumMatches(r)
    /\ sec' = Settled
    /\ ota' = EndSession(r.arg)
    /\ UNCHANGED <<securitySeed, activeSwVersion>>
    /\ Ack(r, ACCEPTED)

EndMismatch(r) ==
    /\ Serve(r, "END") /\ Receiving
    /\ ~ChecksumMatches(r)
    /\ sec' = Settled
    /\ ota' = [FailSession(ota) EXCEPT !.verifyOk = FALSE,
                                       !.expectedChecksum = r.arg]
    /\ UNCHANGED <<securitySeed, activeSwVersion>>
    /\ Nack(r, CHECKSUM_MISMATCH)

Activate(r) ==
    /\ Serve(r, "ACTIVATE")
    /\ ActivationAllowed
    /\ sec' = Settled
    /\ ota' = [ota EXCEPT !.state = "SUCCESS"]
    /\ activeSwVersion' = AdvanceVersion(activeSwVersion)
    /\ UNCHANGED securitySeed
    /\ Ack(r, ACCEPTED)

Abort(r) ==
    /\ Serve(r, "ABORT")
    /\ sec' = Settled
    /\ ota' = FailSession(ResetDataBuffer(ota))
    /\ UNCHANGED <<securitySeed, activeSwVersion>>
    /\ Ack(r, ACCEPTED)

\* OTA_UpdateStateAfterStatusPublish.
AfterStatusPublish(o) ==
    IF o.verifyPending /\ o.state = "VERIFYING"
    THEN [o EXCEPT !.verifyPending = FALSE,
                   !.state = IF o.verifyOk THEN "READY_TO_ACTIVATE"
                                           ELSE "FAILED"]
    ELSE o

\* The part of COM_GatewayBuildStatusMessage that concerns this module.
PublishStatus ==
    /\ sec' = Settled
    /\ ota' = AfterStatusPublish(ota)
    /\ lockoutAge' = IF sec'.lockoutActive THEN lockoutAge ELSE 0
    /\ UNCHANGED <<securitySeed, activeSwVersion, otaResponseCounter,
                   response, now>>

\* The kernel tick.  The status task polls the lockout every 100 ms, so an
\* expired lockout is never left standing for more than PollSlack ticks.
Tick ==
    /\ sec.lockoutActive => lockoutAge < LockoutTicks + PollSlack
    /\ now' = (now + 1) % TickMod
    /\ lockoutAge' = IF sec.lockoutActive THEN lockoutAge + 1 ELSE 0
    /\ UNCHANGED <<sec, ota, securitySeed, activeSwVersion,
                   otaResponseCounter, response>>

HandleRequest(r) ==
    \/ RejectUnknown(r)   \/ RejectLockedOut(r)
    \/ RequestSeed(r)
    \/ KeyWithoutSeed(r)  \/ KeyAccepted(r)      \/ KeyRefused(r)
    \/ StartLocked(r)     \/ Start(r)            \/ InvalidSequence(r)
    \/ DataTooLong(r)     \/ DataUnauthentic(r)  \/ DataOverflow(r)
    \/ DataStored(r)
    \/ EndVerified(r)     \/ EndMismatch(r)
    \/ Activate(r)        \/ Abort(r)

Next ==
    \/ \E detail \in {INVALID_ID, INVALID_DLC} : RejectFrame(detail)
    \/ \E r \in Requests : HandleRequest(r)
    \/ PublishStatus
    \/ Tick

Spec == Init /\ [][Next]_vars

\* Testers may stay silent; the kernel tick and the status task may not.
FairSpec == Spec /\ WF_vars(Tick) /\ WF_vars(PublishStatus)

-----------------------------------------------------------------------------
(* The session a vehicle sees.  A refused or aborted session is closed when *)
(* security is locked, and merely authorised while it is not.              *)

PhaseOf(s, o) ==
    CASE ~s.unlocked                                           -> "closed"
      [] s.unlocked /\ o.state \in {"IDLE", "FAILED"}          -> "authorised"
      [] s.unlocked /\ o.state \in {"START", "RECEIVING"}      -> "open"
      [] s.unlocked /\ o.state = "VERIFYING"                   -> "checked"
      [] s.unlocked /\ o.state = "READY_TO_ACTIVATE"           -> "offered"
      [] s.unlocked /\ o.state = "SUCCESS"                     -> "installed"

ImageOf(s, o) ==
    IF PhaseOf(s, o) \in {"closed", "authorised"} THEN << >> ELSE o.buffer

Session == INSTANCE UpdateSession
             WITH Block <- Byte, Capacity <- BufferSize,
                  LastVersion <- ByteMax, phase <- PhaseOf(sec, ota),
                  image <- ImageOf(sec, ota), version <- activeSwVersion

-----------------------------------------------------------------------------
\* Every variable keeps the range its C type and its comments give it; the
\* age of a lockout stays within the polling bound.
TypeOK ==
    /\ sec \in SecurityType
    /\ ota \in OtaType
    /\ Len(ota.buffer) <= BufferSize
    /\ securitySeed \in Byte
    /\ activeSwVersion \in 1 .. ByteMax
    /\ otaResponseCounter \in 0 .. CounterMod - 1
    /\ response \in ResponseType
    /\ now \in 0 .. TickMod - 1
    /\ lockoutAge \in 0 .. LockoutTicks + PollSlack

\* A session is past IDLE, and not FAILED, only while security is unlocked:
\* only START looks at securityUnlocked (OTA_ApplyCommandState), so DATA, END
\* and ACTIVATE rely on every path that locks to have left the session first.
ProgressNeedsUnlock == ota.state \notin {"IDLE", "FAILED"} => sec.unlocked

\* The two flags packed into byte 1 of GatewayStatus never contradict each
\* other, and a seed waits for its key only while security is locked, so a
\* wrong key can never be what ends a running update.
SecurityCoherent ==
    /\ sec.unlocked = ~sec.locked
    /\ sec.seedIssued => sec.locked

\* A lockout stands exactly while the failure streak is exhausted; it leaves
\* no seed to answer, no unlock and no session that could move on.
LockoutCoherent ==
    /\ sec.lockoutActive <=> StreakExhausted(sec)
    /\ sec.lockoutActive =>
         sec.locked /\ ~sec.seedIssued /\ ota.state = "FAILED"

\* From the END that verified it to the activation, the image in the buffer is
\* the one whose checksum the tester gave, and no part of it was dropped: no
\* command between them touches the buffer without leaving these states.
VerifiedImage ==
    ota.state \in {"VERIFYING", "READY_TO_ACTIVATE", "SUCCESS"} =>
        /\ ota.verifyOk
        /\ ~ota.overflow
        /\ DataChecksum(ota.buffer) = ota.expectedChecksum

\* otaVerifyPending and the VERIFYING state are two records of one fact; were
\* they to part, the session would stay in VERIFYING for ever.
VerifyingPending == ota.verifyPending <=> ota.state = "VERIFYING"

\* A lockout is not lifted before its LockoutTicks have passed, whatever the
\* tick counter did meanwhile (it may have wrapped) and whoever asked.
LockoutServed ==
    [][sec.lockoutActive /\ ~sec'.lockoutActive
         => lockoutAge >= LockoutTicks]_vars

\* Failures are forgiven by the right key or by a lockout that was served;
\* asking for another seed, aborting or restarting keeps the streak.
FailuresRemembered ==
    [][sec'.failureStreak < sec.failureStreak
         => \/ ~sec.unlocked /\ sec'.unlocked
            \/ sec.lockoutActive /\ lockoutAge >= LockoutTicks]_vars

\* A request that is refused never takes the session a step further, never
\* unlocks and never changes the software version.
NackNeverAdvances ==
    [][otaResponseCounter' # otaResponseCounter /\ response'.code = "NACK"
         => /\ ota'.state \in {ota.state, "FAILED"}
            /\ sec'.unlocked => sec.unlocked
            /\ activeSwVersion' = activeSwVersion]_vars

\* The request handler implements the abstract update session: the version
\* moves only at the end of one authorised, verified and published session.
ImplementsSession == Session!Spec

\* Every lockout ends, with no request to prompt it.
LockoutReleased == sec.lockoutActive ~> ~sec.lockoutActive

\* VERIFYING is left, with no request to prompt it.
VerificationResolves == ota.state = "VERIFYING" ~> ota.state # "VERIFYING"

=============================================================================
