-------------------------- MODULE OtaSecurityProofs --------------------------
(***************************************************************************)
(* The safety of OtaSecurity for every size of byte, buffer, counter and   *)
(* timer, every exclusive-or that stays within a byte, and every set of    *)
(* requests.                                                               *)
(***************************************************************************)
EXTENDS OtaSecurity, TLAPS

(***************************************************************************)
(* The inductive invariant, in the parts that one record alone decides and *)
(* the part that ties the two together.                                    *)
(***************************************************************************)

SecurityGood(s) ==
    /\ s \in SecurityType
    /\ s.unlocked = ~s.locked
    /\ s.seedIssued => s.locked
    /\ s.lockoutActive <=> StreakExhausted(s)
    /\ s.lockoutActive => s.locked /\ ~s.seedIssued

SessionGood(o) ==
    /\ o \in OtaType
    /\ Len(o.buffer) <= BufferSize
    /\ o.verifyPending <=> o.state = "VERIFYING"
    /\ o.overflow => o.state = "FAILED"
    /\ o.state \in {"VERIFYING", "READY_TO_ACTIVATE", "SUCCESS"} =>
         o.verifyOk /\ DataChecksum(o.buffer) = o.expectedChecksum

\* What a session may be under given security flags.
Coupled(o, s) ==
    /\ o.state \notin {"IDLE", "FAILED"} => s.unlocked
    /\ s.lockoutActive => o.state = "FAILED"

Timed ==
    /\ now \in 0 .. TickMod - 1
    /\ lockoutAge \in 0 .. LockoutTicks + PollSlack
    /\ sec.lockoutActive => Elapsed(sec.lockoutStart) = lockoutAge

Outputs ==
    /\ securitySeed \in Byte
    /\ activeSwVersion \in 1 .. ByteMax
    /\ otaResponseCounter \in 0 .. CounterMod - 1
    /\ response \in ResponseType

IInv ==
    /\ SecurityGood(sec)
    /\ SessionGood(ota)
    /\ Coupled(ota, sec)
    /\ Timed
    /\ Outputs


-----------------------------------------------------------------------------
(* The helpers keep a good security record good.                           *)

\* The values the helpers reset to are in range, and zero is no lockout.
LEMMA ZeroInRange ==
    /\ 0 \in 0 .. FailureLimit /\ 0 \in 0 .. TickMod - 1
    /\ 0 \in Byte /\ 0 \in 0 .. CounterMod - 1
    /\ 1 \in 1 .. ByteMax /\ 1 \in Byte
    /\ ~(0 >= FailureLimit)
  BY SizesAssumption, TimeAssumption DEF Byte

\* Security_ResetUnlock locks and leaves the failure count alone.
LEMMA ResetUnlockGood ==
    ASSUME NEW s, SecurityGood(s)
    PROVE  /\ SecurityGood(ResetUnlock(s))
           /\ ResetUnlock(s).lockoutActive = s.lockoutActive
           /\ ResetUnlock(s).lockoutStart = s.lockoutStart
           /\ ResetUnlock(s).failureStreak = s.failureStreak
           /\ ~ResetUnlock(s).unlocked
<1>1. ResetUnlock(s) =
        [s EXCEPT !.unlocked = FALSE, !.locked = TRUE, !.seedIssued = FALSE]
  BY DEF ResetUnlock
<1>2. ResetUnlock(s) \in SecurityType
  BY <1>1 DEF SecurityGood, SecurityType
<1>3. /\ ResetUnlock(s).lockoutActive = s.lockoutActive
      /\ ResetUnlock(s).lockoutStart = s.lockoutStart
      /\ ResetUnlock(s).failureStreak = s.failureStreak
      /\ ResetUnlock(s).unlocked = FALSE
      /\ ResetUnlock(s).locked = TRUE
      /\ ResetUnlock(s).seedIssued = FALSE
  BY <1>1 DEF SecurityGood, SecurityType
<1>4. QED
  BY <1>2, <1>3 DEF SecurityGood, StreakExhausted

\* Security_MarkUnlocked unlocks and forgives every failure.
LEMMA MarkUnlockedGood ==
    ASSUME NEW s, SecurityGood(s)
    PROVE  /\ SecurityGood(MarkUnlocked(s))
           /\ ~MarkUnlocked(s).lockoutActive
           /\ MarkUnlocked(s).unlocked
<1>1. MarkUnlocked(s) =
        [s EXCEPT !.unlocked = TRUE, !.locked = FALSE, !.seedIssued = FALSE,
                  !.failureStreak = 0, !.lockoutActive = FALSE,
                  !.lockoutStart = 0]
  BY DEF MarkUnlocked, ClearFailureStreak, SecurityGood, SecurityType
<1>2. MarkUnlocked(s) \in SecurityType
  BY <1>1, ZeroInRange DEF SecurityGood, SecurityType
<1>3. /\ MarkUnlocked(s).unlocked = TRUE
      /\ MarkUnlocked(s).locked = FALSE
      /\ MarkUnlocked(s).seedIssued = FALSE
      /\ MarkUnlocked(s).failureStreak = 0
      /\ MarkUnlocked(s).lockoutActive = FALSE
  BY <1>1 DEF SecurityGood, SecurityType
<1>4b. ~StreakExhausted(MarkUnlocked(s))
  BY <1>3, ZeroInRange DEF StreakExhausted
<1>4c. MarkUnlocked(s).unlocked = ~MarkUnlocked(s).locked
  BY <1>3
<1>4d. SecurityGood(MarkUnlocked(s))
  BY <1>2, <1>3, <1>4b DEF SecurityGood
<1>4. QED
  BY <1>3, <1>4d

\* Security_RecordFailure, called outside a lockout, either counts or locks
\* out from the present tick on; it never shortens the streak.
LEMMA RecordFailureGood ==
    ASSUME NEW s, SecurityGood(s), ~s.lockoutActive, now \in 0 .. TickMod - 1
    PROVE  /\ SecurityGood(RecordFailure(s))
           /\ RecordFailure(s).failureStreak >= s.failureStreak
           /\ RecordFailure(s).lockoutActive =>
                RecordFailure(s).lockoutStart = now
           /\ ~RecordFailure(s).lockoutActive =>
                RecordFailure(s).unlocked = s.unlocked
           /\ RecordFailure(s).unlocked => s.unlocked
<1> DEFINE c == CountFailure(s)
           e == EnterLockout(c)
<1>1. /\ IncrementCounter(s.errorCounter) \in Byte
      /\ s.failureStreak < FailureLimit
      /\ s.failureStreak \in 0 .. FailureLimit
      /\ s.failureStreak + 1 \in 0 .. FailureLimit
  BY SizesAssumption
  DEF SecurityGood, SecurityType, IncrementCounter, Byte, StreakExhausted
<1>2. c = [s EXCEPT !.errorCounter = IncrementCounter(s.errorCounter),
                    !.failureStreak = s.failureStreak + 1]
  BY <1>1 DEF CountFailure, SecurityGood, SecurityType
<1>3. c \in SecurityType
  BY <1>1, <1>2 DEF SecurityGood, SecurityType
<1>4. /\ c.unlocked = s.unlocked /\ c.locked = s.locked
      /\ c.seedIssued = s.seedIssued
      /\ c.failureStreak = s.failureStreak + 1
      /\ c.lockoutActive = FALSE
  BY <1>2 DEF SecurityGood, SecurityType
<1>5. e \in SecurityType
  BY <1>3 DEF EnterLockout, SecurityType
<1>6. /\ e.unlocked = FALSE /\ e.locked = TRUE
      /\ e.seedIssued = FALSE
      /\ e.failureStreak = s.failureStreak + 1
      /\ e.lockoutActive = TRUE /\ e.lockoutStart = now
  BY <1>3, <1>4 DEF EnterLockout, SecurityType
<1>7. CASE StreakExhausted(c)
  <2>1. RecordFailure(s) = e
    BY <1>7 DEF RecordFailure
  <2>2. StreakExhausted(e)
    BY <1>4, <1>6, <1>7 DEF StreakExhausted
  <2>3. SecurityGood(e)
    BY <1>5, <1>6, <2>2 DEF SecurityGood
  <2>4. QED
    BY <1>1, <1>6, <2>1, <2>3
<1>8. CASE ~StreakExhausted(c)
  <2>1. RecordFailure(s) = c
    BY <1>8 DEF RecordFailure
  <2>2. SecurityGood(c)
    BY <1>3, <1>4, <1>8 DEF SecurityGood
  <2>3. QED
    BY <1>1, <1>4, <2>1, <2>2
<1>9. QED
  BY <1>7, <1>8

\* Security_UpdateLockout lifts a lockout exactly when it has been served, and
\* lifting it changes no unlock flag, because a lockout holds security locked.
LEMMA SettledGood ==
    ASSUME IInv
    PROVE  /\ SecurityGood(Settled)
           /\ Settled.unlocked = sec.unlocked
           /\ Settled.lockoutActive => Settled = sec
           /\ ~Settled.lockoutActive /\ sec.lockoutActive =>
                lockoutAge >= LockoutTicks
           /\ Settled.failureStreak < sec.failureStreak =>
                sec.lockoutActive /\ lockoutAge >= LockoutTicks
           /\ LockoutOver(sec) => ~Settled.lockoutActive
           /\ ~LockoutOver(sec) => Settled = sec
<1> USE DEF IInv
<1>1. CASE LockoutOver(sec)
  <2>1. /\ sec.lockoutActive /\ lockoutAge >= LockoutTicks
        /\ sec \in SecurityType /\ sec.unlocked = FALSE
    BY <1>1 DEF LockoutOver, Timed, SecurityGood, SecurityType
  <2>2. Settled =
          [sec EXCEPT !.unlocked = FALSE, !.locked = TRUE,
                      !.seedIssued = FALSE, !.failureStreak = 0,
                      !.lockoutActive = FALSE, !.lockoutStart = 0]
    BY <1>1, <2>1 DEF Settled, UpdateLockout, ClearFailureStreak,
                      ResetUnlock, SecurityType
  <2>3. Settled \in SecurityType
    BY <2>1, <2>2, ZeroInRange DEF SecurityType
  <2>4. /\ Settled.unlocked = FALSE /\ Settled.locked = TRUE
        /\ Settled.seedIssued = FALSE /\ Settled.lockoutActive = FALSE
        /\ Settled.failureStreak = 0
    BY <2>1, <2>2 DEF SecurityType
  <2>5. ~StreakExhausted(Settled)
    BY <2>4, ZeroInRange DEF StreakExhausted
  <2>6. SecurityGood(Settled)
    BY <2>3, <2>4, <2>5 DEF SecurityGood
  <2>7. QED
    BY <1>1, <2>1, <2>4, <2>6
<1>2. CASE ~LockoutOver(sec)
  <2>1. Settled = sec
    BY <1>2 DEF Settled, UpdateLockout
  <2>2. ~(sec.failureStreak < sec.failureStreak)
    BY DEF SecurityGood, SecurityType
  <2>3. QED
    BY <1>2, <2>1, <2>2
<1>3. QED
  BY <1>1, <1>2

-----------------------------------------------------------------------------
(* The helpers keep a good session good.                                   *)

\* Whatever fails leaves a session that is good in any state of the buffer.
LEMMA FailSessionGood ==
    ASSUME NEW o, SessionGood(o)
    PROVE  /\ SessionGood(FailSession(o))
           /\ FailSession(o).state = "FAILED"
<1>1. /\ FailSession(o) \in OtaType
      /\ FailSession(o).state = "FAILED"
      /\ FailSession(o).verifyPending = FALSE
      /\ FailSession(o).buffer = o.buffer
  BY DEF SessionGood, OtaType, OtaStates, FailSession
<1>2. QED
  BY <1>1 DEF SessionGood

\* Emptying the buffer leaves a good session in the states that claim nothing
\* about it.
LEMMA ResetSessionGood ==
    ASSUME NEW o, SessionGood(o)
    PROVE  /\ SessionGood(SeedSession(o)) /\ SeedSession(o).state = "IDLE"
           /\ SessionGood(StartSession(o)) /\ StartSession(o).state = "START"
           /\ SessionGood(FailSession(ResetDataBuffer(o)))
           /\ FailSession(ResetDataBuffer(o)).state = "FAILED"
           /\ StartSession(o).buffer = << >>
<1>0. << >> \in Seq(Byte) /\ Len(<< >>) <= BufferSize
  BY SizesAssumption
<1>1. ASSUME NEW st \in OtaStates, st \notin {"VERIFYING",
                        "READY_TO_ACTIVATE", "SUCCESS"},
             NEW t, t = [o EXCEPT !.buffer = << >>, !.overflow = FALSE,
                           !.expectedChecksum = 0, !.verifyOk = FALSE,
                           !.state = st, !.verifyPending = FALSE]
      PROVE  SessionGood(t) /\ t.state = st /\ t.buffer = << >>
  <2>1. t \in OtaType
    BY <1>0, <1>1, ZeroInRange DEF SessionGood, OtaType
  <2>2. /\ t.state = st /\ t.verifyPending = FALSE /\ t.overflow = FALSE
        /\ t.buffer = << >>
    BY <1>1 DEF SessionGood, OtaType
  <2>3. QED
    BY <1>0, <1>1, <2>1, <2>2 DEF SessionGood
<1>2. /\ SeedSession(o) =
           [o EXCEPT !.buffer = << >>, !.overflow = FALSE,
                     !.expectedChecksum = 0, !.verifyOk = FALSE,
                     !.state = "IDLE", !.verifyPending = FALSE]
      /\ StartSession(o) =
           [o EXCEPT !.buffer = << >>, !.overflow = FALSE,
                     !.expectedChecksum = 0, !.verifyOk = FALSE,
                     !.state = "START", !.verifyPending = FALSE]
      /\ FailSession(ResetDataBuffer(o)) =
           [o EXCEPT !.buffer = << >>, !.overflow = FALSE,
                     !.expectedChecksum = 0, !.verifyOk = FALSE,
                     !.state = "FAILED", !.verifyPending = FALSE]
  BY DEF SessionGood, OtaType, SeedSession, StartSession, FailSession,
         ResetDataBuffer
<1>3. {"IDLE", "START", "FAILED"} \subseteq OtaStates
  BY DEF OtaStates
<1>4. QED
  BY <1>1, <1>2, <1>3

-----------------------------------------------------------------------------
(* Time and outputs, which every request treats alike.                     *)

\* A request that passed the lockout check leaves either no lockout, or one
\* that begins at the present tick.
LEMMA ServedTimed ==
    ASSUME IInv, NEW r, NEW cmd, Serve(r, cmd),
           sec'.lockoutActive => sec'.lockoutStart = now
    PROVE  Timed'
<1>1. now \in 0 .. TickMod - 1 /\ now' = now /\ lockoutAge' = 0
  BY DEF IInv, Timed, Serve
<1>2. 0 \in 0 .. LockoutTicks + PollSlack
  BY TimeAssumption
<1>3. ASSUME sec'.lockoutActive PROVE Elapsed(sec.lockoutStart)' = 0
  BY <1>1, <1>3 DEF Elapsed
<1>4. QED
  BY <1>1, <1>2, <1>3 DEF Timed

\* A counter that is incremented modulo its period stays below it.
LEMMA CounterStep ==
    ASSUME NEW c \in 0 .. CounterMod - 1
    PROVE  (c + 1) % CounterMod \in 0 .. CounterMod - 1
  BY SizesAssumption

\* OTA_BuildResponse fills a well-formed frame.
LEMMA ResponseGood ==
    ASSUME IInv, NEW cmd \in Commands \cup {"UNKNOWN", "NONE"},
           NEW seq \in Byte, NEW code \in {"ACK", "NACK"}, NEW detail \in Nat,
           BuildResponse(cmd, seq, code, detail),
           SessionGood(ota'), activeSwVersion' \in 1 .. ByteMax,
           securitySeed' \in Byte
    PROVE  Outputs'
<1>1. otaResponseCounter' \in 0 .. CounterMod - 1
  BY CounterStep DEF IInv, Outputs, BuildResponse
<1>2. ota'.state \in OtaStates
  BY DEF SessionGood, OtaType
<1>3. activeSwVersion' \in Byte
  BY SizesAssumption DEF Byte
<1>4. response' \in ResponseType
  BY <1>2, <1>3 DEF BuildResponse, ResponseType, IInv, Outputs
<1>5. QED
  BY <1>1, <1>4 DEF Outputs

\* The details a response may carry are numbers.
LEMMA DetailsAreNumbers ==
    /\ {ACCEPTED, INVALID_ID, INVALID_DLC, UNKNOWN_COMMAND, INVALID_SEQUENCE,
        INVALID_DATA_LENGTH, BUFFER_OVERFLOW, CHECKSUM_MISMATCH,
        INVALID_AUTH} \subseteq Nat
    /\ {SECURITY_LOCKED, SEED_REQUIRED, INVALID_KEY,
        SECURITY_LOCKOUT} \subseteq Nat
    /\ Byte \subseteq Nat
<1>1. Byte \subseteq Nat
  BY SizesAssumption DEF Byte
<1>2. QED
  BY <1>1 DEF ACCEPTED, INVALID_ID, INVALID_DLC, UNKNOWN_COMMAND,
         INVALID_SEQUENCE, INVALID_DATA_LENGTH, BUFFER_OVERFLOW,
         CHECKSUM_MISMATCH, INVALID_AUTH, SECURITY_LOCKED, SEED_REQUIRED,
         INVALID_KEY, SECURITY_LOCKOUT

\* What a served request needs to keep the invariant: good records, coupled,
\* a lockout that starts now if any, and a response built with a detail.
LEMMA ServedStep ==
    ASSUME IInv, NEW r \in Requests, NEW cmd \in Commands, Serve(r, cmd),
           SecurityGood(sec'), SessionGood(ota'), Coupled(ota', sec'),
           sec'.lockoutActive => sec'.lockoutStart = now,
           NEW code \in {"ACK", "NACK"}, NEW detail \in Nat,
           BuildResponse(r.cmd, r.seq, code, detail),
           activeSwVersion' \in 1 .. ByteMax, securitySeed' \in Byte
    PROVE  IInv'
<1>1. r.seq \in Byte /\ r.cmd \in Commands \cup {"UNKNOWN", "NONE"}
  BY RequestsAssumption DEF RequestType
<1>2. Outputs'
  BY <1>1, ResponseGood
<1>3. Timed'
  BY ServedTimed
<1>4. QED
  BY <1>2, <1>3 DEF IInv

-----------------------------------------------------------------------------
(* One lemma for each group of commands.                                   *)

\* Every served request starts from settled flags that are good, coupled to
\* the session and outside any lockout.
LEMMA ServedFrom ==
    ASSUME IInv, NEW r, NEW cmd, Serve(r, cmd)
    PROVE  /\ SecurityGood(Settled) /\ ~Settled.lockoutActive
           /\ Settled.unlocked = sec.unlocked
           /\ SessionGood(ota)
           /\ Coupled(ota, Settled)
           /\ securitySeed \in Byte /\ activeSwVersion \in 1 .. ByteMax
<1>1. ~Settled.lockoutActive
  BY DEF Serve
<1>2. QED
  BY <1>1, SettledGood DEF IInv, Outputs, Coupled

\* REQUEST_SEED: locks, empties the session and issues a seed.
LEMMA RequestSeedStep ==
    ASSUME IInv, NEW r \in Requests, RequestSeed(r)
    PROVE  IInv'
<1> DEFINE s == ResetUnlock(Settled)
<1>1. Serve(r, "REQUEST_SEED") /\ "REQUEST_SEED" \in Commands
  BY DEF RequestSeed, Commands
<1>2. /\ SecurityGood(s) /\ s.lockoutActive = Settled.lockoutActive
      /\ s.unlocked = FALSE /\ s.locked = TRUE
      /\ ~Settled.lockoutActive
  BY <1>1, ServedFrom, ResetUnlockGood DEF SecurityGood, SecurityType
<1>3. sec' = [s EXCEPT !.seedIssued = TRUE]
  BY DEF RequestSeed
<1>4. /\ sec' \in SecurityType
      /\ sec'.unlocked = FALSE /\ sec'.locked = TRUE
      /\ sec'.lockoutActive = FALSE /\ sec'.failureStreak = s.failureStreak
  BY <1>2, <1>3 DEF SecurityGood, SecurityType
<1>5. SecurityGood(sec')
  BY <1>2, <1>4 DEF SecurityGood, StreakExhausted
<1>6. SessionGood(ota') /\ ota'.state = "IDLE"
  BY <1>1, ServedFrom, ResetSessionGood DEF RequestSeed
<1>7. securitySeed' \in Byte
  <2>1. /\ SeedBase \in Byte /\ otaResponseCounter \in Byte
        /\ sec.errorCounter \in Byte /\ activeSwVersion \in Byte
    BY SizesAssumption, ByteAssumption
    DEF IInv, SecurityGood, SecurityType, Outputs, Byte
  <2>2. QED
    BY <2>1, ByteAssumption DEF RequestSeed, GenerateSeed
<1>8. /\ BuildResponse(r.cmd, r.seq, "ACK", securitySeed')
      /\ securitySeed' \in Nat
      /\ activeSwVersion' \in 1 .. ByteMax
  BY <1>1, <1>7, ServedFrom, DetailsAreNumbers DEF RequestSeed, Ack
<1>9. Coupled(ota', sec')
  BY <1>4, <1>6 DEF Coupled
<1>10. QED
  BY <1>1, <1>4, <1>5, <1>6, <1>7, <1>8, <1>9, ServedStep

\* SEND_KEY: refused without a seed, unlocks with the right key, and counts
\* the failure of a wrong one.
LEMMA KeyStep ==
    ASSUME IInv, NEW r \in Requests,
           KeyWithoutSeed(r) \/ KeyAccepted(r) \/ KeyRefused(r)
    PROVE  IInv'
<1>1. Serve(r, "SEND_KEY") /\ "SEND_KEY" \in Commands
  BY DEF KeyWithoutSeed, KeyAccepted, KeyRefused, Commands
<1>2. /\ SecurityGood(Settled) /\ ~Settled.lockoutActive
      /\ SessionGood(ota) /\ Coupled(ota, Settled)
      /\ securitySeed' \in Byte /\ activeSwVersion' \in 1 .. ByteMax
  BY <1>1, ServedFrom DEF KeyWithoutSeed, KeyAccepted, KeyRefused
<1>3. CASE KeyWithoutSeed(r)
  <2>1. /\ sec' = Settled /\ ota' = ota
        /\ BuildResponse(r.cmd, r.seq, "NACK", SEED_REQUIRED)
        /\ SEED_REQUIRED \in Nat
    BY <1>3, DetailsAreNumbers DEF KeyWithoutSeed, Nack
  <2>2. QED
    BY <1>1, <1>2, <2>1, ServedStep
<1>4. CASE KeyAccepted(r)
  <2>1. /\ sec' = MarkUnlocked(Settled) /\ ota' = ota
        /\ BuildResponse(r.cmd, r.seq, "ACK", ACCEPTED)
        /\ ACCEPTED \in Nat
    BY <1>4, DetailsAreNumbers DEF KeyAccepted, Ack
  <2>2. SecurityGood(sec') /\ ~sec'.lockoutActive /\ sec'.unlocked
    BY <1>2, <2>1, MarkUnlockedGood
  <2>3. Coupled(ota', sec')
    BY <2>2 DEF Coupled
  <2>4. QED
    BY <1>1, <1>2, <2>1, <2>2, <2>3, ServedStep
<1>5. CASE KeyRefused(r)
  <2> DEFINE f == RecordFailure(Settled)
  <2>1. /\ sec' = ResetUnlock(f) /\ ota' = FailIfLockedOut(ota, f)
        /\ BuildResponse(r.cmd, r.seq, "NACK", INVALID_KEY)
        /\ INVALID_KEY \in Nat
    BY <1>5, DetailsAreNumbers DEF KeyRefused, Nack
  <2>2. /\ SecurityGood(f)
        /\ f.lockoutActive => f.lockoutStart = now
    BY <1>2, RecordFailureGood DEF IInv, Timed
  <2>3. /\ SecurityGood(sec')
        /\ sec'.lockoutActive = f.lockoutActive
        /\ sec'.lockoutStart = f.lockoutStart
    BY <2>1, <2>2, ResetUnlockGood
  <2>4. ota.state \in {"IDLE", "FAILED"}
    <3>1. Settled.seedIssued
      BY <1>5 DEF KeyRefused
    <3>2. QED
      BY <1>2, <3>1 DEF SecurityGood, SecurityType, Coupled
  <2>5. SessionGood(ota')
    BY <1>2, <2>1, FailSessionGood DEF FailIfLockedOut
  <2>6. Coupled(ota', sec')
    BY <1>2, <2>1, <2>3, <2>4, FailSessionGood DEF FailIfLockedOut, Coupled
  <2>7. sec'.lockoutActive => sec'.lockoutStart = now
    BY <2>2, <2>3
  <2>8. QED
    BY <1>1, <1>2, <2>1, <2>3, <2>5, <2>6, <2>7, ServedStep
<1>6. QED
  BY <1>3, <1>4, <1>5

\* START, ABORT and every command out of sequence: the session is emptied, or
\* failed, or left as it is.
LEMMA SequenceStep ==
    ASSUME IInv, NEW r \in Requests,
           StartLocked(r) \/ Start(r) \/ InvalidSequence(r) \/ Abort(r)
    PROVE  IInv'
<1>1. PICK cmd \in Commands : Serve(r, cmd)
  BY DEF StartLocked, Start, InvalidSequence, Abort, Commands
<1>2. /\ SecurityGood(Settled) /\ ~Settled.lockoutActive
      /\ Settled.unlocked = sec.unlocked
      /\ SessionGood(ota) /\ Coupled(ota, Settled)
      /\ securitySeed' \in Byte /\ activeSwVersion' \in 1 .. ByteMax
      /\ sec' = Settled
  BY <1>1, ServedFrom DEF StartLocked, Start, InvalidSequence, Abort
<1>3. CASE StartLocked(r)
  <2>1. /\ ota' = [ota EXCEPT !.verifyPending = FALSE]
        /\ BuildResponse(r.cmd, r.seq, "NACK", SECURITY_LOCKED)
        /\ SECURITY_LOCKED \in Nat
    BY <1>3, DetailsAreNumbers DEF StartLocked, Nack
  <2>2. ota.state \in {"IDLE", "FAILED"}
    BY <1>2, <1>3 DEF StartLocked, Coupled
  <2>3. /\ ota' \in OtaType
        /\ ota'.state = ota.state /\ ota'.buffer = ota.buffer
        /\ ota'.overflow = ota.overflow /\ ota'.verifyPending = FALSE
    BY <1>2, <2>1 DEF SessionGood, OtaType
  <2>4. SessionGood(ota')
    BY <1>2, <2>2, <2>3 DEF SessionGood
  <2>5. Coupled(ota', sec')
    BY <1>2, <2>2, <2>3 DEF Coupled
  <2>6. QED
    BY <1>1, <1>2, <2>1, <2>4, <2>5, ServedStep
<1>4. CASE Start(r)
  <2>1. /\ ota' = StartSession(ota) /\ Settled.unlocked
        /\ BuildResponse(r.cmd, r.seq, "ACK", ACCEPTED)
        /\ ACCEPTED \in Nat
    BY <1>4, DetailsAreNumbers DEF Start, Ack
  <2>2. SessionGood(ota') /\ Coupled(ota', sec')
    BY <1>2, <2>1, ResetSessionGood DEF Coupled
  <2>3. QED
    BY <1>1, <1>2, <2>1, <2>2, ServedStep
<1>5. CASE InvalidSequence(r)
  <2>1. /\ ota' = FailSession(ota)
        /\ BuildResponse(r.cmd, r.seq, "NACK", INVALID_SEQUENCE)
        /\ INVALID_SEQUENCE \in Nat
    BY <1>5, DetailsAreNumbers DEF InvalidSequence, Nack
  <2>2. SessionGood(ota') /\ Coupled(ota', sec')
    BY <1>2, <2>1, FailSessionGood DEF Coupled
  <2>3. QED
    BY <1>1, <1>2, <2>1, <2>2, ServedStep
<1>6. CASE Abort(r)
  <2>1. /\ ota' = FailSession(ResetDataBuffer(ota))
        /\ BuildResponse(r.cmd, r.seq, "ACK", ACCEPTED)
        /\ ACCEPTED \in Nat
    BY <1>6, DetailsAreNumbers DEF Abort, Ack
  <2>2. SessionGood(ota') /\ Coupled(ota', sec')
    BY <1>2, <2>1, ResetSessionGood DEF Coupled
  <2>3. QED
    BY <1>1, <1>2, <2>1, <2>2, ServedStep
<1>7. QED
  BY <1>3, <1>4, <1>5, <1>6

\* The first r.arg bytes of a payload are a sequence of bytes of that length.
LEMMA PayloadGood ==
    ASSUME NEW r \in Requests, LengthValid(r)
    PROVE  /\ SubSeq(r.data, 1, r.arg) \in Seq(Byte)
           /\ Len(SubSeq(r.data, 1, r.arg)) = r.arg
<1>1. r.data \in [1 .. PayloadMax -> Byte] /\ r.arg \in Byte
  BY RequestsAssumption DEF RequestType
<1>2. r.arg \in 0 .. PayloadMax
  BY <1>1, SizesAssumption DEF LengthValid, Byte
<1>3. r.data \in Seq(Byte) /\ Len(r.data) = PayloadMax
  BY <1>1, SizesAssumption
<1>4. QED
  BY <1>2, <1>3, SizesAssumption

\* DATA: refused for its length, its authentication byte or the room left, or
\* appended to the buffer.
LEMMA DataStep ==
    ASSUME IInv, NEW r \in Requests,
           \/ DataTooLong(r) \/ DataUnauthentic(r)
           \/ DataOverflow(r) \/ DataStored(r)
    PROVE  IInv'
<1>1. Serve(r, "DATA") /\ "DATA" \in Commands /\ Receiving
  BY DEF DataTooLong, DataUnauthentic, DataOverflow, DataStored, Commands
<1>2. /\ SecurityGood(Settled) /\ ~Settled.lockoutActive
      /\ SessionGood(ota) /\ Coupled(ota, Settled)
      /\ securitySeed' \in Byte /\ activeSwVersion' \in 1 .. ByteMax
      /\ Settled.unlocked
  BY <1>1, ServedFrom
  DEF DataTooLong, DataUnauthentic, DataOverflow, DataStored, Receiving,
      Coupled
<1>3. CASE DataTooLong(r)
  <2>1. /\ ota' = FailSession(ota) /\ sec' = Settled
        /\ BuildResponse(r.cmd, r.seq, "NACK", INVALID_DATA_LENGTH)
        /\ INVALID_DATA_LENGTH \in Nat
    BY <1>3, DetailsAreNumbers DEF DataTooLong, Nack
  <2>2. SessionGood(ota') /\ Coupled(ota', sec')
    BY <1>2, <2>1, FailSessionGood DEF Coupled
  <2>3. QED
    BY <1>1, <1>2, <2>1, <2>2, ServedStep
<1>4. CASE DataUnauthentic(r)
  <2>1. /\ ota' = FailSession(ota) /\ sec' = RecordFailure(Settled)
        /\ BuildResponse(r.cmd, r.seq, "NACK", INVALID_AUTH)
        /\ INVALID_AUTH \in Nat
    BY <1>4, DetailsAreNumbers DEF DataUnauthentic, Nack
  <2>2. /\ SecurityGood(sec')
        /\ sec'.lockoutActive => sec'.lockoutStart = now
    BY <1>2, <2>1, RecordFailureGood DEF IInv, Timed
  <2>3. SessionGood(ota') /\ Coupled(ota', sec')
    BY <1>2, <2>1, FailSessionGood DEF Coupled
  <2>4. QED
    BY <1>1, <1>2, <2>1, <2>2, <2>3, ServedStep
<1>5. CASE DataOverflow(r)
  <2>1. /\ ota' = [FailSession(ota) EXCEPT !.overflow = TRUE]
        /\ sec' = Settled
        /\ BuildResponse(r.cmd, r.seq, "NACK", BUFFER_OVERFLOW)
        /\ BUFFER_OVERFLOW \in Nat
    BY <1>5, DetailsAreNumbers DEF DataOverflow, Nack
  <2>2. SessionGood(FailSession(ota)) /\ FailSession(ota).state = "FAILED"
    BY <1>2, FailSessionGood
  <2>3. /\ ota' \in OtaType
        /\ ota'.state = "FAILED"
        /\ ota'.verifyPending = FailSession(ota).verifyPending
        /\ ota'.buffer = FailSession(ota).buffer
    BY <2>1, <2>2 DEF SessionGood, OtaType
  <2>4. SessionGood(ota') /\ Coupled(ota', sec')
    BY <1>2, <2>1, <2>2, <2>3 DEF SessionGood, Coupled
  <2>5. QED
    BY <1>1, <1>2, <2>1, <2>4, ServedStep
<1>6. CASE DataStored(r)
  <2> DEFINE chunk == SubSeq(r.data, 1, r.arg)
  <2>1. /\ ota' = [ota EXCEPT !.state = "RECEIVING",
                              !.buffer = ota.buffer \o chunk]
        /\ sec' = Settled /\ LengthValid(r) /\ PayloadFits(r)
        /\ BuildResponse(r.cmd, r.seq, "ACK", ACCEPTED)
        /\ ACCEPTED \in Nat
    BY <1>2, <1>6, DetailsAreNumbers
    DEF DataStored, Ack, SessionGood, OtaType
  <2>2. /\ ota.buffer \o chunk \in Seq(Byte)
        /\ Len(ota.buffer \o chunk) <= BufferSize
    <3>1. ota.buffer \in Seq(Byte)
      BY <1>2 DEF SessionGood, OtaType
    <3>2. /\ chunk \in Seq(Byte) /\ Len(chunk) = r.arg
      BY <2>1, PayloadGood
    <3> HIDE DEF chunk
    <3>3. QED
      BY <2>1, <3>1, <3>2 DEF PayloadFits
  <2>3. "RECEIVING" \in OtaStates
    BY DEF OtaStates
  <2> HIDE DEF chunk
  <2>4. /\ ota' \in OtaType /\ ota'.state = "RECEIVING"
        /\ ota'.buffer = ota.buffer \o chunk
        /\ ota'.verifyPending = ota.verifyPending
        /\ ota'.overflow = ota.overflow
    BY <1>2, <2>1, <2>2, <2>3 DEF SessionGood, OtaType
  <2>5. SessionGood(ota')
    BY <1>1, <1>2, <2>2, <2>4 DEF SessionGood, Receiving
  <2>6. Coupled(ota', sec')
    BY <1>2, <2>1, <2>4 DEF Coupled
  <2>7. QED
    BY <1>1, <1>2, <2>1, <2>5, <2>6, ServedStep
<1>7. QED
  BY <1>3, <1>4, <1>5, <1>6

\* END and ACTIVATE: the image is verified against the checksum it is given,
\* and only a verified and published one is activated.
LEMMA CompletionStep ==
    ASSUME IInv, NEW r \in Requests,
           EndVerified(r) \/ EndMismatch(r) \/ Activate(r)
    PROVE  IInv'
<1>1. PICK cmd \in Commands : Serve(r, cmd)
  BY DEF EndVerified, EndMismatch, Activate, Commands
<1>2. /\ SecurityGood(Settled) /\ ~Settled.lockoutActive
      /\ SessionGood(ota) /\ Coupled(ota, Settled)
      /\ securitySeed' \in Byte
      /\ ota.state \notin {"IDLE", "FAILED"} /\ Settled.unlocked
      /\ sec' = Settled
  BY <1>1, ServedFrom
  DEF EndVerified, EndMismatch, Activate, ActivationAllowed, Receiving,
      Coupled
<1>3. r.arg \in Byte /\ ACCEPTED \in Nat /\ CHECKSUM_MISMATCH \in Nat
  BY RequestsAssumption, DetailsAreNumbers DEF RequestType
<1>4. {"VERIFYING", "FAILED", "SUCCESS"} \subseteq OtaStates
  BY DEF OtaStates
<1>5. CASE EndVerified(r)
  <2>1. /\ ota' = [ota EXCEPT !.state = "VERIFYING", !.verifyPending = TRUE,
                              !.verifyOk = TRUE, !.expectedChecksum = r.arg]
        /\ DataChecksum(ota.buffer) = r.arg
        /\ Receiving
        /\ BuildResponse(r.cmd, r.seq, "ACK", ACCEPTED)
        /\ activeSwVersion' = activeSwVersion
    BY <1>5 DEF EndVerified, EndSession, ChecksumMatches, Ack
  <2>2. /\ ota' \in OtaType /\ ota'.state = "VERIFYING"
        /\ ota'.buffer = ota.buffer /\ ota'.verifyPending = TRUE
        /\ ota'.overflow = ota.overflow /\ ota'.verifyOk = TRUE
        /\ ota'.expectedChecksum = r.arg
    BY <1>2, <1>3, <1>4, <2>1 DEF SessionGood, OtaType
  <2>3. SessionGood(ota') /\ Coupled(ota', sec')
    BY <1>2, <2>1, <2>2 DEF SessionGood, Coupled, Receiving
  <2>4. activeSwVersion' \in 1 .. ByteMax
    BY <2>1 DEF IInv, Outputs
  <2>5. QED
    BY <1>1, <1>2, <1>3, <2>1, <2>3, <2>4, ServedStep
<1>6. CASE EndMismatch(r)
  <2>1. /\ ota' = [FailSession(ota) EXCEPT !.verifyOk = FALSE,
                                           !.expectedChecksum = r.arg]
        /\ BuildResponse(r.cmd, r.seq, "NACK", CHECKSUM_MISMATCH)
        /\ activeSwVersion' = activeSwVersion
    BY <1>6 DEF EndMismatch, Nack
  <2>2. SessionGood(FailSession(ota)) /\ FailSession(ota).state = "FAILED"
    BY <1>2, FailSessionGood
  <2>3. /\ ota' \in OtaType /\ ota'.state = "FAILED"
        /\ ota'.buffer = FailSession(ota).buffer
        /\ ota'.verifyPending = FailSession(ota).verifyPending
    BY <1>3, <2>1, <2>2 DEF SessionGood, OtaType
  <2>4. SessionGood(ota') /\ Coupled(ota', sec')
    BY <1>2, <2>2, <2>3 DEF SessionGood, Coupled
  <2>5. activeSwVersion' \in 1 .. ByteMax
    BY <2>1 DEF IInv, Outputs
  <2>6. QED
    BY <1>1, <1>2, <1>3, <2>1, <2>4, <2>5, ServedStep
<1>7. CASE Activate(r)
  <2>1. /\ ota' = [ota EXCEPT !.state = "SUCCESS"]
        /\ ota.state = "READY_TO_ACTIVATE"
        /\ BuildResponse(r.cmd, r.seq, "ACK", ACCEPTED)
        /\ activeSwVersion' = AdvanceVersion(activeSwVersion)
    BY <1>7 DEF Activate, ActivationAllowed, Ack
  <2>2. /\ ota' \in OtaType /\ ota'.state = "SUCCESS"
        /\ ota'.buffer = ota.buffer
        /\ ota'.verifyPending = ota.verifyPending
        /\ ota'.overflow = ota.overflow /\ ota'.verifyOk = ota.verifyOk
        /\ ota'.expectedChecksum = ota.expectedChecksum
    BY <1>2, <1>4, <2>1 DEF SessionGood, OtaType
  <2>3. SessionGood(ota') /\ Coupled(ota', sec')
    BY <1>2, <2>1, <2>2 DEF SessionGood, Coupled
  <2>4. activeSwVersion' \in 1 .. ByteMax
    BY <2>1, SizesAssumption DEF IInv, Outputs, AdvanceVersion
  <2>5. QED
    BY <1>1, <1>2, <1>3, <2>1, <2>3, <2>4, ServedStep
<1>8. QED
  BY <1>5, <1>6, <1>7

\* Requests refused before the lockout is checked, or because of it.
LEMMA RejectStep ==
    ASSUME IInv,
           \/ \E detail \in {INVALID_ID, INVALID_DLC} : RejectFrame(detail)
           \/ \E r \in Requests : RejectUnknown(r) \/ RejectLockedOut(r)
    PROVE  IInv'
<1>1. /\ sec' = sec /\ ota' = ota /\ now' = now /\ lockoutAge' = lockoutAge
      /\ securitySeed' = securitySeed /\ activeSwVersion' = activeSwVersion
  BY SettledGood DEF RejectFrame, RejectUnknown, RejectLockedOut
<1> DEFINE Refused ==
      \E cmd \in Commands \cup {"UNKNOWN", "NONE"}, seq \in Byte,
         detail \in Nat : BuildResponse(cmd, seq, "NACK", detail)
<1>2. Refused
  <2>1. CASE \E detail \in {INVALID_ID, INVALID_DLC} : RejectFrame(detail)
    BY <2>1, DetailsAreNumbers, ZeroInRange DEF RejectFrame
  <2>2. ASSUME NEW r \in Requests, RejectUnknown(r) \/ RejectLockedOut(r)
        PROVE  Refused
    <3>1. r.cmd \in Commands \cup {"UNKNOWN", "NONE"} /\ r.seq \in Byte
      BY RequestsAssumption DEF RequestType
    <3>2. UNKNOWN_COMMAND \in Nat /\ SECURITY_LOCKOUT \in Nat
      BY DetailsAreNumbers
    <3>3. CASE RejectUnknown(r)
      BY <3>1, <3>2, <3>3 DEF RejectUnknown, Nack
    <3>4. CASE RejectLockedOut(r)
      BY <3>1, <3>2, <3>4 DEF RejectLockedOut, Nack
    <3>5. QED
      BY <2>2, <3>3, <3>4
  <2>3. QED
    BY <2>1, <2>2
<1>3. SessionGood(ota') /\ activeSwVersion' \in 1 .. ByteMax
      /\ securitySeed' \in Byte
  BY <1>1 DEF IInv, Outputs
<1>4. Outputs'
  <2>1. PICK cmd \in Commands \cup {"UNKNOWN", "NONE"}, seq \in Byte,
             detail \in Nat : BuildResponse(cmd, seq, "NACK", detail)
    BY <1>2
  <2>2. QED
    BY <1>3, <2>1, ResponseGood
<1>5. Timed'
  BY <1>1 DEF IInv, Timed, Elapsed
<1>6. QED
  BY <1>1, <1>4, <1>5 DEF IInv

\* OTA_UpdateStateAfterStatusPublish moves VERIFYING on and nothing else; for
\* a good session it is always to READY_TO_ACTIVATE, never to FAILED.
LEMMA AfterPublishGood ==
    ASSUME NEW o, SessionGood(o)
    PROVE  /\ SessionGood(AfterStatusPublish(o))
           /\ o.state # "VERIFYING" => AfterStatusPublish(o) = o
           /\ o.state = "VERIFYING" =>
                /\ AfterStatusPublish(o).state = "READY_TO_ACTIVATE"
                /\ AfterStatusPublish(o).buffer = o.buffer
<1>1. CASE o.state = "VERIFYING"
  <2>1. AfterStatusPublish(o) =
          [o EXCEPT !.verifyPending = FALSE, !.state = "READY_TO_ACTIVATE"]
    BY <1>1 DEF SessionGood, AfterStatusPublish
  <2>2. "READY_TO_ACTIVATE" \in OtaStates
    BY DEF OtaStates
  <2> DEFINE p == AfterStatusPublish(o)
  <2>3. /\ p \in OtaType /\ p.state = "READY_TO_ACTIVATE"
        /\ p.verifyPending = FALSE /\ p.verifyOk = o.verifyOk
        /\ p.buffer = o.buffer /\ p.overflow = o.overflow
        /\ p.expectedChecksum = o.expectedChecksum
    BY <2>1, <2>2 DEF SessionGood, OtaType
  <2>4. QED
    BY <1>1, <2>3 DEF SessionGood
<1>2. CASE o.state # "VERIFYING"
  BY <1>2 DEF SessionGood, AfterStatusPublish
<1>3. QED
  BY <1>1, <1>2

\* Publishing polls the lockout and moves a verified session on.
LEMMA PublishStep ==
    ASSUME IInv, PublishStatus
    PROVE  IInv'
<1>1. /\ sec' = Settled /\ ota' = AfterStatusPublish(ota)
      /\ lockoutAge' = IF sec'.lockoutActive THEN lockoutAge ELSE 0
      /\ now' = now
  BY DEF PublishStatus
<1>2. SecurityGood(sec') /\ SessionGood(ota')
  BY <1>1, SettledGood, AfterPublishGood DEF IInv
<1>3. Coupled(ota', sec')
  <2>1. sec'.unlocked = sec.unlocked
        /\ (sec'.lockoutActive => sec.lockoutActive)
    BY <1>1, SettledGood
  <2>2. QED
    BY <1>1, <2>1, AfterPublishGood DEF IInv, Coupled
<1>4. Timed'
  <2>1. lockoutAge \in 0 .. LockoutTicks + PollSlack
        /\ 0 \in 0 .. LockoutTicks + PollSlack
    BY TimeAssumption DEF IInv, Timed
  <2>2. sec'.lockoutActive => sec' = sec /\ lockoutAge' = lockoutAge
    BY <1>1, SettledGood
  <2>3. lockoutAge' \in 0 .. LockoutTicks + PollSlack
    BY <1>1, <2>1
  <2>4. QED
    BY <1>1, <2>2, <2>3 DEF IInv, Timed, Elapsed
<1>5. Outputs'
  BY DEF PublishStatus, IInv, Outputs
<1>6. QED
  BY <1>2, <1>3, <1>4, <1>5 DEF IInv

\* The tick counter wraps at TickMod, and TickMod exceeds the longest lockout,
\* so the unsigned difference still is the age of the lockout.
LEMMA TickStep ==
    ASSUME IInv, Tick
    PROVE  IInv'
<1>1. /\ now \in 0 .. TickMod - 1
      /\ now' = IF now + 1 = TickMod THEN 0 ELSE now + 1
      /\ sec' = sec /\ ota' = ota
  BY TimeAssumption DEF IInv, Timed, Tick
<1>2. now' \in 0 .. TickMod - 1
  BY <1>1, TimeAssumption
<1>3. CASE sec.lockoutActive
  <2>1. /\ lockoutAge' = lockoutAge + 1
        /\ lockoutAge \in 0 .. LockoutTicks + PollSlack
        /\ lockoutAge < LockoutTicks + PollSlack
        /\ Elapsed(sec.lockoutStart) = lockoutAge
        /\ sec.lockoutStart \in 0 .. TickMod - 1
    BY <1>3 DEF Tick, IInv, Timed, SecurityGood, SecurityType
  <2>2. lockoutAge' \in 0 .. LockoutTicks + PollSlack
    BY <2>1, TimeAssumption
  <2>3. Elapsed(sec.lockoutStart)' = lockoutAge'
    BY <1>1, <2>1, TimeAssumption DEF Elapsed
  <2>4. QED
    BY <1>1, <1>2, <2>2, <2>3 DEF Tick, IInv, Timed, Outputs
<1>4. CASE ~sec.lockoutActive
  <2>1. lockoutAge' = 0 /\ 0 \in 0 .. LockoutTicks + PollSlack
    BY <1>4, TimeAssumption DEF Tick
  <2>2. QED
    BY <1>1, <1>2, <1>4, <2>1 DEF Tick, IInv, Timed, Outputs
<1>5. QED
  BY <1>3, <1>4

\* Every step of the handler keeps the invariant.
LEMMA InvariantStep ==
    ASSUME IInv, [Next]_vars
    PROVE  IInv'
<1>1. CASE \E detail \in {INVALID_ID, INVALID_DLC} : RejectFrame(detail)
  BY <1>1, RejectStep
<1>2. ASSUME NEW r \in Requests, HandleRequest(r)
      PROVE  IInv'
  <2>1. CASE RejectUnknown(r) \/ RejectLockedOut(r)
    BY <2>1, RejectStep
  <2>2. CASE RequestSeed(r)
    BY <2>2, RequestSeedStep
  <2>3. CASE KeyWithoutSeed(r) \/ KeyAccepted(r) \/ KeyRefused(r)
    BY <2>3, KeyStep
  <2>4. CASE StartLocked(r) \/ Start(r) \/ InvalidSequence(r) \/ Abort(r)
    BY <2>4, SequenceStep
  <2>5. CASE \/ DataTooLong(r) \/ DataUnauthentic(r)
             \/ DataOverflow(r) \/ DataStored(r)
    BY <2>5, DataStep
  <2>6. CASE EndVerified(r) \/ EndMismatch(r) \/ Activate(r)
    BY <2>6, CompletionStep
  <2>7. QED
    BY <1>2, <2>1, <2>2, <2>3, <2>4, <2>5, <2>6 DEF HandleRequest
<1>3. CASE PublishStatus
  BY <1>3, PublishStep
<1>4. CASE Tick
  BY <1>4, TickStep
<1>5. CASE UNCHANGED vars
  BY <1>5 DEF vars, IInv, Timed, Elapsed, Outputs
<1>6. QED
  BY <1>1, <1>2, <1>3, <1>4, <1>5 DEF Next

\* COM_GatewayInit establishes it.
LEMMA InvariantInit == Init => IInv
<1> SUFFICES ASSUME Init PROVE IInv
  OBVIOUS
<1>1. sec \in SecurityType /\ ~sec.lockoutActive /\ sec.failureStreak = 0
      /\ sec.unlocked = FALSE /\ sec.locked = TRUE
      /\ sec.seedIssued = FALSE
  BY ZeroInRange DEF Init, SecurityType
<1>2. SecurityGood(sec)
  BY <1>1, ZeroInRange DEF SecurityGood, StreakExhausted
<1>3. << >> \in Seq(Byte) /\ Len(<< >>) <= BufferSize
  BY SizesAssumption
<1>4. SessionGood(ota) /\ ota.state = "IDLE"
  BY <1>3, ZeroInRange DEF Init, SessionGood, OtaType, OtaStates
<1>5. Coupled(ota, sec)
  BY <1>1, <1>4 DEF Coupled
<1>6. Timed
  BY <1>1, ZeroInRange, TimeAssumption DEF Init, Timed
<1>7. Outputs
  BY ZeroInRange, ByteAssumption
  DEF Init, Outputs, ResponseType, OtaStates
<1>8. QED
  BY <1>2, <1>4, <1>5, <1>6, <1>7 DEF IInv

\* The invariant holds of every reachable state.
THEOREM Invariance == Spec => []IInv
<1>1. Init => IInv
  BY InvariantInit
<1>2. IInv /\ [Next]_vars => IInv'
  BY InvariantStep
<1>3. QED
  BY <1>1, <1>2, PTL DEF Spec

-----------------------------------------------------------------------------
(* The safety properties of OtaSecurity.                                   *)

\* Every variable keeps its range: no counter, version, buffer or tick leaves
\* the type the code declares for it.
THEOREM TypeCorrect == Spec => []TypeOK
<1>1. IInv => TypeOK
  BY DEF IInv, SecurityGood, SessionGood, Timed, Outputs, TypeOK
<1>2. QED
  BY <1>1, Invariance, PTL

\* A session past IDLE is a session with security unlocked.
THEOREM ProgressIsUnlocked == Spec => []ProgressNeedsUnlock
<1>1. IInv => ProgressNeedsUnlock
  BY DEF IInv, Coupled, ProgressNeedsUnlock
<1>2. QED
  BY <1>1, Invariance, PTL

\* The published security flags are complementary and a pending seed means
\* locked.
THEOREM FlagsCoherent == Spec => []SecurityCoherent
<1>1. IInv => SecurityCoherent
  BY DEF IInv, SecurityGood, SecurityCoherent
<1>2. QED
  BY <1>1, Invariance, PTL

\* A lockout stands exactly while the failure streak is exhausted, and nothing
\* of the session or of a seed survives into it.
THEOREM LockoutIsCoherent == Spec => []LockoutCoherent
<1>1. IInv => LockoutCoherent
  BY DEF IInv, SecurityGood, Coupled, LockoutCoherent
<1>2. QED
  BY <1>1, Invariance, PTL

\* From verification to activation the buffer holds the verified image.
THEOREM ImageIsVerified == Spec => []VerifiedImage
<1>1. IInv => VerifiedImage
  BY DEF IInv, SessionGood, VerifiedImage
<1>2. QED
  BY <1>1, Invariance, PTL

\* otaVerifyPending is set exactly in VERIFYING.
THEOREM PendingIsVerifying == Spec => []VerifyingPending
<1>1. IInv => VerifyingPending
  BY DEF IInv, SessionGood, VerifyingPending
<1>2. QED
  BY <1>1, Invariance, PTL

\* What one step may do to the security record: leave it, settle it, or, for a
\* request that is served, apply one of the three security helpers to it.
LEMMA SecurityEffect ==
    ASSUME IInv, [Next]_vars
    PROVE  \/ sec' = sec
           \/ sec' = Settled
           \/ /\ ~Settled.lockoutActive
              /\ \/ sec' = [ResetUnlock(Settled) EXCEPT !.seedIssued = TRUE]
                 \/ Settled.seedIssued /\ sec' = MarkUnlocked(Settled)
                 \/ sec' = ResetUnlock(RecordFailure(Settled))
                 \/ sec' = RecordFailure(Settled)
<1>1. CASE \E detail \in {INVALID_ID, INVALID_DLC} : RejectFrame(detail)
  BY <1>1 DEF RejectFrame
<1>2. ASSUME NEW r \in Requests, HandleRequest(r)
      PROVE  \/ sec' = sec
             \/ sec' = Settled
             \/ /\ ~Settled.lockoutActive
                /\ \/ sec' = [ResetUnlock(Settled) EXCEPT !.seedIssued = TRUE]
                   \/ Settled.seedIssued /\ sec' = MarkUnlocked(Settled)
                   \/ sec' = ResetUnlock(RecordFailure(Settled))
                   \/ sec' = RecordFailure(Settled)
  <2>1. CASE RejectUnknown(r) \/ RejectLockedOut(r)
    BY <2>1 DEF RejectUnknown, RejectLockedOut
  <2>2. CASE RequestSeed(r) \/ KeyAccepted(r) \/ KeyRefused(r)
    BY <2>2 DEF RequestSeed, KeyAccepted, KeyRefused, Serve
  <2>3. CASE DataUnauthentic(r)
    BY <2>3 DEF DataUnauthentic, Serve
  <2>4. CASE KeyWithoutSeed(r) \/ StartLocked(r) \/ Start(r) \/ Abort(r)
             \/ InvalidSequence(r)
    BY <2>4 DEF KeyWithoutSeed, StartLocked, Start, Abort, InvalidSequence
  <2>5. CASE DataTooLong(r) \/ DataOverflow(r) \/ DataStored(r)
             \/ EndVerified(r) \/ EndMismatch(r) \/ Activate(r)
    BY <2>5 DEF DataTooLong, DataOverflow, DataStored, EndVerified,
                EndMismatch, Activate
  <2>6. QED
    BY <1>2, <2>1, <2>2, <2>3, <2>4, <2>5 DEF HandleRequest
<1>3. CASE PublishStatus \/ Tick \/ UNCHANGED vars
  BY <1>3 DEF PublishStatus, Tick, vars
<1>4. QED
  BY <1>1, <1>2, <1>3 DEF Next

\* A lockout is never lifted before LockoutTicks have passed since the failure
\* that began it, across the wrap of the tick counter too.
THEOREM LockoutIsServed == Spec => LockoutServed
<1>1. IInv /\ [Next]_vars =>
        [sec.lockoutActive /\ ~sec'.lockoutActive
           => lockoutAge >= LockoutTicks]_vars
  <2> SUFFICES ASSUME IInv, [Next]_vars,
                      sec.lockoutActive, ~sec'.lockoutActive
               PROVE  lockoutAge >= LockoutTicks
    OBVIOUS
  <2>1. ~Settled.lockoutActive
    BY SecurityEffect
  <2>2. QED
    BY <2>1, SettledGood
<1>2. QED
  BY <1>1, Invariance, PTL DEF Spec, LockoutServed

\* The failure streak shrinks only when the right key unlocks or a lockout has
\* been served.
THEOREM FailuresAreRemembered == Spec => FailuresRemembered
<1>1. IInv /\ [Next]_vars =>
        [sec'.failureStreak < sec.failureStreak
           => \/ ~sec.unlocked /\ sec'.unlocked
              \/ sec.lockoutActive /\ lockoutAge >= LockoutTicks]_vars
  <2> SUFFICES ASSUME IInv, [Next]_vars,
                      sec'.failureStreak < sec.failureStreak,
                      ~(sec.lockoutActive /\ lockoutAge >= LockoutTicks)
               PROVE  ~sec.unlocked /\ sec'.unlocked
    OBVIOUS
  <2>1. /\ SecurityGood(Settled) /\ Settled.unlocked = sec.unlocked
        /\ ~(Settled.failureStreak < sec.failureStreak)
        /\ sec.failureStreak \in Nat /\ Settled.failureStreak \in Nat
    BY SettledGood DEF IInv, SecurityGood, SecurityType
  <2>2. sec' # sec
    BY <2>1
  <2>3. sec' # Settled
    BY <2>1
  <2> DEFINE f == RecordFailure(Settled)
  <2>4. ASSUME ~Settled.lockoutActive
        PROVE  /\ f.failureStreak >= Settled.failureStreak
               /\ ResetUnlock(f).failureStreak = f.failureStreak
               /\ f.failureStreak \in Nat
    BY <2>1, <2>4, RecordFailureGood, ResetUnlockGood
    DEF IInv, Timed, SecurityGood, SecurityType
  <2>5. [ResetUnlock(Settled) EXCEPT !.seedIssued = TRUE].failureStreak
          = Settled.failureStreak
    BY <2>1, ResetUnlockGood DEF SecurityGood, SecurityType
  <2>6. Settled.seedIssued /\ sec' = MarkUnlocked(Settled)
    <3> HIDE DEF f
    <3>1. sec' # [ResetUnlock(Settled) EXCEPT !.seedIssued = TRUE]
      BY <2>1, <2>5
    <3>2. ~Settled.lockoutActive => sec' # f /\ sec' # ResetUnlock(f)
      BY <2>1, <2>4
    <3>3. QED
      BY <2>2, <2>3, <3>1, <3>2, SecurityEffect DEF f
  <2>7. QED
    BY <2>1, <2>6, MarkUnlockedGood DEF SecurityGood, SecurityType
<1>2. QED
  BY <1>1, Invariance, PTL DEF Spec, FailuresRemembered

\* The code byte of a response is the one BuildResponse was given.
LEMMA ResponseCode ==
    ASSUME NEW cmd, NEW seq, NEW code, NEW detail,
           BuildResponse(cmd, seq, code, detail)
    PROVE  response'.code = code
  BY DEF BuildResponse

\* A refused request never advances the session, unlocks or activates.
THEOREM NacksNeverAdvance == Spec => NackNeverAdvances
<1> DEFINE Held == /\ ota'.state \in {ota.state, "FAILED"}
                   /\ sec'.unlocked => sec.unlocked
                   /\ activeSwVersion' = activeSwVersion
<1>1. ASSUME IInv, NEW r \in Requests, HandleRequest(r),
             response'.code = "NACK"
      PROVE  Held
  <2>1. /\ Settled.unlocked = sec.unlocked
        /\ SecurityGood(Settled) /\ SessionGood(ota)
        /\ FailSession(ota).state = "FAILED"
    BY <1>1, SettledGood, FailSessionGood DEF IInv
  <2>2. CASE RejectUnknown(r) \/ RejectLockedOut(r)
    BY <1>1, <2>1, <2>2, SettledGood DEF RejectUnknown, RejectLockedOut
  <2>3. CASE RequestSeed(r) \/ KeyAccepted(r)
    <3>1. response'.code = "ACK"
      BY <2>3, ResponseCode DEF RequestSeed, KeyAccepted, Ack
    <3>2. QED
      BY <1>1, <3>1
  <2>4. CASE Start(r) \/ Abort(r) \/ DataStored(r)
    <3>1. response'.code = "ACK"
      BY <2>4, ResponseCode DEF Start, Abort, DataStored, Ack
    <3>2. QED
      BY <1>1, <3>1
  <2>5. CASE EndVerified(r) \/ Activate(r)
    <3>1. response'.code = "ACK"
      BY <2>5, ResponseCode DEF EndVerified, Activate, Ack
    <3>2. QED
      BY <1>1, <3>1
  <2>6. CASE KeyWithoutSeed(r)
    BY <2>1, <2>6 DEF KeyWithoutSeed
  <2>7. CASE KeyRefused(r)
    <3>1. /\ sec' = ResetUnlock(RecordFailure(Settled))
          /\ ota' = FailIfLockedOut(ota, RecordFailure(Settled))
          /\ activeSwVersion' = activeSwVersion
          /\ ~Settled.lockoutActive
      BY <2>7 DEF KeyRefused, Serve
    <3>2. SecurityGood(RecordFailure(Settled))
      BY <1>1, <2>1, <3>1, RecordFailureGood DEF IInv, Timed
    <3>3. ~sec'.unlocked
      BY <3>1, <3>2, ResetUnlockGood
    <3>4. ota'.state \in {ota.state, "FAILED"}
      BY <2>1, <3>1 DEF FailIfLockedOut
    <3>5. QED
      BY <3>1, <3>3, <3>4
  <2>8. CASE StartLocked(r)
    <3>1. ota'.state = ota.state
      BY <2>1, <2>8 DEF StartLocked, SessionGood, OtaType
    <3>2. QED
      BY <2>1, <2>8, <3>1 DEF StartLocked
  <2>9. CASE InvalidSequence(r) \/ DataTooLong(r)
    BY <2>1, <2>9 DEF InvalidSequence, DataTooLong
  <2>10. CASE DataUnauthentic(r)
    <3>1. /\ sec' = RecordFailure(Settled) /\ ota' = FailSession(ota)
          /\ activeSwVersion' = activeSwVersion
          /\ ~Settled.lockoutActive
      BY <2>10 DEF DataUnauthentic, Serve
    <3>2. sec'.unlocked => Settled.unlocked
      BY <1>1, <2>1, <3>1, RecordFailureGood DEF IInv, Timed
    <3>3. QED
      BY <2>1, <3>1, <3>2
  <2>11. CASE DataOverflow(r) \/ EndMismatch(r)
    <3>1. ota'.state = "FAILED"
      BY <2>1, <2>11
      DEF DataOverflow, EndMismatch, FailSession, SessionGood, OtaType
    <3>2. QED
      BY <2>1, <2>11, <3>1 DEF DataOverflow, EndMismatch
  <2>12. QED
    BY <1>1, <2>2, <2>3, <2>4, <2>5, <2>6, <2>7, <2>8, <2>9, <2>10, <2>11
    DEF HandleRequest
<1>2. IInv /\ [Next]_vars =>
        [otaResponseCounter' # otaResponseCounter /\ response'.code = "NACK"
           => /\ ota'.state \in {ota.state, "FAILED"}
              /\ sec'.unlocked => sec.unlocked
              /\ activeSwVersion' = activeSwVersion]_vars
  <2> SUFFICES ASSUME IInv, Next, otaResponseCounter' # otaResponseCounter,
                      response'.code = "NACK"
               PROVE  Held
    BY DEF vars
  <2>1. CASE \E detail \in {INVALID_ID, INVALID_DLC} : RejectFrame(detail)
    BY <2>1 DEF RejectFrame
  <2>2. CASE PublishStatus \/ Tick
    BY <2>2 DEF PublishStatus, Tick
  <2>3. QED
    BY <1>1, <2>1, <2>2 DEF Next
<1>3. QED
  BY <1>2, Invariance, PTL DEF Spec, NackNeverAdvances

-----------------------------------------------------------------------------
(* The handler implements the abstract update session.                     *)

\* The abstract phase and image of every good pair of records.
LEMMA PhaseValues ==
    ASSUME NEW s, NEW o, SecurityGood(s), SessionGood(o), Coupled(o, s)
    PROVE  /\ ~s.unlocked => PhaseOf(s, o) = "closed" /\ ImageOf(s, o) = << >>
           /\ s.unlocked /\ o.state \in {"IDLE", "FAILED"} =>
                PhaseOf(s, o) = "authorised" /\ ImageOf(s, o) = << >>
           /\ o.state \in {"START", "RECEIVING"} =>
                PhaseOf(s, o) = "open" /\ ImageOf(s, o) = o.buffer
           /\ o.state = "VERIFYING" =>
                PhaseOf(s, o) = "checked" /\ ImageOf(s, o) = o.buffer
           /\ o.state = "READY_TO_ACTIVATE" =>
                PhaseOf(s, o) = "offered" /\ ImageOf(s, o) = o.buffer
           /\ o.state = "SUCCESS" =>
                PhaseOf(s, o) = "installed" /\ ImageOf(s, o) = o.buffer
           /\ s.unlocked => PhaseOf(s, o) # "closed"
<1>1. /\ o.state \notin {"IDLE", "FAILED"} => s.unlocked
      /\ o.state \in OtaStates /\ s.unlocked \in BOOLEAN
  BY DEF Coupled, SessionGood, OtaType, SecurityGood, SecurityType
<1>2. CASE ~s.unlocked
  BY <1>1, <1>2 DEF PhaseOf, ImageOf
<1>3. CASE s.unlocked
  BY <1>1, <1>3 DEF PhaseOf, ImageOf, OtaStates
<1>4. QED
  BY <1>2, <1>3

\* A step that ends the session, or finds none, gives the image up or does
\* nothing an observer of the abstract session could see.
LEMMA ClosingStep ==
    ASSUME IInv, IInv', ota'.state \in {"IDLE", "FAILED"},
           ~sec.unlocked => ~sec'.unlocked,
           activeSwVersion' = activeSwVersion
    PROVE  [Session!Next]_(Session!svars)
<1> DEFINE p == PhaseOf(sec, ota)
           q == PhaseOf(sec', ota')
           j == ImageOf(sec', ota')
<1>1. q \in {"closed", "authorised"} /\ j = << >>
  BY PhaseValues DEF IInv
<1>2. CASE sec.unlocked
  <2>1. p # "closed"
    BY <1>2, PhaseValues DEF IInv
  <2>2. Session!GiveUp
    BY <1>1, <2>1 DEF Session!GiveUp
  <2>3. QED
    BY <2>2 DEF Session!Next
<1>3. CASE ~sec.unlocked
  <2>1. q = p /\ ImageOf(sec', ota') = ImageOf(sec, ota)
    BY <1>3, PhaseValues DEF IInv
  <2>2. QED
    BY <2>1 DEF Session!svars
<1>4. QED
  BY <1>2, <1>3 DEF IInv, SecurityGood, SecurityType

\* A step that leaves the unlock flag, the session and the version alone is
\* invisible.
LEMMA InvisibleStep ==
    ASSUME IInv, IInv', ota'.state = ota.state, ota'.buffer = ota.buffer,
           sec'.unlocked = sec.unlocked, activeSwVersion' = activeSwVersion
    PROVE  UNCHANGED Session!svars
<1>1. /\ PhaseOf(sec', ota') = PhaseOf(sec, ota)
      /\ ImageOf(sec', ota') = ImageOf(sec, ota)
  BY DEF PhaseOf, ImageOf
<1>2. QED
  BY <1>1 DEF Session!svars

\* Every request maps to one step of the abstract session or to none.
LEMMA RequestRefines ==
    ASSUME IInv, IInv', NEW r \in Requests, HandleRequest(r)
    PROVE  [Session!Next]_(Session!svars)
<1>1. /\ Settled.unlocked = sec.unlocked
      /\ SecurityGood(Settled) /\ SessionGood(ota)
      /\ FailSession(ota).state = "FAILED"
      /\ now \in 0 .. TickMod - 1
  BY SettledGood, FailSessionGood DEF IInv, Timed
<1>2. CASE RejectUnknown(r) \/ RejectLockedOut(r) \/ KeyWithoutSeed(r)
  <2>1. /\ ota' = ota /\ activeSwVersion' = activeSwVersion
        /\ sec'.unlocked = sec.unlocked
    BY <1>1, <1>2 DEF RejectUnknown, RejectLockedOut, KeyWithoutSeed
  <2>2. QED
    BY <2>1, InvisibleStep
<1>3. CASE StartLocked(r)
  <2>1. /\ ota'.state = ota.state /\ ota'.buffer = ota.buffer
        /\ sec'.unlocked = sec.unlocked /\ activeSwVersion' = activeSwVersion
    BY <1>1, <1>3 DEF StartLocked, SessionGood, OtaType
  <2>2. QED
    BY <2>1, InvisibleStep
<1>4. CASE RequestSeed(r)
  <2>1. /\ ota'.state = "IDLE" /\ activeSwVersion' = activeSwVersion
        /\ sec' = [ResetUnlock(Settled) EXCEPT !.seedIssued = TRUE]
    BY <1>1, <1>4, ResetSessionGood DEF RequestSeed
  <2>2. ~sec'.unlocked
    BY <1>1, <2>1, ResetUnlockGood DEF SecurityGood, SecurityType
  <2>3. QED
    BY <2>1, <2>2, ClosingStep
<1>5. CASE KeyRefused(r)
  <2>1. /\ sec' = ResetUnlock(RecordFailure(Settled)) /\ Settled.seedIssued
        /\ ota' = FailIfLockedOut(ota, RecordFailure(Settled))
        /\ activeSwVersion' = activeSwVersion /\ ~Settled.lockoutActive
    BY <1>5 DEF KeyRefused, Serve
  <2>2. ~sec'.unlocked
    BY <1>1, <2>1, RecordFailureGood, ResetUnlockGood
  <2>3. ota.state \in {"IDLE", "FAILED"}
    BY <1>1, <2>1 DEF SecurityGood, SecurityType, IInv, Coupled
  <2>4. ota'.state \in {"IDLE", "FAILED"}
    BY <1>1, <2>1, <2>3 DEF FailIfLockedOut
  <2>5. QED
    BY <2>1, <2>2, <2>4, ClosingStep
<1>6. CASE InvalidSequence(r) \/ DataTooLong(r) \/ DataOverflow(r)
           \/ EndMismatch(r) \/ Abort(r)
  <2>1. sec' = Settled /\ activeSwVersion' = activeSwVersion
    BY <1>6 DEF InvalidSequence, DataTooLong, DataOverflow, EndMismatch, Abort
  <2>2. ota'.state = "FAILED"
    <3>1. CASE InvalidSequence(r) \/ DataTooLong(r)
      BY <1>1, <3>1 DEF InvalidSequence, DataTooLong
    <3>2. CASE Abort(r)
      BY <1>1, <3>2, ResetSessionGood DEF Abort
    <3>3. CASE DataOverflow(r) \/ EndMismatch(r)
      BY <1>1, <3>3
      DEF DataOverflow, EndMismatch, FailSession, SessionGood, OtaType
    <3>4. QED
      BY <1>6, <3>1, <3>2, <3>3
  <2>3. QED
    BY <1>1, <2>1, <2>2, ClosingStep
<1>7. CASE DataUnauthentic(r)
  <2>1. /\ sec' = RecordFailure(Settled) /\ ota' = FailSession(ota)
        /\ activeSwVersion' = activeSwVersion /\ ~Settled.lockoutActive
    BY <1>7 DEF DataUnauthentic, Serve
  <2>2. sec'.unlocked => Settled.unlocked
    BY <1>1, <2>1, RecordFailureGood
  <2>3. QED
    BY <1>1, <2>1, <2>2, ClosingStep
<1>8. CASE KeyAccepted(r)
  <2>1. /\ sec' = MarkUnlocked(Settled) /\ Settled.seedIssued /\ ota' = ota
        /\ activeSwVersion' = activeSwVersion
    BY <1>8 DEF KeyAccepted
  <2>2. ~sec.unlocked /\ sec'.unlocked /\ ota'.state \in {"IDLE", "FAILED"}
    BY <1>1, <2>1, MarkUnlockedGood
    DEF SecurityGood, SecurityType, IInv, Coupled
  <2>3. /\ PhaseOf(sec, ota) = "closed"
        /\ PhaseOf(sec', ota') = "authorised"
        /\ ImageOf(sec', ota') = ImageOf(sec, ota)
    BY <2>2, PhaseValues DEF IInv
  <2>4. Session!Authorise
    BY <2>1, <2>3 DEF Session!Authorise
  <2>5. QED
    BY <2>4 DEF Session!Next
<1>9. CASE Start(r)
  <2>1. /\ sec.unlocked /\ ota'.state = "START" /\ ota'.buffer = << >>
        /\ activeSwVersion' = activeSwVersion
    BY <1>1, <1>9, ResetSessionGood DEF Start
  <2>2. /\ PhaseOf(sec, ota) # "closed"
        /\ PhaseOf(sec', ota') = "open" /\ ImageOf(sec', ota') = << >>
    BY <2>1, PhaseValues DEF IInv
  <2>3. Session!Open
    BY <2>1, <2>2 DEF Session!Open
  <2>4. QED
    BY <2>3 DEF Session!Next
<1>10. CASE DataStored(r)
  <2> DEFINE chunk == SubSeq(r.data, 1, r.arg)
  <2>1. /\ ota'.state = "RECEIVING" /\ ota'.buffer = ota.buffer \o chunk
        /\ ota.state \in {"START", "RECEIVING"}
        /\ LengthValid(r) /\ activeSwVersion' = activeSwVersion
    BY <1>1, <1>10 DEF DataStored, Receiving, SessionGood, OtaType
  <2>2. ota.buffer \in Seq(Byte) /\ chunk \in Seq(Byte)
    BY <1>1, <2>1, PayloadGood DEF SessionGood, OtaType
  <2>3. ota'.buffer \in Seq(Byte) /\ Len(ota'.buffer) <= BufferSize
    BY DEF IInv, SessionGood, OtaType
  <2> HIDE DEF chunk
  <2>4. /\ Len(ota.buffer) <= Len(ota'.buffer)
        /\ \A i \in 1 .. Len(ota.buffer) : ota'.buffer[i] = ota.buffer[i]
    BY <2>1, <2>2
  <2>5. /\ PhaseOf(sec, ota) = "open" /\ PhaseOf(sec', ota') = "open"
        /\ ImageOf(sec, ota) = ota.buffer
        /\ ImageOf(sec', ota') = ota'.buffer
    BY <2>1, PhaseValues DEF IInv
  <2>6. Session!Receive
    BY <2>1, <2>3, <2>4, <2>5 DEF Session!Receive
  <2>7. QED
    BY <2>6 DEF Session!Next
<1>11. CASE EndVerified(r)
  <2>1. /\ ota'.state = "VERIFYING" /\ ota'.buffer = ota.buffer
        /\ ota.state \in {"START", "RECEIVING"}
        /\ activeSwVersion' = activeSwVersion
    BY <1>1, <1>11
    DEF EndVerified, EndSession, Receiving, SessionGood, OtaType
  <2>2. /\ PhaseOf(sec, ota) = "open" /\ PhaseOf(sec', ota') = "checked"
        /\ ImageOf(sec', ota') = ImageOf(sec, ota)
    BY <2>1, PhaseValues DEF IInv
  <2>3. Session!Check
    BY <2>1, <2>2 DEF Session!Check
  <2>4. QED
    BY <2>3 DEF Session!Next
<1>12. CASE Activate(r)
  <2>1. /\ ota'.state = "SUCCESS" /\ ota'.buffer = ota.buffer
        /\ ota.state = "READY_TO_ACTIVATE"
        /\ activeSwVersion' = AdvanceVersion(activeSwVersion)
    BY <1>1, <1>12 DEF Activate, ActivationAllowed, SessionGood, OtaType
  <2>2. /\ PhaseOf(sec, ota) = "offered"
        /\ PhaseOf(sec', ota') = "installed"
        /\ ImageOf(sec', ota') = ImageOf(sec, ota)
    BY <2>1, PhaseValues DEF IInv
  <2>3. Session!Install
    BY <2>1, <2>2 DEF Session!Install, Session!NextVersion, AdvanceVersion
  <2>4. QED
    BY <2>3 DEF Session!Next
<1>13. QED
  BY <1>2, <1>3, <1>4, <1>5, <1>6, <1>7, <1>8, <1>9, <1>10, <1>11, <1>12
  DEF HandleRequest

\* The handler implements the abstract update session: the version moves only
\* at the end of an authorised, opened, checked and offered session, and the
\* image it stands for does not change once it is checked.
THEOREM HandlerImplementsSession == Spec => ImplementsSession
<1>1. Init => Session!Init
  <2> SUFFICES ASSUME Init PROVE Session!Init
    OBVIOUS
  <2>1. ~sec.unlocked /\ activeSwVersion = 1
    BY DEF Init
  <2>2. PhaseOf(sec, ota) = "closed" /\ ImageOf(sec, ota) = << >>
    BY <2>1 DEF PhaseOf, ImageOf
  <2>3. QED
    BY <2>1, <2>2 DEF Session!Init
<1>2. IInv /\ IInv' /\ [Next]_vars => [Session!Next]_(Session!svars)
  <2> SUFFICES ASSUME IInv, IInv', [Next]_vars
               PROVE  [Session!Next]_(Session!svars)
    OBVIOUS
  <2>1. CASE \E r \in Requests : HandleRequest(r)
    BY <2>1, RequestRefines
  <2>2. CASE PublishStatus
    <3>1. /\ sec' = Settled /\ ota' = AfterStatusPublish(ota)
          /\ activeSwVersion' = activeSwVersion
      BY <2>2 DEF PublishStatus
    <3>2. sec'.unlocked = sec.unlocked
      BY <3>1, SettledGood
    <3>3. CASE ota.state = "VERIFYING"
      <4>1. ota'.state = "READY_TO_ACTIVATE" /\ ota'.buffer = ota.buffer
        BY <3>1, <3>3, AfterPublishGood DEF IInv
      <4>2. /\ PhaseOf(sec, ota) = "checked"
            /\ PhaseOf(sec', ota') = "offered"
            /\ ImageOf(sec', ota') = ImageOf(sec, ota)
        BY <3>3, <4>1, PhaseValues DEF IInv
      <4>3. Session!Offer
        BY <3>1, <4>2 DEF Session!Offer
      <4>4. QED
        BY <4>3 DEF Session!Next
    <3>4. CASE ota.state # "VERIFYING"
      <4>1. ota' = ota
        BY <3>1, <3>4, AfterPublishGood DEF IInv
      <4>2. QED
        BY <3>1, <3>2, <4>1, InvisibleStep
    <3>5. QED
      BY <3>3, <3>4
  <2>3. CASE \/ \E detail \in {INVALID_ID, INVALID_DLC} : RejectFrame(detail)
             \/ Tick \/ UNCHANGED vars
    <3>1. sec' = sec /\ ota' = ota /\ activeSwVersion' = activeSwVersion
      BY <2>3 DEF RejectFrame, Tick, vars
    <3>2. QED
      BY <3>1, InvisibleStep
  <2>4. QED
    BY <2>1, <2>2, <2>3 DEF Next
<1>3. QED
  BY <1>1, <1>2, Invariance, PTL DEF Spec, ImplementsSession, Session!Spec

=============================================================================
