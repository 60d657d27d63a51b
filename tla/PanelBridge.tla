------------------------------ MODULE PanelBridge ------------------------------
(***************************************************************************)
(* The tester's panel (src/CANOE/ECU6_Panel_Bridge.can) at the other end   *)
(* of the OTA protocol: its buttons, pressed in any order, and what it     *)
(* takes from the frames of ECU6, composed with OtaSecurity and the         *)
(* transmission of GatewayStatus over a bus that loses requests, responses *)
(* and status frames.  One request is on its way at a time, as when a      *)
(* person presses the buttons.                                             *)
(***************************************************************************)
EXTENDS StatusPublication

CONSTANTS
    Chunk,              \* the payload of SendOtaChunk: 11 22 33 44
    WrongKeyXor,        \* 0xA4: not KeyXor
    WrongCrcXor         \* 0xFF

ASSUME ChunkAssumption == Chunk \in [1 .. PayloadMax -> Byte]
ASSUME WrongAssumption ==
    /\ WrongKeyXor \in Byte \ {KeyXor}
    /\ WrongCrcXor \in Byte \ {0}

VARIABLES
    panelSequence,
    lastSeed,
    lastPayloadChecksum,
    panelState,         \* sysvar OtaState
    wire,               \* the request on its way, or NoRequest
    sentChunks,         \* history: chunks since the last OtaStart
    seedMissed,         \* history: the last seed ECU6 issued did not arrive
    missed              \* history: its last frame did not arrive

panelVars == <<panelSequence, lastSeed, lastPayloadChecksum, sentChunks>>
viewVars == <<panelState, seedMissed, missed>>
bvars == <<pvars, panelVars, viewVars, wire>>

NoRequest == [cmd |-> "NONE"]
NoData == [i \in 1 .. PayloadMax |-> 0]

-----------------------------------------------------------------------------
(* The buttons.  A definition named Faulty... is the one below it with a    *)
(* plausible mistake; nothing uses it but the mutation runs.               *)

nextSequence == (panelSequence + 1) % (ByteMax + 1)

FaultyCalcOtaDataAuth(sequence, len) ==
    ByteXor(ByteXor(ByteXor(lastSeed, panelSequence), len), AuthXor)

calcOtaDataAuth(sequence, len) ==
    ByteXor(ByteXor(ByteXor(lastSeed, sequence), len), AuthXor)

sendOtaCommand(cmd, byte2, byte3, data) ==
    /\ wire = NoRequest
    /\ wire' = [cmd |-> cmd, seq |-> nextSequence, arg |-> byte2,
                auth |-> byte3, data |-> data]
    /\ panelSequence' = nextSequence
    /\ UNCHANGED <<pvars, viewVars, lastSeed>>

Plainly(cmd, byte2) ==
    /\ sendOtaCommand(cmd, byte2, 0, NoData)
    /\ UNCHANGED <<lastPayloadChecksum, sentChunks>>

PressRequestSeed == Plainly("REQUEST_SEED", 0)

PressCorrectKey == Plainly("SEND_KEY", ByteXor(lastSeed, KeyXor))

PressWrongKey == Plainly("SEND_KEY", ByteXor(lastSeed, WrongKeyXor))

PressStart ==
    /\ sendOtaCommand("START", 0, 0, NoData)
    /\ lastPayloadChecksum' = 0
    /\ sentChunks' = 0

\* The checksum counts what was sent, not what was acknowledged.  The history
\* counts no further than the buffer holds, and one.
PressChunk ==
    /\ sendOtaCommand("DATA", PayloadMax,
                      calcOtaDataAuth(nextSequence, PayloadMax), Chunk)
    /\ lastPayloadChecksum' =
         ByteXor(lastPayloadChecksum, DataChecksum(Chunk))
    /\ sentChunks <= BufferSize \div PayloadMax
    /\ sentChunks' = sentChunks + 1

PressEnd == Plainly("END", lastPayloadChecksum)

PressEndWrongCrc ==
    Plainly("END", ByteXor(lastPayloadChecksum, WrongCrcXor))

PressActivate == Plainly("ACTIVATE", 0)

PressAbort == Plainly("ABORT", 0)

-----------------------------------------------------------------------------
(* The bus, and ECU6 behind it.                                            *)

\* A request is lost, in the catch-all mailbox of ECU6 for one.
LoseRequest ==
    /\ wire # NoRequest
    /\ wire' = NoRequest
    /\ UNCHANGED <<pvars, panelVars, viewVars>>

\* on message 0x651, when the response gets through.  The code NONE of a
\* response to an unknown frame does not occur here.
CarriesSeed(resp) == resp.code = "ACK" /\ resp.cmd = "REQUEST_SEED"

ResponseArrives ==
    /\ panelState' = response'.state
    /\ lastSeed' = IF CarriesSeed(response') THEN response'.detail ELSE lastSeed
    /\ seedMissed' = (seedMissed /\ ~CarriesSeed(response'))
    /\ missed' = FALSE

ResponseLost ==
    /\ UNCHANGED <<panelState, lastSeed>>
    /\ seedMissed' = (seedMissed \/ CarriesSeed(response'))
    /\ missed' = TRUE

TakeRequest ==
    /\ wire # NoRequest
    /\ HandleRequest(wire)
    /\ wire' = NoRequest
    /\ (ResponseArrives \/ ResponseLost)
    /\ UNCHANGED <<panelSequence, lastPayloadChecksum, sentChunks, txStatus, shown>>

\* on message 0x601, when the frame is sent and gets through.
StatusArrives ==
    /\ SendStatus
    /\ txStatus' = "success"
    /\ panelState' = shown'
    /\ missed' = FALSE
    /\ UNCHANGED <<panelVars, wire, seedMissed>>

\* It is not sent, or is lost on the way.
StatusLost ==
    /\ SendStatus
    /\ missed' = TRUE
    /\ UNCHANGED <<panelVars, wire, panelState, seedMissed>>

BTick == Tick /\ UNCHANGED <<txStatus, shown, panelVars, viewVars, wire>>

BInit ==
    /\ PInit
    /\ panelSequence = 0 /\ lastSeed = 0 /\ lastPayloadChecksum = 0
    /\ panelState = "IDLE" /\ wire = NoRequest
    /\ sentChunks = 0
    /\ seedMissed = TRUE /\ missed = FALSE

Press ==
    \/ PressRequestSeed \/ PressCorrectKey  \/ PressWrongKey
    \/ PressStart       \/ PressChunk
    \/ PressEnd         \/ PressEndWrongCrc
    \/ PressActivate    \/ PressAbort

BNext ==
    \/ Press      \/ LoseRequest   \/ TakeRequest
    \/ StatusArrives \/ StatusLost \/ BTick

BSpec == BInit /\ [][BNext]_bvars

-----------------------------------------------------------------------------
\* A request the tester meant well.
Honest ==
    /\ wire.cmd = "SEND_KEY" => wire.arg = ByteXor(lastSeed, KeyXor)
    /\ wire.cmd = "END" => wire.arg = lastPayloadChecksum

\* An honest request is charged with a failure only when the last seed did not
\* reach the tester: while it knows the seed, its keys and its authentication
\* bytes are right, whatever was lost, aborted, refused or repeated since, the
\* wrong keys it sent among it.
FailuresFromLoss ==
    [][sec'.failureStreak > sec.failureStreak /\ Honest => seedMissed]_bvars

\* What the panel shows is the state of ECU6, unless the last frame was lost;
\* but the frame that says VERIFYING is the one that ends it.
ShownIsTrue ==
    \/ missed
    \/ panelState = ota.state
    \/ panelState = "VERIFYING" /\ ota.state = "READY_TO_ACTIVATE"

\* An image that lacks just one of the chunks the panel sent, or has just one
\* more, is not accepted by an honest END.  (Two would pass: the checksum is one
\* byte of XOR.)
OneChunkNoticed ==
    [][ota.state # "VERIFYING" /\ ota'.state = "VERIFYING" /\ Honest =>
         LET stored == Len(ota.buffer) \div PayloadMax
         IN  stored # sentChunks - 1 /\ stored # sentChunks + 1]_bvars

================================================================================
