--------------------------------- MODULE Frames ---------------------------------
(***************************************************************************)
(* The checksum that every periodic frame and every response carries in    *)
(* its last byte, computed by five senders and checked by two receivers:   *)
(* calcChecksum in the node simulators and in the panel bridge (CAPL),     *)
(* COM_CalculateChecksum for GatewayStatus and for what ECU6 receives, and *)
(* OTA_CalculateResponseChecksum.  A frame is prepared, may be damaged on  *)
(* the way, and is judged by its receiver.                                 *)
(***************************************************************************)
EXTENDS Integers, Sequences, Functions, FiniteSets

CONSTANTS
    ByteMax,            \* 0xFF
    ByteXor(_, _),      \* ^ on bytes
    CHECKSUM_BYTE,      \* COM_CHECKSUM_BYTE, OTA_RESPONSE_CHECKSUM_BYTE: 7
    Monitored,          \* canId of rxMonitors[], in its order
    OtherIds,           \* identifiers of other senders
    StatusId,           \* 0x601
    ResponseId,         \* 0x651
    MaxDamage           \* most places of a frame that are damaged

Byte == 0 .. ByteMax

FrameAssumption ==
    /\ ByteMax \in Nat \ {0}
    /\ CHECKSUM_BYTE \in Nat \ {0}
    /\ Monitored \in Seq(Nat) /\ OtherIds \subseteq Nat
    /\ {StatusId, ResponseId} \subseteq Nat
    /\ MaxDamage \in Nat
IdsAssumption ==
    /\ IsInjective(Monitored)
    /\ Range(Monitored) \cap OtherIds = {}
    /\ {StatusId, ResponseId} \cap (Range(Monitored) \cup OtherIds) = {}

\* Of two bytes that differ the exclusive-ors with a third differ.
XorAssumption ==
    /\ \A a, b \in Byte : ByteXor(a, b) \in Byte
    /\ \A a, b, c \in Byte :
         a # b => ByteXor(a, c) # ByteXor(b, c) /\ ByteXor(c, a) # ByteXor(c, b)

\* data[0] to the byte before the checksum, and all of data.
Payload == [0 .. CHECKSUM_BYTE - 1 -> Byte]
Places == 0 .. CHECKSUM_BYTE
DLC == CHECKSUM_BYTE + 1

VARIABLES
    sent,               \* the frame as its sender prepared it
    frame,              \* the frame as it is now
    verdict             \* what the receiver made of it

vars == <<sent, frame, verdict>>

-----------------------------------------------------------------------------
(* The checksums.  A definition named Faulty... is the one below it with a *)
(* plausible mistake; nothing uses it but the mutation runs.               *)

LowByte(id) == id % (ByteMax + 1)

\* The identifier's low byte and the first n bytes of data.
XorOf(id, data, n) ==
    LET checksum[i \in 0 .. n] ==
          IF i = 0 THEN LowByte(id) ELSE ByteXor(checksum[i - 1], data[i - 1])
    IN  checksum[n]

FaultyCalculateChecksum(id, data) == XorOf(id, data, CHECKSUM_BYTE - 1)

CalculateChecksum(id, data) == XorOf(id, data, CHECKSUM_BYTE)

CalculateResponseChecksum(id, data) == XorOf(id, data, CHECKSUM_BYTE)

\* calcChecksum of the simulators and of the bridge, which is given the bytes
\* one by one.
calcChecksum(id, data) == XorOf(id, data, CHECKSUM_BYTE)

VerifyChecksum(f) ==
    /\ f.length = DLC
    /\ f.data[CHECKSUM_BYTE] = CalculateChecksum(f.id, f.data)

\* The first monitor with the identifier; 0 for none.
FindRxMonitor(id) ==
    IF \E i \in DOMAIN Monitored : Monitored[i] = id
    THEN CHOOSE i \in DOMAIN Monitored :
           /\ Monitored[i] = id
           /\ \A j \in 1 .. i - 1 : Monitored[j] # id
    ELSE 0

-----------------------------------------------------------------------------
NoFrame == [id |-> 0, length |-> 0, data |-> << >>]

Prepared(id, payload, checksum) ==
    [id |-> id, length |-> DLC,
     data |-> [i \in Places |-> IF i < CHECKSUM_BYTE THEN payload[i]
                                ELSE checksum]]

Send(id, payload, checksum) ==
    /\ frame = NoFrame
    /\ sent' = Prepared(id, payload, checksum)
    /\ frame' = sent'
    /\ verdict' = "none"

\* A node simulator, or any other node that computes its checksum as they do.
NodeSends(id, payload) == Send(id, payload, calcChecksum(id, payload))

\* COM_GatewayBuildStatusMessage, whose last byte is zero before.
StatusSent(payload) ==
    Send(StatusId, payload, CalculateChecksum(StatusId, payload))

\* OTA_BuildResponse.
ResponseSent(payload) ==
    Send(ResponseId, payload, CalculateResponseChecksum(ResponseId, payload))

\* The places, the length among them, in which the frame is not what was sent.
Damage ==
    {i \in Places : frame.data[i] # sent.data[i]}
      \cup {i \in {DLC} : frame.length # sent.length}

\* Something happens to one byte, or a frame is cut off and the place of the
\* missing byte keeps what the receiver's message held before.
DamageByte(i, byte) ==
    /\ frame # NoFrame /\ Cardinality(Damage) < MaxDamage
    /\ frame' = [frame EXCEPT !.data[i] = byte]
    /\ UNCHANGED <<sent, verdict>>

CutOff(byte) ==
    /\ frame # NoFrame /\ Cardinality(Damage) < MaxDamage
    /\ frame' = [frame EXCEPT !.length = DLC - 1, !.data[CHECKSUM_BYTE] = byte]
    /\ UNCHANGED <<sent, verdict>>

\* COM_GatewayHandleRxMessage.
HandleRxMessage ==
    /\ frame # NoFrame /\ frame.id \notin {StatusId, ResponseId}
    /\ verdict' = IF FindRxMonitor(frame.id) = 0 THEN "blocked"
                  ELSE IF ~VerifyChecksum(frame) THEN "refused"
                  ELSE "accepted"
    /\ frame' = NoFrame
    /\ UNCHANGED sent

\* The bridge's handlers of 0x601 and 0x651, which look at no length.
PanelReceives ==
    /\ frame # NoFrame /\ frame.id \in {StatusId, ResponseId}
    /\ verdict' =
         IF frame.data[CHECKSUM_BYTE] # calcChecksum(frame.id, frame.data)
         THEN "refused" ELSE "accepted"
    /\ frame' = NoFrame
    /\ UNCHANGED sent

Init == sent = NoFrame /\ frame = NoFrame /\ verdict = "none"

Next ==
    \/ \E payload \in Payload :
         \/ \E id \in Range(Monitored) \cup OtherIds : NodeSends(id, payload)
         \/ StatusSent(payload)
         \/ ResponseSent(payload)
    \/ \E i \in Places, byte \in Byte : DamageByte(i, byte)
    \/ \E byte \in Byte : CutOff(byte)
    \/ HandleRxMessage
    \/ PanelReceives

Spec == Init /\ [][Next]_vars

-----------------------------------------------------------------------------
FrameType == [id : Nat, length : {DLC - 1, DLC}, data : [Places -> Byte]]

TypeOK ==
    /\ {sent, frame} \subseteq FrameType \cup {NoFrame}
    /\ verdict \in {"none", "blocked", "refused", "accepted"}

\* A frame in which one byte of the data, the checksum included, is wrong is
\* never used, and ECU6 uses none that is cut off; but what arrives as it was
\* sent is used, whichever of the implementations sent it and whichever reads
\* it, unless its identifier is unknown, which is blocked whatever its checksum
\* says.  (Two wrong bytes may make up for each other, and the identifier does
\* not help: the five monitored ones have the same low byte.)
FramesJudged ==
    [][frame # NoFrame /\ frame' = NoFrame =>
         /\ verdict' = "accepted" =>
              /\ Cardinality(Damage) # 1 \/ Damage = {DLC}
              /\ frame.id \in Range(Monitored) => DLC \notin Damage
         /\ Damage = {} /\ frame.id \notin OtherIds => verdict' = "accepted"
         /\ frame.id \in OtherIds <=> verdict' = "blocked"]_vars

=================================================================================
