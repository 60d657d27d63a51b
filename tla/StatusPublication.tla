-------------------------- MODULE StatusPublication --------------------------
(***************************************************************************)
(* OtaSecurity together with the transmission of GatewayStatus by the CAN  *)
(* task: the frame is built, which already moves a verified image on, and  *)
(* only then sent, and CAN_SendMessage may fail (src/Sources/drivers/can.c).*)
(* The task builds and sends in one go, so no request comes between.       *)
(***************************************************************************)
EXTENDS OtaSecurity

VARIABLES
    txStatus,   \* what the last CAN_SendMessage returned
    shown       \* history: the OTA state in the last 0x601 frame on the bus

pvars == <<vars, txStatus, shown>>

PInit == Init /\ txStatus = "success" /\ shown = "NONE"

FaultyPackedState == AfterStatusPublish(ota).state

\* Byte 1 is filled before OTA_UpdateStateAfterStatusPublish.
PackedState == ota.state

SendStatus ==
    /\ PublishStatus
    /\ \/ txStatus' = "success" /\ shown' = PackedState
       \/ txStatus' = "failed" /\ shown' = shown

\* Everything else the CAN task does with this state, and the tick.
Otherwise ==
    /\ \/ \E detail \in {INVALID_ID, INVALID_DLC} : RejectFrame(detail)
       \/ \E r \in Requests : HandleRequest(r)
       \/ Tick
    /\ UNCHANGED <<txStatus, shown>>

PNext == SendStatus \/ Otherwise

PSpec == PInit /\ [][PNext]_pvars

\* "Keep VERIFYING visible for one GatewayStatus frame before READY", for a
\* task whose CAN_SendMessage succeeds: when an image becomes ready, the last
\* frame on the bus said VERIFYING.
VerifyingShownIfSent ==
    [][ota.state = "VERIFYING" /\ ota'.state = "READY_TO_ACTIVATE"
         => shown' = "VERIFYING" \/ txStatus' = "failed"]_pvars

\* The same sentence as the comment has it, with no condition.
VerifyingShown ==
    [][ota.state = "VERIFYING" /\ ota'.state = "READY_TO_ACTIVATE"
         => shown' = "VERIFYING"]_pvars

=============================================================================
