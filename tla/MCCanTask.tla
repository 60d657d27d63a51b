------------------------------ MODULE MCCanTask ------------------------------
(***************************************************************************)
(* CanTask with one monitored node, which may send two frames before the   *)
(* first is handled, one OTA request and one unknown identifier.           *)
(***************************************************************************)
EXTENDS CanTask, TLC

CONSTANTS f1, f2, request, unknown

MCIdOf == [f \in Frames |-> CASE f = request -> OtaBox
                              [] f = unknown -> 0
                              [] f \in {f1, f2} -> 1]

\* Nothing but the difference of the two ticks matters to the task.
TimeView ==
    <<boxVars, pc, box, rxMsg, Elapsed(lastGatewayTxTick), sinceStatus, ahead,
      sinceTurn, fate>>

\* The two frames of the node are alike.
FrameSymmetry == Permutations({f1, f2})

==============================================================================
