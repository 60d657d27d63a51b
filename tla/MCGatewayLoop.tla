---------------------------- MODULE MCGatewayLoop ----------------------------
(***************************************************************************)
(* GatewayLoop for TLC.  Nothing but differences of ticks matters to it,   *)
(* and whether two alive values of a node are equal; nor does it matter    *)
(* when a node was heard that is flagged as silent, or what its alive      *)
(* value was before the next baseline.  States that differ in no more than *)
(* that are the same.                                                      *)
(***************************************************************************)
EXTENDS GatewayLoop

\* How long ago the node sent this alive value.
Age(e, alive) == (counting[e] - alive) % AliveMod

AgedMonitor(e) ==
    [monitors[e] EXCEPT
       !.lastRxTick = IF monitors[e].timeoutError THEN 0 ELSE Sup!Elapsed(@),
       !.lastAliveCounter =
         IF monitors[e].aliveInitialized THEN Age(e, @) ELSE 0]

Aged(f) == IF f.node \in Ecus THEN [f EXCEPT !.alive = Age(f.node, @)] ELSE f

TimeView ==
    <<[e \in Ecus |-> AgedMonitor(e)], [b \in Boxes |-> Aged(received[b])],
      Aged(rxMsg), Sup!Elapsed(lastGatewayTxTick), gatewayRxMask, sincePoll,
      pc, box, held, gatewayTxErrorLogged, gatewayTxOkLogged, regular, sendIn>>

==============================================================================
