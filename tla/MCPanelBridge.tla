----------------------------- MODULE MCPanelBridge -----------------------------
(***************************************************************************)
(* PanelBridge with one-bit bytes.                                         *)
(***************************************************************************)
EXTENDS PanelBridge, Bitwise

XorTable == [p \in Byte \X Byte |-> p[1] ^^ p[2]]
MCXor(a, b) == XorTable[<<a, b>>]

\* 0x11 ^ 0x22 ^ 0x33 ^ 0x44 is not zero, and neither is this.
MCChunk == [i \in 1 .. PayloadMax |-> 1]

\* The last response and the last status frame only matter to the step that
\* sends them.
PanelView ==
    <<sec, ota, securitySeed, activeSwVersion, otaResponseCounter, now,
      lockoutAge, panelVars, viewVars, wire>>

================================================================================
