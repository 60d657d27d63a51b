------------------------- MODULE MCStatusPublication -------------------------
(***************************************************************************)
(* StatusPublication with the requests of MCOtaSecurity.                   *)
(***************************************************************************)
EXTENDS MCOtaSecurity, StatusPublication

=============================================================================
