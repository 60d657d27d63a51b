--------------------------- MODULE MCComSupervision ---------------------------
(***************************************************************************)
(* ComSupervision with model values for the nodes.  The nodes are treated  *)
(* alike, so they are symmetric in the runs without liveness.              *)
(***************************************************************************)
EXTENDS ComSupervision, TLC

NodeSymmetry == Permutations(Ecus)

=============================================================================
