--------------------------- MODULE MCSrtpOutbound ---------------------------
(***************************************************************************)
(* SrtpOutbound for TLC.  The two media threads run the same code and may   *)
(* be exchanged.                                                           *)
(***************************************************************************)
EXTENDS SrtpOutbound, TLC

Symmetry == Permutations(Media)
=============================================================================
