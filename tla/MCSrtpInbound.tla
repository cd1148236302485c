--------------------------- MODULE MCSrtpInbound ---------------------------
(***************************************************************************)
(* SrtpInbound for TLC.  The streams of a browser differ in nothing, so     *)
(* they may be exchanged; a stream that is alone is not affected.           *)
(***************************************************************************)
EXTENDS SrtpInbound, TLC

Symmetry == Permutations(Ssrcs)
=============================================================================
