---------------------------- MODULE MCIceAgent ----------------------------
(***************************************************************************)
(* The model of IceAgent for TLC.  The sessions are alike: nothing orders   *)
(* them, so that one of two states that differ in their names is enough.    *)
(***************************************************************************)
EXTENDS IceAgent, TLC

Symmetry == Permutations(Agents)
=============================================================================
