------------------------- MODULE MC_TimeoutManager -------------------------
(***************************************************************************)
(* Instances of TimeoutManager for TLC.                                    *)
(***************************************************************************)
EXTENDS TimeoutManager, TLC

HandleSymmetry == Permutations(Handles)
=============================================================================
