---------------------------- MODULE MC_EventLoop ----------------------------
(***************************************************************************)
(* Instances of EventLoop for TLC.                                         *)
(***************************************************************************)
EXTENDS EventLoop, TLC

\* run_once() with no timeout, and run_once(0).
MCOnceTimeouts == {-1, 0}

TaskSymmetry == Permutations(Tasks)
=============================================================================
