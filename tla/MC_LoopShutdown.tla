-------------------------- MODULE MC_LoopShutdown --------------------------
(***************************************************************************)
(* Instances of LoopShutdown for TLC.                                      *)
(***************************************************************************)
EXTENDS LoopShutdown

\* SIGINT, which stops the loop, and SIGHUP, which does not.
MCSignals == {1, 3}
=============================================================================
