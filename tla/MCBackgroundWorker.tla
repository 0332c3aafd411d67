-------------------------- MODULE MCBackgroundWorker -------------------------
(***************************************************************************)
(* A small BackgroundWorker for TLC.                                       *)
(***************************************************************************)
EXTENDS BackgroundWorker, TLC
=============================================================================
