------------------------- MODULE MCObjectDownloader --------------------------
(***************************************************************************)
(* A small ObjectDownloader for TLC.                                       *)
(***************************************************************************)
EXTENDS ObjectDownloader, TLC
=============================================================================
