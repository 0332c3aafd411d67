------------------------------ MODULE MCStream ------------------------------
(***************************************************************************)
(* Two packets, one of them too large for one send, and a ping.            *)
(***************************************************************************)
EXTENDS Stream, TLC

CONSTANTS map, tick, ping

Sizes == (map :> 3) @@ (tick :> 1) @@ (ping :> 1)
=============================================================================
