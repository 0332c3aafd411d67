----------------------------- MODULE MCPlayers ------------------------------
(***************************************************************************)
(* Small sessions of Players for TLC.                                      *)
(***************************************************************************)
EXTENDS Players, TLC

\* Connections are interchangeable; symmetry is used for safety only.
ClientSymmetry == Permutations(Client)
=============================================================================
