----------------------------- MODULE MCLockstep -----------------------------
(***************************************************************************)
(* Small sessions of Lockstep for TLC.                                     *)
(***************************************************************************)
EXTENDS Lockstep, TLC

\* Clients are interchangeable; symmetry is used for safety only.
ClientSymmetry == Permutations(Client)
=============================================================================
