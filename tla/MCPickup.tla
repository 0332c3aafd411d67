------------------------------ MODULE MCPickup ------------------------------
(***************************************************************************)
(* Small sessions of Pickup for TLC.                                       *)
(***************************************************************************)
EXTENDS Pickup, TLC

\* Clients are interchangeable, and so are peeps.
PickupSymmetry == Permutations(Client) \union Permutations(Peep)
=============================================================================
