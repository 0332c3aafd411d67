----------------------------- MODULE MCHandshake ----------------------------
(***************************************************************************)
(* A small server of Handshake for TLC.                                    *)
(***************************************************************************)
EXTENDS Handshake, TLC

\* Somebody whose key is known and who will be asked for the password.
Visitor == [key |-> "verified", version |-> TRUE, name |-> TRUE, passwordless |-> FALSE, password |-> "empty"]
Logins == {Visitor}
=============================================================================
