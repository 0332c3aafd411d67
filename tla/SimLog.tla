------------------------------- MODULE SimLog -------------------------------
(***************************************************************************)
(* What a multiplayer session promises, without any message: the server    *)
(* simulates, every replica holds what the server did up to some moment.   *)
(*                                                                         *)
(* A simulation state is represented by the sequence of the steps that     *)
(* produced it, logical updates of the world and executed game actions,    *)
(* because OpenRCT2 replicates by replaying exactly those steps: two       *)
(* machines agree when they executed the same steps in the same order.     *)
(***************************************************************************)
EXTENDS Naturals, Sequences

CONSTANTS
  Replica,   \* the clients of the session
  Step       \* what can be executed: logical updates and game actions

VARIABLES
  history,   \* the steps the server executed, in order
  member,    \* the clients that have loaded the park
  replica    \* per client, the steps its own simulation went through

simVars == <<history, member, replica>>

Prefix(s, t) == Len(s) <= Len(t) /\ \A i \in 1 .. Len(s) : s[i] = t[i]

SimTypeOK ==
  /\ history \in Seq(Step)
  /\ member \in SUBSET Replica
  /\ replica \in [Replica -> Seq(Step)]

SimInit ==
  /\ history = <<>>
  /\ member = {}
  /\ replica = [r \in Replica |-> <<>>]

\* The server executes the next step of the session.
Advance ==
  /\ history' \in Seq(Step)
  /\ Len(history') = Len(history) + 1
  /\ Prefix(history, history')
  /\ UNCHANGED <<member, replica>>

\* A replica executes the one step that the server executed at that point.
Follow(r) ==
  /\ r \in member
  /\ Len(replica[r]) < Len(history)
  /\ replica' = [replica EXCEPT ![r] = Append(@, history[Len(@) + 1])]
  /\ UNCHANGED <<history, member>>

\* A replica loads a state the server once had.
Load(r) ==
  /\ member' = member \union {r}
  /\ \E n \in 0 .. Len(history) : replica' = [replica EXCEPT ![r] = SubSeq(history, 1, n)]
  /\ UNCHANGED history

Drop(r) ==
  /\ member' = member \ {r}
  /\ replica' = [replica EXCEPT ![r] = <<>>]
  /\ UNCHANGED history

SimNext == Advance \/ \E r \in Replica : Follow(r) \/ Load(r) \/ Drop(r)

SimSpec == SimInit /\ [][SimNext]_simVars

(***************************************************************************)
(* No replica is ever in a state the server was not in before it.          *)
(***************************************************************************)
EveryReplicaIsAPrefix == \A r \in member : Prefix(replica[r], history)
=============================================================================
