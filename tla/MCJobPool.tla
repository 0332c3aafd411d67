------------------------------ MODULE MCJobPool -----------------------------
(***************************************************************************)
(* Small pools of JobPool for TLC.                                         *)
(***************************************************************************)
EXTENDS JobPool, TLC

\* A loop of three indices in batches of two, or a group of two tasks.
Loops == {[count |-> 3, grain |-> 2, own |-> TRUE], [count |-> 2, grain |-> 1, own |-> FALSE]}

\* Producers share a priority; tasks without a group are served last.
BatchLast == [s \in Source |-> IF s = Batch THEN 2 ELSE 1]
=============================================================================
