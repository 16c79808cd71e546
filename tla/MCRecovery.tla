----------------------------- MODULE MCRecovery -----------------------------
(***************************************************************************)
(* Small instances of Recovery: two leftover transactions, one or two new  *)
(* ones.                                                                   *)
(***************************************************************************)
EXTENDS Recovery

CONSTANTS t1, t2, r1, r2

MCPrice == {8, 9, 10, 12}

NoReplacement == [t \in Txs |-> None]

OnePrice == [t \in Txs |-> {8}]

TwoLeft == <<8, 8>>
OneLeft == <<8>>
=============================================================================
