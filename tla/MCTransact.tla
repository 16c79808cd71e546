----------------------------- MODULE MCTransact -----------------------------
(***************************************************************************)
(* Small instances of Transact.  Prices are in units in which the 12.5%    *)
(* rule has its boundary at 8 against 9; 10 beats 8, and 12 beats 10.      *)
(***************************************************************************)
EXTENDS TransactProps

CONSTANTS t1, t2, t3

(* t2 is independent of t1; t3 replaces t1. *)
OneReplacement == [t \in Txs |-> IF t = t3 THEN t1 ELSE None]

NoReplacement == [t \in Txs |-> None]

(* t2 replaces t1. *)
Replacement == [t \in Txs |-> IF t = t2 THEN t1 ELSE None]

MCPrice == {8, 9, 10, 12}

(* t1 raises its price, t2 does not, t3 bids too little or enough. *)
Bidding == [t \in Txs |-> CASE t = t1 -> {8, 10} [] t = t2 -> {8} [] OTHER -> {9, 12}]

BidUp == [t \in Txs |-> IF t = t1 THEN {8, 10} ELSE {8, 9, 10}]

(* The first transaction leaves the price to the node. *)
DefaultThenFixed == [t \in Txs |-> IF t = t1 THEN {} ELSE {9, 10}]
=============================================================================
