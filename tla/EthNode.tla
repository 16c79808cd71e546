------------------------------- MODULE EthNode -------------------------------
(***************************************************************************)
(* The Ethereum node as pymaker sees it through web3.py: one account, the  *)
(* transactions the network has accepted for it, the part of them that was *)
(* mined, and the faults the client has to live with.  The node is not     *)
(* code of the repository; it is modelled from the calls made in           *)
(* src/pymaker/__init__.py (getTransactionCount, getTransactionReceipt,    *)
(* sendTransaction) and from what the caller does with every answer.       *)
(***************************************************************************)
EXTENDS Integers, Sequences

CONSTANTS
    Txs,                    \* the Transact objects of the process under study
    Price,                  \* gas prices a strategy can produce
    None,                   \* Python's None: no nonce, no price, no receipt
    RequiresSerialNonce,    \* endpoint_uri names infura or quiknode
    ReceiptLag,             \* a receipt may be served later than the new count
    Faults,                 \* kinds of fault that may happen
    MaxFaults               \* bound: how many of them may happen

FaultKinds == {"reject", "lost", "drop", "foreign", "rpc"}

ASSUME NodeAssumption ==
    /\ Price \subseteq Nat
    /\ None \notin Nat
    /\ None \notin Txs
    /\ RequiresSerialNonce \in BOOLEAN
    /\ ReceiptLag \in BOOLEAN
    /\ Faults \subseteq FaultKinds
    /\ MaxFaults \in Nat

VARIABLES
    accepted,   \* every transaction hash the network ever accepted
    dropped,    \* those that were later evicted from the mempools
    chain,      \* what was mined, by nonce: [hash, ok]; ok = "emitted a log"
    indexed,    \* receipts are served for the first `indexed' mined entries
    faults      \* number of faults so far

nodeVars == <<accepted, dropped, chain, indexed, faults>>

(* A transaction hash stands for what is hashed.  owner = None is another  *)
(* program that uses the same account.  A price of 0 is gas_price_last of  *)
(* a Transact that has not had a price yet.                                *)
Hash == [owner : Txs \cup {None}, nonce : Nat, price : Price \cup {None, 0}]

(* Everything that may still be mined.  An entry superseded by a higher    *)
(* bid stays: some miner may not have heard of the bid.                    *)
Pool == {h \in accepted \ dropped : h.nonce >= Len(chain)}

(* getTransactionCount(latest) *)
TransactionCount == Len(chain)

(* All the nonces from the first one not mined up to n - 1 are pending.    *)
Covered(n) == \A k \in TransactionCount .. n - 1 : \E h \in Pool : h.nonce = k

Free(n) == \A h \in Pool : h.nonce # n

NextNonces == {n \in {TransactionCount} \cup {h.nonce + 1 : h \in Pool} : Covered(n)}

(* What getTransactionCount('pending') or parity_nextNonce may answer.  A  *)
(* hosted endpoint answers from any one of its nodes, so its count may     *)
(* miss what is pending: that is why the code keeps a serial nonce there.  *)
PendingCounts ==
    IF RequiresSerialNonce THEN NextNonces ELSE {n \in NextNonces : Free(n)}

(* getTransactionReceipt(hash) answers with a mined receipt. *)
HasReceipt(h) == \E i \in 1..indexed : chain[i].hash = h

Succeeded(h) == \E i \in 1..Len(chain) : chain[i].hash = h /\ chain[i].ok

Fault(kind) ==
    /\ kind \in Faults
    /\ faults < MaxFaults
    /\ faults' = faults + 1

-----------------------------------------------------------------------------

NodeInit ==
    /\ accepted = {}
    /\ dropped = {}
    /\ chain = <<>>
    /\ indexed = 0
    /\ faults = 0

(* sendTransaction puts h on the network. *)
Accept(h) ==
    /\ h.nonce >= TransactionCount
    /\ accepted' = accepted \cup {h}

(* sendTransaction refuses h: the nonce is too low; the bid is not high    *)
(* enough for the same nonce; or, as a fault, for any other reason         *)
(* (no funds, connection refused).                                         *)
Refuse(h) ==
    /\ UNCHANGED accepted
    /\ \/ h.nonce < TransactionCount /\ UNCHANGED faults
       \/ (\E g \in Pool : g.nonce = h.nonce) /\ UNCHANGED faults
       \/ Fault("reject")

(* A block includes the account's next transaction. *)
Mine ==
    /\ \E h \in Pool, ok \in BOOLEAN :
          /\ h.nonce = TransactionCount
          /\ chain' = Append(chain, [hash |-> h, ok |-> ok])
    /\ indexed' = IF ReceiptLag THEN indexed ELSE Len(chain')
    /\ UNCHANGED <<accepted, dropped, faults>>

(* The receipt of the oldest unserved entry becomes available. *)
Index ==
    /\ indexed < Len(chain)
    /\ indexed' = indexed + 1
    /\ UNCHANGED <<accepted, dropped, chain, faults>>

(* The network forgets a pending transaction. *)
Drop ==
    /\ \E h \in Pool : dropped' = dropped \cup {h}
    /\ Fault("drop")
    /\ UNCHANGED <<accepted, chain, indexed>>

(* Another program sends from the account with the next free nonce. *)
Foreign ==
    /\ \E n \in NextNonces :
          /\ Free(n)
          /\ accepted' = accepted \cup {[owner |-> None, nonce |-> n, price |-> None]}
    /\ Fault("foreign")
    /\ UNCHANGED <<dropped, chain, indexed>>

NodeNext == Mine \/ Index \/ Drop \/ Foreign
=============================================================================
