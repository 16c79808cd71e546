------------------------------- MODULE Recovery -------------------------------
(***************************************************************************)
(* A keeper is restarted while transactions of its previous life are still *)
(* pending: get_pending_transactions finds them and RecoveredTransact      *)
(* cancels them (cancel_async), while the new life already executes        *)
(* Transact objects of its own.                                            *)
(***************************************************************************)
EXTENDS Transact

CONSTANTS
    Recs,           \* the RecoveredTransact objects
    CancelPrices,   \* what the gas strategy given to cancel may return
    OldPrices       \* the price of each leftover transaction, by nonce from 0

ASSUME RecoveryAssumption ==
    /\ CancelPrices \subseteq Price \cup {None}
    /\ OldPrices \in Seq(Price)

VARIABLES
    listed,     \* get_pending_transactions has been called
    old,        \* the transaction each object was created for, or None
    at,         \* where cancel_async of each object is
    last,       \* gas_price_last
    bids        \* tx_hashes: the cancelling transactions it has sent

recoveryVars == <<listed, old, at, last, bids>>
transactVars == <<next_nonce, transaction_lock, running, controlVars, attributes>>

CancelLabels == {"new", "loop", "check", "cancelled", "raised"}

Leftover == {[owner |-> None, nonce |-> n - 1, price |-> OldPrices[n]] : n \in DOMAIN OldPrices}

RecoveryInit ==
    /\ accepted = Leftover
    /\ dropped = {}
    /\ chain = <<>>
    /\ indexed = 0
    /\ faults = 0
    /\ ProcessInit
    /\ listed = FALSE
    /\ old = [r \in Recs |-> None]
    /\ at = [r \in Recs |-> "new"]
    /\ last = [r \in Recs |-> 0]
    /\ bids = [r \in Recs |-> {}]

(* What the filter of the pending transactions leaves for the objects.     *)
(* Off Parity that filter is an iterator, and list(items) has exhausted it *)
(* before the objects are made of what it yields (__init__.py:437-441).    *)
Listed == IF IsParity THEN Pool ELSE {}

(* get_pending_transactions, at the start of the keeper: one object for    *)
(* each of those.  A hosted node may know only some of them.               *)
GetPending ==
    /\ ~listed
    /\ \A t \in Txs : pc[t] = "new"
    /\ listed' = TRUE
    /\ old' \in [Recs -> Listed \cup {None}]
    /\ \A r, s \in Recs : r # s /\ old'[r] = old'[s] => old'[r] = None
    /\ ~RequiresSerialNonce => \A h \in Listed : \E r \in Recs : old'[r] = h
    /\ UNCHANGED <<nodeVars, transactVars, at, last, bids>>

(* cancel_async starts from the price of the transaction; the first        *)
(* comparison fails if the strategy leaves the price to the node.          *)
Cancel(r) ==
    /\ at[r] = "new" /\ old[r] # None
    /\ last' = [last EXCEPT ![r] = old[r].price]
    /\ \E value \in CancelPrices :
          at' = [at EXCEPT ![r] = IF value = None THEN "raised" ELSE "loop"]
    /\ UNCHANGED <<nodeVars, transactVars, listed, old, bids>>

(* A mutant: the nonce is left to the node, which counts what is pending.  *)
NodeNonce(r, value) == [owner |-> None, nonce |-> Len(OldPrices), price |-> value]

(* A transfer to oneself with the nonce of the old transaction. *)
BidOf(r, value) == [owner |-> None, nonce |-> old[r].nonce, price |-> value]

(* A mutant: the price is not compared with the last one. *)
AnyBid(value, price) == TRUE

HighEnough(value, price) == Exceeds(value, price)

(* One turn of the loop: bid if the price is high enough; an exception of  *)
(* the node, or of comparing no price, ends it.                            *)
Bid(r) ==
    /\ at[r] = "loop"
    /\ \E value \in CancelPrices :
          \/ /\ value = None
             /\ at' = [at EXCEPT ![r] = "raised"]
             /\ UNCHANGED <<accepted, faults, last, bids>>
          \/ /\ value # None /\ ~HighEnough(value, last[r])
             /\ at' = [at EXCEPT ![r] = "check"]
             /\ UNCHANGED <<accepted, faults, last, bids>>
          \/ /\ value # None /\ HighEnough(value, last[r])
             /\ last' = [last EXCEPT ![r] = value]
             /\ \/ /\ Accept(BidOf(r, value))
                   /\ bids' = [bids EXCEPT ![r] = @ \cup {BidOf(r, value)}]
                   /\ at' = [at EXCEPT ![r] = "check"]
                   /\ UNCHANGED faults
                \/ /\ Refuse(BidOf(r, value))
                   /\ at' = [at EXCEPT ![r] = "raised"]
                   /\ UNCHANGED bids
                \/ /\ Accept(BidOf(r, value)) /\ Fault("lost")
                   /\ at' = [at EXCEPT ![r] = "raised"]
                   /\ UNCHANGED bids
    /\ UNCHANGED <<dropped, chain, indexed, transactVars, listed, old>>

(* A mutant: tx_hashes is not cleared, the old hash is looked for too.     *)
BidsAndOld(r) == bids[r] \cup {old[r]}

(* A mutant: only the last bid is looked for. *)
LastBid(r) == {h \in bids[r] : h.price = last[r]}

Watched(r) == bids[r]

(* Look for the receipt of any bid, then sleep; an exception of the node   *)
(* other than that there is no such transaction ends the loop.             *)
Check(r) ==
    /\ at[r] = "check"
    /\ \/ /\ at' = [at EXCEPT ![r] =
                 IF \E h \in Watched(r) : HasReceipt(h) THEN "cancelled" ELSE "loop"]
          /\ UNCHANGED faults
       \/ /\ Watched(r) # {} /\ Fault("rpc")
          /\ at' = [at EXCEPT ![r] = "raised"]
    /\ UNCHANGED <<accepted, dropped, chain, indexed, transactVars, listed, old, last, bids>>

RecoveryNext ==
    \/ GetPending
    \/ \E r \in Recs : Cancel(r) \/ Bid(r) \/ Check(r)
    \/ Next /\ UNCHANGED recoveryVars

RecoverySpec == RecoveryInit /\ [][RecoveryNext]_<<vars, recoveryVars>>

-----------------------------------------------------------------------------

(* The values the state of a cancellation ranges over. *)
RecoveryTypeOK ==
    /\ listed \in BOOLEAN
    /\ old \in [Recs -> Hash \cup {None}]
    /\ at \in [Recs -> CancelLabels]
    /\ last \in [Recs -> Price \cup {None, 0}]
    /\ bids \in [Recs -> SUBSET Hash]

(* cancel_async returns only if the old transaction never happens: another *)
(* one was mined with its nonce.                                           *)
CancelledNeverHappens ==
    \A r \in Recs : at[r] = "cancelled" =>
        /\ old[r] \notin Pool
        /\ \A i \in DOMAIN chain : chain[i].hash # old[r]

(* A cancellation only competes with what it cancels: it never has the     *)
(* nonce of a transaction of the new life, although it does not take       *)
(* transaction_lock ("we are replacing an existing nonce",                 *)
(* __init__.py:843).                                                       *)
NewTransactionsSpared ==
    \A r \in Recs : \A b \in bids[r] : \A h \in accepted :
        h.owner # None => h.nonce # b.nonce

(* The bids of one cancellation and the transaction it cancels differ by   *)
(* more than 12.5% from one another.                                       *)
CancelBidsApart ==
    \A r \in Recs : \A a, b \in bids[r] \cup ({old[r]} \ {None}) :
        a # b => 8 * a.price > 9 * b.price \/ 8 * b.price > 9 * a.price

(* get_pending_transactions returns every transaction of the account that  *)
(* an own node knows as pending: "Retrieves a list of pending transactions *)
(* from the mempool." (__init__.py:420)  The code does so on Parity only.  *)
PendingAreListed ==
    [][~listed /\ listed' => \A h \in Pool : \E r \in Recs : old'[r] = h]_<<vars, recoveryVars>>

FairRecovery == /\ RecoverySpec
                /\ \A r \in Recs : WF_<<vars, recoveryVars>>(Bid(r) \/ Check(r))
                /\ WF_<<vars, recoveryVars>>(Node /\ indexed' # indexed /\ UNCHANGED recoveryVars)

(* Once a bid was mined, cancel_async ends: it finds the receipt, or the   *)
(* next bid is refused because the nonce is used.                          *)
CancelEnds ==
    \A r \in Recs :
        (\E b \in bids[r] : \E i \in DOMAIN chain : chain[i].hash = b)
            ~> at[r] \in {"cancelled", "raised"}
=============================================================================
