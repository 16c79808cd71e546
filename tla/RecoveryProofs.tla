---------------------------- MODULE RecoveryProofs ----------------------------
(***************************************************************************)
(* Cancellations of leftover transactions, for any number of them, any     *)
(* gas strategy and any new transactions executed meanwhile.               *)
(*                                                                         *)
(* The theorems are about what get_pending_transactions returns on Parity; *)
(* with any other node it returns nothing (Listed), and nothing is ever    *)
(* cancelled.                                                              *)
(*                                                                         *)
(* The model gives no price to a transaction that another program sends    *)
(* while the keeper runs, so the theorems leave that fault out; leftover   *)
(* transactions may well be of another program.                            *)
(***************************************************************************)
EXTENDS Recovery, TransactProofs

(* What is on the network without an owner among the new transactions was  *)
(* sent for a price; a new transaction is on the network only if begun.    *)
Priced == \A h \in accepted : h.owner = None => h.price \in Price

SentOnceBegun == \A h \in accepted : h.owner # None => pc[h.owner] # "new"

(* No object exists before the pending transactions are listed, and then   *)
(* each is for a transaction that the network has accepted.                *)
ListedFirst ==
    \A r \in Recs :
        /\ ~listed => at[r] = "new" /\ old[r] = None
        /\ at[r] = "new" => bids[r] = {}
        /\ at[r] # "new" => old[r] # None

OldAccepted ==
    \A r \in Recs : old[r] # None => old[r] \in accepted /\ old[r].owner = None

(* A bid is for the nonce of the old transaction, is on the network, and   *)
(* beats the price of the old one, as does the last price.                 *)
BidsCompete ==
    \A r \in Recs : \A b \in bids[r] :
        /\ b \in accepted /\ b.owner = None
        /\ b.nonce = old[r].nonce
        /\ b.price <= last[r] /\ last[r] \in Price
        /\ Exceeds(b.price, old[r].price)

LastIsPrice ==
    \A r \in Recs : at[r] \in {"loop", "check"} =>
        last[r] \in Price /\ old[r].price <= last[r]

CancelledByBid ==
    \A r \in Recs : at[r] = "cancelled" =>
        \E b \in bids[r] : \E i \in DOMAIN chain : chain[i].hash = b

NetworkInv == TypeInv /\ ChainByNonce /\ Priced /\ SentOnceBegun

CancelInv == /\ RecoveryTypeOK /\ ListedFirst /\ OldAccepted /\ BidsCompete
             /\ LastIsPrice /\ CancelledByBid /\ CancelBidsApart

RecoveryInv == NetworkInv /\ CancelInv

(* The nonces of what was left over are below those of all new ones.       *)
Left == Len(OldPrices)

NoncesApart ==
    /\ dropped = {}
    /\ Leftover \subseteq accepted
    /\ \A h \in accepted : IF h.owner = None THEN h.nonce < Left ELSE h.nonce >= Left
    /\ \A t \in Txs : nonce[t] # None => nonce[t] >= Left

-----------------------------------------------------------------------------
(* Initially nothing but the leftover transactions is on the network.      *)

LEMMA LeftoverType == Leftover \subseteq Hash /\ \A h \in Leftover : h.owner = None /\ h.price \in Price
  <1>1. \A n \in DOMAIN OldPrices : n \in Nat /\ n >= 1 /\ OldPrices[n] \in Price
    BY RecoveryAssumption
  <1> QED BY <1>1 DEF Leftover, Hash

LEMMA RecoveryTypeInit == RecoveryInit => TypeInv
  <1> SUFFICES ASSUME RecoveryInit PROVE TypeInv
    OBVIOUS
  <1> USE NodeAssumption, TransactAssumption
  <1>1. NodeTypeOK
    <2>1. accepted = Leftover /\ dropped = {} /\ chain = <<>> /\ indexed = 0 /\ faults = 0
      BY DEF RecoveryInit
    <2> QED BY <2>1, LeftoverType DEF NodeTypeOK
  <1>2. GlobalTypeOK
    BY DEF GlobalTypeOK, RecoveryInit, ProcessInit
  <1>3. ControlTypeOK
    <2>1. attempt = [t \in Txs |-> 0]
      BY DEF RecoveryInit, ProcessInit
    <2>2. attempt \in [Txs -> 0..MaxAttempts]
      BY <2>1
    <2> QED BY <2>2 DEF RecoveryInit, ProcessInit, ControlTypeOK, Labels, Outcomes
  <1>4. AttributeTypeOK
    <2>1. tx_hashes = [t \in Txs |-> <<>>]
      BY DEF RecoveryInit, ProcessInit
    <2>2. tx_hashes \in [Txs -> Seq(Hash)]
      BY <2>1
    <2> QED BY <2>2 DEF RecoveryInit, ProcessInit, AttributeTypeOK
  <1>5. WellFormed
    BY DEF WellFormed, RecoveryInit, ProcessInit
  <1> QED BY <1>1, <1>2, <1>3, <1>4, <1>5 DEF TypeInv, TypeOK

LEMMA RecoveryInvInit == RecoveryInit => RecoveryInv
  <1> SUFFICES ASSUME RecoveryInit PROVE RecoveryInv
    OBVIOUS
  <1>1. /\ accepted = Leftover /\ chain = <<>> /\ listed = FALSE
        /\ old = [r \in Recs |-> None] /\ at = [r \in Recs |-> "new"]
        /\ last = [r \in Recs |-> 0] /\ bids = [r \in Recs |-> {}]
    BY DEF RecoveryInit
  <1>2. NetworkInv
    BY <1>1, RecoveryTypeInit, LeftoverType DEF NetworkInv, ChainByNonce, Priced, SentOnceBegun
  <1>3. CancelInv
    BY <1>1 DEF CancelInv, RecoveryTypeOK, CancelLabels, ListedFirst, OldAccepted, BidsCompete,
                LastIsPrice, CancelledByBid, CancelBidsApart
  <1> QED BY <1>2, <1>3 DEF RecoveryInv

-----------------------------------------------------------------------------
(* The steps of the node and of the new transactions leave the state of    *)
(* the cancellations alone.                                                *)

LEMMA CancelsUndisturbed ==
    ASSUME NetworkInv, CancelInv, UNCHANGED recoveryVars,
           accepted \subseteq accepted',
           \A i \in DOMAIN chain : i \in DOMAIN chain' /\ chain'[i] = chain[i]
    PROVE  CancelInv'
  BY DEF recoveryVars, CancelInv, RecoveryTypeOK, ListedFirst, OldAccepted, BidsCompete,
         LastIsPrice, CancelledByBid, CancelBidsApart

LEMMA RecoveryNode ==
    ASSUME RecoveryInv, "foreign" \notin Faults, Node, UNCHANGED recoveryVars
    PROVE  RecoveryInv'
  <1> USE DEF RecoveryInv, NetworkInv
  <1>1. TypeInv'
    BY TypeNode
  <1>2. ChainByNonce'
    BY NodeKeepsChain
  <1>3. accepted' = accepted
    BY DEF Node, NodeNext, Mine, Index, Drop, Foreign, Fault
  <1>4. Priced' /\ SentOnceBegun'
    BY <1>3, NodeEffect DEF Priced, SentOnceBegun
  <1>5. \A i \in DOMAIN chain : i \in DOMAIN chain' /\ chain'[i] = chain[i]
    <2>1. chain' = chain \/ \E e : chain' = Append(chain, e)
      BY DEF Node, NodeNext, Mine, Index, Drop, Foreign
    <2> QED BY <2>1 DEF TypeInv, TypeOK, NodeTypeOK
  <1>6. CancelInv'
    BY <1>3, <1>5, CancelsUndisturbed
  <1> QED BY <1>1, <1>2, <1>4, <1>6

LEMMA RecoveryStep ==
    ASSUME RecoveryInv, NEW t \in Txs, Call(t) \/ Step(t) \/ RpcError(t), UNCHANGED recoveryVars
    PROVE  RecoveryInv'
  <1> USE DEF RecoveryInv, NetworkInv
  <1>1. TypeInv'
    BY TypeStep
  <1>2. /\ UNCHANGED chain
        /\ accepted' = accepted \/ accepted' = accepted \cup {HashOf(t)}
        /\ pc'[t] # "new" /\ \A u \in Txs \ {t} : pc'[u] = pc[u]
    BY StepEffect
  <1>3. HashOf(t).owner = t /\ t # None
    BY NodeAssumption DEF HashOf
  <1>4. ChainByNonce'
    BY <1>2, ChainKept
  <1>5. Priced'
    BY <1>2, <1>3 DEF Priced
  <1>6. SentOnceBegun'
    <2>1. \A h \in accepted : h.owner # None => h.owner \in Txs
      BY DEF TypeInv, TypeOK, NodeTypeOK, Hash
    <2> QED BY <1>2, <1>3, <2>1 DEF SentOnceBegun
  <1>7. CancelInv'
    BY <1>2, CancelsUndisturbed
  <1> QED BY <1>1, <1>4, <1>5, <1>6, <1>7

-----------------------------------------------------------------------------
(* The steps of the cancellations.                                         *)

LEMMA TransactUndisturbed ==
    ASSUME TypeInv, UNCHANGED <<dropped, chain, indexed, transactVars>>,
           accepted' \in SUBSET Hash, faults' \in Nat
    PROVE  TypeInv'
  BY DEF transactVars, controlVars, attributes, TypeInv, TypeOK, NodeTypeOK, GlobalTypeOK,
         ControlTypeOK, AttributeTypeOK, WellFormed

LEMMA SameNetwork ==
    ASSUME NetworkInv, UNCHANGED <<nodeVars, transactVars>>
    PROVE  NetworkInv'
  <1>1. TypeInv'
    BY TransactUndisturbed DEF NetworkInv, nodeVars, TypeInv, TypeOK, NodeTypeOK
  <1> QED BY <1>1 DEF NetworkInv, nodeVars, transactVars, controlVars, ChainByNonce, Priced, SentOnceBegun

LEMMA GetPendingKeeps == ASSUME RecoveryInv, GetPending PROVE RecoveryInv'
  <1> USE DEF RecoveryInv
  <1>1. /\ ~listed /\ listed' = TRUE /\ old' \in [Recs -> Pool \cup {None}]
        /\ \A t \in Txs : pc[t] = "new"
        /\ UNCHANGED <<nodeVars, transactVars, at, last, bids>>
    <2>1. Listed \subseteq Pool
      BY DEF Listed
    <2> QED BY <2>1 DEF GetPending
  <1>2. NetworkInv'
    BY <1>1, SameNetwork
  <1>3. \A r \in Recs : at[r] = "new" /\ bids[r] = {}
    BY <1>1 DEF CancelInv, ListedFirst
  <1>4. \A h \in Pool : h \in accepted /\ h \in Hash /\ h.owner = None
    <2>1. \A h \in Pool : h \in accepted /\ h \in Hash
      BY DEF Pool, NetworkInv, TypeInv, TypeOK, NodeTypeOK
    <2>2. \A h \in Pool : h.owner \in Txs \cup {None}
      BY <2>1 DEF Hash
    <2> QED BY ONLY <1>1, <2>1, <2>2, RecoveryInv DEF RecoveryInv, NetworkInv, SentOnceBegun
  <1>5. RecoveryTypeOK'
    BY <1>1, <1>4 DEF CancelInv, RecoveryTypeOK
  <1>6. OldAccepted'
    BY <1>1, <1>4 DEF OldAccepted, nodeVars
  <1>7. (ListedFirst /\ BidsCompete /\ LastIsPrice /\ CancelledByBid /\ CancelBidsApart)'
    BY <1>1, <1>3 DEF ListedFirst, BidsCompete, LastIsPrice, CancelledByBid, CancelBidsApart
  <1> QED BY <1>2, <1>5, <1>6, <1>7 DEF CancelInv

LEMMA CancelKeeps == ASSUME RecoveryInv, NEW r \in Recs, Cancel(r) PROVE RecoveryInv'
  <1> USE DEF RecoveryInv, CancelInv
  <1>1. /\ at[r] = "new" /\ old[r] # None
        /\ last' = [last EXCEPT ![r] = old[r].price]
        /\ at' = [at EXCEPT ![r] = "raised"] \/ at' = [at EXCEPT ![r] = "loop"]
        /\ UNCHANGED <<nodeVars, transactVars, listed, old, bids>>
    BY DEF Cancel
  <1>2. NetworkInv'
    BY <1>1, SameNetwork
  <1>3. old[r].price \in Price /\ old[r].price \in Nat
    BY <1>1, NodeAssumption DEF OldAccepted, NetworkInv, Priced
  <1>4. bids[r] = {} /\ listed
    BY <1>1 DEF ListedFirst, RecoveryTypeOK
  <1>5. RecoveryTypeOK'
    BY <1>1, <1>3 DEF RecoveryTypeOK, CancelLabels
  <1>6. ListedFirst'
    BY <1>1, <1>4 DEF ListedFirst, RecoveryTypeOK
  <1>7. OldAccepted'
    BY <1>1 DEF OldAccepted, nodeVars
  <1>8. BidsCompete'
    BY <1>1, <1>4 DEF BidsCompete, RecoveryTypeOK, nodeVars
  <1>9. LastIsPrice'
    BY <1>1, <1>3 DEF LastIsPrice, RecoveryTypeOK
  <1>10. CancelledByBid'
    BY <1>1 DEF CancelledByBid, RecoveryTypeOK, nodeVars
  <1>11. CancelBidsApart'
    BY <1>1 DEF CancelBidsApart
  <1> QED BY <1>2, <1>5, <1>6, <1>7, <1>8, <1>9, <1>10, <1>11

(* A bid that beats the last price is apart from every earlier one.        *)
LEMMA BidBeatsAll ==
    ASSUME RecoveryInv, NEW r \in Recs, at[r] = "loop",
           NEW value \in Price, Exceeds(value, last[r])
    PROVE  /\ BidOf(r, value) \in Hash /\ BidOf(r, value).price = value
           /\ BidOf(r, value).owner = None /\ BidOf(r, value).nonce = old[r].nonce
           /\ last[r] \in Price /\ last[r] <= value /\ old[r].price <= value
           /\ \A b \in bids[r] \cup {old[r]} : Exceeds(value, b.price) /\ b.price \in Nat
  <1> USE DEF RecoveryInv, CancelInv
  <1>1. last[r] \in Price /\ old[r].price <= last[r] /\ old[r] # None
    BY DEF LastIsPrice, ListedFirst
  <1>2. old[r] \in Hash /\ old[r] \in accepted /\ old[r].owner = None
    BY <1>1 DEF OldAccepted, RecoveryTypeOK
  <1>3. old[r].price \in Price /\ old[r].nonce \in Nat
    BY <1>2 DEF NetworkInv, Priced, Hash
  <1>4. value \in Nat /\ last[r] \in Nat /\ old[r].price \in Nat
    BY <1>1, <1>3, NodeAssumption
  <1>5. \A b \in bids[r] : b.price \in Price /\ b.price <= last[r]
    BY DEF BidsCompete, NetworkInv, Priced
  <1>6. \A b \in bids[r] : b.price \in Nat /\ b.price <= last[r]
    BY <1>5, NodeAssumption
  <1>7. \A b \in bids[r] \cup {old[r]} : Exceeds(value, b.price) /\ b.price \in Nat
    BY <1>1, <1>4, <1>6 DEF Exceeds
  <1>8. last[r] <= value /\ old[r].price <= value
    BY <1>1, <1>4 DEF Exceeds
  <1>9. BidOf(r, value) \in Hash
    BY <1>3 DEF BidOf, Hash
  <1> QED BY <1>1, <1>7, <1>8, <1>9 DEF BidOf

(* What a turn of the loop may do.                                         *)
LEMMA BidEffect ==
    ASSUME NEW r \in Recs, Bid(r)
    PROVE  /\ at[r] = "loop"
           /\ UNCHANGED <<dropped, chain, indexed, transactVars, listed, old>>
           /\ \/ /\ UNCHANGED <<accepted, faults, last, bids>>
                 /\ at' = [at EXCEPT ![r] = "raised"] \/ at' = [at EXCEPT ![r] = "check"]
              \/ \E value \in Price :
                    /\ Exceeds(value, last[r])
                    /\ last' = [last EXCEPT ![r] = value]
                    /\ faults' = faults \/ faults' = faults + 1
                    /\ \/ /\ accepted' = accepted \cup {BidOf(r, value)}
                          /\ bids' = [bids EXCEPT ![r] = bids[r] \cup {BidOf(r, value)}]
                          /\ at' = [at EXCEPT ![r] = "check"]
                       \/ /\ accepted' = accepted \/ accepted' = accepted \cup {BidOf(r, value)}
                          /\ at' = [at EXCEPT ![r] = "raised"]
                          /\ UNCHANGED bids
  <1>1. CancelPrices \subseteq Price \cup {None}
    BY RecoveryAssumption
  <1> QED BY <1>1 DEF Bid, HighEnough, Accept, Refuse, Fault

LEMMA BidKeeps == ASSUME RecoveryInv, NEW r \in Recs, Bid(r) PROVE RecoveryInv'
  <1> USE DEF RecoveryInv, CancelInv
  <1>1. CASE /\ UNCHANGED <<accepted, faults, last, bids>>
             /\ at' = [at EXCEPT ![r] = "raised"] \/ at' = [at EXCEPT ![r] = "check"]
    <2>1. at[r] = "loop" /\ UNCHANGED <<nodeVars, transactVars, last, bids, listed, old>>
      BY <1>1, BidEffect DEF nodeVars
    <2>2. NetworkInv'
      BY <2>1, SameNetwork
    <2>3. (RecoveryTypeOK /\ ListedFirst)'
      BY <1>1, <2>1 DEF RecoveryTypeOK, CancelLabels, ListedFirst
    <2>4. (OldAccepted /\ BidsCompete /\ CancelBidsApart)'
      BY <2>1 DEF OldAccepted, BidsCompete, CancelBidsApart, nodeVars
    <2>5. (LastIsPrice /\ CancelledByBid)'
      BY <1>1, <2>1 DEF RecoveryTypeOK, LastIsPrice, CancelledByBid, nodeVars
    <2> QED BY <2>2, <2>3, <2>4, <2>5
  <1>2. ASSUME NEW value \in Price,
               Exceeds(value, last[r]),
               last' = [last EXCEPT ![r] = value],
               faults' = faults \/ faults' = faults + 1,
               \/ /\ accepted' = accepted \cup {BidOf(r, value)}
                  /\ bids' = [bids EXCEPT ![r] = bids[r] \cup {BidOf(r, value)}]
                  /\ at' = [at EXCEPT ![r] = "check"]
               \/ /\ accepted' = accepted \/ accepted' = accepted \cup {BidOf(r, value)}
                  /\ at' = [at EXCEPT ![r] = "raised"]
                  /\ UNCHANGED bids
        PROVE  RecoveryInv'
    <2> DEFINE bid == BidOf(r, value)
    <2>1. /\ at[r] = "loop"
          /\ UNCHANGED <<dropped, chain, indexed, transactVars, listed, old>>
      BY BidEffect
    <2>2. /\ bid \in Hash /\ bid.price = value /\ bid.owner = None /\ bid.nonce = old[r].nonce
          /\ last[r] \in Price /\ last[r] <= value /\ old[r].price <= value
          /\ \A b \in bids[r] \cup {old[r]} : Exceeds(value, b.price) /\ b.price \in Nat
      BY <1>2, <2>1, BidBeatsAll
    <2> HIDE DEF bid
    <2>3. accepted' = accepted \/ accepted' = accepted \cup {bid}
      BY <1>2 DEF bid
    <2>4. /\ last'[r] = value /\ at'[r] \in {"check", "raised"}
          /\ bids'[r] = bids[r] \/ (bids'[r] = bids[r] \cup {bid} /\ bid \in accepted')
          /\ at' \in [Recs -> CancelLabels]
          /\ \A s \in Recs \ {r} : last'[s] = last[s] /\ at'[s] = at[s] /\ bids'[s] = bids[s]
      BY <1>2 DEF RecoveryTypeOK, bid, CancelLabels
    <2>5. TypeInv'
      <3>1. accepted' \in SUBSET Hash /\ faults' \in Nat
        BY <1>2, <2>2, <2>3 DEF NetworkInv, TypeInv, TypeOK, NodeTypeOK
      <3> QED BY <2>1, <3>1, TransactUndisturbed DEF NetworkInv
    <2>6. NetworkInv'
      BY <2>1, <2>2, <2>3, <2>5 DEF NetworkInv, ChainByNonce, Priced, SentOnceBegun,
                                    transactVars, controlVars
    <2>7. RecoveryTypeOK'
      <3>1. last' \in [Recs -> Price \cup {None, 0}]
        BY <1>2 DEF RecoveryTypeOK
      <3>2. bids' \in [Recs -> SUBSET Hash]
        BY <1>2, <2>2 DEF RecoveryTypeOK, bid
      <3> QED BY <2>1, <2>4, <3>1, <3>2 DEF RecoveryTypeOK
    <2>8. ListedFirst'
      BY <2>1, <2>4 DEF ListedFirst
    <2>9. OldAccepted'
      BY <2>1, <2>3 DEF OldAccepted
    <2>10. BidsCompete'
      <3> SUFFICES ASSUME NEW s \in Recs, NEW b \in bids'[s]
                   PROVE  /\ b \in accepted' /\ b.owner = None /\ b.nonce = old[s].nonce
                          /\ b.price <= last'[s] /\ last'[s] \in Price
                          /\ Exceeds(b.price, old[s].price)
        BY <2>1 DEF BidsCompete
      <3>1. CASE b \in bids[s]
        <4>1. /\ b \in accepted' /\ b.owner = None /\ b.nonce = old[s].nonce
              /\ b.price <= last[s] /\ last[s] \in Price
              /\ Exceeds(b.price, old[s].price)
          BY <2>3, <3>1 DEF BidsCompete
        <4>2. CASE s = r
          <5>1. b.price \in Nat /\ last[r] \in Nat /\ value \in Nat
            BY <2>2, <3>1, <4>2, NodeAssumption
          <5>2. b.price <= value
            BY <2>2, <4>1, <4>2, <5>1
          <5> QED BY <2>4, <4>1, <4>2, <5>2
        <4> QED BY <2>4, <4>1, <4>2
      <3>2. CASE b \notin bids[s]
        <4>1. s = r /\ b = bid /\ bid \in accepted'
          BY <2>4, <3>2
        <4>2. value \in Nat
          BY NodeAssumption
        <4> QED BY <2>2, <2>4, <4>1, <4>2
      <3> QED BY <3>1, <3>2
    <2>11. LastIsPrice'
      BY <2>1, <2>2, <2>4 DEF LastIsPrice
    <2>12. CancelledByBid'
      BY <2>1, <2>4 DEF CancelledByBid
    <2>13. CancelBidsApart'
      <3>1. \A s \in Recs \ {r} : bids'[s] = bids[s] /\ old'[s] = old[s]
        BY <2>1, <2>4
      <3>2. bids'[r] \subseteq bids[r] \cup {bid} /\ old'[r] = old[r]
        BY <2>1, <2>4
      <3>3. \A b \in bids[r] \cup ({old[r]} \ {None}) : Exceeds(bid.price, b.price)
        BY <2>2
      <3> QED BY <3>1, <3>2, <3>3 DEF CancelBidsApart, Exceeds
    <2> QED BY <2>6, <2>7, <2>8, <2>9, <2>10, <2>11, <2>12, <2>13
  <1> QED BY <1>1, <1>2, BidEffect

LEMMA CheckKeeps == ASSUME RecoveryInv, NEW r \in Recs, Check(r) PROVE RecoveryInv'
  <1> USE DEF RecoveryInv, CancelInv
  <1>1. /\ at[r] = "check"
        /\ UNCHANGED <<accepted, dropped, chain, indexed, transactVars, listed, old, last, bids>>
        /\ faults' = faults \/ faults' = faults + 1
        /\ \/ at' = [at EXCEPT ![r] = "loop"] \/ at' = [at EXCEPT ![r] = "raised"]
           \/ /\ at' = [at EXCEPT ![r] = "cancelled"]
              /\ \E b \in bids[r] : HasReceipt(b)
    BY DEF Check, Watched, Fault
  <1>2. NetworkInv'
    <2>1. accepted' \in SUBSET Hash /\ faults' \in Nat
      BY <1>1 DEF NetworkInv, TypeInv, TypeOK, NodeTypeOK
    <2>2. TypeInv'
      BY <1>1, <2>1, TransactUndisturbed DEF NetworkInv
    <2> QED BY <1>1, <2>2 DEF NetworkInv, ChainByNonce, Priced, SentOnceBegun,
                              transactVars, controlVars
  <1>3. (RecoveryTypeOK /\ ListedFirst)'
    BY <1>1 DEF RecoveryTypeOK, CancelLabels, ListedFirst
  <1>4. (OldAccepted /\ BidsCompete /\ CancelBidsApart)'
    BY <1>1 DEF OldAccepted, BidsCompete, CancelBidsApart
  <1>5. LastIsPrice'
    BY <1>1 DEF RecoveryTypeOK, LastIsPrice
  <1>6. CancelledByBid'
    <2>1. \A b \in bids[r] : HasReceipt(b) => \E i \in DOMAIN chain : chain[i].hash = b
      BY DEF HasReceipt, NetworkInv, TypeInv, TypeOK, NodeTypeOK
    <2> QED BY <1>1, <2>1 DEF RecoveryTypeOK, CancelledByBid
  <1> QED BY <1>2, <1>3, <1>4, <1>5, <1>6

LEMMA RecoveryInvNext ==
    ASSUME RecoveryInv, "foreign" \notin Faults, [RecoveryNext]_<<vars, recoveryVars>>
    PROVE  RecoveryInv'
  <1>1. CASE GetPending
    BY <1>1, GetPendingKeeps
  <1>2. ASSUME NEW r \in Recs, Cancel(r) \/ Bid(r) \/ Check(r) PROVE RecoveryInv'
    BY <1>2, CancelKeeps, BidKeeps, CheckKeeps
  <1>3. CASE Next /\ UNCHANGED recoveryVars
    BY <1>3, RecoveryNode, RecoveryStep DEF Next
  <1>4. CASE UNCHANGED <<vars, recoveryVars>>
    <2>1. NetworkInv'
      BY <1>4, SameNetwork DEF RecoveryInv, vars, transactVars
    <2>2. CancelInv'
      BY <1>4, CancelsUndisturbed DEF RecoveryInv, vars, nodeVars
    <2> QED BY <2>1, <2>2 DEF RecoveryInv
  <1> QED BY <1>1, <1>2, <1>3, <1>4 DEF RecoveryNext

(* The state of cancellations is in order: in particular the bids of one   *)
(* cancellation, and the transaction it cancels, are 12.5% apart.          *)
THEOREM Recovered ==
    ASSUME "foreign" \notin Faults
    PROVE  RecoverySpec => []RecoveryInv
  <1>1. RecoveryInv /\ [RecoveryNext]_<<vars, recoveryVars>> => RecoveryInv'
    BY RecoveryInvNext
  <1> QED BY <1>1, RecoveryInvInit, PTL DEF RecoverySpec

(* Each bid of cancel_async exceeds the one before it, and the transaction *)
(* to be cancelled, by what nodes ask of a replacement                     *)
(* (__init__.py:827-861).                                                  *)
THEOREM BidsAreApart ==
    ASSUME "foreign" \notin Faults
    PROVE  RecoverySpec => []CancelBidsApart
  <1>1. RecoveryInv => CancelBidsApart
    BY DEF RecoveryInv, CancelInv
  <1> QED BY <1>1, Recovered, PTL

(* A transaction that cancel_async reports as cancelled can no longer be   *)
(* mined, whatever the network and the new transactions do.                *)
THEOREM CancelIsFinal ==
    ASSUME "foreign" \notin Faults
    PROVE  RecoverySpec => []CancelledNeverHappens
  <1>1. RecoveryInv => CancelledNeverHappens
    <2> SUFFICES ASSUME RecoveryInv, NEW r \in Recs, at[r] = "cancelled"
                 PROVE  /\ old[r] \notin Pool
                        /\ \A i \in DOMAIN chain : chain[i].hash # old[r]
      BY DEF CancelledNeverHappens
    <2> USE DEF RecoveryInv, CancelInv, NetworkInv
    <2> PICK b \in bids[r], i \in DOMAIN chain : chain[i].hash = b
      BY DEF CancelledByBid
    <2>1. b.nonce = old[r].nonce /\ Exceeds(b.price, old[r].price)
      BY DEF BidsCompete
    <2>2. old[r] # None
      BY DEF ListedFirst
    <2>3. b.price \in Nat
      BY NodeAssumption DEF BidsCompete, Priced
    <2>4. b # old[r]
      BY <2>1, <2>3 DEF Exceeds
    <2>5. chain \in Seq([hash : Hash, ok : BOOLEAN])
      BY DEF TypeInv, TypeOK, NodeTypeOK
    <2>6. old[r].nonce = i - 1 /\ i \in 1 .. Len(chain)
      BY <2>1, <2>5 DEF ChainByNonce
    <2>7. old[r] \notin Pool
      BY <2>5, <2>6 DEF Pool
    <2>8. \A j \in DOMAIN chain : chain[j].hash # old[r]
      BY <2>4, <2>5, <2>6 DEF ChainByNonce
    <2> QED BY <2>7, <2>8
  <1> QED BY <1>1, Recovered, PTL

-----------------------------------------------------------------------------
(* Cancellations and new transactions.                                     *)

(* Without a serial nonce, what the node counts as pending includes        *)
(* everything left over that is not mined.                                 *)
LEMMA CountsAreNew ==
    ASSUME TypeInv, NoncesApart, ~RequiresSerialNonce, NEW n \in PendingCounts
    PROVE  n \in Nat /\ n >= Left /\ CalculatedNonce(n) = n
  <1>1. n \in Nat /\ CalculatedNonce(n) = n /\ \A g \in accepted : g.nonce # n
    BY CountIsFresh DEF NoncesApart
  <1>2. n >= Left
    <2> SUFFICES ASSUME n < Left PROVE FALSE
      BY <1>1, RecoveryAssumption DEF Left
    <2>1. n + 1 \in DOMAIN OldPrices /\ (n + 1) - 1 = n
      BY <1>1, RecoveryAssumption DEF Left
    <2>2. [owner |-> None, nonce |-> n, price |-> OldPrices[n + 1]] \in Leftover
      BY <2>1 DEF Leftover
    <2> QED BY <1>1, <2>2 DEF NoncesApart
  <1> QED BY <1>1, <1>2

LEMMA LeftNat == Left \in Nat
  BY RecoveryAssumption DEF Left

LEMMA NoncesApartStep ==
    ASSUME TypeInv, NoncesApart, ~RequiresSerialNonce,
           NEW t \in Txs, Call(t) \/ Step(t) \/ RpcError(t)
    PROVE  NoncesApart'
  <1>1. /\ UNCHANGED dropped
        /\ accepted' = accepted \/ (Send(t) /\ accepted' = accepted \cup {HashOf(t)})
    BY StepEffect
  <1>2. Send(t) => HashOf(t).owner # None /\ HashOf(t).nonce >= Left
    BY SendEffect, NodeAssumption DEF NoncesApart, TypeInv, WellFormed
  <1>3. \A u \in Txs : nonce'[u] # None => nonce'[u] >= Left
    <2> USE DEF TypeInv, TypeOK, AttributeTypeOK
    <2>1. CASE UNCHANGED nonce
      BY <2>1 DEF NoncesApart
    <2>2. CASE BorrowNonce(t)
      <3>1. nonce' = nonce \/ nonce' = [nonce EXCEPT ![t] = nonce[Target[t]]]
        BY <2>2 DEF BorrowNonce, attributes
      <3>2. Target[t] \in Txs
        BY <2>2, TransactAssumption DEF BorrowNonce, At, WellFormed
      <3> QED BY <3>1, <3>2 DEF NoncesApart
    <2>3. CASE Lock(t)
      <3>1. nonce' = nonce \/ \E n \in PendingCounts : nonce' = [nonce EXCEPT ![t] = CalculatedNonce(n)]
        BY <2>3 DEF Lock
      <3> QED BY <3>1, CountsAreNew DEF NoncesApart
    <2>4. UNCHANGED nonce \/ BorrowNonce(t) \/ Lock(t)
      BY DEF Step, Call, InitNonce, Estimate, BorrowHash, Churn, FindReceipt, Trap, Send,
             RpcError, attributes
    <2> QED BY <2>1, <2>2, <2>3, <2>4
  <1> QED BY <1>1, <1>2, <1>3 DEF NoncesApart

LEMMA NoncesApartNext ==
    ASSUME RecoveryInv, NoncesApart, ~RequiresSerialNonce,
           "foreign" \notin Faults, "drop" \notin Faults,
           [RecoveryNext]_<<vars, recoveryVars>>
    PROVE  NoncesApart'
  <1>1. CASE Node
    <2>1. UNCHANGED <<accepted, dropped, nonce>>
      BY <1>1 DEF Node, NodeNext, Mine, Index, Drop, Foreign, Fault, attributes
    <2> QED BY <2>1 DEF NoncesApart
  <1>2. ASSUME NEW t \in Txs, Call(t) \/ Step(t) \/ RpcError(t) PROVE NoncesApart'
    BY <1>2, NoncesApartStep DEF RecoveryInv, NetworkInv
  <1>3. ASSUME NEW r \in Recs, Bid(r) PROVE NoncesApart'
    <2>1. /\ UNCHANGED <<dropped, nonce>> /\ at[r] = "loop"
          /\ accepted' = accepted \/ \E value \in Price : accepted' = accepted \cup {BidOf(r, value)}
      BY <1>3, BidEffect DEF transactVars, attributes
    <2>2. old[r].nonce < Left
      BY <2>1 DEF RecoveryInv, CancelInv, ListedFirst, OldAccepted, NoncesApart
    <2>3. \A value \in Price : BidOf(r, value).owner = None /\ BidOf(r, value).nonce < Left
      BY <2>2 DEF BidOf
    <2> QED BY <2>1, <2>3 DEF NoncesApart
  <1>4. CASE UNCHANGED <<accepted, dropped, nonce>>
    BY <1>4 DEF NoncesApart
  <1>5. ASSUME GetPending \/ (\E r \in Recs : Cancel(r) \/ Check(r)) \/ UNCHANGED <<vars, recoveryVars>>
        PROVE  UNCHANGED <<accepted, dropped, nonce>>
    BY <1>5 DEF GetPending, Cancel, Check, vars, nodeVars, transactVars, attributes
  <1> QED BY <1>1, <1>2, <1>3, <1>4, <1>5 DEF RecoveryNext, Next

(* Unless the network forgets a leftover transaction or a hosted node      *)
(* miscounts, a bid never has the nonce of a new transaction: cancelling   *)
(* needs no transaction_lock.                                              *)
THEOREM NewOnesAreSpared ==
    ASSUME ~RequiresSerialNonce, "foreign" \notin Faults, "drop" \notin Faults
    PROVE  RecoverySpec => []NewTransactionsSpared
  <1>1. RecoveryInit => NoncesApart
    <2> SUFFICES ASSUME RecoveryInit PROVE NoncesApart
      OBVIOUS
    <2>1. accepted = Leftover /\ dropped = {} /\ \A t \in Txs : nonce[t] = None
      BY DEF RecoveryInit, ProcessInit
    <2>2. \A h \in Leftover : h.nonce < Left
      BY RecoveryAssumption DEF Leftover, Left
    <2> QED BY <2>1, <2>2, LeftoverType DEF NoncesApart
  <1>2. RecoveryInv /\ NoncesApart /\ [RecoveryNext]_<<vars, recoveryVars>> => NoncesApart'
    BY NoncesApartNext
  <1>3. RecoveryInv /\ NoncesApart => NewTransactionsSpared
    <2> SUFFICES ASSUME RecoveryInv, NoncesApart, NEW r \in Recs, NEW b \in bids[r],
                        NEW h \in accepted, h.owner # None
                 PROVE  h.nonce # b.nonce
      BY DEF NewTransactionsSpared
    <2>1. b.nonce < Left /\ h.nonce >= Left
      BY DEF RecoveryInv, CancelInv, BidsCompete, NoncesApart
    <2>2. b.nonce \in Nat
      BY DEF RecoveryInv, CancelInv, RecoveryTypeOK, Hash
    <2> QED BY <2>1, <2>2, LeftNat
  <1> QED BY <1>1, <1>2, <1>3, Recovered, PTL DEF RecoverySpec
=============================================================================
