--------------------------- MODULE TransactProofs ---------------------------
(***************************************************************************)
(* Proofs, for every set of transactions, every replacement relation,      *)
(* strategy, interleaving and choice of faults, of the invariants of       *)
(* TransactProps.                                                          *)
(***************************************************************************)
EXTENDS TransactProps, TLAPS

(* Setting one entry of a table to a value of its type keeps the type.     *)
LEMMA ExceptType ==
    ASSUME NEW S, NEW f \in [Txs -> S], NEW t \in Txs, NEW v \in S
    PROVE  [f EXCEPT ![t] = v] \in [Txs -> S]
  OBVIOUS

LEMMA FirstAttempt == 1 \in 0..MaxAttempts
  <1>1. MaxAttempts \in Nat /\ MaxAttempts # 0
    BY TransactAssumption
  <1> QED BY <1>1

(* What the node may answer as the pending count is a natural number. *)
LEMMA PendingCountsNat == ASSUME TypeInv PROVE PendingCounts \in SUBSET Nat
  BY DEF TypeInv, TypeOK, NodeTypeOK, PendingCounts, NextNonces, TransactionCount, Pool, Hash

(* A computed nonce is a natural number, once the account is known. *)
LEMMA CalculatedNonceNat ==
    ASSUME NEW n \in Nat, next_nonce \in Nat
    PROVE  CalculatedNonce(n) \in Nat
  BY DEF CalculatedNonce

(* The types and the control points hold initially. *)
LEMMA TypeInit == Init => TypeInv
  <1> SUFFICES ASSUME Init PROVE TypeInv
    OBVIOUS
  <1> USE NodeAssumption, TransactAssumption
  <1>1. NodeTypeOK
    <2>1. accepted = {} /\ dropped = {} /\ chain = <<>> /\ indexed = 0 /\ faults = 0
      BY DEF Init, ProcessInit, NodeInit
    <2> QED BY <2>1 DEF NodeTypeOK
  <1>2. GlobalTypeOK
    BY DEF GlobalTypeOK, Init, ProcessInit
  <1>3. ControlTypeOK
    <2>1. attempt = [t \in Txs |-> 0]
      BY DEF Init, ProcessInit
    <2>2. attempt \in [Txs -> 0..MaxAttempts]
      BY <2>1
    <2> QED BY <2>2 DEF Init, ProcessInit, ControlTypeOK, Labels, Outcomes
  <1>4. AttributeTypeOK
    <2>1. tx_hashes = [t \in Txs |-> <<>>]
      BY DEF Init, ProcessInit
    <2>2. tx_hashes \in [Txs -> Seq(Hash)]
      BY <2>1
    <2> QED BY <2>2 DEF Init, ProcessInit, AttributeTypeOK
  <1>5. WellFormed
    BY DEF WellFormed, Init, ProcessInit
  <1> QED BY <1>1, <1>2, <1>3, <1>4, <1>5 DEF TypeInv, TypeOK

(* The node's own steps keep the types. *)
LEMMA TypeNode == TypeInv /\ Node => TypeInv'
  <1> SUFFICES ASSUME TypeInv, Node PROVE TypeInv'
    OBVIOUS
  <1> USE DEF TypeInv, TypeOK, NodeTypeOK, GlobalTypeOK, ControlTypeOK, AttributeTypeOK,
          WellFormed, Node, controlVars, attributes
  <1>1. CASE Mine
    <2> PICK h \in Pool, ok \in BOOLEAN : chain' = Append(chain, [hash |-> h, ok |-> ok])
      BY <1>1 DEF Mine
    <2>1. h \in Hash
      BY DEF Pool
    <2>2. chain' \in Seq([hash : Hash, ok : BOOLEAN]) /\ Len(chain') = Len(chain) + 1
      BY <2>1
    <2>3. indexed' \in Nat /\ indexed' <= Len(chain')
      BY <1>1, <2>2 DEF Mine
    <2> QED BY <1>1, <2>2, <2>3 DEF Mine
  <1>2. CASE Index
    BY <1>2 DEF Index
  <1>3. CASE Drop
    BY <1>3 DEF Drop, Fault, Pool
  <1>4. CASE Foreign
    <2> PICK n \in NextNonces : accepted' = accepted \cup {[owner |-> None, nonce |-> n, price |-> None]}
      BY <1>4 DEF Foreign
    <2>1. n \in Nat
      BY DEF NextNonces, TransactionCount, Pool, Hash
    <2>2. accepted' \in SUBSET Hash
      BY <2>1 DEF Hash
    <2> QED BY <1>4, <2>2 DEF Foreign, Fault
  <1> QED BY <1>1, <1>2, <1>3, <1>4 DEF NodeNext

(* The steps of a transaction keep the types. *)
LEMMA TypeStep ==
    ASSUME TypeInv, NEW t \in Txs, Call(t) \/ Step(t) \/ RpcError(t)
    PROVE  TypeInv'
  <1> USE NodeAssumption, TransactAssumption
      DEF TypeInv, TypeOK, At, MayRun, Continue, Await, Goto, Finish,
          nodeVars, controlVars, attributes
  <1>1. CASE Call(t)
    <2> USE <1>1 DEF Call
    <2>1. NodeTypeOK'
      BY DEF NodeTypeOK
    <2>2. GlobalTypeOK'
      BY DEF GlobalTypeOK, WellFormed, ControlTypeOK
    <2>3. ControlTypeOK'
      <3>1. counted' \in [Txs -> Nat \cup {None}]
        BY PendingCountsNat DEF ControlTypeOK
      <3>2. pc' \in [Txs -> Labels]
        BY DEF ControlTypeOK, Labels
      <3> QED BY <3>1, <3>2 DEF ControlTypeOK
    <2>4. AttributeTypeOK'
      BY DEF AttributeTypeOK
    <2>5. WellFormed'
      <3>1. pc'[t] = "init" => counted'[t] \in Nat
        BY PendingCountsNat DEF ControlTypeOK
      <3>2. \A u \in Txs \ {t} : pc'[u] = pc[u] /\ counted'[u] = counted[u]
        BY DEF ControlTypeOK
      <3>3. pc'[t] \in {"init", "estimate"} /\ (pc'[t] = "estimate" => next_nonce # None)
        BY DEF ControlTypeOK
      <3> QED BY <3>1, <3>2, <3>3 DEF WellFormed
    <2> QED BY <2>1, <2>2, <2>3, <2>4, <2>5
  <1>2. CASE InitNonce(t)
    <2> USE <1>2 DEF InitNonce
    <2>1. NodeTypeOK'
      BY DEF NodeTypeOK
    <2>2. GlobalTypeOK'
      BY DEF GlobalTypeOK, WellFormed, ControlTypeOK
    <2>3. ControlTypeOK'
      BY DEF ControlTypeOK, Labels, Outcomes
    <2>4. AttributeTypeOK'
      BY DEF AttributeTypeOK
    <2>5. WellFormed'
      BY DEF WellFormed, ControlTypeOK, AttributeTypeOK
    <2> QED BY <2>1, <2>2, <2>3, <2>4, <2>5
  <1>3. CASE Estimate(t)
    <2> USE <1>3 DEF Estimate, DefaultGasPrice
    <2>1. NodeTypeOK'
      BY DEF NodeTypeOK
    <2>2. GlobalTypeOK'
      BY DEF GlobalTypeOK, WellFormed, ControlTypeOK
    <2>3. ControlTypeOK'
      BY DEF ControlTypeOK, Labels, Outcomes
    <2>4. AttributeTypeOK'
      <3>1. Strategy[t] \in SUBSET (Price \cup {None})
        OBVIOUS
      <3>2. gas_price' = gas_price \/
            gas_price' = [gas_price EXCEPT ![t] = IF Strategy[t] # {} THEN Strategy[t] ELSE {None}]
        OBVIOUS
      <3>3. gas_price' \in [Txs -> SUBSET (Price \cup {None})]
        <4>1. gas_price \in [Txs -> SUBSET (Price \cup {None})]
          BY DEF AttributeTypeOK
        <4> QED BY ONLY <3>1, <3>2, <4>1, t \in Txs
      <3> QED BY <3>3 DEF AttributeTypeOK
    <2>5. WellFormed'
      BY DEF WellFormed, ControlTypeOK, AttributeTypeOK
    <2> QED BY <2>1, <2>2, <2>3, <2>4, <2>5
  <1>4. CASE BorrowNonce(t)
    <2> USE <1>4 DEF BorrowNonce, DefaultGasPrice
    <2>1. NodeTypeOK'
      BY DEF NodeTypeOK
    <2>2. GlobalTypeOK'
      BY DEF GlobalTypeOK, WellFormed, ControlTypeOK
    <2>3. ControlTypeOK'
      BY DEF ControlTypeOK, Labels, Outcomes
    <2>4. AttributeTypeOK'
      <3>1. CASE UNCHANGED attributes
        BY <3>1 DEF AttributeTypeOK
      <3>2. CASE ~UNCHANGED attributes
        <4> DEFINE o == Target[t]
        <4>1. o \in Txs
          BY DEF WellFormed, ControlTypeOK
        <4>2. /\ replaced' = [replaced EXCEPT ![o] = TRUE]
              /\ nonce' = [nonce EXCEPT ![t] = nonce[o]]
              /\ origin' = [origin EXCEPT ![t] = origin[o]]
              /\ UNCHANGED <<gas_price_last, tx_hashes>>
          BY <3>2
        <4>3. gas_price' = [gas_price EXCEPT ![t] =
                  IF Strategy[t] = {} /\ gas_price[o] # {} THEN gas_price[o] ELSE @]
          BY <3>2
        <4>4. gas_price' \in [Txs -> SUBSET (Price \cup {None})]
          BY <4>1, <4>3 DEF AttributeTypeOK
        <4> QED BY <4>1, <4>2, <4>4 DEF AttributeTypeOK
      <3> QED BY <3>1, <3>2
    <2>5. WellFormed'
      BY DEF WellFormed, ControlTypeOK, AttributeTypeOK
    <2> QED BY <2>1, <2>2, <2>3, <2>4, <2>5
  <1>5. CASE BorrowHash(t)
    <2> USE <1>5 DEF BorrowHash, BorrowedPrice
    <2>1. NodeTypeOK'
      BY DEF NodeTypeOK
    <2>2. GlobalTypeOK'
      BY DEF GlobalTypeOK, WellFormed, ControlTypeOK
    <2>3. ControlTypeOK'
      BY DEF ControlTypeOK, Labels, Outcomes
    <2>4. AttributeTypeOK'
      <3> DEFINE o == Target[t]
      <3>1. o \in Txs
        BY DEF WellFormed, ControlTypeOK
      <3>2. gas_price_last' \in [Txs -> Price \cup {None, 0}]
        BY <3>1 DEF AttributeTypeOK
      <3>3. tx_hashes[o] \in Seq(Hash) /\ tx_hashes[t] \in Seq(Hash)
        BY <3>1 DEF AttributeTypeOK
      <3>4. tx_hashes[o] # <<>> => <<tx_hashes[o][Len(tx_hashes[o])]>> \in Seq(Hash)
        BY <3>3
      <3>5. tx_hashes' \in [Txs -> Seq(Hash)]
        BY <3>3, <3>4 DEF AttributeTypeOK
      <3> QED BY <3>2, <3>5 DEF AttributeTypeOK
    <2>5. WellFormed'
      BY DEF WellFormed, ControlTypeOK, AttributeTypeOK
    <2> QED BY <2>1, <2>2, <2>3, <2>4, <2>5
  <1>6. CASE Churn(t)
    <2> USE <1>6 DEF Churn
    <2>1. NodeTypeOK'
      BY DEF NodeTypeOK
    <2>2. GlobalTypeOK'
      BY DEF GlobalTypeOK, WellFormed, ControlTypeOK
    <2>3. ControlTypeOK'
      <3>1. pc' \in [Txs -> Labels] /\ outcome' \in [Txs -> Outcomes]
        BY DEF ControlTypeOK, Labels, Outcomes
      <3>2. receipt' \in [Txs -> Hash \cup {None}]
        BY DEF ControlTypeOK
      <3>3. attempt' \in [Txs -> 0..MaxAttempts]
        <4>1. attempt' = attempt \/ attempt' = [attempt EXCEPT ![t] = 1]
          OBVIOUS
        <4>2. attempt \in [Txs -> 0..MaxAttempts]
          BY DEF ControlTypeOK
        <4>3. [attempt EXCEPT ![t] = 1] \in [Txs -> 0..MaxAttempts]
          BY ONLY <4>2, FirstAttempt, ExceptType, t \in Txs
        <4> QED BY ONLY <4>1, <4>2, <4>3
      <3> QED BY <3>1, <3>2, <3>3 DEF ControlTypeOK
    <2>4. AttributeTypeOK'
      <3>1. gas_price_last' = gas_price_last
            \/ \E value \in gas_price[t] : gas_price_last' = [gas_price_last EXCEPT ![t] = value]
        OBVIOUS
      <3>2. gas_price[t] \subseteq Price \cup {None, 0}
        BY DEF AttributeTypeOK
      <3>3. gas_price_last' \in [Txs -> Price \cup {None, 0}]
        <4>1. gas_price_last \in [Txs -> Price \cup {None, 0}]
          BY DEF AttributeTypeOK
        <4> QED BY ONLY <3>1, <3>2, <4>1, t \in Txs
      <3> QED BY <3>3 DEF AttributeTypeOK
    <2>5. WellFormed'
      <3>1. pc[t] = "top" /\ pc \in [Txs -> Labels]
        BY DEF ControlTypeOK
      <3>2. \E label \in {"receipts", "done", "lock", "top"} : pc' = [pc EXCEPT ![t] = label]
        OBVIOUS
      <3>3. UNCHANGED <<counted, next_nonce, nonce>>
        OBVIOUS
      <3>4. WellFormed
        OBVIOUS
      <3> QED BY ONLY <3>1, <3>2, <3>3, <3>4, t \in Txs DEF WellFormed
    <2> QED BY <2>1, <2>2, <2>3, <2>4, <2>5
  <1>7. CASE FindReceipt(t)
    <2> USE <1>7 DEF FindReceipt, WatchedHashes, TriesLeft
    <2>1. NodeTypeOK'
      BY DEF NodeTypeOK
    <2>2. GlobalTypeOK'
      BY DEF GlobalTypeOK, WellFormed, ControlTypeOK
    <2>3. ControlTypeOK'
      <3>1. pc' \in [Txs -> Labels] /\ outcome' \in [Txs -> Outcomes]
        BY DEF ControlTypeOK, Labels, Outcomes
      <3>2. receipt' \in [Txs -> Hash \cup {None}]
        <4>1. \A i \in DOMAIN tx_hashes[t] : tx_hashes[t][i] \in Hash
          BY DEF AttributeTypeOK
        <4> QED BY <4>1 DEF ControlTypeOK
      <3>3. attempt' \in [Txs -> 0..MaxAttempts]
        <4>1. \/ attempt' = attempt
              \/ /\ attempt[t] < MaxAttempts
                 /\ attempt' = [attempt EXCEPT ![t] = attempt[t] + 1]
          OBVIOUS
        <4> QED BY <4>1 DEF ControlTypeOK
      <3> QED BY <3>1, <3>2, <3>3 DEF ControlTypeOK
    <2>4. AttributeTypeOK'
      BY DEF AttributeTypeOK
    <2>5. WellFormed'
      BY DEF WellFormed, ControlTypeOK, AttributeTypeOK
    <2> QED BY <2>1, <2>2, <2>3, <2>4, <2>5
  <1>8. CASE Lock(t)
    <2> USE <1>8 DEF Lock
    <2>1. NodeTypeOK'
      BY DEF NodeTypeOK
    <2>2. next_nonce \in Nat
      BY DEF GlobalTypeOK, WellFormed
    <2>3. \/ nonce[t] # None /\ UNCHANGED <<nonce, next_nonce, origin>>
          \/ \E n \in Nat : /\ nonce' = [nonce EXCEPT ![t] = CalculatedNonce(n)]
                           /\ next_nonce' = CalculatedNonce(n) + 1
                           /\ origin' = [origin EXCEPT ![t] = t]
      BY PendingCountsNat
    <2>4. next_nonce' \in Nat
      BY <2>2, <2>3, CalculatedNonceNat
    <2>5. nonce' \in [Txs -> Nat \cup {None}] /\ nonce'[t] # None
      <3>1. CASE UNCHANGED nonce /\ nonce[t] # None
        BY <3>1 DEF AttributeTypeOK
      <3>2. ASSUME NEW n \in Nat, nonce' = [nonce EXCEPT ![t] = CalculatedNonce(n)]
            PROVE  nonce' \in [Txs -> Nat \cup {None}] /\ nonce'[t] # None
        <4>1. CalculatedNonce(n) \in Nat
          BY <2>2, CalculatedNonceNat
        <4>2. nonce \in [Txs -> Nat \cup {None}]
          BY DEF AttributeTypeOK
        <4> QED BY <3>2, <4>1, <4>2
      <3> QED BY <2>3, <3>1, <3>2
    <2>6. \A u \in Txs \ {t} : nonce'[u] = nonce[u] /\ pc'[u] = pc[u]
      BY <2>3 DEF AttributeTypeOK, ControlTypeOK
    <2>7. origin' \in [Txs -> Txs \cup {None}]
      BY <2>3 DEF AttributeTypeOK
    <2>8. GlobalTypeOK'
      BY <2>4 DEF GlobalTypeOK
    <2>9. ControlTypeOK'
      BY DEF ControlTypeOK, Labels, Outcomes
    <2>10. AttributeTypeOK'
      BY <2>5, <2>7 DEF AttributeTypeOK
    <2>11. WellFormed'
      BY <2>4, <2>5, <2>6 DEF WellFormed, ControlTypeOK
    <2> QED BY <2>1, <2>8, <2>9, <2>10, <2>11
  <1>9. CASE Trap(t)
    <2> USE <1>9 DEF Trap, Release
    <2>1. NodeTypeOK'
      BY DEF NodeTypeOK
    <2>2. GlobalTypeOK'
      BY DEF GlobalTypeOK, WellFormed, ControlTypeOK
    <2>3. ControlTypeOK'
      BY DEF ControlTypeOK, Labels, Outcomes
    <2>4. AttributeTypeOK'
      BY DEF AttributeTypeOK
    <2>5. WellFormed'
      BY DEF WellFormed, ControlTypeOK, AttributeTypeOK
    <2> QED BY <2>1, <2>2, <2>3, <2>4, <2>5
  <1>10. CASE Send(t)
    <2> USE <1>10 DEF Send, SendFailed, Accept, Refuse, Fault, HashOf, Release
    <2>0. HashOf(t) \in Hash
      <3>1. nonce[t] \in Nat /\ gas_price_last[t] \in Price \cup {None, 0}
        BY DEF WellFormed, AttributeTypeOK
      <3> QED BY <3>1 DEF Hash
    <2>1. NodeTypeOK'
      <3>1. accepted' = accepted \/ accepted' = accepted \cup {HashOf(t)}
        BY DEF HashOf
      <3>2. faults' = faults \/ faults' = faults + 1
        OBVIOUS
      <3> QED BY <2>0, <3>1, <3>2 DEF NodeTypeOK
    <2>2. GlobalTypeOK'
      BY DEF GlobalTypeOK, WellFormed, ControlTypeOK
    <2>3. ControlTypeOK'
      BY DEF ControlTypeOK, Labels, Outcomes
    <2>4. AttributeTypeOK'
      <3>1. tx_hashes' = tx_hashes \/ tx_hashes' = [tx_hashes EXCEPT ![t] = Append(tx_hashes[t], HashOf(t))]
        OBVIOUS
      <3>2. tx_hashes[t] \in Seq(Hash) /\ tx_hashes \in [Txs -> Seq(Hash)]
        BY DEF AttributeTypeOK
      <3>3. Append(tx_hashes[t], HashOf(t)) \in Seq(Hash)
        BY <2>0, <3>2
      <3>4. tx_hashes' \in [Txs -> Seq(Hash)]
        BY ONLY <3>1, <3>2, <3>3, t \in Txs
      <3> QED BY <3>4 DEF AttributeTypeOK
    <2>5. WellFormed'
      BY DEF WellFormed, ControlTypeOK, AttributeTypeOK
    <2> QED BY <2>1, <2>2, <2>3, <2>4, <2>5
  <1>11. CASE RpcError(t)
    <2> USE <1>11 DEF RpcError, Fault
    <2>1. NodeTypeOK'
      BY DEF NodeTypeOK
    <2>2. GlobalTypeOK'
      BY DEF GlobalTypeOK, WellFormed, ControlTypeOK
    <2>3. ControlTypeOK'
      BY DEF ControlTypeOK, Labels, Outcomes
    <2>4. AttributeTypeOK'
      BY DEF AttributeTypeOK
    <2>5. WellFormed'
      BY DEF WellFormed, ControlTypeOK, AttributeTypeOK
    <2> QED BY <2>1, <2>2, <2>3, <2>4, <2>5
  <1> QED BY <1>1, <1>2, <1>3, <1>4, <1>5, <1>6, <1>7, <1>8, <1>9, <1>10, <1>11 DEF Step

(* Every reachable state is well typed. *)
THEOREM TypeCorrect == Spec => []TypeInv
  <1>1. Init => TypeInv
    BY TypeInit
  <1>2. TypeInv /\ [Next]_vars => TypeInv'
    <2> SUFFICES ASSUME TypeInv, [Next]_vars PROVE TypeInv'
      OBVIOUS
    <2>1. CASE Node
      BY <2>1, TypeNode
    <2>2. ASSUME NEW t \in Txs, Call(t) \/ Step(t) \/ RpcError(t) PROVE TypeInv'
      BY <2>2, TypeStep
    <2>3. CASE UNCHANGED vars
      BY <2>3 DEF vars, nodeVars, controlVars, attributes, TypeInv, TypeOK, NodeTypeOK,
                  GlobalTypeOK, ControlTypeOK, AttributeTypeOK, WellFormed
    <2> QED BY <2>1, <2>2, <2>3 DEF Next
  <1> QED BY <1>1, <1>2, PTL DEF Spec

-----------------------------------------------------------------------------
(* Silence of replaced transactions.                                       *)

Borrowed == {"borrow", "top", "receipts", "lock", "trap", "send"}

(* A step of t that sends nothing, marks nothing and does not hold the     *)
(* lock: it must not enter the loop of a replacement without borrowing.    *)
Quiet(t) ==
    /\ UNCHANGED <<accepted, replaced, transaction_lock>>
    /\ \A u \in Txs \ {t} : pc'[u] = pc[u]
    /\ pc'[t] \notin {"trap", "send"}
    /\ pc'[t] \in Borrowed => pc[t] \in Borrowed \/ Target[t] = None

LEMMA QuietKeepsSilence ==
    ASSUME SilenceInv, NEW t \in Txs, Quiet(t)
    PROVE  SilenceInv'
  BY DEF Quiet, Borrowed, SilenceInv, LockHeld, TargetMarked, NoRival

(* Most steps are of that kind. *)
LEMMA QuietSteps ==
    ASSUME TypeInv, NEW t \in Txs,
           \/ Call(t) \/ InitNonce(t) \/ Estimate(t) \/ BorrowHash(t)
           \/ Churn(t) \/ FindReceipt(t) \/ RpcError(t)
    PROVE  Quiet(t)
  <1> USE DEF Quiet, Borrowed, TypeInv, TypeOK, ControlTypeOK, At, Goto, Finish, attributes, nodeVars
  <1>1. CASE Call(t) BY <1>1 DEF Call
  <1>2. CASE InitNonce(t) BY <1>2 DEF InitNonce
  <1>3. CASE Estimate(t) BY <1>3 DEF Estimate
  <1>4. CASE BorrowHash(t) BY <1>4 DEF BorrowHash
  <1>5. CASE Churn(t) BY <1>5 DEF Churn
  <1>6. CASE FindReceipt(t) BY <1>6 DEF FindReceipt
  <1>7. CASE RpcError(t) BY <1>7 DEF RpcError
  <1> QED BY <1>1, <1>2, <1>3, <1>4, <1>5, <1>6, <1>7

(* What sending means for the network and for the lock. *)
LEMMA SendEffect ==
    ASSUME TypeInv, NEW t \in Txs, Send(t)
    PROVE  /\ accepted' = accepted \/ accepted' = accepted \cup {HashOf(t)}
           /\ HashOf(t).owner = t /\ HashOf(t).nonce = nonce[t]
           /\ pc[t] = "send" /\ pc'[t] \in {"top", "done"}
           /\ \A u \in Txs \ {t} : pc'[u] = pc[u]
           /\ UNCHANGED <<replaced, nonce, origin, next_nonce>>
  BY DEF TypeInv, TypeOK, ControlTypeOK, Send, SendFailed, Accept, Refuse, HashOf, At, Goto, Finish

LEMMA SilenceStep ==
    ASSUME TypeInv, SilenceInv, NEW t \in Txs, Call(t) \/ Step(t) \/ RpcError(t)
    PROVE  SilenceInv'
  <1> USE DEF TypeInv, TypeOK, ControlTypeOK, At, Goto, Finish, attributes, nodeVars
  <1>1. CASE BorrowNonce(t)
    <2>1. \/ UNCHANGED <<pc, accepted, replaced, transaction_lock>>
          \/ /\ replaced' = [replaced EXCEPT ![Target[t]] = TRUE]
             /\ pc' = [pc EXCEPT ![t] = "borrow"]
             /\ UNCHANGED <<accepted, transaction_lock>>
      BY <1>1 DEF BorrowNonce, controlVars
    <2>2. Target[t] # None => Target[t] \in Txs
      BY TransactAssumption
    <2>3. \A u \in Txs : replaced[u] => replaced'[u]
      BY <2>1 DEF AttributeTypeOK
    <2>4. pc[t] = "await" /\ Target[t] # None
      BY <1>1 DEF BorrowNonce, WellFormed
    <2>5. LockHeld'
      BY <2>1 DEF SilenceInv, LockHeld
    <2>6. TargetMarked'
      <3> SUFFICES ASSUME NEW u \in Txs, Target[u] # None,
                          \/ pc'[u] \in Borrowed
                          \/ \E g \in accepted' : g.owner = u
                   PROVE  replaced'[Target[u]]
        BY DEF TargetMarked, Borrowed
      <3>1. Target[u] \in Txs
        BY TransactAssumption
      <3>2. CASE u = t /\ pc' # pc
        BY <2>1, <2>2, <2>4, <3>2 DEF AttributeTypeOK
      <3>3. CASE ~(u = t /\ pc' # pc)
        <4>1. pc'[u] = pc[u] /\ accepted' = accepted
          BY <2>1, <3>3
        <4>2. replaced[Target[u]]
          BY <4>1 DEF SilenceInv, TargetMarked, Borrowed
        <4> QED BY <2>3, <3>1, <4>2
      <3> QED BY <3>2, <3>3
    <2>7. NoRival'
      BY <2>1 DEF SilenceInv, NoRival
    <2> QED BY <2>5, <2>6, <2>7 DEF SilenceInv
  <1>2. CASE Lock(t)
    <2>1. /\ transaction_lock = None /\ transaction_lock' = t
          /\ pc[t] = "lock" /\ pc' = [pc EXCEPT ![t] = "trap"]
          /\ UNCHANGED <<accepted, replaced>>
      BY <1>2 DEF Lock, LockIsFree
    <2>2. \A u \in Txs : pc[u] \notin {"trap", "send"}
      BY <2>1, NodeAssumption DEF SilenceInv, LockHeld
    <2> QED BY <2>1, <2>2 DEF SilenceInv, LockHeld, TargetMarked, NoRival
  <1>3. CASE Trap(t)
    <2>1. /\ pc[t] = "trap" /\ UNCHANGED <<accepted, replaced>>
          /\ \/ pc' = [pc EXCEPT ![t] = "done"] /\ transaction_lock' = None
             \/ /\ ~replaced[t] /\ pc' = [pc EXCEPT ![t] = "send"]
                /\ UNCHANGED transaction_lock
      BY <1>3 DEF Trap, TrapReplaced, Release
    <2>2. \A u \in Txs \ {t} : pc[u] \notin {"trap", "send"}
      BY <2>1 DEF SilenceInv, LockHeld
    <2>3. ~replaced[t] => \A g \in accepted : g.owner # None => Target[g.owner] # t
      <3> SUFFICES ASSUME NEW g \in accepted, g.owner # None, Target[g.owner] = t
                   PROVE  replaced[t]
        OBVIOUS
      <3>1. g.owner \in Txs
        BY DEF NodeTypeOK, Hash
      <3> QED BY <3>1, NodeAssumption DEF SilenceInv, TargetMarked
    <2> QED BY <2>1, <2>2, <2>3 DEF SilenceInv, LockHeld, TargetMarked, NoRival
  <1>4. CASE Send(t)
    <2>1. \A u \in Txs \ {t} : pc[u] \notin {"trap", "send"}
      BY <1>4, SendEffect DEF SilenceInv, LockHeld
    <2>2. LockHeld'
      BY <1>4, <2>1, SendEffect DEF LockHeld
    <2>3. NoRival'
      BY <1>4, <2>1, SendEffect DEF NoRival
    <2>4. TargetMarked'
      <3>1. Target[t] # None => replaced[Target[t]]
        BY <1>4, SendEffect DEF SilenceInv, TargetMarked
      <3>2. \A u \in Txs \ {t} : (\E g \in accepted' : g.owner = u) => \E g \in accepted : g.owner = u
        BY <1>4, SendEffect
      <3>3. \A u \in Txs \ {t} : Target[u] # None /\ (pc'[u] \in Borrowed \/ \E g \in accepted' : g.owner = u)
                 => replaced[Target[u]]
        BY <1>4, <3>2, SendEffect DEF SilenceInv, TargetMarked, Borrowed
      <3> QED BY <1>4, <3>1, <3>3, SendEffect DEF TargetMarked, Borrowed
    <2> QED BY <2>2, <2>3, <2>4 DEF SilenceInv
  <1> QED BY <1>1, <1>2, <1>3, <1>4, QuietSteps, QuietKeepsSilence DEF Step

(* What the node does on its own: only another program's sends show.       *)
LEMMA NodeEffect ==
    ASSUME Node
    PROVE  /\ UNCHANGED <<next_nonce, transaction_lock, pc, nonce, replaced, origin>>
           /\ \A h \in accepted' \ accepted : h.owner = None
           /\ accepted \subseteq accepted'
  BY DEF Node, NodeNext, Mine, Index, Drop, Foreign, controlVars, attributes

LEMMA SilenceNode == ASSUME TypeInv, SilenceInv, Node PROVE SilenceInv'
  <1>1. \A u \in Txs : (\E g \in accepted' : g.owner = u) => \E g \in accepted : g.owner = u
    BY NodeEffect, NodeAssumption
  <1>2. LockHeld'
    BY NodeEffect DEF SilenceInv, LockHeld
  <1>3. TargetMarked'
    BY <1>1, NodeEffect DEF SilenceInv, TargetMarked
  <1>4. NoRival'
    BY NodeEffect DEF SilenceInv, NoRival
  <1> QED BY <1>2, <1>3, <1>4 DEF SilenceInv

(* The lock, the marks and the absence of rivals are invariant. *)
THEOREM Silence == Spec => []SilenceInv
  <1>1. Init => SilenceInv
    BY DEF Init, ProcessInit, NodeInit, SilenceInv, LockHeld, TargetMarked, NoRival
  <1>2. TypeInv /\ SilenceInv /\ [Next]_vars => SilenceInv'
    <2> SUFFICES ASSUME TypeInv, SilenceInv, [Next]_vars PROVE SilenceInv'
      OBVIOUS
    <2>1. CASE Node
      BY <2>1, SilenceNode
    <2>2. ASSUME NEW t \in Txs, Call(t) \/ Step(t) \/ RpcError(t) PROVE SilenceInv'
      BY <2>2, SilenceStep
    <2>3. CASE UNCHANGED vars
      BY <2>3 DEF vars, nodeVars, controlVars, attributes, SilenceInv, LockHeld, TargetMarked, NoRival
    <2> QED BY <2>1, <2>2, <2>3 DEF Next
  <1> QED BY <1>1, <1>2, TypeCorrect, PTL DEF Spec

(* Once the replacement of a transaction is on the network, the            *)
(* transaction sends nothing any more, for any number of threads.          *)
THEOREM ReplacedIsSilent == Spec => ReplacedStaysSilent
  <1> DEFINE NoLateSend == \A h \in accepted' \ accepted, g \in accepted :
                 h.owner # None /\ g.owner # None => Target[g.owner] # h.owner
  <1>1. TypeInv /\ SilenceInv /\ [Next]_vars => [NoLateSend]_vars
    <2> SUFFICES ASSUME TypeInv, SilenceInv, Next PROVE NoLateSend
      OBVIOUS
    <2>1. CASE Node
      BY <2>1, NodeEffect
    <2>2. ASSUME NEW t \in Txs, Call(t) \/ Step(t) \/ RpcError(t) PROVE NoLateSend
      <3>1. CASE Send(t)
        BY <3>1, SendEffect DEF SilenceInv, NoRival
      <3>2. CASE ~Send(t)
        <4>1. accepted' = accepted
          BY <2>2, <3>2 DEF Step, nodeVars, Call, InitNonce, Estimate, BorrowNonce, BorrowHash,
                            Churn, FindReceipt, Lock, Trap, RpcError
        <4> QED BY <4>1
      <3> QED BY <3>1, <3>2
    <2> QED BY <2>1, <2>2 DEF Next
  <1> QED BY <1>1, TypeCorrect, Silence, PTL DEF Spec, ReplacedStaysSilent

-----------------------------------------------------------------------------
(* The network.                                                            *)

(* A step of a transaction mines nothing and sends at most its own hash.   *)
LEMMA StepEffect ==
    ASSUME TypeInv, NEW t \in Txs, Call(t) \/ Step(t) \/ RpcError(t)
    PROVE  /\ UNCHANGED <<chain, dropped, indexed>>
           /\ \/ accepted' = accepted
              \/ Send(t) /\ accepted' = accepted \cup {HashOf(t)}
           /\ pc'[t] # "new"
           /\ \A u \in Txs \ {t} : pc'[u] = pc[u]
  <1> USE DEF TypeInv, TypeOK, ControlTypeOK, At, Goto, Finish, nodeVars, controlVars
  <1>1. CASE Call(t) BY <1>1 DEF Call
  <1>2. CASE InitNonce(t) BY <1>2 DEF InitNonce
  <1>3. CASE Estimate(t) BY <1>3 DEF Estimate
  <1>4. CASE BorrowNonce(t) BY <1>4 DEF BorrowNonce
  <1>5. CASE BorrowHash(t) BY <1>5 DEF BorrowHash
  <1>6. CASE Churn(t) BY <1>6 DEF Churn
  <1>7. CASE FindReceipt(t) BY <1>7 DEF FindReceipt
  <1>8. CASE Lock(t) BY <1>8 DEF Lock
  <1>9. CASE Trap(t) BY <1>9 DEF Trap
  <1>10. CASE Send(t) BY <1>10 DEF Send, SendFailed, Accept, Refuse, HashOf
  <1>11. CASE RpcError(t) BY <1>11 DEF RpcError
  <1> QED BY <1>1, <1>2, <1>3, <1>4, <1>5, <1>6, <1>7, <1>8, <1>9, <1>10, <1>11 DEF Step

(* What was mined was accepted, and is ordered by nonce from 0.            *)
ChainByNonce ==
    \A i \in DOMAIN chain : chain[i].hash \in accepted /\ chain[i].hash.nonce = i - 1

LEMMA NodeKeepsChain == ASSUME TypeInv, ChainByNonce, Node PROVE ChainByNonce'
  <1> USE DEF ChainByNonce, TypeInv, TypeOK, NodeTypeOK
  <1>1. CASE Mine
    <2> PICK h \in Pool, ok \in BOOLEAN :
            /\ h.nonce = Len(chain)
            /\ chain' = Append(chain, [hash |-> h, ok |-> ok])
      BY <1>1 DEF Mine, TransactionCount
    <2>1. h \in accepted /\ accepted' = accepted
      BY <1>1 DEF Mine, Pool
    <2> SUFFICES ASSUME NEW i \in DOMAIN chain'
                 PROVE  chain'[i].hash \in accepted /\ chain'[i].hash.nonce = i - 1
      BY <2>1
    <2>2. Len(chain') = Len(chain) + 1 /\ i \in 1 .. Len(chain) + 1
      OBVIOUS
    <2>3. CASE i = Len(chain) + 1
      BY <2>1, <2>3
    <2>4. CASE i \in 1 .. Len(chain)
      BY <2>4
    <2> QED BY <2>2, <2>3, <2>4
  <1>2. CASE UNCHANGED chain
    BY <1>2, NodeEffect
  <1> QED BY <1>1, <1>2 DEF Node, NodeNext, Index, Drop, Foreign

LEMMA ChainKept ==
    ASSUME ChainByNonce, UNCHANGED chain, accepted \subseteq accepted'
    PROVE  ChainByNonce'
  BY DEF ChainByNonce

(* An own node counts everything that is pending, so the nonce that it     *)
(* gives has not been used, unless the network forgot the transaction.     *)
LEMMA CountIsFresh ==
    ASSUME TypeInv, dropped = {}, ~RequiresSerialNonce, NEW n \in PendingCounts
    PROVE  /\ n \in Nat /\ CalculatedNonce(n) = n
           /\ \A g \in accepted : g.nonce # n
  <1>1. n \in Nat
    BY PendingCountsNat
  <1>2. n >= Len(chain)
    BY DEF PendingCounts, NextNonces, TransactionCount, Pool, TypeInv, TypeOK, NodeTypeOK, Hash
  <1>3. \A g \in accepted : g.nonce # n
    <2> SUFFICES ASSUME NEW g \in accepted, g.nonce = n PROVE FALSE
      OBVIOUS
    <2>1. g \in Pool
      BY <1>2 DEF Pool
    <2> QED BY <2>1 DEF PendingCounts, Free
  <1>4. NonceCalculation \in {"TX_COUNT", "PARITY_NEXTNONCE"}
    BY NodeAssumption, TransactAssumption DEF NonceCalculation
  <1> QED BY <1>1, <1>3, <1>4 DEF CalculatedNonce

-----------------------------------------------------------------------------
(***************************************************************************)
(* With a serial nonce and an account whose first nonce is known, nonces   *)
(* never clash, and Transact implements NonceLedger.                       *)
(***************************************************************************)

(* A computed nonce is not below next_nonce: max(tx_count, next_serial).   *)
LEMMA SerialNonceIsNew ==
    ASSUME RequiresSerialNonce, NEW n \in Nat, next_nonce \in Nat
    PROVE  CalculatedNonce(n) \in Nat /\ CalculatedNonce(n) >= next_nonce
  <1>1. NonceCalculation \notin {"TX_COUNT", "PARITY_NEXTNONCE"}
    BY NodeAssumption, TransactAssumption DEF NonceCalculation
  <1> QED BY <1>1 DEF CalculatedNonce

(* A step of t that leaves the nonces and the network alone.               *)
Idle(t) ==
    /\ UNCHANGED <<accepted, nonce, origin, next_nonce>>
    /\ \A u \in Txs \ {t} : pc'[u] = pc[u]
    /\ pc'[t] # "init"
    /\ pc'[t] \in {"new", "estimate", "await"} => pc[t] \in {"new", "estimate", "await"}

LEMMA IdleKeepsSerial ==
    ASSUME SerialInv, NEW t \in Txs, Idle(t)
    PROVE  SerialInv'
  BY DEF Idle, SerialInv, AccountKnown, BelowNext, NotYetGiven, OneOrigin,
         SentWithOwnNonce, OriginHasNonce, NoNonceNoOrigin

LEMMA IdleSteps ==
    ASSUME TypeInv, SerialInv, NEW t \in Txs,
           \/ Call(t) \/ Estimate(t) \/ BorrowHash(t) \/ Churn(t)
           \/ FindReceipt(t) \/ Trap(t) \/ RpcError(t)
    PROVE  Idle(t)
  <1> USE DEF Idle, TypeInv, TypeOK, ControlTypeOK, At, Goto, Finish, attributes, nodeVars
  <1>1. CASE Call(t) BY <1>1 DEF Call, SerialInv, AccountKnown
  <1>2. CASE Estimate(t) BY <1>2 DEF Estimate
  <1>3. CASE BorrowHash(t) BY <1>3 DEF BorrowHash
  <1>4. CASE Churn(t) BY <1>4 DEF Churn
  <1>5. CASE FindReceipt(t) BY <1>5 DEF FindReceipt
  <1>6. CASE Trap(t) BY <1>6 DEF Trap
  <1>7. CASE RpcError(t) BY <1>7 DEF RpcError
  <1> QED BY <1>1, <1>2, <1>3, <1>4, <1>5, <1>6, <1>7

(* Taking the lock reserves a new nonce, or finds one.                     *)
LEMMA LockEffect ==
    ASSUME TypeInv, SerialInv, RequiresSerialNonce, NEW t \in Txs, Lock(t)
    PROVE  /\ accepted' = accepted
           /\ pc' = [pc EXCEPT ![t] = "trap"]
           /\ \/ nonce[t] # None /\ UNCHANGED <<nonce, origin, next_nonce>>
              \/ \E n \in Nat :
                    /\ n >= next_nonce
                    /\ nonce[t] = None
                    /\ nonce' = [nonce EXCEPT ![t] = n]
                    /\ origin' = [origin EXCEPT ![t] = t]
                    /\ next_nonce' = n + 1
  <1>1. next_nonce \in Nat
    BY DEF TypeInv, TypeOK, GlobalTypeOK, SerialInv, AccountKnown
  <1>2. \A n \in PendingCounts : CalculatedNonce(n) \in Nat /\ CalculatedNonce(n) >= next_nonce
    BY <1>1, PendingCountsNat, SerialNonceIsNew
  <1> QED BY <1>2 DEF Lock, Goto, nodeVars

LEMMA LockKeepsSerial ==
    ASSUME TypeInv, SerialInv, RequiresSerialNonce, NEW t \in Txs, Lock(t)
    PROVE  SerialInv'
  <1> USE DEF SerialInv
  <1>1. CASE nonce[t] # None /\ UNCHANGED <<nonce, origin, next_nonce>>
    BY <1>1, LockEffect DEF AccountKnown, BelowNext, NotYetGiven, OneOrigin, SentWithOwnNonce,
           OriginHasNonce, NoNonceNoOrigin, TypeInv, TypeOK, ControlTypeOK
  <1>2. ASSUME NEW n \in Nat, n >= next_nonce, nonce[t] = None,
               nonce' = [nonce EXCEPT ![t] = n], origin' = [origin EXCEPT ![t] = t],
               next_nonce' = n + 1
        PROVE  SerialInv'
    <2> USE <1>2 DEF TypeInv, TypeOK, GlobalTypeOK, ControlTypeOK, AttributeTypeOK
    <2>1. next_nonce \in Nat /\ n # None /\ next_nonce' # None
      BY NodeAssumption DEF AccountKnown
    <2>2. \A u \in Txs \ {t} : nonce'[u] = nonce[u] /\ origin'[u] = origin[u] /\ pc'[u] = pc[u]
      <3>1. pc' = [pc EXCEPT ![t] = "trap"]
        BY LockEffect
      <3> QED BY <3>1
    <2>3. nonce'[t] = n /\ origin'[t] = t /\ pc'[t] = "trap"
      BY LockEffect
    <2>4. \A u \in Txs : nonce[u] # None => nonce[u] \in Nat /\ nonce[u] < n
      BY <2>1 DEF BelowNext
    <2>5. \A u \in Txs : origin[u] # t \/ nonce[u] = None
      BY DEF OriginHasNonce
    <2>6. AccountKnown'
      BY <2>1, <2>2, <2>3 DEF AccountKnown
    <2>7. BelowNext'
      BY <2>1, <2>2, <2>3, <2>4 DEF BelowNext
    <2>8. NotYetGiven'
      BY <2>2, <2>3 DEF NotYetGiven
    <2>9. OneOrigin'
      BY <2>1, <2>2, <2>3, <2>4 DEF OneOrigin
    <2>10. SentWithOwnNonce'
      <3>1. \A h \in accepted : h.owner # None => h.owner \in Txs /\ h.nonce \in Nat
        BY DEF NodeTypeOK, Hash
      <3>2. \A h \in accepted : h.owner # None => h.owner # t
        BY <3>1, NodeAssumption DEF SentWithOwnNonce
      <3> QED BY <2>2, <3>1, <3>2, LockEffect DEF SentWithOwnNonce
    <2>11. OriginHasNonce'
      BY <2>1, <2>2, <2>3, <2>5 DEF OriginHasNonce
    <2>12. NoNonceNoOrigin'
      BY <2>1, <2>2, <2>3 DEF NoNonceNoOrigin
    <2> QED BY <2>6, <2>7, <2>8, <2>9, <2>10, <2>11, <2>12
  <1> QED BY <1>1, <1>2, LockEffect

(* Borrowing shares the nonce and its origin.                              *)
LEMMA BorrowKeepsSerial ==
    ASSUME TypeInv, SerialInv, NEW t \in Txs, BorrowNonce(t)
    PROVE  SerialInv'
  <1> USE DEF TypeInv, TypeOK, ControlTypeOK, AttributeTypeOK
  <1> DEFINE o == Target[t]
  <1>1. /\ UNCHANGED <<accepted, next_nonce>>
        /\ pc[t] = "await"
        /\ \/ UNCHANGED <<pc, nonce, origin>>
           \/ /\ nonce' = [nonce EXCEPT ![t] = nonce[o]]
              /\ origin' = [origin EXCEPT ![t] = origin[o]]
              /\ pc' = [pc EXCEPT ![t] = "borrow"]
    BY DEF BorrowNonce, At, Goto, controlVars, attributes, nodeVars
  <1>2. o \in Txs /\ nonce[t] = None /\ origin[t] = None
    BY <1>1, TransactAssumption DEF WellFormed, SerialInv, NotYetGiven, NoNonceNoOrigin
  <1>3. CASE UNCHANGED <<pc, nonce, origin>>
    BY <1>1, <1>3 DEF SerialInv, AccountKnown, BelowNext, NotYetGiven, OneOrigin,
                      SentWithOwnNonce, OriginHasNonce, NoNonceNoOrigin
  <1>4. CASE /\ nonce' = [nonce EXCEPT ![t] = nonce[o]]
             /\ origin' = [origin EXCEPT ![t] = origin[o]]
             /\ pc' = [pc EXCEPT ![t] = "borrow"]
    <2>1. /\ nonce'[t] = nonce[o] /\ origin'[t] = origin[o] /\ pc'[t] = "borrow"
          /\ \A u \in Txs \ {t} : nonce'[u] = nonce[u] /\ origin'[u] = origin[u] /\ pc'[u] = pc[u]
      BY <1>4
    <2> USE <1>1, <1>2, <2>1 DEF SerialInv
    <2> HIDE DEF o
    <2>2. AccountKnown' BY DEF AccountKnown
    <2>3. BelowNext' BY DEF BelowNext
    <2>4. NotYetGiven' BY DEF NotYetGiven
    <2>5. OneOrigin' BY DEF OneOrigin
    <2>6. SentWithOwnNonce'
      <3>1. \A h \in accepted : h.owner # None => h.owner \in Txs /\ h.nonce \in Nat
        BY DEF NodeTypeOK, Hash
      <3>2. \A h \in accepted : h.owner # None => h.owner # t
        BY ONLY <1>2, <3>1, SentWithOwnNonce, NodeAssumption DEF SentWithOwnNonce
      <3> QED BY <3>1, <3>2 DEF SentWithOwnNonce
    <2>7. OriginHasNonce'
      <3>1. \A u \in Txs : nonce[u] # None => origin[u] # t
        BY DEF OriginHasNonce
      <3> QED BY <3>1 DEF OriginHasNonce
    <2>8. NoNonceNoOrigin' BY DEF NoNonceNoOrigin
    <2> QED BY <2>2, <2>3, <2>4, <2>5, <2>6, <2>7, <2>8
  <1> QED BY <1>1, <1>3, <1>4

(* Sending uses the nonce of the sender.                                   *)
LEMMA SendKeepsSerial ==
    ASSUME TypeInv, SerialInv, NEW t \in Txs, Send(t)
    PROVE  SerialInv'
  BY SendEffect DEF SerialInv, AccountKnown, BelowNext, NotYetGiven, OneOrigin,
     SentWithOwnNonce, OriginHasNonce, NoNonceNoOrigin

LEMMA NodeKeepsSerial == ASSUME SerialInv, Node PROVE SerialInv'
  BY NodeEffect DEF SerialInv, AccountKnown, BelowNext, NotYetGiven, OneOrigin,
     SentWithOwnNonce, OriginHasNonce, NoNonceNoOrigin

LEMMA SerialNext ==
    ASSUME TypeInv, SerialInv, RequiresSerialNonce, [Next]_vars
    PROVE  SerialInv'
  <1>1. CASE Node
    BY <1>1, NodeKeepsSerial
  <1>2. ASSUME NEW t \in Txs, Call(t) \/ Step(t) \/ RpcError(t) PROVE SerialInv'
    <2>1. ~InitNonce(t)
      BY DEF InitNonce, At, SerialInv, AccountKnown
    <2> QED BY <1>2, <2>1, IdleSteps, IdleKeepsSerial, LockKeepsSerial, BorrowKeepsSerial,
               SendKeepsSerial DEF Step
  <1>3. CASE UNCHANGED vars
    BY <1>3 DEF vars, nodeVars, controlVars, attributes, SerialInv, AccountKnown, BelowNext,
        NotYetGiven, OneOrigin, SentWithOwnNonce, OriginHasNonce, NoNonceNoOrigin
  <1> QED BY <1>1, <1>2, <1>3 DEF Next

LEMMA SerialInit == ASSUME NonceKnown, Init PROVE SerialInv
  <1>1. next_nonce = 0
    BY Zenon DEF Init, ProcessInit
  <1>2. next_nonce # None
    BY <1>1, NodeAssumption
  <1>3. /\ accepted = {}
        /\ \A t \in Txs : nonce[t] = None /\ origin[t] = None /\ pc[t] = "new"
    BY DEF Init, ProcessInit, NodeInit
  <1> QED BY ONLY <1>2, <1>3 DEF SerialInv, AccountKnown, BelowNext, NotYetGiven, OneOrigin,
                           SentWithOwnNonce, OriginHasNonce, NoNonceNoOrigin

(* The serial nonces are in order in every reachable state.                *)
THEOREM Serial ==
    ASSUME RequiresSerialNonce, NonceKnown
    PROVE  Spec => []SerialInv
  <1>1. Init => SerialInv
    BY SerialInit
  <1>2. TypeInv /\ SerialInv /\ [Next]_vars => SerialInv'
    BY SerialNext
  <1> QED BY <1>1, <1>2, TypeCorrect, PTL DEF Spec

(* Two transactions never send with the same nonce unless one replaces the *)
(* other.                                                                  *)
THEOREM SerialNoncesDoNotClash ==
    ASSUME RequiresSerialNonce, NonceKnown
    PROVE  Spec => []NoNonceClash
  <1>1. TypeInv /\ SerialInv => NoNonceClash
    <2> SUFFICES ASSUME TypeInv, SerialInv, NEW g \in accepted, NEW h \in accepted,
                        g.owner # None, h.owner # None, g.nonce = h.nonce
                 PROVE  origin[g.owner] = origin[h.owner]
      BY DEF NoNonceClash
    <2>1. g.owner \in Txs /\ h.owner \in Txs /\ g.nonce \in Nat
      BY DEF TypeInv, TypeOK, NodeTypeOK, Hash
    <2>2. nonce[g.owner] = g.nonce /\ nonce[h.owner] = h.nonce
      BY DEF SerialInv, SentWithOwnNonce
    <2> QED BY <2>1, <2>2, NodeAssumption DEF SerialInv, OneOrigin
  <1> QED BY <1>1, Serial, TypeCorrect, PTL

(* Every step of Transact reserves, uses or does nothing in NonceLedger.   *)
LEMMA LedgerStep ==
    ASSUME TypeInv, SerialInv, SerialInv', RequiresSerialNonce, [Next]_vars
    PROVE  [Ledger!LedgerNext]_<<Reserved, Spent>>
  <1> USE DEF TypeInv, TypeOK, AttributeTypeOK
  <1>1. ASSUME UNCHANGED <<origin, nonce>>,
               {g \in accepted' : g.owner # None} = {g \in accepted : g.owner # None}
        PROVE  UNCHANGED <<Reserved, Spent>>
    BY <1>1 DEF Reserved, Spent
  <1>2. CASE Node
    <2>1. {g \in accepted' : g.owner # None} = {g \in accepted : g.owner # None}
      BY <1>2, NodeEffect
    <2> QED BY <1>1, <1>2, <2>1, NodeEffect
  <1>3. CASE UNCHANGED vars
    BY <1>1, <1>3 DEF vars, nodeVars, attributes
  <1>4. ASSUME NEW t \in Txs, Lock(t) PROVE [Ledger!LedgerNext]_<<Reserved, Spent>>
    <2>1. CASE UNCHANGED <<nonce, origin>>
      BY <1>1, <1>4, <2>1, LockEffect
    <2>2. ASSUME NEW n \in Nat, n >= next_nonce, nonce[t] = None,
                 nonce' = [nonce EXCEPT ![t] = n], origin' = [origin EXCEPT ![t] = t]
          PROVE  Ledger!Reserve(t)
      <3>1. origin[t] = None /\ \A u \in Txs : nonce[u] # None => nonce[u] < n
        BY <2>2 DEF SerialInv, NoNonceNoOrigin, BelowNext, AccountKnown, GlobalTypeOK
      <3>2. Reserved' = [Reserved EXCEPT ![t] = n]
        BY <2>2, NodeAssumption DEF Reserved
      <3>3. Reserved[t] = None /\ Reserved'[t] = n
        BY <3>1, <3>2, NodeAssumption DEF Reserved
      <3>4. \A u \in Txs : Reserved[u] # n
        BY <3>1, NodeAssumption DEF Reserved
      <3>5. Spent' = Spent
        <4>1. accepted' = accepted
          BY <1>4, LockEffect
        <4>2. \A h \in accepted : h.owner # None => h.owner \in Txs /\ h.nonce \in Nat
          BY DEF NodeTypeOK, Hash
        <4>3. \A h \in accepted : h.owner # None => h.owner # t
          BY <2>2, <4>2, NodeAssumption DEF SerialInv, SentWithOwnNonce
        <4>4. \A h \in accepted : h.owner # None => origin'[h.owner] = origin[h.owner]
          BY <2>2, <4>2, <4>3
        <4> QED BY <4>1, <4>4 DEF Spent
      <3> QED BY <2>2, <3>2, <3>3, <3>4, <3>5 DEF Ledger!Reserve
    <2> QED BY <1>4, <2>1, <2>2, LockEffect DEF Ledger!LedgerNext
  <1>5. ASSUME NEW t \in Txs, BorrowNonce(t) PROVE UNCHANGED <<Reserved, Spent>>
    <2> DEFINE o == Target[t]
    <2>1. /\ UNCHANGED accepted
          /\ pc[t] = "await"
          /\ \/ UNCHANGED <<nonce, origin>>
             \/ /\ nonce' = [nonce EXCEPT ![t] = nonce[o]]
                /\ origin' = [origin EXCEPT ![t] = origin[o]]
      BY <1>5 DEF BorrowNonce, At, controlVars, attributes, nodeVars
    <2>2. CASE UNCHANGED <<nonce, origin>>
      BY <1>1, <2>1, <2>2
    <2>3. CASE /\ nonce' = [nonce EXCEPT ![t] = nonce[o]]
               /\ origin' = [origin EXCEPT ![t] = origin[o]]
      <3>1. o \in Txs /\ nonce[t] = None /\ origin[t] = None
        BY <2>1, TransactAssumption DEF WellFormed, SerialInv, NotYetGiven, NoNonceNoOrigin
      <3>2. origin[o] # t
        <4>1. CASE nonce[o] = None
          BY <3>1, <4>1, NodeAssumption DEF SerialInv, NoNonceNoOrigin
        <4>2. CASE nonce[o] # None
          BY <3>1, <4>2 DEF SerialInv, OriginHasNonce
        <4> QED BY <4>1, <4>2
      <3>3. Reserved' = Reserved
        BY <2>3, <3>1, <3>2, NodeAssumption DEF Reserved
      <3>4. \A h \in accepted : h.owner # None => h.owner \in Txs /\ h.nonce \in Nat
        BY DEF NodeTypeOK, Hash
      <3>5. \A h \in accepted : h.owner # None => h.owner # t
        BY <3>1, <3>4, NodeAssumption DEF SerialInv, SentWithOwnNonce
      <3>6. \A h \in accepted : h.owner # None => origin'[h.owner] = origin[h.owner]
        BY <2>3, <3>4, <3>5
      <3>7. Spent' = Spent
        BY <2>1, <3>6 DEF Spent
      <3> QED BY <3>3, <3>7
    <2> QED BY <2>1, <2>2, <2>3
  <1>6. ASSUME NEW t \in Txs, Send(t) PROVE [Ledger!LedgerNext]_<<Reserved, Spent>>
    <2>1. UNCHANGED <<nonce, origin>>
      BY <1>6, SendEffect
    <2>2. CASE accepted' = accepted
      BY <1>1, <2>1, <2>2
    <2>3. CASE accepted' = accepted \cup {HashOf(t)}
      <3> DEFINE o == origin[t]
      <3>1. nonce[t] # None
        BY <1>6, SendEffect DEF WellFormed
      <3>2. o \in Txs /\ Reserved[o] = nonce[t]
        BY <3>1 DEF SerialInv, OriginHasNonce, Reserved
      <3>3. HashOf(t).owner = t /\ HashOf(t).nonce = nonce[t] /\ t # None
        BY NodeAssumption DEF HashOf
      <3>4. {g \in accepted' : g.owner # None} = {g \in accepted : g.owner # None} \cup {HashOf(t)}
        BY <2>3, <3>3
      <3>5. Spent' = Spent \cup {<<o, nonce[t]>>}
        BY <2>1, <3>3, <3>4 DEF Spent
      <3>6. Reserved' = Reserved
        BY <2>1 DEF Reserved
      <3>7. Ledger!Use(o)
        BY <3>1, <3>2, <3>5, <3>6 DEF Ledger!Use
      <3> QED BY <3>2, <3>7 DEF Ledger!LedgerNext
    <2> QED BY <1>6, <2>2, <2>3, SendEffect
  <1>7. ASSUME NEW t \in Txs, Idle(t) PROVE UNCHANGED <<Reserved, Spent>>
    BY <1>1, <1>7 DEF Idle
  <1>8. ASSUME NEW t \in Txs, Call(t) \/ Step(t) \/ RpcError(t)
        PROVE  [Ledger!LedgerNext]_<<Reserved, Spent>>
    <2>1. ~InitNonce(t)
      BY DEF InitNonce, At, SerialInv, AccountKnown
    <2> QED BY <1>4, <1>5, <1>6, <1>7, <1>8, <2>1, IdleSteps DEF Step
  <1> QED BY <1>2, <1>3, <1>8 DEF Next

(* Transact with a serial nonce implements NonceLedger.                    *)
THEOREM TransactImplementsLedger ==
    ASSUME RequiresSerialNonce, NonceKnown
    PROVE  Spec => ReservesNonces
  <1>1. Init => Ledger!LedgerInit
    BY DEF Init, ProcessInit, NodeInit, Ledger!LedgerInit, Reserved, Spent
  <1>2. TypeInv /\ SerialInv /\ SerialInv' /\ [Next]_vars
           => [Ledger!LedgerNext]_<<Reserved, Spent>>
    BY LedgerStep
  <1> QED BY <1>1, <1>2, TypeCorrect, Serial, PTL DEF Spec, ReservesNonces, Ledger!LedgerSpec

-----------------------------------------------------------------------------
(* What Transact reports and what it bids. *)

NotStarted == {"new", "init", "estimate", "await"}

Sending == {"lock", "trap", "send"}

(* A transaction has no nonce and nothing on the network before it enters  *)
(* the loop; a replacement first borrows both from its target.             *)
UnstartedHasNothing ==
    \A t \in Txs :
        /\ pc[t] \in NotStarted => nonce[t] = None
        /\ pc[t] \in NotStarted \cup {"borrow"} =>
               tx_hashes[t] = <<>> /\ \A h \in accepted : h.owner # t

(* Between the two steps of borrowing, the target keeps its nonce, or will *)
(* never have one.                                                         *)
BorrowsWhole ==
    \A t \in Txs : pc[t] = "borrow" =>
        /\ nonce[t] = nonce[Target[t]] /\ origin[t] = origin[Target[t]]
        /\ nonce[Target[t]] # None \/ pc[Target[t]] = "done"

(* h has the nonce of t, and its sender has it from the same origin.       *)
Kin(h, t) == /\ h.owner \in Txs
             /\ h.nonce = nonce[t] /\ nonce[h.owner] = nonce[t]
             /\ origin[h.owner] = origin[t]

WatchedAreKin == \A t \in Txs : \A i \in DOMAIN tx_hashes[t] : Kin(tx_hashes[t][i], t)

ReceiptOfKin ==
    \A t \in Txs : receipt[t] # None => Succeeded(receipt[t]) /\ Kin(receipt[t], t)

KinInv == /\ UnstartedHasNothing /\ SentWithOwnNonce /\ BorrowsWhole
          /\ WatchedAreKin /\ ReceiptOfKin

(* The last price of a transaction is that of its last hash, or beats the  *)
(* prices of all of them, as it must when it is about to be sent.          *)
OrBeats(high, low) == high = low \/ Beats(high, low)

PricesBeaten ==
    \A t \in Txs : \A i \in DOMAIN tx_hashes[t] :
        /\ OrBeats(gas_price_last[t], tx_hashes[t][i].price)
        /\ pc[t] \in Sending => Beats(gas_price_last[t], tx_hashes[t][i].price)

PriceInv == PricesBeaten /\ WatchedBidsGrow

(* Without lost answers, what a transaction has on the network is watched; *)
(* receipts are looked for when the nonce is used.                         *)
SentAreWatched ==
    \A h \in accepted : h.owner # None =>
        \E i \in DOMAIN tx_hashes[h.owner] : tx_hashes[h.owner][i] = h

LooksWhenUsed == \A t \in Txs : pc[t] = "receipts" => nonce[t] # None /\ Len(chain) > nonce[t]

EndsOnce == \A t \in Txs : outcome[t] # "none yet" => pc[t] = "done"

FailureInv == /\ SentAreWatched /\ LooksWhenUsed /\ EndsOnce
              /\ indexed = Len(chain) /\ FailureIsFinal

(* In a shared loop, a task that does not run is at one of its awaits, and *)
(* one that was replaced sends nothing.                                    *)
Awaiting == {"new", "await", "top", "receipts", "done"}

OthersAwait == \A t \in Txs : t # running => pc[t] \in Awaiting

ReplacedDoNotSend == \A t \in Txs : replaced[t] => pc[t] \notin Sending

(* The last price of a replacement is up to what its target has sent.      *)
TargetBeaten ==
    \A t \in Txs : Target[t] # None /\ pc[t] \in Borrowed \ {"borrow"} =>
        \A g \in accepted : g.owner = Target[t] =>
            /\ OrBeats(gas_price_last[t], g.price)
            /\ pc[t] \in Sending => Beats(gas_price_last[t], g.price)

LoopInv == OthersAwait /\ ReplacedDoNotSend /\ SentAreWatched /\ TargetBeaten

-----------------------------------------------------------------------------
(* What the steps change.                                                  *)

(* A step of t changes no other transaction, but may mark one as replaced. *)
LEMMA Others ==
    ASSUME TypeInv, NEW t \in Txs, Call(t) \/ Step(t) \/ RpcError(t), NEW u \in Txs \ {t}
    PROVE  /\ pc'[u] = pc[u] /\ outcome'[u] = outcome[u] /\ receipt'[u] = receipt[u]
           /\ nonce'[u] = nonce[u] /\ origin'[u] = origin[u]
           /\ tx_hashes'[u] = tx_hashes[u] /\ gas_price_last'[u] = gas_price_last[u]
           /\ replaced[u] => replaced'[u]
  <1> USE DEF TypeInv, TypeOK, ControlTypeOK, AttributeTypeOK, At, Goto, Finish,
              controlVars, attributes
  <1>1. CASE Call(t) BY <1>1 DEF Call
  <1>2. CASE InitNonce(t) BY <1>2 DEF InitNonce
  <1>3. CASE Estimate(t) BY <1>3 DEF Estimate
  <1>4. CASE BorrowNonce(t)
    <2>1. outcome' = outcome /\ receipt' = receipt
      BY <1>4 DEF BorrowNonce
    <2>2. \/ UNCHANGED attributes /\ pc' = pc
          \/ /\ replaced' = [replaced EXCEPT ![Target[t]] = TRUE]
             /\ nonce' = [nonce EXCEPT ![t] = nonce[Target[t]]]
             /\ origin' = [origin EXCEPT ![t] = origin[Target[t]]]
             /\ pc' = [pc EXCEPT ![t] = "borrow"]
             /\ UNCHANGED <<gas_price_last, tx_hashes>>
      BY <1>4 DEF BorrowNonce
    <2> QED BY <2>1, <2>2
  <1>5. CASE BorrowHash(t) BY <1>5 DEF BorrowHash
  <1>6. CASE Churn(t) BY <1>6 DEF Churn
  <1>7. CASE FindReceipt(t) BY <1>7 DEF FindReceipt
  <1>8. CASE Lock(t) BY <1>8 DEF Lock
  <1>9. CASE Trap(t) BY <1>9 DEF Trap
  <1>10. CASE Send(t) BY <1>10 DEF Send, SendFailed
  <1>11. CASE RpcError(t) BY <1>11 DEF RpcError
  <1> QED BY <1>1, <1>2, <1>3, <1>4, <1>5, <1>6, <1>7, <1>8, <1>9, <1>10, <1>11 DEF Step

(* A step leads into the loop or out of it, never back to the beginning,   *)
(* and only borrowing and taking the lock set a nonce.                     *)
LEMMA OwnControl ==
    ASSUME TypeInv, NEW t \in Txs, Call(t) \/ Step(t) \/ RpcError(t)
    PROVE  /\ pc'[t] \in NotStarted \cup {"borrow"} =>
                  /\ pc[t] \in NotStarted /\ tx_hashes'[t] = tx_hashes[t]
           /\ pc'[t] \in NotStarted => nonce'[t] = nonce[t]
           /\ pc'[t] = "borrow" => BorrowNonce(t)
           /\ \/ nonce'[t] = nonce[t] /\ origin'[t] = origin[t]
              \/ BorrowNonce(t) /\ pc[t] = "await"
              \/ Lock(t) /\ nonce[t] = None
           /\ outcome'[t] # outcome[t] => pc'[t] = "done"
           /\ pc[t] # "done"
  <1> USE DEF TypeInv, TypeOK, ControlTypeOK, AttributeTypeOK, At, Goto, Finish,
              controlVars, attributes, NotStarted
  <1>1. CASE Call(t) BY <1>1 DEF Call
  <1>2. CASE InitNonce(t) BY <1>2 DEF InitNonce
  <1>3. CASE Estimate(t) BY <1>3 DEF Estimate
  <1>4. CASE BorrowNonce(t)
    <2>1. pc[t] = "await" /\ outcome' = outcome
      BY <1>4 DEF BorrowNonce
    <2>2. \/ UNCHANGED <<pc, nonce, tx_hashes>>
          \/ pc' = [pc EXCEPT ![t] = "borrow"] /\ UNCHANGED tx_hashes
      BY <1>4 DEF BorrowNonce
    <2>3. pc'[t] \in {"await", "borrow"} /\ tx_hashes'[t] = tx_hashes[t]
          /\ (pc'[t] = "await" => nonce'[t] = nonce[t])
      BY <2>1, <2>2
    <2> QED BY <1>4, <2>1, <2>3
  <1>5. CASE BorrowHash(t) BY <1>5 DEF BorrowHash
  <1>6. CASE Churn(t) BY <1>6 DEF Churn
  <1>7. CASE FindReceipt(t) BY <1>7 DEF FindReceipt
  <1>8. CASE Lock(t) BY <1>8 DEF Lock
  <1>9. CASE Trap(t) BY <1>9 DEF Trap
  <1>10. CASE Send(t) BY <1>10 DEF Send, SendFailed
  <1>11. CASE RpcError(t) BY <1>11 DEF RpcError
  <1> QED BY <1>1, <1>2, <1>3, <1>4, <1>5, <1>6, <1>7, <1>8, <1>9, <1>10, <1>11 DEF Step

(* The hashes that t watches are kept, or borrowed, or one more.           *)
LEMMA OwnHashes ==
    ASSUME TypeInv, NEW t \in Txs, Call(t) \/ Step(t) \/ RpcError(t)
    PROVE  \/ tx_hashes'[t] = tx_hashes[t]
           \/ /\ BorrowHash(t) /\ Target[t] \in Txs /\ tx_hashes[Target[t]] # <<>>
              /\ tx_hashes'[t] = <<tx_hashes[Target[t]][Len(tx_hashes[Target[t]])]>>
           \/ Send(t) /\ tx_hashes'[t] = Append(tx_hashes[t], HashOf(t))
  <1> USE DEF TypeInv, TypeOK, AttributeTypeOK, At, attributes
  <1>1. CASE BorrowHash(t)
    <2>1. Target[t] \in Txs
      BY <1>1, TransactAssumption DEF BorrowHash, WellFormed
    <2> QED BY <1>1, <2>1 DEF BorrowHash
  <1>2. CASE Send(t)
    BY <1>2 DEF Send, SendFailed
  <1>3. CASE ~BorrowHash(t) /\ ~Send(t)
    BY <1>3 DEF Step, Call, InitNonce, Estimate, BorrowNonce, Churn, FindReceipt, Lock, Trap, RpcError
  <1> QED BY <1>1, <1>2, <1>3

(* A receipt is one of a watched hash.                                     *)
LEMMA OwnReceipt ==
    ASSUME TypeInv, NEW t \in Txs, Call(t) \/ Step(t) \/ RpcError(t)
    PROVE  \/ receipt'[t] \in {receipt[t], None}
           \/ \E i \in DOMAIN tx_hashes[t] :
                 receipt'[t] = tx_hashes[t][i] /\ Succeeded(tx_hashes[t][i])
  <1> USE DEF TypeInv, TypeOK, ControlTypeOK, At, Goto, Finish, controlVars
  <1>1. CASE FindReceipt(t) BY <1>1 DEF FindReceipt, WatchedHashes, Successful
  <1>2. CASE Churn(t) BY <1>2 DEF Churn
  <1>3. CASE Send(t) BY <1>3 DEF Send, SendFailed
  <1>4. CASE ~FindReceipt(t) /\ ~Churn(t) /\ ~Send(t)
    BY <1>4 DEF Step, Call, InitNonce, Estimate, BorrowNonce, BorrowHash, Lock, Trap, RpcError
  <1> QED BY <1>1, <1>2, <1>3, <1>4

(* What has succeeded stays so.                                            *)
LEMMA SuccessStays ==
    ASSUME TypeInv, Node \/ UNCHANGED chain, NEW h, Succeeded(h)
    PROVE  Succeeded(h)'
  <1>1. chain' = chain \/ \E e : chain' = Append(chain, e)
    BY DEF Node, NodeNext, Mine, Index, Drop, Foreign
  <1> QED BY <1>1 DEF Succeeded, TypeInv, TypeOK, NodeTypeOK

-----------------------------------------------------------------------------
(* Nonces, watched hashes and receipts.                                    *)

(* The nonce that a transaction has is final, and so is its origin.        *)
LEMMA NumbersFinal ==
    ASSUME TypeInv, UnstartedHasNothing, NEW t \in Txs, Call(t) \/ Step(t) \/ RpcError(t),
           NEW u \in Txs, nonce[u] # None
    PROVE  nonce'[u] = nonce[u] /\ origin'[u] = origin[u]
  BY Others, OwnControl DEF UnstartedHasNothing, NotStarted

(* Kin, in the next state. *)
KinNext(h, t) == /\ h.owner \in Txs
                 /\ h.nonce = nonce'[t] /\ nonce'[h.owner] = nonce'[t]
                 /\ origin'[h.owner] = origin'[t]

LEMMA KinStays ==
    ASSUME TypeInv, UnstartedHasNothing, NEW t \in Txs, Call(t) \/ Step(t) \/ RpcError(t),
           NEW u \in Txs, NEW h \in Hash, Kin(h, u)
    PROVE  KinNext(h, u)
  <1>1. h.owner \in Txs /\ nonce[u] # None /\ nonce[h.owner] # None
    BY NodeAssumption DEF Kin, Hash
  <1>2. nonce'[u] = nonce[u] /\ origin'[u] = origin[u]
    BY <1>1, NumbersFinal
  <1>3. nonce'[h.owner] = nonce[h.owner] /\ origin'[h.owner] = origin[h.owner]
    BY <1>1, NumbersFinal
  <1> QED BY <1>1, <1>2, <1>3 DEF Kin, KinNext

LEMMA KinStep ==
    ASSUME TypeInv, KinInv, NEW t \in Txs, Call(t) \/ Step(t) \/ RpcError(t)
    PROVE  KinInv'
  <1> USE DEF KinInv
  <1>1. UnstartedHasNothing'
    <2> SUFFICES ASSUME NEW u \in Txs
                 PROVE  /\ pc'[u] \in NotStarted => nonce'[u] = None
                        /\ pc'[u] \in NotStarted \cup {"borrow"} =>
                              tx_hashes'[u] = <<>> /\ \A h \in accepted' : h.owner # u
      BY DEF UnstartedHasNothing
    <2>1. /\ pc'[u] \in NotStarted => pc[u] \in NotStarted /\ nonce'[u] = nonce[u]
          /\ pc'[u] \in NotStarted \cup {"borrow"} =>
                pc[u] \in NotStarted \cup {"borrow"} /\ tx_hashes'[u] = tx_hashes[u]
      BY Others, OwnControl DEF NotStarted
    <2>2. \A h \in accepted' \ accepted : h.owner = t /\ Send(t)
      BY StepEffect, SendEffect
    <2>3. Send(t) => pc'[t] \notin NotStarted \cup {"borrow"}
      BY SendEffect DEF NotStarted
    <2> QED BY <2>1, <2>2, <2>3 DEF UnstartedHasNothing
  <1>2. SentWithOwnNonce'
    <2>1. \A h \in accepted : h.owner # None => h.owner \in Txs /\ h.nonce # None
      BY NodeAssumption DEF TypeInv, TypeOK, NodeTypeOK, Hash
    <2>2. \A h \in accepted : h.owner # None => nonce'[h.owner] = h.nonce
      BY <2>1, NumbersFinal DEF SentWithOwnNonce
    <2>3. \A h \in accepted' \ accepted : h.owner = t /\ h.nonce = nonce[t] /\ nonce'[t] = nonce[t]
      BY StepEffect, SendEffect
    <2> QED BY <2>2, <2>3 DEF SentWithOwnNonce
  <1>3. BorrowsWhole'
    <2> SUFFICES ASSUME NEW u \in Txs, pc'[u] = "borrow"
                 PROVE  /\ nonce'[u] = nonce'[Target[u]] /\ origin'[u] = origin'[Target[u]]
                        /\ nonce'[Target[u]] # None \/ pc'[Target[u]] = "done"
      BY DEF BorrowsWhole
    <2> DEFINE o == Target[u]
    <2>1. CASE u # t
      <3>1. pc[u] = "borrow" /\ nonce'[u] = nonce[u] /\ origin'[u] = origin[u]
        BY <2>1, Others
      <3>2. /\ nonce[u] = nonce[o] /\ origin[u] = origin[o]
            /\ nonce[o] # None \/ pc[o] = "done"
        BY <3>1 DEF BorrowsWhole
      <3>3. o \in Txs
        BY <3>1, TransactAssumption DEF TypeInv, WellFormed
      <3>4. nonce'[o] = nonce[o] /\ origin'[o] = origin[o] /\ (nonce[o] = None => pc'[o] = "done")
        <4>1. CASE nonce[o] # None
          BY <3>3, <4>1, NumbersFinal
        <4>2. CASE nonce[o] = None
          <5>1. pc[o] = "done"
            BY <3>2, <4>2
          <5>2. o # t
            BY <5>1, OwnControl
          <5> QED BY <3>3, <5>1, <5>2, Others
        <4> QED BY <4>1, <4>2
      <3> QED BY <3>1, <3>2, <3>4
    <2>2. CASE u = t
      <3>1. BorrowNonce(t)
        BY <2>2, OwnControl
      <3>2. o \in Txs /\ pc[t] = "await"
        BY <2>2, <3>1, TransactAssumption DEF TypeInv, WellFormed, BorrowNonce, At
      <3>3. /\ nonce' = [nonce EXCEPT ![t] = nonce[o]]
            /\ origin' = [origin EXCEPT ![t] = origin[o]]
            /\ nonce[o] # None \/ Status(o) = "FINISHED"
        BY <2>2, <3>1, <3>2 DEF BorrowNonce, controlVars
      <3>4. o # t
        BY <3>2, <3>3 DEF UnstartedHasNothing, NotStarted, Status
      <3>5. nonce[o] = None => pc[o] = "done"
        BY <3>3 DEF Status
      <3> QED BY <2>2, <3>2, <3>3, <3>4, <3>5, Others DEF TypeInv, TypeOK, AttributeTypeOK
    <2> QED BY <2>1, <2>2
  <1>4. WatchedAreKin'
    <2> SUFFICES ASSUME NEW u \in Txs, NEW i \in DOMAIN tx_hashes'[u]
                 PROVE  KinNext(tx_hashes'[u][i], u)
      BY DEF WatchedAreKin, Kin, KinNext
    <2>0. \A v \in Txs : tx_hashes[v] \in Seq(Hash)
      BY DEF TypeInv, TypeOK, AttributeTypeOK
    <2>1. ASSUME NEW j \in DOMAIN tx_hashes[u], tx_hashes'[u][i] = tx_hashes[u][j]
          PROVE  KinNext(tx_hashes'[u][i], u)
      <3>1. Kin(tx_hashes[u][j], u) /\ tx_hashes[u][j] \in Hash
        BY <2>0 DEF WatchedAreKin
      <3> QED BY <2>1, <3>1, KinStays
    <2>2. CASE tx_hashes'[u] = tx_hashes[u]
      BY <2>1, <2>2
    <2>3. CASE u = t /\ Send(t) /\ tx_hashes'[t] = Append(tx_hashes[t], HashOf(t))
      <3>1. nonce[t] # None /\ nonce'[t] = nonce[t]
        BY <2>3, SendEffect DEF TypeInv, WellFormed
      <3>2. i \in DOMAIN tx_hashes[t] \/ tx_hashes'[t][i] = HashOf(t)
        BY <2>0, <2>3
      <3>3. i \in DOMAIN tx_hashes[t] => tx_hashes'[t][i] = tx_hashes[t][i]
        BY <2>0, <2>3
      <3>4. CASE tx_hashes'[t][i] = HashOf(t)
        BY <2>3, <3>1, <3>4 DEF KinNext, HashOf
      <3> QED BY <2>1, <2>3, <3>2, <3>3, <3>4
    <2>4. CASE /\ u = t /\ BorrowHash(t) /\ Target[t] \in Txs /\ tx_hashes[Target[t]] # <<>>
               /\ tx_hashes'[t] = <<tx_hashes[Target[t]][Len(tx_hashes[Target[t]])]>>
      <3> DEFINE o == Target[t]
                 g == tx_hashes[o][Len(tx_hashes[o])]
      <3>1. Len(tx_hashes[o]) \in DOMAIN tx_hashes[o] /\ tx_hashes'[u][i] = g
        BY <2>0, <2>4
      <3>2. Kin(g, o) /\ g \in Hash
        BY <2>0, <2>4, <3>1 DEF WatchedAreKin
      <3>3. nonce[t] = nonce[o] /\ origin[t] = origin[o]
        BY <2>4 DEF BorrowHash, At, BorrowsWhole
      <3>4. Kin(g, t)
        BY <3>2, <3>3 DEF Kin
      <3> QED BY <2>4, <3>1, <3>2, <3>4, KinStays
    <2> QED BY <2>2, <2>3, <2>4, Others, OwnHashes
  <1>5. ReceiptOfKin'
    <2> SUFFICES ASSUME NEW u \in Txs, receipt'[u] # None
                 PROVE  \E h \in Hash : receipt'[u] = h /\ Succeeded(h)' /\ KinNext(h, u)
      BY DEF ReceiptOfKin, Succeeded, Kin, KinNext
    <2>1. PICK h \in Hash : receipt'[u] = h /\ Succeeded(h) /\ Kin(h, u)
      <3>1. CASE receipt'[u] = receipt[u]
        BY <3>1 DEF ReceiptOfKin, TypeInv, TypeOK, ControlTypeOK
      <3>2. CASE u = t /\ \E i \in DOMAIN tx_hashes[t] :
                     receipt'[t] = tx_hashes[t][i] /\ Succeeded(tx_hashes[t][i])
        BY <3>2 DEF WatchedAreKin, TypeInv, TypeOK, AttributeTypeOK
      <3> QED BY <3>1, <3>2, Others, OwnReceipt
    <2>2. KinNext(h, u)
      BY <2>1, KinStays
    <2>3. Succeeded(h)'
      BY <2>1, StepEffect, SuccessStays
    <2> QED BY <2>1, <2>2, <2>3
  <1> QED BY <1>1, <1>2, <1>3, <1>4, <1>5

LEMMA KinNode == ASSUME TypeInv, KinInv, Node PROVE KinInv'
  <1>1. UNCHANGED <<pc, receipt, nonce, origin, tx_hashes>>
    BY DEF Node, controlVars, attributes
  <1>2. UnstartedHasNothing' /\ SentWithOwnNonce' /\ BorrowsWhole' /\ WatchedAreKin'
    BY <1>1, NodeEffect, NodeAssumption
       DEF KinInv, UnstartedHasNothing, SentWithOwnNonce, BorrowsWhole, WatchedAreKin, Kin
  <1>3. ReceiptOfKin'
    <2> SUFFICES ASSUME NEW t \in Txs, receipt[t] # None
                 PROVE  \E h : receipt[t] = h /\ Succeeded(h)' /\ Kin(h, t)
      BY <1>1 DEF ReceiptOfKin, Kin, Succeeded
    <2>1. PICK h : receipt[t] = h /\ Succeeded(h) /\ Kin(h, t)
      BY DEF KinInv, ReceiptOfKin
    <2> QED BY <2>1, SuccessStays
  <1> QED BY <1>2, <1>3 DEF KinInv

LEMMA KinInit == Init => KinInv
  <1> SUFFICES ASSUME Init PROVE KinInv
    OBVIOUS
  <1>1. /\ accepted = {}
        /\ pc = [t \in Txs |-> "new"] /\ receipt = [t \in Txs |-> None]
        /\ nonce = [t \in Txs |-> None] /\ tx_hashes = [t \in Txs |-> <<>>]
    BY DEF Init, ProcessInit, NodeInit
  <1> QED BY <1>1 DEF KinInv, UnstartedHasNothing, SentWithOwnNonce, BorrowsWhole,
                     WatchedAreKin, ReceiptOfKin

(* A stuttering step keeps what is said of the variables.                  *)
LEMMA KinStutter == ASSUME KinInv, UNCHANGED vars PROVE KinInv'
  BY DEF vars, nodeVars, controlVars, attributes, KinInv, UnstartedHasNothing, SentWithOwnNonce,
         BorrowsWhole, WatchedAreKin, ReceiptOfKin, Kin, Succeeded

(* What a transaction watches or returns has its nonce, and its sender has *)
(* that nonce from the same origin.                                        *)
THEOREM WatchedIsKin == Spec => []KinInv
  <1>1. TypeInv /\ KinInv /\ [Next]_vars => KinInv'
    BY KinNode, KinStep, KinStutter DEF Next
  <1> QED BY <1>1, KinInit, TypeCorrect, PTL DEF Spec

(* A returned receipt is of a successful transaction with the nonce of the *)
(* object; only its replacements and its target can have the same.         *)
THEOREM ReceiptsAreSound == Spec => []ReceiptIsSound
  <1>1. KinInv => ReceiptIsSound
    BY DEF KinInv, ReceiptOfKin, Kin, ReceiptIsSound
  <1> QED BY <1>1, WatchedIsKin, PTL

-----------------------------------------------------------------------------
(* Prices.                                                                 *)

LEMMA PriceTypes ==
    ASSUME TypeInv, NEW v \in Txs
    PROVE  /\ tx_hashes[v] \in Seq(Hash)
           /\ gas_price_last[v] \in Price \cup {None, 0}
           /\ \A i \in DOMAIN tx_hashes[v] : tx_hashes[v][i].price \in Price \cup {None, 0}
  <1>1. tx_hashes[v] \in Seq(Hash) /\ gas_price_last[v] \in Price \cup {None, 0}
    BY DEF TypeInv, TypeOK, AttributeTypeOK
  <1>2. \A i \in DOMAIN tx_hashes[v] : tx_hashes[v][i] \in Hash
    BY <1>1
  <1>3. \A h \in Hash : h.price \in Price \cup {None, 0}
    BY DEF Hash
  <1> QED BY <1>1, <1>2, <1>3

(* Beating is transitive.                                                  *)
LEMMA BeatsAgain ==
    ASSUME NEW x, NEW y, NEW z, x \in Price \cup {None, 0}, y \in Price \cup {None, 0},
           z \in Price \cup {None, 0}, Beats(x, y), OrBeats(y, z)
    PROVE  Beats(x, z)
  <1>1. CASE y = z
    BY <1>1
  <1>2. CASE Beats(y, z)
    <2>1. x \in Nat /\ y \in Nat /\ z \in Nat
      BY <1>2, NodeAssumption DEF Beats
    <2> QED BY <1>2, <2>1, NodeAssumption DEF Beats
  <1> QED BY <1>1, <1>2 DEF OrBeats

(* The last price is kept, or borrowed, or is a new one for the next bid.  *)
LEMMA OwnPrice ==
    ASSUME TypeInv, NEW t \in Txs, Call(t) \/ Step(t) \/ RpcError(t)
    PROVE  \/ /\ gas_price_last'[t] = gas_price_last[t]
              /\ pc'[t] \in Sending => pc[t] \in Sending
              /\ ~BorrowHash(t)
           \/ /\ BorrowHash(t) /\ Target[t] \in Txs
              /\ gas_price_last'[t] = gas_price_last[Target[t]]
              /\ pc[t] = "borrow" /\ pc'[t] = "top"
           \/ /\ UNCHANGED <<accepted, tx_hashes, replaced>>
              /\ pc[t] = "top" /\ ~replaced[t] /\ ~BorrowHash(t)
              /\ Beats(gas_price_last'[t], gas_price_last[t]) \/ ~WasSent(t)
  <1> USE DEF TypeInv, TypeOK, ControlTypeOK, AttributeTypeOK, At, Goto, Finish,
              controlVars, attributes, Sending
  <1>1. CASE BorrowHash(t)
    <2>1. Target[t] \in Txs /\ pc[t] = "borrow"
      BY <1>1, TransactAssumption DEF BorrowHash, WellFormed
    <2> QED BY <1>1, <2>1 DEF BorrowHash, BorrowedPrice
  <1>2. CASE Churn(t)
    <2>1. /\ pc[t] = "top" /\ UNCHANGED <<accepted, tx_hashes, replaced>>
          /\ ~BorrowHash(t)
      BY <1>2 DEF Churn, BorrowHash, nodeVars
    <2>2. \/ UNCHANGED gas_price_last /\ pc'[t] \in {"receipts", "done", "top"}
          \/ /\ ~replaced[t]
             /\ \E value \in gas_price[t] :
                   /\ gas_price_last' = [gas_price_last EXCEPT ![t] = value]
                   /\ ~WasSent(t) \/ (value # None /\ gas_price_last[t] # None
                                      /\ Exceeds(value, gas_price_last[t]))
      BY <1>2 DEF Churn
    <2>3. CASE UNCHANGED gas_price_last /\ pc'[t] \in {"receipts", "done", "top"}
      BY <2>1, <2>3
    <2>4. CASE /\ ~replaced[t]
               /\ \E value \in gas_price[t] :
                   /\ gas_price_last' = [gas_price_last EXCEPT ![t] = value]
                   /\ ~WasSent(t) \/ (value # None /\ gas_price_last[t] # None
                                      /\ Exceeds(value, gas_price_last[t]))
      BY <2>1, <2>4 DEF Beats, Exceeds
    <2> QED BY <2>2, <2>3, <2>4
  <1>3. CASE Call(t) BY <1>3 DEF Call, BorrowHash
  <1>4. CASE InitNonce(t) BY <1>4 DEF InitNonce, BorrowHash
  <1>5. CASE Estimate(t) BY <1>5 DEF Estimate, BorrowHash
  <1>6. CASE BorrowNonce(t) BY <1>6 DEF BorrowNonce, BorrowHash
  <1>7. CASE FindReceipt(t) BY <1>7 DEF FindReceipt, BorrowHash
  <1>8. CASE Lock(t) BY <1>8 DEF Lock, BorrowHash
  <1>9. CASE Trap(t) BY <1>9 DEF Trap, BorrowHash
  <1>10. CASE Send(t) BY <1>10 DEF Send, SendFailed, BorrowHash
  <1>11. CASE RpcError(t) BY <1>11 DEF RpcError, BorrowHash
  <1> QED BY <1>1, <1>2, <1>3, <1>4, <1>5, <1>6, <1>7, <1>8, <1>9, <1>10, <1>11 DEF Step

LEMMA PriceStep ==
    ASSUME TypeInv, KinInv, PriceInv, NEW t \in Txs, Call(t) \/ Step(t) \/ RpcError(t)
    PROVE  PriceInv'
  <1> USE DEF PriceInv
  <1>0. \A v \in Txs : /\ tx_hashes[v] \in Seq(Hash)
                       /\ gas_price_last[v] \in Price \cup {None, 0}
                       /\ \A i \in DOMAIN tx_hashes[v] : tx_hashes[v][i].price \in Price \cup {None, 0}
    BY PriceTypes
  <1>1. gas_price_last'[t] \in Price \cup {None, 0}
    BY TypeStep DEF TypeInv, TypeOK, AttributeTypeOK
  <1>2. \A i \in DOMAIN tx_hashes'[t] :
            /\ OrBeats(gas_price_last'[t], tx_hashes'[t][i].price)
            /\ pc'[t] \in Sending => Beats(gas_price_last'[t], tx_hashes'[t][i].price)
    <2> SUFFICES ASSUME NEW i \in DOMAIN tx_hashes'[t]
                 PROVE  /\ OrBeats(gas_price_last'[t], tx_hashes'[t][i].price)
                        /\ pc'[t] \in Sending => Beats(gas_price_last'[t], tx_hashes'[t][i].price)
      OBVIOUS
    <2>1. CASE BorrowHash(t)
      <3> DEFINE o == Target[t]
      <3>1. o \in Txs /\ gas_price_last'[t] = gas_price_last[o] /\ pc[t] = "borrow" /\ pc'[t] = "top"
        BY <2>1, OwnPrice
      <3>2. tx_hashes[t] = <<>>
        BY <3>1 DEF KinInv, UnstartedHasNothing
      <3>3. /\ tx_hashes[o] # <<>>
            /\ tx_hashes'[t] = <<tx_hashes[o][Len(tx_hashes[o])]>>
        <4>1. ~Send(t)
          BY <3>1, SendEffect
        <4> QED BY <3>2, <4>1, OwnHashes
      <3>4. Len(tx_hashes[o]) \in DOMAIN tx_hashes[o] /\ tx_hashes'[t][i] = tx_hashes[o][Len(tx_hashes[o])]
        BY <1>0, <3>1, <3>3
      <3>5. OrBeats(gas_price_last[o], tx_hashes[o][Len(tx_hashes[o])].price)
        BY <3>1, <3>4 DEF PricesBeaten
      <3> QED BY <3>1, <3>4, <3>5 DEF Sending
    <2>2. CASE Send(t)
      <3>1. pc[t] = "send" /\ pc'[t] \notin Sending /\ gas_price_last'[t] = gas_price_last[t]
        BY <2>2, SendEffect, OwnPrice DEF Send, Sending
      <3>2. CASE tx_hashes'[t] = tx_hashes[t]
        BY <3>1, <3>2 DEF PricesBeaten
      <3>3. CASE tx_hashes'[t] = Append(tx_hashes[t], HashOf(t))
        <4>1. i \in DOMAIN tx_hashes[t] => tx_hashes'[t][i] = tx_hashes[t][i]
          BY <1>0, <3>3
        <4>2. i \notin DOMAIN tx_hashes[t] => tx_hashes'[t][i] = HashOf(t)
          BY <1>0, <3>3
        <4>3. HashOf(t).price = gas_price_last[t]
          BY DEF HashOf
        <4> QED BY <3>1, <4>1, <4>2, <4>3 DEF PricesBeaten, OrBeats
      <3>4. ~BorrowHash(t)
        BY <3>1 DEF BorrowHash, At
      <3> QED BY <3>2, <3>3, <3>4, OwnHashes
    <2>3. CASE ~BorrowHash(t) /\ ~Send(t)
      <3>1. tx_hashes'[t] = tx_hashes[t]
        BY <2>3, OwnHashes
      <3>2. CASE gas_price_last'[t] = gas_price_last[t] /\ (pc'[t] \in Sending => pc[t] \in Sending)
        BY <3>1, <3>2 DEF PricesBeaten
      <3>3. CASE Beats(gas_price_last'[t], gas_price_last[t]) \/ ~WasSent(t)
        <4>1. WasSent(t)
          BY <1>0, <3>1 DEF WasSent
        <4>2. OrBeats(gas_price_last[t], tx_hashes[t][i].price)
          BY <3>1 DEF PricesBeaten
        <4>3. Beats(gas_price_last'[t], tx_hashes[t][i].price)
          BY <1>0, <1>1, <3>1, <3>3, <4>1, <4>2, BeatsAgain
        <4> QED BY <3>1, <4>3 DEF OrBeats
      <3> QED BY <2>3, <3>2, <3>3, OwnPrice
    <2> QED BY <2>1, <2>2, <2>3
  <1>3. PricesBeaten'
    BY <1>2, Others DEF PricesBeaten, OrBeats, Beats
  <1>4. \A i \in 1 .. Len(tx_hashes'[t]) - 1 : Beats(tx_hashes'[t][i + 1].price, tx_hashes'[t][i].price)
    <2>1. CASE tx_hashes'[t] = tx_hashes[t]
      BY <2>1 DEF WatchedBidsGrow
    <2>2. ASSUME NEW h, tx_hashes'[t] = <<h>>
          PROVE  \A i \in 1 .. Len(tx_hashes'[t]) - 1 :
                     Beats(tx_hashes'[t][i + 1].price, tx_hashes'[t][i].price)
      <3>1. Len(tx_hashes'[t]) - 1 = 0
        BY <2>2
      <3> QED BY <3>1
    <2>3. CASE Send(t) /\ tx_hashes'[t] = Append(tx_hashes[t], HashOf(t))
      <3> SUFFICES ASSUME NEW i \in 1 .. Len(tx_hashes'[t]) - 1
                   PROVE  Beats(tx_hashes'[t][i + 1].price, tx_hashes'[t][i].price)
        OBVIOUS
      <3>1. /\ tx_hashes[t] \in Seq(Hash)
            /\ Len(tx_hashes'[t]) = Len(tx_hashes[t]) + 1
            /\ \A j \in 1 .. Len(tx_hashes[t]) : tx_hashes'[t][j] = tx_hashes[t][j]
            /\ tx_hashes'[t][Len(tx_hashes[t]) + 1] = HashOf(t)
        BY <1>0, <2>3
      <3>2. PICK n \in Nat : n = Len(tx_hashes[t]) /\ DOMAIN tx_hashes[t] = 1 .. n
        BY <3>1
      <3>3. i \in 1 .. n /\ i + 1 \in 1 .. n + 1
        BY ONLY <3>1, <3>2, n \in Nat, i \in 1 .. Len(tx_hashes'[t]) - 1
      <3>4. tx_hashes'[t][i] = tx_hashes[t][i]
        BY ONLY <3>1, <3>2, <3>3
      <3>5. ASSUME i + 1 \in 1 .. n PROVE tx_hashes'[t][i + 1] = tx_hashes[t][i + 1]
        BY ONLY <3>1, <3>2, <3>5
      <3>6. ASSUME i + 1 \notin 1 .. n PROVE tx_hashes'[t][i + 1] = HashOf(t)
        <4>1. i + 1 = n + 1
          BY ONLY <3>3, <3>6, n \in Nat
        <4> QED BY ONLY <3>1, <3>2, <4>1
      <3>7. /\ i \in DOMAIN tx_hashes[t] /\ tx_hashes'[t][i] = tx_hashes[t][i]
            /\ i + 1 \in DOMAIN tx_hashes[t] => tx_hashes'[t][i + 1] = tx_hashes[t][i + 1]
            /\ i + 1 \notin DOMAIN tx_hashes[t] => tx_hashes'[t][i + 1] = HashOf(t)
        BY <3>2, <3>3, <3>4, <3>5, <3>6
      <3>8. CASE i + 1 \in DOMAIN tx_hashes[t]
        BY <1>0, <3>7, <3>8 DEF WatchedBidsGrow
      <3>9. CASE i + 1 \notin DOMAIN tx_hashes[t]
        <4>1. pc[t] \in Sending
          BY <2>3, SendEffect DEF Sending
        <4>2. HashOf(t).price = gas_price_last[t]
          BY DEF HashOf
        <4> QED BY <3>7, <3>9, <4>1, <4>2 DEF PricesBeaten
      <3> QED BY <3>8, <3>9
    <2> QED BY <2>1, <2>2, <2>3, OwnHashes
  <1>5. WatchedBidsGrow'
    <2> SUFFICES ASSUME NEW u \in Txs, NEW i \in 1 .. Len(tx_hashes'[u]) - 1
                 PROVE  Beats(tx_hashes'[u][i + 1].price, tx_hashes'[u][i].price)
      BY DEF WatchedBidsGrow, Beats
    <2>1. CASE u # t
      BY <2>1, Others DEF WatchedBidsGrow
    <2> QED BY <1>4, <2>1
  <1> QED BY <1>3, <1>5

(* Each bid that a transaction watches beats the one before it by more     *)
(* than 12.5%, the borrowed one included.                                  *)
THEOREM BidsGrow == Spec => [](PricesBeaten /\ WatchedBidsGrow)
  <1>1. Init => PriceInv
    <2>1. Init => tx_hashes = [t \in Txs |-> <<>>]
      BY DEF Init, ProcessInit
    <2> QED BY <2>1 DEF PriceInv, PricesBeaten, WatchedBidsGrow
  <1>2. TypeInv /\ KinInv /\ PriceInv /\ [Next]_vars => PriceInv'
    <2> SUFFICES ASSUME TypeInv, KinInv, PriceInv, [Next]_vars PROVE PriceInv'
      OBVIOUS
    <2>1. CASE Node \/ UNCHANGED vars
      BY <2>1 DEF Node, vars, controlVars, attributes, PriceInv, PricesBeaten, WatchedBidsGrow,
                  OrBeats, Beats
    <2> QED BY <2>1, PriceStep DEF Next
  <1> QED BY <1>1, <1>2, TypeCorrect, WatchedIsKin, PTL DEF Spec, PriceInv

-----------------------------------------------------------------------------
(* Failures.                                                               *)

(* An answer that is not lost tells the transaction what it has sent.      *)
LEMMA SentIsWatched ==
    ASSUME TypeInv, "lost" \notin Faults, NEW t \in Txs, Call(t) \/ Step(t) \/ RpcError(t),
           NEW h \in accepted' \ accepted
    PROVE  /\ h = HashOf(t) /\ h.owner = t /\ pc[t] = "send"
           /\ tx_hashes'[t] = Append(tx_hashes[t], h)
  <1>1. Send(t) /\ h = HashOf(t) /\ h.owner = t /\ pc[t] = "send"
    BY StepEffect, SendEffect
  <1>2. tx_hashes' = [tx_hashes EXCEPT ![t] = Append(tx_hashes[t], HashOf(t))]
    BY <1>1 DEF Send, Refuse, Fault
  <1> QED BY <1>1, <1>2 DEF TypeInv, TypeOK, AttributeTypeOK

LEMMA WatchedStep ==
    ASSUME TypeInv, KinInv, SentAreWatched, "lost" \notin Faults,
           NEW t \in Txs, Call(t) \/ Step(t) \/ RpcError(t)
    PROVE  SentAreWatched'
  <1> SUFFICES ASSUME NEW h \in accepted', h.owner # None
               PROVE  \E i \in DOMAIN tx_hashes'[h.owner] : tx_hashes'[h.owner][i] = h
    BY DEF SentAreWatched
  <1>0. tx_hashes[t] \in Seq(Hash)
    BY PriceTypes
  <1>1. CASE h \in accepted
    <2>1. PICK i \in DOMAIN tx_hashes[h.owner] : tx_hashes[h.owner][i] = h
      BY <1>1 DEF SentAreWatched
    <2>2. h.owner \in Txs
      BY <1>1 DEF TypeInv, TypeOK, NodeTypeOK, Hash
    <2>3. CASE h.owner # t
      BY <2>1, <2>2, <2>3, Others
    <2>4. CASE h.owner = t
      <3>1. ~BorrowHash(t)
        BY <1>1, <2>4 DEF BorrowHash, At, KinInv, UnstartedHasNothing
      <3>2. CASE tx_hashes'[t] = tx_hashes[t]
        BY <2>1, <2>4, <3>2
      <3>3. CASE tx_hashes'[t] = Append(tx_hashes[t], HashOf(t))
        BY <1>0, <2>1, <2>4, <3>3
      <3> QED BY <3>1, <3>2, <3>3, OwnHashes
    <2> QED BY <2>3, <2>4
  <1>2. CASE h \notin accepted
    <2>1. h.owner = t /\ tx_hashes'[t] = Append(tx_hashes[t], h)
      BY <1>2, SentIsWatched
    <2>2. /\ Len(tx_hashes[t]) + 1 \in DOMAIN tx_hashes'[t]
          /\ tx_hashes'[t][Len(tx_hashes[t]) + 1] = h
      BY <1>0, <2>1
    <2> QED BY <2>1, <2>2
  <1> QED BY <1>1, <1>2

LEMMA WatchedOtherwise ==
    ASSUME TypeInv, SentAreWatched, Node \/ UNCHANGED vars
    PROVE  SentAreWatched'
  BY NodeEffect DEF SentAreWatched, Node, vars, nodeVars, attributes

(* The ways in which a transaction that is not replaced reports a failure. *)
LEMMA HowItFails ==
    ASSUME TypeInv, "rpc" \notin Faults, "lost" \notin Faults,
           NEW t \in Txs, Call(t) \/ Step(t) \/ RpcError(t),
           outcome'[t] # outcome[t], outcome'[t] \in {"none", "raised"}, ~replaced'[t]
    PROVE  /\ accepted' = accepted
           /\ \/ pc[t] = "estimate"
              \/ /\ pc[t] = "receipts"
                 /\ \/ \E i \in DOMAIN tx_hashes[t] :
                          HasReceipt(tx_hashes[t][i]) /\ ~Succeeded(tx_hashes[t][i])
                    \/ \A i \in DOMAIN tx_hashes[t] : ~HasReceipt(tx_hashes[t][i])
              \/ pc[t] = "send" /\ tx_hashes[t] = <<>>
  <1> USE DEF TypeInv, TypeOK, ControlTypeOK, At, Goto, Finish, controlVars, attributes, nodeVars
  <1>1. CASE Call(t) BY <1>1 DEF Call
  <1>2. CASE InitNonce(t) BY <1>2 DEF InitNonce
  <1>3. CASE Estimate(t) BY <1>3 DEF Estimate
  <1>4. CASE BorrowNonce(t)
    <2>1. outcome' = outcome
      BY <1>4 DEF BorrowNonce
    <2> QED BY <2>1
  <1>5. CASE BorrowHash(t) BY <1>5 DEF BorrowHash
  <1>6. CASE Churn(t) BY <1>6 DEF Churn
  <1>7. CASE FindReceipt(t)
    <2>1. ~replaced[t] /\ accepted' = accepted /\ pc[t] = "receipts"
      BY <1>7 DEF FindReceipt
    <2> QED BY <1>7, <2>1 DEF FindReceipt, WatchedHashes, Successful
  <1>8. CASE Lock(t) BY <1>8 DEF Lock
  <1>9. CASE Trap(t) BY <1>9 DEF Trap, TrapReplaced
  <1>10. CASE Send(t) BY <1>10 DEF Send, SendFailed, Refuse, Fault
  <1>11. CASE RpcError(t) BY <1>11 DEF RpcError, Fault
  <1> QED BY <1>1, <1>2, <1>3, <1>4, <1>5, <1>6, <1>7, <1>8, <1>9, <1>10, <1>11 DEF Step

(* A transaction looks for receipts because its nonce is used.             *)
LEMMA WhyItLooks ==
    ASSUME TypeInv, NEW t \in Txs, Call(t) \/ Step(t) \/ RpcError(t), pc'[t] = "receipts"
    PROVE  /\ nonce'[t] = nonce[t]
           /\ pc[t] = "receipts" \/ NonceUsed(t)
  <1> USE DEF TypeInv, TypeOK, ControlTypeOK, At, Goto, Finish, controlVars, attributes
  <1>1. CASE Churn(t) BY <1>1 DEF Churn
  <1>2. CASE FindReceipt(t) BY <1>2 DEF FindReceipt
  <1>3. CASE ~Churn(t) /\ ~FindReceipt(t)
    BY <1>3 DEF Step, Call, InitNonce, Estimate, BorrowNonce, BorrowHash, Lock, Trap,
                Send, SendFailed, RpcError
  <1> QED BY <1>1, <1>2, <1>3

(* Nothing of a transaction whose nonce was mined by another, or with no   *)
(* success, can still succeed.                                             *)
LEMMA NonceIsGone ==
    ASSUME TypeInv, ChainByNonce, KinInv, SentAreWatched, indexed = Len(chain),
           NEW t \in Txs, nonce[t] # None, Len(chain) > nonce[t],
           \/ \E i \in DOMAIN tx_hashes[t] :
                 HasReceipt(tx_hashes[t][i]) /\ ~Succeeded(tx_hashes[t][i])
           \/ \A i \in DOMAIN tx_hashes[t] : ~HasReceipt(tx_hashes[t][i]),
           NEW h \in accepted, h.owner = t
    PROVE  h \notin Pool /\ ~Succeeded(h)
  <1> USE DEF TypeInv, TypeOK, NodeTypeOK
  <1>1. h.nonce = nonce[t] /\ h.nonce \in Nat
    BY NodeAssumption DEF KinInv, SentWithOwnNonce, Hash
  <1>2. h \notin Pool
    BY <1>1 DEF Pool
  <1>3. PICK j \in DOMAIN tx_hashes[t] : tx_hashes[t][j] = h
    BY NodeAssumption DEF SentAreWatched
  <1>4. ~Succeeded(h)
    <2> SUFFICES ASSUME NEW k \in 1 .. Len(chain), chain[k].hash = h, chain[k].ok
                 PROVE  FALSE
      BY DEF Succeeded
    <2>1. HasReceipt(h)
      BY DEF HasReceipt
    <2>2. PICK i \in DOMAIN tx_hashes[t] :
              HasReceipt(tx_hashes[t][i]) /\ ~Succeeded(tx_hashes[t][i])
      BY <1>3, <2>1
    <2>3. PICK m \in 1 .. Len(chain) : chain[m].hash = tx_hashes[t][i]
      BY <2>2 DEF HasReceipt
    <2>4. tx_hashes[t][i].nonce = nonce[t]
      BY DEF KinInv, WatchedAreKin, Kin
    <2>5. m - 1 = h.nonce /\ k - 1 = h.nonce
      BY <1>1, <2>3, <2>4 DEF ChainByNonce
    <2>6. m = k
      BY <2>5
    <2> QED BY <2>2, <2>3, <2>6 DEF Succeeded
  <1> QED BY <1>2, <1>4

LEMMA FailureStep ==
    ASSUME TypeInv, ChainByNonce, KinInv, FailureInv, "rpc" \notin Faults, "lost" \notin Faults,
           NEW t \in Txs, Call(t) \/ Step(t) \/ RpcError(t)
    PROVE  FailureInv'
  <1> USE DEF FailureInv
  <1>0. UNCHANGED <<chain, dropped, indexed>> /\ chain \in Seq([hash : Hash, ok : BOOLEAN])
    BY StepEffect DEF TypeInv, TypeOK, NodeTypeOK
  <1>1. SentAreWatched'
    BY WatchedStep
  <1>2. LooksWhenUsed'
    <2> SUFFICES ASSUME NEW u \in Txs, pc'[u] = "receipts"
                 PROVE  nonce'[u] # None /\ Len(chain) > nonce'[u]
      BY <1>0 DEF LooksWhenUsed
    <2>1. CASE u # t
      BY <2>1, Others DEF LooksWhenUsed
    <2>2. CASE u = t
      BY <2>2, WhyItLooks DEF LooksWhenUsed, NonceUsed, TransactionCount
    <2> QED BY <2>1, <2>2
  <1>3. EndsOnce'
    BY Others, OwnControl DEF EndsOnce
  <1>4. FailureIsFinal'
    <2> SUFFICES ASSUME NEW u \in Txs, outcome'[u] \in {"none", "raised"}, ~replaced'[u],
                        NEW h \in accepted', h.owner = u
                 PROVE  h \notin Pool' /\ ~Succeeded(h)
      BY <1>0 DEF FailureIsFinal, Succeeded
    <2>1. h \in accepted /\ h \notin Pool /\ ~Succeeded(h)
      <3>1. CASE outcome'[u] = outcome[u]
        <4>1. u # t
          BY <3>1, OwnControl DEF EndsOnce
        <4>2. outcome[u] \in {"none", "raised"} /\ ~replaced[u]
          BY <3>1, <4>1, Others
        <4>3. h \in accepted
          BY <4>1, StepEffect, SendEffect
        <4> QED BY <4>2, <4>3 DEF FailureIsFinal
      <3>2. CASE outcome'[u] # outcome[u]
        <4>1. u = t
          BY <3>2, Others
        <4>2. /\ accepted' = accepted
              /\ \/ pc[t] = "estimate"
                 \/ /\ pc[t] = "receipts"
                    /\ \/ \E i \in DOMAIN tx_hashes[t] :
                             HasReceipt(tx_hashes[t][i]) /\ ~Succeeded(tx_hashes[t][i])
                       \/ \A i \in DOMAIN tx_hashes[t] : ~HasReceipt(tx_hashes[t][i])
                 \/ pc[t] = "send" /\ tx_hashes[t] = <<>>
          BY <3>2, <4>1, HowItFails
        <4>3. pc[t] # "estimate"
          BY <4>1, <4>2 DEF KinInv, UnstartedHasNothing, NotStarted
        <4>4. tx_hashes[t] # <<>>
          BY <4>1, <4>2, NodeAssumption DEF SentAreWatched
        <4>5. pc[t] = "receipts"
          BY <4>2, <4>3, <4>4
        <4>6. nonce[t] # None /\ Len(chain) > nonce[t]
          BY <4>5 DEF LooksWhenUsed
        <4> QED BY <4>1, <4>2, <4>5, <4>6, NonceIsGone
      <3> QED BY <3>1, <3>2
    <2> QED BY <1>0, <2>1 DEF Pool
  <1> QED BY <1>0, <1>1, <1>2, <1>3, <1>4

LEMMA FailureNode ==
    ASSUME TypeInv, FailureInv, ~ReceiptLag, Node
    PROVE  FailureInv'
  <1> USE DEF FailureInv
  <1>1. UNCHANGED <<pc, outcome, replaced, nonce, tx_hashes>>
    BY DEF Node, controlVars, attributes
  <1>2. chain \in Seq([hash : Hash, ok : BOOLEAN])
    BY DEF TypeInv, TypeOK, NodeTypeOK
  <1>3. \/ UNCHANGED chain /\ indexed' = indexed
        \/ \E h \in Pool, ok \in BOOLEAN :
              /\ chain' = Append(chain, [hash |-> h, ok |-> ok])
              /\ indexed' = Len(chain') /\ UNCHANGED <<accepted, dropped>>
    <2>1. ~Index
      BY <1>2 DEF Index
    <2>2. CASE Mine
      BY <2>2 DEF Mine
    <2> QED BY <2>1, <2>2 DEF Node, NodeNext, Drop, Foreign
  <1>4. indexed' = Len(chain') /\ Len(chain') >= Len(chain) /\ Len(chain') \in Nat
    <2>1. CASE UNCHANGED chain /\ indexed' = indexed
      BY <1>2, <2>1
    <2>2. ASSUME NEW h \in Pool, NEW ok \in BOOLEAN, chain' = Append(chain, [hash |-> h, ok |-> ok])
          PROVE  Len(chain') >= Len(chain) /\ Len(chain') \in Nat
      BY <1>2, <2>2
    <2> QED BY <1>3, <2>1, <2>2
  <1>5. SentAreWatched' /\ EndsOnce'
    BY <1>1, WatchedOtherwise DEF EndsOnce
  <1>6. LooksWhenUsed'
    BY <1>1, <1>2, <1>4, NodeAssumption DEF LooksWhenUsed, TypeInv, TypeOK, AttributeTypeOK
  <1>7. FailureIsFinal'
    <2> SUFFICES ASSUME NEW u \in Txs, outcome[u] \in {"none", "raised"}, ~replaced[u],
                        NEW h \in accepted', h.owner = u
                 PROVE  h \notin Pool' /\ ~Succeeded(h)'
      BY <1>1 DEF FailureIsFinal, Succeeded
    <2>1. h \in accepted
      BY NodeEffect, NodeAssumption
    <2>2. h \notin Pool /\ ~Succeeded(h)
      BY <2>1 DEF FailureIsFinal
    <2>3. dropped \subseteq dropped'
      BY DEF Node, NodeNext, Mine, Index, Drop, Foreign
    <2>4. h.nonce \in Nat
      BY <2>1 DEF TypeInv, TypeOK, NodeTypeOK, Hash
    <2>5. h \notin Pool'
      BY <1>2, <1>4, <2>1, <2>2, <2>3, <2>4 DEF Pool
    <2>6. ~Succeeded(h)'
      <3>1. CASE UNCHANGED chain
        BY <2>2, <3>1 DEF Succeeded
      <3>2. ASSUME NEW g \in Pool, NEW ok \in BOOLEAN, chain' = Append(chain, [hash |-> g, ok |-> ok])
            PROVE  ~Succeeded(h)'
        <4>1. \A k \in 1 .. Len(chain') :
                  \/ k \in 1 .. Len(chain) /\ chain'[k] = chain[k]
                  \/ chain'[k] = [hash |-> g, ok |-> ok]
          BY <1>2, <3>2
        <4> QED BY <2>2, <4>1 DEF Succeeded
      <3> QED BY <1>3, <3>1, <3>2
    <2> QED BY <2>5, <2>6
  <1> QED BY <1>4, <1>5, <1>6, <1>7

LEMMA ChainInvariant == Spec => []ChainByNonce
  <1>1. Init => ChainByNonce
    BY DEF Init, NodeInit, ChainByNonce
  <1>2. TypeInv /\ ChainByNonce /\ [Next]_vars => ChainByNonce'
    <2> SUFFICES ASSUME TypeInv, ChainByNonce, [Next]_vars PROVE ChainByNonce'
      OBVIOUS
    <2>1. CASE Node
      BY <2>1, NodeKeepsChain
    <2>2. ASSUME NEW t \in Txs, Call(t) \/ Step(t) \/ RpcError(t) PROVE ChainByNonce'
      BY <2>2, StepEffect, ChainKept
    <2>3. CASE UNCHANGED vars
      BY <2>3 DEF vars, nodeVars, ChainByNonce
    <2> QED BY <2>1, <2>2, <2>3 DEF Next
  <1> QED BY <1>1, <1>2, TypeCorrect, PTL DEF Spec

(* When receipts come with the new count, no answer is lost and no call    *)
(* but a send fails, a transaction that was not replaced reports failure   *)
(* only when nothing it sent has succeeded or still can.                   *)
THEOREM FailuresAreFinal ==
    ASSUME ~ReceiptLag, "rpc" \notin Faults, "lost" \notin Faults
    PROVE  Spec => []FailureIsFinal
  <1>1. Init => FailureInv
    <2> SUFFICES ASSUME Init PROVE FailureInv
      OBVIOUS
    <2>1. /\ accepted = {} /\ chain = <<>> /\ indexed = 0
          /\ pc = [t \in Txs |-> "new"] /\ outcome = [t \in Txs |-> "none yet"]
      BY DEF Init, ProcessInit, NodeInit
    <2> QED BY <2>1 DEF FailureInv, SentAreWatched, LooksWhenUsed, EndsOnce, FailureIsFinal
  <1>2. TypeInv /\ ChainByNonce /\ KinInv /\ FailureInv /\ [Next]_vars => FailureInv'
    <2> SUFFICES ASSUME TypeInv, ChainByNonce, KinInv, FailureInv, [Next]_vars PROVE FailureInv'
      OBVIOUS
    <2>1. CASE UNCHANGED vars
      <3>1. UNCHANGED <<nodeVars, controlVars, attributes>>
        BY <2>1 DEF vars
      <3>2. SentAreWatched' /\ indexed' = Len(chain')
        BY <2>1, <3>1, WatchedOtherwise DEF FailureInv, nodeVars
      <3>3. LooksWhenUsed' /\ EndsOnce'
        BY <3>1 DEF nodeVars, controlVars, attributes, FailureInv, LooksWhenUsed, EndsOnce
      <3>4. Pool' = Pool /\ \A h : Succeeded(h)' = Succeeded(h)
        BY <3>1 DEF nodeVars, Pool, Succeeded
      <3>5. FailureIsFinal'
        BY <3>1, <3>4 DEF nodeVars, controlVars, attributes, FailureInv, FailureIsFinal, Succeeded
      <3> QED BY <3>2, <3>3, <3>5 DEF FailureInv
    <2> QED BY <2>1, FailureNode, FailureStep DEF Next
  <1> QED BY <1>1, <1>2, TypeCorrect, ChainInvariant, WatchedIsKin, PTL DEF Spec, FailureInv

-----------------------------------------------------------------------------
(* Bids in a shared loop.                                                  *)

(* Only the running task takes a step, and it gives up the loop only at an *)
(* await.                                                                  *)
LEMMA LoopStep ==
    ASSUME TypeInv, SharedLoop, NEW t \in Txs, Call(t) \/ Step(t) \/ RpcError(t)
    PROVE  /\ running \in {None, t} /\ running' \in {None, t}
           /\ running' = None => pc'[t] \in Awaiting
  <1> USE NodeAssumption DEF TypeInv, TypeOK, ControlTypeOK, At, MayRun, Goto, Finish, Await, Continue, Awaiting
  <1>1. CASE Call(t) BY <1>1 DEF Call
  <1>2. CASE InitNonce(t) BY <1>2 DEF InitNonce
  <1>3. CASE Estimate(t) BY <1>3 DEF Estimate
  <1>4. CASE BorrowNonce(t) BY <1>4 DEF BorrowNonce, controlVars
  <1>5. CASE BorrowHash(t) BY <1>5 DEF BorrowHash
  <1>6. CASE Churn(t) BY <1>6 DEF Churn
  <1>7. CASE FindReceipt(t) BY <1>7 DEF FindReceipt
  <1>8. CASE Lock(t) BY <1>8 DEF Lock
  <1>9. CASE Trap(t) BY <1>9 DEF Trap
  <1>10. CASE Send(t) BY <1>10 DEF Send, SendFailed
  <1>11. CASE RpcError(t) BY <1>11 DEF RpcError
  <1> QED BY <1>1, <1>2, <1>3, <1>4, <1>5, <1>6, <1>7, <1>8, <1>9, <1>10, <1>11 DEF Step

(* Only borrowing marks a transaction, the target.                         *)
LEMMA OwnMark ==
    ASSUME TypeInv, NEW t \in Txs, Call(t) \/ Step(t) \/ RpcError(t)
    PROVE  \/ replaced' = replaced
           \/ /\ replaced' = [replaced EXCEPT ![Target[t]] = TRUE]
              /\ pc'[t] = "borrow"
  <1>1. CASE BorrowNonce(t)
    BY <1>1 DEF BorrowNonce, attributes, Goto, TypeInv, TypeOK, ControlTypeOK
  <1>2. CASE ~BorrowNonce(t)
    BY <1>2 DEF Step, Call, InitNonce, Estimate, BorrowHash, Churn, FindReceipt, Lock, Trap,
                Send, RpcError, attributes
  <1> QED BY <1>1, <1>2

(* A replacement enters the loop by borrowing.                             *)
LEMMA EntersByBorrowing ==
    ASSUME TypeInv, NEW t \in Txs, Call(t) \/ Step(t) \/ RpcError(t),
           Target[t] # None, pc'[t] \in Borrowed \ {"borrow"}, ~BorrowHash(t)
    PROVE  pc[t] \in Borrowed \ {"borrow"}
  <1> USE DEF TypeInv, TypeOK, ControlTypeOK, At, Goto, Finish, controlVars, Borrowed
  <1>1. CASE Call(t) BY <1>1 DEF Call
  <1>2. CASE InitNonce(t) BY <1>2 DEF InitNonce
  <1>3. CASE Estimate(t) BY <1>3 DEF Estimate
  <1>4. CASE BorrowNonce(t) BY <1>4 DEF BorrowNonce
  <1>5. CASE Churn(t) BY <1>5 DEF Churn
  <1>6. CASE FindReceipt(t) BY <1>6 DEF FindReceipt
  <1>7. CASE Lock(t) BY <1>7 DEF Lock
  <1>8. CASE Trap(t) BY <1>8 DEF Trap
  <1>9. CASE Send(t) BY <1>9 DEF Send
  <1>10. CASE RpcError(t) BY <1>10 DEF RpcError
  <1> QED BY <1>1, <1>2, <1>3, <1>4, <1>5, <1>6, <1>7, <1>8, <1>9, <1>10 DEF Step

LEMMA LoopInvStep ==
    ASSUME TypeInv, SilenceInv, KinInv, PriceInv, LoopInv, SharedLoop, "lost" \notin Faults,
           NEW t \in Txs, Call(t) \/ Step(t) \/ RpcError(t)
    PROVE  LoopInv'
  <1> USE DEF LoopInv
  <1>1. OthersAwait'
    BY LoopStep, Others, NodeAssumption DEF OthersAwait
  <1>2. ReplacedDoNotSend'
    <2> SUFFICES ASSUME NEW u \in Txs, replaced'[u], pc'[u] \in Sending PROVE FALSE
      BY DEF ReplacedDoNotSend
    <2>1. CASE replaced[u]
      <3>1. pc[u] \notin Sending
        BY <2>1 DEF ReplacedDoNotSend
      <3>2. u = t
        BY <3>1, Others
      <3> QED BY <2>1, <3>1, <3>2, OwnPrice DEF Sending
    <2>2. CASE ~replaced[u]
      <3>1. pc'[t] = "borrow" /\ u # t
        BY <2>2, OwnMark DEF Sending
      <3>2. pc[u] \in Awaiting
        BY <3>1, LoopStep, NodeAssumption DEF OthersAwait
      <3> QED BY <3>1, <3>2, Others DEF Awaiting, Sending
    <2> QED BY <2>1, <2>2
  <1>3. SentAreWatched'
    BY WatchedStep
  <1>4. TargetBeaten'
    <2> SUFFICES ASSUME NEW u \in Txs, Target[u] # None, pc'[u] \in Borrowed \ {"borrow"},
                        NEW g \in accepted', g.owner = Target[u]
                 PROVE  /\ OrBeats(gas_price_last'[u], g.price)
                        /\ pc'[u] \in Sending => Beats(gas_price_last'[u], g.price)
      BY DEF TargetBeaten, OrBeats, Beats
    <2> DEFINE o == Target[u]
    <2>0. o \in Txs
      BY TransactAssumption
    <2>1. ASSUME pc[u] \in Borrowed PROVE g \in accepted
      <3>1. replaced[o]
        BY <2>1 DEF SilenceInv, TargetMarked, Borrowed
      <3>2. pc[o] # "send"
        BY <2>0, <3>1 DEF ReplacedDoNotSend, Sending
      <3> QED BY <3>2, SentIsWatched
    <2>2. \A i \in DOMAIN tx_hashes[o] : OrBeats(gas_price_last[o], tx_hashes[o][i].price)
      BY <2>0 DEF PriceInv, PricesBeaten
    <2>3. CASE u # t
      <3>1. pc[u] = pc'[u] /\ gas_price_last'[u] = gas_price_last[u]
        BY <2>3, Others
      <3> QED BY <2>1, <3>1 DEF TargetBeaten
    <2>4. CASE u = t /\ BorrowHash(t)
      <3>1. gas_price_last'[t] = gas_price_last[o] /\ pc'[t] = "top" /\ pc[t] = "borrow"
        BY <2>4, OwnPrice
      <3>2. g \in accepted
        BY <2>1, <2>4, <3>1 DEF Borrowed
      <3>3. \E i \in DOMAIN tx_hashes[o] : tx_hashes[o][i] = g
        BY <3>2 DEF SentAreWatched
      <3> QED BY <2>2, <2>4, <3>1, <3>3 DEF Sending
    <2>5. CASE u = t /\ ~BorrowHash(t)
      <3>1. pc[t] \in Borrowed \ {"borrow"}
        BY <2>5, EntersByBorrowing
      <3>2. g \in accepted
        BY <2>1, <2>5, <3>1
      <3>3. /\ OrBeats(gas_price_last[t], g.price)
            /\ pc[t] \in Sending => Beats(gas_price_last[t], g.price)
        BY <2>5, <3>1, <3>2 DEF TargetBeaten
      <3>4. CASE gas_price_last'[t] = gas_price_last[t] /\ (pc'[t] \in Sending => pc[t] \in Sending)
        BY <2>5, <3>3, <3>4
      <3>5. CASE Beats(gas_price_last'[t], gas_price_last[t]) \/ ~WasSent(t)
        <4>1. \E i \in DOMAIN tx_hashes[o] : tx_hashes[o][i] = g
          BY <3>2 DEF SentAreWatched
        <4>2. WasSent(t)
          BY <2>0, <2>5, <4>1, PriceTypes DEF WasSent
        <4>3. /\ gas_price_last'[t] \in Price \cup {None, 0}
              /\ gas_price_last[t] \in Price \cup {None, 0}
              /\ g.price \in Price \cup {None, 0}
          <5>1. gas_price_last'[t] \in Price \cup {None, 0}
            BY TypeStep DEF TypeInv, TypeOK, AttributeTypeOK
          <5>2. g.price \in Price \cup {None, 0}
            BY <2>0, <4>1, PriceTypes
          <5> QED BY <5>1, <5>2, PriceTypes
        <4>4. Beats(gas_price_last'[t], g.price)
          BY <3>3, <3>5, <4>2, <4>3, BeatsAgain
        <4> QED BY <2>5, <4>4 DEF OrBeats
      <3> QED BY <2>5, <3>4, <3>5, OwnPrice
    <2> QED BY <2>3, <2>4, <2>5
  <1> QED BY <1>1, <1>2, <1>3, <1>4

LEMMA LoopInvOtherwise ==
    ASSUME TypeInv, LoopInv, Node \/ UNCHANGED vars
    PROVE  LoopInv'
  <1>1. UNCHANGED <<running, pc, replaced, gas_price_last>>
    BY DEF Node, vars, controlVars, attributes
  <1>2. \A g \in accepted' \ accepted : g.owner = None
    BY NodeEffect DEF vars, nodeVars
  <1>3. SentAreWatched'
    BY WatchedOtherwise DEF LoopInv
  <1>4. (OthersAwait /\ ReplacedDoNotSend)'
    BY <1>1 DEF LoopInv, OthersAwait, ReplacedDoNotSend
  <1>5. TargetBeaten'
    BY <1>1, <1>2 DEF LoopInv, TargetBeaten, OrBeats, Beats
  <1> QED BY <1>3, <1>4, <1>5 DEF LoopInv

(* A replacement has a price that is up to its target, and the target no   *)
(* longer sends.                                                           *)
THEOREM OneTaskRuns ==
    ASSUME SharedLoop, "lost" \notin Faults
    PROVE  Spec => []LoopInv
  <1>1. Init => LoopInv
    <2> SUFFICES ASSUME Init PROVE LoopInv
      OBVIOUS
    <2>1. /\ accepted = {} /\ pc = [t \in Txs |-> "new"]
          /\ replaced = [t \in Txs |-> FALSE]
      BY DEF Init, ProcessInit, NodeInit
    <2> QED BY <2>1 DEF LoopInv, OthersAwait, Awaiting, ReplacedDoNotSend, SentAreWatched, TargetBeaten
  <1>2. TypeInv /\ SilenceInv /\ KinInv /\ PriceInv /\ LoopInv /\ [Next]_vars => LoopInv'
    BY LoopInvStep, LoopInvOtherwise DEF Next
  <1>3. Spec => []PriceInv
    BY BidsGrow DEF PriceInv
  <1> QED BY <1>1, <1>2, <1>3, TypeCorrect, Silence, WatchedIsKin, PTL DEF Spec

(* In a shared loop and without lost answers, a bid beats by more than     *)
(* 12.5% everything that the transaction or its target has sent.           *)
THEOREM BidsSuffice ==
    ASSUME SharedLoop, "lost" \notin Faults
    PROVE  Spec => SufficientBid
  <1> DEFINE Suffices == \A h \in accepted' \ accepted : h.owner \in Txs =>
                \A g \in accepted :
                    g.nonce = h.nonce /\ g.owner \in {h.owner, Target[h.owner]} \ {None}
                       => Beats(h.price, g.price)
  <1>1. TypeInv /\ PriceInv /\ LoopInv /\ [Next]_vars => [Suffices]_vars
    <2> SUFFICES ASSUME TypeInv, PriceInv, LoopInv, Next,
                        NEW h \in accepted' \ accepted, h.owner \in Txs,
                        NEW g \in accepted, g.owner \in {h.owner, Target[h.owner]} \ {None}
                 PROVE  Beats(h.price, g.price)
      OBVIOUS
    <2> DEFINE t == h.owner
    <2>1. h = HashOf(t) /\ pc[t] = "send"
      BY NodeEffect, NodeAssumption, SentIsWatched DEF Next
    <2>2. h.price = gas_price_last[t] /\ pc[t] \in Sending /\ pc[t] \in Borrowed \ {"borrow"}
      <3>1. HashOf(t).price = gas_price_last[t]
        BY DEF HashOf
      <3> QED BY <2>1, <3>1 DEF Sending, Borrowed
    <2>3. CASE g.owner = t
      <3>1. \E i \in DOMAIN tx_hashes[t] : tx_hashes[t][i] = g
        BY <2>3 DEF LoopInv, SentAreWatched
      <3> QED BY <2>2, <3>1 DEF PriceInv, PricesBeaten
    <2>4. CASE g.owner = Target[t] /\ Target[t] # None
      BY <2>2, <2>4 DEF LoopInv, TargetBeaten
    <2> QED BY <2>3, <2>4
  <1>2. Spec => []PriceInv
    BY BidsGrow DEF PriceInv
  <1> QED BY <1>1, <1>2, TypeCorrect, OneTaskRuns, PTL DEF Spec, SufficientBid

-----------------------------------------------------------------------------
(* Nonces that the node counts.                                            *)

(* A nonce is used by one transaction; one that is computed under the lock *)
(* is not used by another; one that is kept has been used.                 *)
OneOwner ==
    \A g, h \in accepted :
        g.owner # None /\ h.owner # None /\ g.nonce = h.nonce => g.owner = h.owner

FreshUnderLock ==
    \A t \in Txs : pc[t] \in {"trap", "send"} =>
        \A g \in accepted : g.owner # None /\ g.nonce = nonce[t] => g.owner = t

HasSent(t) == \E h \in accepted : h.owner = t

NumberedHasSent ==
    \A t \in Txs :
        /\ nonce[t] # None => origin[t] = t
        /\ nonce[t] # None /\ pc[t] \notin {"trap", "send", "done"} => HasSent(t)
        /\ tx_hashes[t] # <<>> => HasSent(t)

CountInv == dropped = {} /\ OneOwner /\ FreshUnderLock /\ NumberedHasSent

(* Most steps leave all of that alone. *)
LEMMA CountKept ==
    ASSUME TypeInv, CountInv, NEW t \in Txs,
           UNCHANGED <<dropped, accepted>>,
           \A u \in Txs : /\ nonce'[u] = nonce[u] /\ origin'[u] = origin[u]
                          /\ tx_hashes'[u] = tx_hashes[u],
           \A u \in Txs \ {t} : pc'[u] = pc[u],
           pc'[t] = "send" => pc[t] = "trap",
           pc'[t] # "trap",
           pc'[t] # "done" => pc[t] # "done" /\ (pc[t] = "trap" => pc'[t] = "send") /\ pc[t] # "send"
    PROVE  CountInv'
  BY DEF CountInv, OneOwner, FreshUnderLock, NumberedHasSent, HasSent

LEMMA CountStep ==
    ASSUME TypeInv, SilenceInv, KinInv, CountInv, ~RequiresSerialNonce,
           \A u \in Txs : Target[u] = None,
           NEW t \in Txs, Call(t) \/ Step(t) \/ RpcError(t)
    PROVE  CountInv'
  <1> USE DEF CountInv
  <1>1. ~BorrowNonce(t) /\ ~BorrowHash(t)
    BY DEF BorrowNonce, BorrowHash, At, TypeInv, WellFormed
  <1>2. dropped' = {}
    BY StepEffect
  <1>3. CASE Lock(t)
    <2>1. /\ UNCHANGED <<accepted, tx_hashes>> /\ pc' = [pc EXCEPT ![t] = "trap"]
          /\ pc[t] = "lock" /\ transaction_lock = None
      BY <1>3 DEF Lock, Goto, At, LockIsFree, nodeVars
    <2>2. \A u \in Txs : pc[u] \notin {"trap", "send"}
      BY <2>1, NodeAssumption DEF SilenceInv, LockHeld
    <2>3. /\ nonce'[t] # None /\ origin'[t] = t
          /\ \A g \in accepted : g.owner # None /\ g.nonce = nonce'[t] => g.owner = t
      <3>1. CASE nonce[t] # None
        <4>1. nonce'[t] = nonce[t] /\ origin'[t] = origin[t]
          BY <1>3, <3>1 DEF Lock
        <4>2. HasSent(t)
          BY <2>1, <3>1 DEF NumberedHasSent
        <4>3. \A g \in accepted : g.owner # None /\ g.nonce = nonce[t] => g.owner = t
          BY <4>2, NodeAssumption DEF HasSent, OneOwner, KinInv, SentWithOwnNonce
        <4> QED BY <3>1, <4>1, <4>3 DEF NumberedHasSent
      <3>2. CASE nonce[t] = None
        <4>1. PICK n \in PendingCounts : /\ nonce' = [nonce EXCEPT ![t] = CalculatedNonce(n)]
                                         /\ origin' = [origin EXCEPT ![t] = t]
          BY <1>3, <3>2 DEF Lock
        <4>2. n \in Nat /\ CalculatedNonce(n) = n /\ \A g \in accepted : g.nonce # n
          BY CountIsFresh
        <4>3. nonce'[t] = n /\ origin'[t] = t
          BY <4>1, <4>2 DEF TypeInv, TypeOK, AttributeTypeOK
        <4> QED BY <4>2, <4>3, NodeAssumption
      <3> QED BY <3>1, <3>2
    <2>4. pc'[t] = "trap" /\ \A u \in Txs \ {t} : /\ pc'[u] = pc[u] /\ nonce'[u] = nonce[u]
                                               /\ origin'[u] = origin[u]
      BY <2>1, Others DEF TypeInv, TypeOK, ControlTypeOK
    <2>5. NumberedHasSent'
      BY <2>1, <2>3, <2>4 DEF NumberedHasSent, HasSent
    <2> QED BY <1>2, <2>1, <2>2, <2>3, <2>4, <2>5 DEF OneOwner, FreshUnderLock
  <1>4. CASE Send(t)
    <2>1. /\ accepted' = accepted \/ accepted' = accepted \cup {HashOf(t)}
          /\ HashOf(t).owner = t /\ HashOf(t).nonce = nonce[t]
          /\ pc[t] = "send" /\ pc'[t] \in {"top", "done"}
          /\ \A u \in Txs \ {t} : pc'[u] = pc[u]
          /\ UNCHANGED <<nonce, origin>>
      BY <1>4, SendEffect
    <2>2. \A u \in Txs \ {t} : pc[u] \notin {"trap", "send"}
      BY <2>1 DEF SilenceInv, LockHeld
    <2>3. \A g \in accepted : g.owner # None /\ g.nonce = nonce[t] => g.owner = t
      BY <2>1 DEF FreshUnderLock
    <2>4. OneOwner' /\ FreshUnderLock'
      BY <2>1, <2>2, <2>3 DEF OneOwner, FreshUnderLock
    <2>5. \/ HasSent(t)'
          \/ tx_hashes'[t] = tx_hashes[t] /\ (tx_hashes[t] = <<>> => pc'[t] = "done")
      <3>1. CASE HashOf(t) \in accepted'
        BY <2>1, <3>1 DEF HasSent
      <3>2. CASE HashOf(t) \notin accepted'
        BY <1>4, <3>2 DEF Send, SendFailed, Accept, Finish, TypeInv, TypeOK, ControlTypeOK
      <3> QED BY <3>1, <3>2
    <2>6. \A u \in Txs : HasSent(u) => HasSent(u)'
      BY <2>1 DEF HasSent
    <2>7. NumberedHasSent'
      BY <2>1, <2>5, <2>6, Others DEF NumberedHasSent, HasSent
    <2> QED BY <1>2, <2>4, <2>7
  <1>5. CASE ~Lock(t) /\ ~Send(t)
    <2>1. accepted' = accepted
      BY <1>5, StepEffect
    <2>2. /\ nonce'[t] = nonce[t] /\ origin'[t] = origin[t] /\ tx_hashes'[t] = tx_hashes[t]
      BY <1>1, <1>5, OwnControl, OwnHashes
    <2>3. /\ pc'[t] = "send" => pc[t] = "trap"
          /\ pc'[t] # "trap"
          /\ pc'[t] # "done" => pc[t] # "done" /\ (pc[t] = "trap" => pc'[t] = "send") /\ pc[t] # "send"
      BY <1>1, <1>5 DEF Step, Call, InitNonce, Estimate, Churn, FindReceipt, Trap, RpcError,
                        At, Goto, Finish, TypeInv, TypeOK, ControlTypeOK
    <2> QED BY <1>2, <2>1, <2>2, <2>3, Others, CountKept
  <1> QED BY <1>3, <1>4, <1>5

(* At an own node, transactions that replace none never clash, although    *)
(* next_nonce may be initialised by several: it is not used.               *)
THEOREM CountedNoncesDoNotClash ==
    ASSUME ~RequiresSerialNonce, "drop" \notin Faults, \A t \in Txs : Target[t] = None
    PROVE  Spec => []NoNonceClash
  <1>1. Init => CountInv
    <2> SUFFICES ASSUME Init PROVE CountInv
      OBVIOUS
    <2>1. /\ accepted = {} /\ dropped = {} /\ pc = [t \in Txs |-> "new"]
          /\ nonce = [t \in Txs |-> None] /\ tx_hashes = [t \in Txs |-> <<>>]
      BY DEF Init, ProcessInit, NodeInit
    <2> QED BY <2>1 DEF CountInv, OneOwner, FreshUnderLock, NumberedHasSent
  <1>2. TypeInv /\ SilenceInv /\ KinInv /\ CountInv /\ [Next]_vars => CountInv'
    <2> SUFFICES ASSUME TypeInv, SilenceInv, KinInv, CountInv, [Next]_vars PROVE CountInv'
      OBVIOUS
    <2>1. CASE Node \/ UNCHANGED vars
      <3>1. UNCHANGED <<dropped, pc, nonce, origin, tx_hashes>>
        BY <2>1 DEF Node, NodeNext, Mine, Index, Drop, Foreign, Fault, vars, nodeVars,
                    controlVars, attributes
      <3>2. accepted \subseteq accepted' /\ \A h \in accepted' \ accepted : h.owner = None
        BY <2>1, NodeEffect DEF vars, nodeVars
      <3> QED BY <3>1, <3>2 DEF CountInv, OneOwner, FreshUnderLock, NumberedHasSent, HasSent
    <2> QED BY <2>1, CountStep DEF Next
  <1>3. CountInv => NoNonceClash
    BY DEF CountInv, OneOwner, NoNonceClash
  <1> QED BY <1>1, <1>2, <1>3, TypeCorrect, Silence, WatchedIsKin, PTL DEF Spec

=============================================================================
