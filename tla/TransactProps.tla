---------------------------- MODULE TransactProps ----------------------------
(***************************************************************************)
(* What is expected of transact_async when several Transact objects of one *)
(* account are executed together.                                          *)
(***************************************************************************)
EXTENDS Transact

(* The values that the node, the globals, the control state and the        *)
(* attributes range over.                                                  *)
NodeTypeOK ==
    /\ accepted \in SUBSET Hash
    /\ dropped \in SUBSET Hash
    /\ chain \in Seq([hash : Hash, ok : BOOLEAN])
    /\ indexed \in Nat
    /\ indexed <= Len(chain)
    /\ faults \in Nat

GlobalTypeOK ==
    /\ next_nonce \in Nat \cup {None}
    /\ transaction_lock \in Txs \cup {None}
    /\ running \in Txs \cup {None}

ControlTypeOK ==
    /\ pc \in [Txs -> Labels]
    /\ counted \in [Txs -> Nat \cup {None}]
    /\ attempt \in [Txs -> 0..MaxAttempts]
    /\ outcome \in [Txs -> Outcomes]
    /\ receipt \in [Txs -> Hash \cup {None}]

AttributeTypeOK ==
    /\ nonce \in [Txs -> Nat \cup {None}]
    /\ replaced \in [Txs -> BOOLEAN]
    /\ gas_price \in [Txs -> SUBSET (Price \cup {None})]
    /\ gas_price_last \in [Txs -> Price \cup {None, 0}]
    /\ tx_hashes \in [Txs -> Seq(Hash)]
    /\ origin \in [Txs -> Txs \cup {None}]

TypeOK == NodeTypeOK /\ GlobalTypeOK /\ ControlTypeOK /\ AttributeTypeOK

(* Where a control point says something about the data of the transaction: *)
(* the nonce is known under the lock, the account is known once the        *)
(* transaction is past its beginning, only a replacement borrows.          *)
WellFormed ==
    \A t \in Txs :
        /\ pc[t] = "init" => counted[t] # None
        /\ pc[t] \notin {"new", "init", "done"} => next_nonce # None
        /\ pc[t] \in {"await", "borrow"} => Target[t] # None
        /\ pc[t] \in {"trap", "send"} => nonce[t] # None

TypeInv == TypeOK /\ WellFormed

-----------------------------------------------------------------------------
(* Nonces. *)

(* Two transactions never send with the same nonce, unless one has the     *)
(* nonce by replacing the other: "We need the lock in order to not try to  *)
(* send two transactions with the same nonce" (__init__.py:743).           *)
NoNonceClash ==
    \A g, h \in accepted :
        /\ g.owner # None /\ h.owner # None
        /\ g.nonce = h.nonce
        => origin[g.owner] = origin[h.owner]

(* Why it holds with a serial nonce and an account that is known: each     *)
(* computed nonce is below next_nonce, so the next one is new; nothing was *)
(* sent with another nonce than the one its transaction still has.         *)
AccountKnown == next_nonce # None /\ \A t \in Txs : pc[t] # "init"

BelowNext == \A t \in Txs : nonce[t] # None => nonce[t] < next_nonce

NotYetGiven == \A t \in Txs : pc[t] \in {"new", "estimate", "await"} => nonce[t] = None

OneOrigin ==
    \A t, u \in Txs : nonce[t] = nonce[u] /\ nonce[t] # None => origin[t] = origin[u]

SentWithOwnNonce == \A h \in accepted : h.owner # None => nonce[h.owner] = h.nonce

(* A nonce has an origin, and the origin computed it. *)
OriginHasNonce ==
    \A t \in Txs : nonce[t] # None =>
        origin[t] \in Txs /\ origin[origin[t]] = origin[t] /\ nonce[origin[t]] = nonce[t]

NoNonceNoOrigin == \A t \in Txs : nonce[t] = None => origin[t] = None

SerialInv == /\ AccountKnown /\ BelowNext /\ NotYetGiven /\ OneOrigin
             /\ SentWithOwnNonce /\ OriginHasNonce /\ NoNonceNoOrigin

(* Once a replacement is on the network, the transaction it replaces sends *)
(* nothing any more, wherever its thread was (the check under              *)
(* transaction_lock, __init__.py:761-764).                                 *)
ReplacedStaysSilent ==
    [][\A h \in accepted' \ accepted, g \in accepted :
          h.owner # None /\ g.owner # None => Target[g.owner] # h.owner]_vars

(* Why it holds.  The lock is held from the check to the end of the send;  *)
(* a transaction is marked before its replacement can send; and while a    *)
(* transaction sends, no replacement of it is on the network.              *)
LockHeld == \A t \in Txs : pc[t] \in {"trap", "send"} => transaction_lock = t

TargetMarked ==
    \A t \in Txs :
        /\ Target[t] # None
        /\ \/ pc[t] \in {"borrow", "top", "receipts", "lock", "trap", "send"}
           \/ \E g \in accepted : g.owner = t
        => replaced[Target[t]]

NoRival ==
    \A t \in Txs : pc[t] = "send" =>
        \A g \in accepted : g.owner # None => Target[g.owner] # t

SilenceInv == LockHeld /\ TargetMarked /\ NoRival

(* With a serial nonce, Transact implements NonceLedger: the nonce that a  *)
(* transaction computed is its reservation, and a replacement sends on the *)
(* reservation it borrowed.                                                *)
Reserved == [t \in Txs |-> IF origin[t] = t THEN nonce[t] ELSE None]

Spent == {<<origin[h.owner], h.nonce>> : h \in {g \in accepted : g.owner # None}}

Ledger == INSTANCE NonceLedger WITH ledger <- Reserved, used <- Spent

ReservesNonces == Ledger!LedgerSpec

-----------------------------------------------------------------------------
(* Prices. *)

(* The bid that the network takes as a replacement: more than 12.5% above. *)
Beats(high, low) == /\ high # None /\ low # None
                    /\ 8 * high > 9 * low

(* The hashes a transaction watches carry prices that grow by more than    *)
(* 12.5% each, the borrowed one included.                                  *)
WatchedBidsGrow ==
    \A t \in Txs : \A i \in 1 .. Len(tx_hashes[t]) - 1 :
        Beats(tx_hashes[t][i + 1].price, tx_hashes[t][i].price)

(* A bid beats by more than 12.5% each bid that the transaction or the one *)
(* it replaces has on the network for this nonce: "the gas price on a      *)
(* replacement has sufficiently exceeded that of the original              *)
(* transaction" (__init__.py:734).                                         *)
SufficientBid ==
    [][\A h \in accepted' \ accepted : h.owner \in Txs =>
          \A g \in accepted :
              g.nonce = h.nonce /\ g.owner \in {h.owner, Target[h.owner]} \ {None}
                 => Beats(h.price, g.price)]_vars

(* Deciding whether a price is high enough never fails (__init__.py:739).  *)
PriceDecided == \A t \in Txs : outcome[t] # "type error"

-----------------------------------------------------------------------------
(* Results. *)

(* A receipt that is returned is that of a transaction the object sent:    *)
(* "A Receipt object if the transaction invocation was successful"         *)
(* (__init__.py:634).                                                      *)
ReceiptIsOwn == \A t \in Txs : receipt[t] # None => receipt[t].owner = t

(* A transaction that was not replaced reports failure only when none of   *)
(* what it sent was mined with success or can still be mined.              *)
FailureIsFinal ==
    \A t \in Txs : outcome[t] \in {"none", "raised"} /\ ~replaced[t] =>
        \A h \in accepted : h.owner = t => h \notin Pool /\ ~Succeeded(h)

(* When all have finished, each transaction that was mined with success    *)
(* was reported by one of them: the code checks "if any transaction sent   *)
(* so far has been mined" (__init__.py:697).                               *)
SuccessIsReported ==
    (\A t \in Txs : Status(t) = "FINISHED") =>
        \A h \in accepted : h.owner # None /\ Succeeded(h) =>
            \E t \in Txs : receipt[t] = h

(* A returned receipt is of a successful transaction with the nonce of the *)
(* object, and only one transaction and its replacements can have it.      *)
ReceiptIsSound ==
    \A t \in Txs : receipt[t] # None =>
        /\ Succeeded(receipt[t])
        /\ receipt[t].nonce = nonce[t]
        /\ \A u \in Txs : receipt[u] = receipt[t] => origin[u] = origin[t]

-----------------------------------------------------------------------------
(* Progress: threads run, a pending transaction with the next nonce is     *)
(* mined some day and its receipt is served.  A shared loop is first in    *)
(* first out, so a task that is ready again and again gets its turn.       *)

FairThreads == /\ Spec
               /\ \A t \in Txs : WF_vars(Step(t))
               /\ WF_vars(Node /\ chain' # chain)
               /\ WF_vars(Node /\ indexed' # indexed)

FairLoop == /\ Spec
            /\ \A t \in Txs : SF_vars(Step(t))
            /\ WF_vars(Node /\ chain' # chain)
            /\ WF_vars(Node /\ indexed' # indexed)

Called(t) == Status(t) # "NEW"

(* "The method will block until the transaction gets mined" and no longer  *)
(* (__init__.py:599): an execution that was begun, and whose target was    *)
(* begun, ends.                                                            *)
Ends == \A t \in Txs :
    Called(t) /\ (Target[t] # None => Called(Target[t])) ~> Status(t) = "FINISHED"
=============================================================================
