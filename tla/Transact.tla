------------------------------- MODULE Transact -------------------------------
(***************************************************************************)
(* Transact.transact_async of src/pymaker/__init__.py: several Transact    *)
(* objects of one account, executed by threads (each `transact()' runs an  *)
(* event loop of its own) or as tasks of one event loop.  They share the   *)
(* module globals next_nonce and transaction_lock, read one another's      *)
(* attributes when one replaces another, and talk to the node of EthNode.  *)
(*                                                                         *)
(* A step runs from one remote call, lock operation or sleep to the next   *)
(* one: other threads can only be noticed there.                           *)
(***************************************************************************)
EXTENDS EthNode

CONSTANTS
    Target,         \* Target[t]: the `replace' argument of t, or None
    Strategy,       \* Strategy[t]: prices of the `gas_price' argument, {} if not given
    IsParity,       \* clientVersion says parity or openethereum
    SharedLoop,     \* all transactions are tasks of one asyncio event loop
    NonceKnown,     \* next_nonce has an entry for the account from the start
    MaxAttempts     \* tries to find a receipt once the nonce is used: 10 in the code

ASSUME TransactAssumption ==
    /\ Target \in [Txs -> Txs \cup {None}]
    /\ Strategy \in [Txs -> SUBSET (Price \cup {None})]
    /\ IsParity \in BOOLEAN
    /\ SharedLoop \in BOOLEAN
    /\ NonceKnown \in BOOLEAN
    /\ MaxAttempts \in Nat \ {0}

VARIABLES
    next_nonce,         \* next_nonce[account], None while there is no entry
    transaction_lock,   \* its holder, or None
    running,            \* the task that runs between two awaits of a shared loop

    pc,                 \* where transact_async of each transaction is
    counted,            \* the count read to initialise next_nonce
    attempt,            \* tries of the search for a receipt
    outcome,            \* how the execution ended
    receipt,            \* the hash whose receipt was returned, or None

    nonce,              \* the attributes of the Transact objects
    replaced,
    gas_price,          \* the prices of the strategy in use, {} for None
    gas_price_last,
    tx_hashes,

    origin              \* history: which transaction computed the nonce this one has

controlVars == <<pc, counted, attempt, outcome, receipt>>
attributes == <<nonce, replaced, gas_price, gas_price_last, tx_hashes, origin>>
vars == <<nodeVars, next_nonce, transaction_lock, running, controlVars, attributes>>

Labels == {"new", "init", "estimate", "await", "borrow", "top", "receipts",
           "lock", "trap", "send", "done"}

Outcomes == {"none yet", "receipt", "none", "raised", "type error"}

(* TransactStatus, as _track_status keeps it. *)
Status(t) == CASE pc[t] = "new" -> "NEW"
               [] pc[t] = "done" -> "FINISHED"
               [] OTHER -> "IN_PROGRESS"

(* _get_nonce_calc *)
NonceCalculation ==
    CASE IsParity /\ RequiresSerialNonce -> "PARITY_SERIAL"
      [] ~IsParity /\ RequiresSerialNonce -> "SERIAL"
      [] IsParity /\ ~RequiresSerialNonce -> "PARITY_NEXTNONCE"
      [] OTHER -> "TX_COUNT"

(* A mutant: next_nonce is not consulted. *)
CountOnly(count) == count

(* The nonce computed from the node's count under transaction_lock. *)
CalculatedNonce(count) ==
    IF NonceCalculation \in {"TX_COUNT", "PARITY_NEXTNONCE"} \/ count >= next_nonce
    THEN count
    ELSE next_nonce

DefaultGasPrice == {None}

(* A mutant: >= for >. *)
Reaches(value, last) == 8 * value >= 9 * last

(* gas_price_value > gas_price_last * 1.125 *)
Exceeds(value, last) == 8 * value > 9 * last

-----------------------------------------------------------------------------
(* Scheduling: in a shared loop a task keeps the loop until it awaits.     *)

MayRun(t) == running \in {None, t}

Continue(t) == running' = IF SharedLoop THEN t ELSE None

Await == running' = None

At(t, label) == pc[t] = label /\ MayRun(t)

Goto(t, label) == /\ pc' = [pc EXCEPT ![t] = label]
                  /\ UNCHANGED <<outcome, receipt>>

(* transact_async returns or raises; _track_status sets FINISHED. *)
Finish(t, how, hash) ==
    /\ pc' = [pc EXCEPT ![t] = "done"]
    /\ outcome' = [outcome EXCEPT ![t] = how]
    /\ receipt' = [receipt EXCEPT ![t] = hash]
    /\ Await

-----------------------------------------------------------------------------

ProcessInit ==
    /\ next_nonce = IF NonceKnown THEN 0 ELSE None
    /\ transaction_lock = None
    /\ running = None
    /\ pc = [t \in Txs |-> "new"]
    /\ counted = [t \in Txs |-> None]
    /\ attempt = [t \in Txs |-> 0]
    /\ outcome = [t \in Txs |-> "none yet"]
    /\ receipt = [t \in Txs |-> None]
    /\ nonce = [t \in Txs |-> None]
    /\ replaced = [t \in Txs |-> FALSE]
    /\ gas_price = [t \in Txs |-> {}]
    /\ gas_price_last = [t \in Txs |-> 0]
    /\ tx_hashes = [t \in Txs |-> <<>>]
    /\ origin = [t \in Txs |-> None]

Init == NodeInit /\ ProcessInit

(* The program calls transact or transact_async; the first transaction of  *)
(* an account asks the node for its count.                                 *)
Call(t) ==
    /\ At(t, "new")
    /\ IF next_nonce = None
       THEN /\ \E n \in PendingCounts : counted' = [counted EXCEPT ![t] = n]
            /\ Goto(t, "init")
       ELSE /\ Goto(t, "estimate")
            /\ UNCHANGED counted
    /\ Continue(t)
    /\ UNCHANGED <<nodeVars, next_nonce, transaction_lock, attempt, attributes>>

(* The answer is stored, outside transaction_lock. *)
InitNonce(t) ==
    /\ At(t, "init")
    /\ next_nonce' = counted[t]
    /\ Goto(t, "estimate")
    /\ Continue(t)
    /\ UNCHANGED <<nodeVars, transaction_lock, counted, attempt, attributes>>

(* Gas estimation fails and nothing is sent, or the gas strategy is set.   *)
Estimate(t) ==
    /\ At(t, "estimate")
    /\ \/ /\ Finish(t, "none", None)
          /\ UNCHANGED gas_price
       \/ /\ gas_price' = [gas_price EXCEPT ![t] =
                 IF Strategy[t] # {} THEN Strategy[t] ELSE DefaultGasPrice]
          /\ Goto(t, IF Target[t] = None THEN "top" ELSE "await")
          /\ Continue(t)
    /\ UNCHANGED <<nodeVars, next_nonce, transaction_lock, counted, attempt,
                   nonce, replaced, gas_price_last, tx_hashes, origin>>

(* A replacement waits until its target has a nonce or is finished, marks  *)
(* it and borrows its nonce and, without one of its own, its strategy.     *)
BorrowNonce(t) ==
    /\ At(t, "await")
    /\ LET o == Target[t]
       IN  IF nonce[o] = None /\ Status(o) # "FINISHED"
           THEN Await /\ UNCHANGED <<controlVars, attributes>>
           ELSE /\ replaced' = [replaced EXCEPT ![o] = TRUE]
                /\ nonce' = [nonce EXCEPT ![t] = nonce[o]]
                /\ origin' = [origin EXCEPT ![t] = origin[o]]
                /\ gas_price' = [gas_price EXCEPT ![t] =
                       IF Strategy[t] = {} /\ gas_price[o] # {} THEN gas_price[o] ELSE @]
                /\ Goto(t, "borrow")
                /\ Continue(t)
                /\ UNCHANGED <<counted, attempt, gas_price_last, tx_hashes>>
    /\ UNCHANGED <<nodeVars, next_nonce, transaction_lock>>

(* A mutant: the price of the target is not borrowed. *)
NoPrice(t) == 0

BorrowedPrice(t) == gas_price_last[Target[t]]

(* Then it borrows the last price and the last hash. *)
BorrowHash(t) ==
    /\ At(t, "borrow")
    /\ LET o == Target[t]
       IN  /\ gas_price_last' = [gas_price_last EXCEPT ![t] = BorrowedPrice(t)]
           /\ tx_hashes' = [tx_hashes EXCEPT ![t] =
                  IF tx_hashes[o] = <<>> THEN @ ELSE <<tx_hashes[o][Len(tx_hashes[o])]>>]
    /\ Goto(t, "top")
    /\ Continue(t)
    /\ UNCHANGED <<nodeVars, next_nonce, transaction_lock, counted, attempt,
                   nonce, replaced, gas_price, origin>>

-----------------------------------------------------------------------------
(* The loop. *)

NonceUsed(t) == nonce[t] # None /\ TransactionCount > nonce[t]

WasSent(t) == \/ tx_hashes[t] # <<>>
              \/ Target[t] # None /\ tx_hashes[Target[t]] # <<>>

(* One turn of the loop: go and look for a receipt, notice a replacement,  *)
(* or get a price and decide whether to send.                              *)
Churn(t) ==
    /\ At(t, "top")
    /\ \/ /\ NonceUsed(t)
          /\ attempt' = [attempt EXCEPT ![t] = 1]
          /\ Goto(t, "receipts")
          /\ Continue(t)
          /\ UNCHANGED gas_price_last
       \/ /\ ~NonceUsed(t) /\ replaced[t]
          /\ Finish(t, "none", None)
          /\ UNCHANGED <<attempt, gas_price_last>>
       \/ /\ ~NonceUsed(t) /\ ~replaced[t]
          /\ \E value \in gas_price[t] :
                \/ /\ WasSent(t) /\ value # None /\ gas_price_last[t] = None
                   /\ Finish(t, "type error", None)
                   /\ UNCHANGED gas_price_last
                \/ /\ \/ ~WasSent(t)
                      \/ /\ value # None /\ gas_price_last[t] # None
                         /\ Exceeds(value, gas_price_last[t])
                   /\ gas_price_last' = [gas_price_last EXCEPT ![t] = value]
                   /\ Goto(t, "lock")
                   /\ Continue(t)
                \/ /\ WasSent(t)
                   /\ \/ value = None
                      \/ /\ gas_price_last[t] # None
                         /\ ~Exceeds(value, gas_price_last[t])
                   /\ Goto(t, "top")
                   /\ Await
                   /\ UNCHANGED gas_price_last
          /\ UNCHANGED attempt
    /\ UNCHANGED <<nodeVars, next_nonce, transaction_lock, counted,
                   nonce, replaced, gas_price, tx_hashes, origin>>

(* A mutant: only the latest bid is looked for. *)
LatestHash(t) == {Len(tx_hashes[t])} \ {0}

(* The positions of the hashes whose receipt is looked for: all of them.   *)
WatchedHashes(t) == DOMAIN tx_hashes[t]

(* A mutant: a transaction that was mined has succeeded. *)
AnyReceipt(h) == TRUE

(* Receipt.successful: the transaction has emitted a log. *)
Successful(h) == Succeeded(h)

(* A mutant: one try more than allowed. *)
TriesAgain(t) == attempt[t] <= MaxAttempts

TriesLeft(t) == attempt[t] < MaxAttempts

(* One try to find a receipt for any of the known hashes. *)
FindReceipt(t) ==
    LET found == {i \in WatchedHashes(t) : HasReceipt(tx_hashes[t][i])}
    IN  /\ At(t, "receipts")
        /\ \/ /\ replaced[t]
              /\ Finish(t, "none", None)
              /\ UNCHANGED attempt
           \/ /\ ~replaced[t]
              /\ \E i \in found :
                    /\ \A j \in found : i <= j
                    /\ IF Successful(tx_hashes[t][i])
                       THEN Finish(t, "receipt", tx_hashes[t][i])
                       ELSE Finish(t, "none", None)
              /\ UNCHANGED attempt
           \/ /\ ~replaced[t] /\ found = {}
              /\ IF TriesLeft(t)
                 THEN /\ attempt' = [attempt EXCEPT ![t] = @ + 1]
                      /\ Goto(t, "receipts")
                      /\ Await
                 ELSE /\ Finish(t, "none", None)
                      /\ UNCHANGED attempt
        /\ UNCHANGED <<nodeVars, next_nonce, transaction_lock, counted, attributes>>

(* A mutant: nobody waits for the lock. *)
NeverBusy == TRUE

LockIsFree == transaction_lock = None

(* Take transaction_lock and compute the nonce if there is none yet. *)
Lock(t) ==
    /\ At(t, "lock")
    /\ LockIsFree
    /\ transaction_lock' = t
    /\ IF nonce[t] = None
       THEN \E n \in PendingCounts :
               /\ nonce' = [nonce EXCEPT ![t] = CalculatedNonce(n)]
               /\ next_nonce' = CalculatedNonce(n) + 1
               /\ origin' = [origin EXCEPT ![t] = t]
       ELSE UNCHANGED <<nonce, next_nonce, origin>>
    /\ Goto(t, "trap")
    /\ Continue(t)
    /\ UNCHANGED <<nodeVars, counted, attempt, replaced, gas_price, gas_price_last, tx_hashes>>

(* A mutant: a return inside the `with' keeps the lock. *)
Keep == UNCHANGED transaction_lock

Release == transaction_lock' = None

(* A mutant: the flag is not looked at again under the lock. *)
NotTrapped(t) == FALSE

TrapReplaced(t) == replaced[t]

(* Return, releasing the lock, if the transaction was replaced meanwhile. *)
Trap(t) ==
    /\ At(t, "trap")
    /\ IF TrapReplaced(t)
       THEN Finish(t, "none", None) /\ Release
       ELSE /\ Goto(t, "send")
            /\ Continue(t)
            /\ UNCHANGED transaction_lock
    /\ UNCHANGED <<nodeVars, next_nonce, counted, attempt, attributes>>

HashOf(t) == [owner |-> t, nonce |-> nonce[t], price |-> gas_price_last[t]]

(* The exception of a failed send leaves the loop only if nothing was sent *)
(* before.                                                                 *)
SendFailed(t) ==
    /\ IF tx_hashes[t] = <<>>
       THEN Finish(t, "raised", None)
       ELSE Goto(t, "top") /\ Await
    /\ UNCHANGED tx_hashes

(* Send, and release the lock: the node accepts; or it refuses; or it      *)
(* accepts and the answer is lost (HTTP timeout), which looks the same.    *)
Send(t) ==
    /\ At(t, "send")
    /\ \/ /\ Accept(HashOf(t))
          /\ tx_hashes' = [tx_hashes EXCEPT ![t] = Append(@, HashOf(t))]
          /\ Goto(t, "top")
          /\ Await
          /\ UNCHANGED faults
       \/ Refuse(HashOf(t)) /\ SendFailed(t)
       \/ Accept(HashOf(t)) /\ Fault("lost") /\ SendFailed(t)
    /\ Release
    /\ UNCHANGED <<dropped, chain, indexed, next_nonce, counted, attempt,
                   nonce, replaced, gas_price, gas_price_last, origin>>

(* A remote call outside _func raises: the counts, the receipts. *)
RpcError(t) ==
    /\ \/ At(t, "new") /\ next_nonce = None
       \/ At(t, "top") /\ nonce[t] # None
       \/ At(t, "receipts") /\ ~replaced[t]
       \/ At(t, "lock") /\ LockIsFree /\ nonce[t] = None
    /\ Fault("rpc")
    /\ Finish(t, "raised", None)
    /\ UNCHANGED <<accepted, dropped, chain, indexed, next_nonce, transaction_lock,
                   counted, attempt, attributes>>

Step(t) == \/ InitNonce(t) \/ Estimate(t) \/ BorrowNonce(t) \/ BorrowHash(t)
           \/ Churn(t) \/ FindReceipt(t) \/ Lock(t) \/ Trap(t) \/ Send(t)

Node == /\ NodeNext
        /\ UNCHANGED <<next_nonce, transaction_lock, running, controlVars, attributes>>

Next == Node \/ \E t \in Txs : Call(t) \/ Step(t) \/ RpcError(t)

Spec == Init /\ [][Next]_vars
=============================================================================
