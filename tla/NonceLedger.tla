----------------------------- MODULE NonceLedger -----------------------------
(***************************************************************************)
(* What sending with a serial nonce promises, without threads, locks or    *)
(* replacements: a nonce is reserved once, by one transaction, and what is *)
(* sent for that transaction, or for one that replaces it, has its nonce.  *)
(***************************************************************************)
EXTENDS Integers

CONSTANTS Txs, None

VARIABLES
    ledger,     \* ledger[t]: the nonce t has reserved, or None
    used        \* what was sent: the pairs of a reserving transaction and a nonce

LedgerInit == ledger = [t \in Txs |-> None] /\ used = {}

(* t reserves a nonce that nobody has. *)
Reserve(t) ==
    /\ ledger[t] = None
    /\ ledger'[t] \in Nat
    /\ \A u \in Txs : ledger[u] # ledger'[t]
    /\ ledger' = [ledger EXCEPT ![t] = ledger'[t]]
    /\ UNCHANGED used

(* Something is sent with the nonce of t. *)
Use(t) ==
    /\ ledger[t] # None
    /\ used' = used \cup {<<t, ledger[t]>>}
    /\ UNCHANGED ledger

LedgerNext == \E t \in Txs : Reserve(t) \/ Use(t)

LedgerSpec == LedgerInit /\ [][LedgerNext]_<<ledger, used>>
=============================================================================
