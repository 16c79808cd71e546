----------------------------- MODULE Allowances -----------------------------
(***************************************************************************)
(* The approval functions of src/pymaker/approval.py, with the token       *)
(* client of token.py and TxManager of transactional.py: what several      *)
(* threads of a keeper read of an allowance and do about it, while tokens  *)
(* are spent and batches are executed.                                     *)
(*                                                                         *)
(* "us" approves the exchange directly, or TxManager, which approves the   *)
(* exchange in turn.  The token is external: some tokens take from an      *)
(* unlimited allowance what is spent, and some do not.                     *)
(***************************************************************************)
EXTENDS Integers

CONSTANTS
    Approvers,          \* threads that call approval functions
    FirstAllowances,    \* what allowances may be at first
    FirstBalance,       \* the tokens that we have, and the exchange
    ENOUGH,             \* 2 ** 128 - 1
    UNLIMITED,          \* 2 ** 256 - 1
    SpentAmounts,       \* what is spent at a time
    MaxTransfers        \* bound: transfers

ASSUME AllowancesAssumption ==
    /\ FirstBalance \in Nat /\ ENOUGH \in Nat /\ UNLIMITED \in Nat /\ ENOUGH < UNLIMITED
    /\ FirstAllowances \subseteq 0 .. UNLIMITED
    /\ SpentAmounts \subseteq Nat \ {0} /\ MaxTransfers \in Nat

VARIABLES
    tokensOf,       \* balances
    allowance,      \* by owner and spender
    hoped,          \* whether the exchange may move what we have in Vat
    keepsUnlimited, \* whether the token leaves an unlimited allowance as it is
    approval,       \* the approval functions in progress
    transfers       \* how many transfers there were

allowancesVars == <<tokensOf, allowance, hoped, keepsUnlimited, approval, transfers>>

(* The owner and the spender of each mode. *)
Grant == [directly |-> <<"us", "exchange">>,
          tx_manager_directly |-> <<"us", "TxManager">>,
          via_tx_manager |-> <<"TxManager", "exchange">>]

Grants == {Grant[m] : m \in DOMAIN Grant}

NoApproval == [mode |-> "none", state |-> "idle", spent |-> 0]

AllowancesInit ==
    /\ tokensOf = [us |-> FirstBalance, TxManager |-> 0, exchange |-> FirstBalance]
    /\ allowance \in [Grants -> FirstAllowances]
    /\ hoped \in BOOLEAN /\ keepsUnlimited \in BOOLEAN
    /\ approval = [c \in Approvers |-> NoApproval] /\ transfers = 0

ApprovalIs(c, a) == approval' = [approval EXCEPT ![c] = a]

-----------------------------------------------------------------------------
(* The approval functions. *)

(* A mutant: any allowance will do. *)
IsZero(amount) == amount = 0

NotEnough(amount) == amount < ENOUGH

(* allowance_of, of us or of TxManager. *)
ReadAllowance(c, mode) ==
    /\ approval[c].state = "idle"
    /\ ApprovalIs(c, [mode |-> mode, spent |-> 0,
                      state |-> IF NotEnough(allowance[Grant[mode]]) THEN "approving" ELSE "approved"])
    /\ UNCHANGED <<tokensOf, allowance, hoped, keepsUnlimited, transfers>>

(* approve, sent by us or in a batch of TxManager, is mined; the receipt   *)
(* is seen, or the approval is taken to have failed.                       *)
ApproveMined(c) ==
    /\ approval[c].state = "approving" /\ approval[c].mode # "hope_directly"
    /\ allowance' = [allowance EXCEPT ![Grant[approval[c].mode]] = UNLIMITED]
    /\ \E state \in {"approved", "raised"} : ApprovalIs(c, [approval[c] EXCEPT !.state = state])
    /\ UNCHANGED <<tokensOf, hoped, keepsUnlimited, transfers>>

ApproveFailed(c) ==
    /\ approval[c].state = "approving"
    /\ ApprovalIs(c, [approval[c] EXCEPT !.state = "raised"])
    /\ UNCHANGED <<tokensOf, allowance, hoped, keepsUnlimited, transfers>>

ReadCan(c) ==
    /\ approval[c].state = "idle"
    /\ ApprovalIs(c, [mode |-> "hope_directly", spent |-> 0,
                      state |-> IF hoped THEN "approved" ELSE "approving"])
    /\ UNCHANGED <<tokensOf, allowance, hoped, keepsUnlimited, transfers>>

HopeMined(c) ==
    /\ approval[c].state = "approving" /\ approval[c].mode = "hope_directly"
    /\ hoped' = TRUE
    /\ \E state \in {"approved", "raised"} : ApprovalIs(c, [approval[c] EXCEPT !.state = state])
    /\ UNCHANGED <<tokensOf, allowance, keepsUnlimited, transfers>>

-----------------------------------------------------------------------------
(* Tokens. *)

AfterSpending(left, amount) ==
    IF left = UNLIMITED /\ keepsUnlimited THEN left ELSE left - amount

(* The spending that each approval function has seen since it began. *)
SpendingSeen(spending) ==
    approval' = [c \in Approvers |->
        IF approval[c].mode \in DOMAIN Grant
        THEN [approval[c] EXCEPT !.spent = @ + spending[Grant[approval[c].mode]]]
        ELSE approval[c]]

(* transfer: the exchange pays us, or we pay it. *)
Transfer(from, to, amount) ==
    /\ transfers < MaxTransfers /\ transfers' = transfers + 1
    /\ amount <= tokensOf[from]
    /\ tokensOf' = [tokensOf EXCEPT ![from] = @ - amount, ![to] = @ + amount]
    /\ UNCHANGED <<allowance, hoped, keepsUnlimited, approval>>

(* transfer_from: the exchange takes what we have. *)
TransferFrom(amount) ==
    LET g == Grant["directly"]
    IN  /\ transfers < MaxTransfers /\ transfers' = transfers + 1
        /\ amount <= tokensOf["us"] /\ amount <= allowance[g]
        /\ tokensOf' = [tokensOf EXCEPT !["us"] = @ - amount, !["exchange"] = @ + amount]
        /\ allowance' = [allowance EXCEPT ![g] = AfterSpending(@, amount)]
        /\ SpendingSeen([h \in Grants |-> IF h = g THEN amount ELSE 0])
        /\ UNCHANGED <<hoped, keepsUnlimited>>

(* execute: TxManager takes all it may of our tokens, invokes the exchange *)
(* which takes its amount, and returns the rest; all of it or nothing.     *)
ExecuteBatch(amount) ==
    LET g == Grant["tx_manager_directly"]
        h == Grant["via_tx_manager"]
        pulled == IF allowance[g] < tokensOf["us"] THEN allowance[g] ELSE tokensOf["us"]
    IN  /\ transfers < MaxTransfers /\ transfers' = transfers + 1
        /\ amount <= pulled /\ amount <= allowance[h]
        /\ tokensOf' = [tokensOf EXCEPT !["us"] = @ - amount, !["exchange"] = @ + amount]
        /\ allowance' = [allowance EXCEPT ![g] = AfterSpending(@, pulled), ![h] = AfterSpending(@, amount)]
        /\ SpendingSeen([k \in Grants |-> IF k = g THEN pulled ELSE IF k = h THEN amount ELSE 0])
        /\ UNCHANGED <<hoped, keepsUnlimited>>

AllowancesNext ==
    \/ \E c \in Approvers :
          \/ \E mode \in DOMAIN Grant : ReadAllowance(c, mode)
          \/ ApproveMined(c) \/ ApproveFailed(c)
          \/ ReadCan(c) \/ HopeMined(c)
    \/ \E amount \in SpentAmounts :
          \/ Transfer("us", "exchange", amount) \/ Transfer("exchange", "us", amount)
          \/ TransferFrom(amount) \/ ExecuteBatch(amount)

AllowancesSpec == AllowancesInit /\ [][AllowancesNext]_allowancesVars

-----------------------------------------------------------------------------

(* An approval function that returns has approved: however threads and     *)
(* spending interleaved since it began, the spender may still spend all    *)
(* that is enough but what it spent meanwhile (approval.py:38, 57, 85).    *)
ApprovedCanSpend ==
    \A c \in Approvers : approval[c].state = "approved" =>
        IF approval[c].mode = "hope_directly" THEN hoped
        ELSE allowance[Grant[approval[c].mode]] + approval[c].spent >= ENOUGH
=============================================================================
