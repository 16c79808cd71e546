----------------------------- MODULE HelperProofs ----------------------------
(***************************************************************************)
(* Helpers of clients.  For any number of threads, any amounts and any     *)
(* number of transfers: an approval function that returns has approved.    *)
(* However long the chain and the chunks are: a scan in chunks finds every *)
(* event it was asked for.  However often the files are edited: get_config *)
(* returns nothing that is older than its call.                            *)
(***************************************************************************)
EXTENDS Allowances, EventLog, ReloadableConfig, Arithmetic, FiniteSetTheorems, TLAPS

(***************************************************************************)
(* Approvals.                                                              *)
(***************************************************************************)

Modes == {"directly", "tx_manager_directly", "via_tx_manager"}

Approval ==
    [mode : Modes \cup {"none", "hope_directly"},
     state : {"idle", "approving", "approved", "raised"},
     spent : Nat]

Holders == {"us", "TxManager", "exchange"}

AllowancesTypeOK ==
    /\ tokensOf \in [Holders -> Int]
    /\ allowance \in [Grants -> Int]
    /\ approval \in [Approvers -> Approval]

(* Whoever has got beyond idle knows what it wants. *)
ModesKnown == \A c \in Approvers : approval[c].state # "idle" => approval[c].mode # "none"

AllowancesInv == AllowancesTypeOK /\ ModesKnown /\ ApprovedCanSpend

-----------------------------------------------------------------------------

(* Tokens that go from one to another stay whole. *)
LEMMA TokensMove ==
  ASSUME AllowancesTypeOK, NEW from \in Holders, NEW to \in Holders, NEW amount \in Nat
  PROVE  [tokensOf EXCEPT ![from] = @ - amount, ![to] = @ + amount] \in [Holders -> Int]
  BY DEF AllowancesTypeOK

(* The three grants are three. *)
LEMMA GrantFacts ==
  /\ DOMAIN Grant = Modes
  /\ \A m \in Modes : Grant[m] \in Grants
  /\ Grant["tx_manager_directly"] # Grant["via_tx_manager"]
<1>1. DOMAIN Grant = Modes
  BY DEF Grant, Modes
<1>2. Grant["tx_manager_directly"] # Grant["via_tx_manager"]
  BY DEF Grant
<1>3. QED BY <1>1, <1>2 DEF Grants

LEMMA AllowancesStart == AllowancesInit => AllowancesInv
<1> SUFFICES ASSUME AllowancesInit PROVE AllowancesInv
  OBVIOUS
<1>1. FirstAllowances \subseteq Int
  BY AllowancesAssumption DEF AllowancesAssumption
<1>2. allowance \in [Grants -> Int]
  BY <1>1 DEF AllowancesInit
<1>3. approval = [c \in Approvers |-> NoApproval]
  BY DEF AllowancesInit
<1>4. NoApproval \in Approval /\ NoApproval.state = "idle"
  BY DEF NoApproval, Approval
<1>5. tokensOf \in [Holders -> Int]
  BY AllowancesAssumption DEF AllowancesInit, AllowancesAssumption, Holders
<1>6. QED
  BY <1>2, <1>3, <1>4, <1>5 DEF AllowancesInv, AllowancesTypeOK, ModesKnown, ApprovedCanSpend

(* A thread that goes on, with the allowances as they are, keeps the       *)
(* invariant if what it claims is true.                                    *)
LEMMA ThreadKeeps ==
  ASSUME AllowancesInv, NEW c \in Approvers, NEW a \in Approval, ApprovalIs(c, a),
         UNCHANGED <<tokensOf, allowance, hoped>>,
         a.state # "idle" => a.mode # "none",
         a.state = "approved" =>
             IF a.mode = "hope_directly" THEN hoped
             ELSE allowance[Grant[a.mode]] + a.spent >= ENOUGH
  PROVE  AllowancesInv'
<1> USE DEF AllowancesInv, AllowancesTypeOK, ApprovalIs
<1>1. AllowancesTypeOK'
  OBVIOUS
<1>2. approval'[c] = a /\ \A b \in Approvers \ {c} : approval'[b] = approval[b]
  OBVIOUS
<1>3. ModesKnown'
  BY <1>2 DEF ModesKnown
<1>4. ApprovedCanSpend'
  BY <1>2 DEF ApprovedCanSpend
<1>5. QED BY <1>1, <1>3, <1>4

LEMMA ReadAllowanceKeeps ==
  ASSUME AllowancesInv, NEW c \in Approvers, NEW mode \in DOMAIN Grant, ReadAllowance(c, mode)
  PROVE  AllowancesInv'
<1> DEFINE a == [mode |-> mode, spent |-> 0,
                 state |-> IF NotEnough(allowance[Grant[mode]]) THEN "approving" ELSE "approved"]
<1>1. mode \in Modes /\ allowance[Grant[mode]] \in Int
  BY GrantFacts DEF AllowancesInv, AllowancesTypeOK
<1>2. a \in Approval
  BY <1>1 DEF Approval
<1>3. a.state = "approved" => allowance[Grant[a.mode]] + a.spent >= ENOUGH
  BY <1>1, AllowancesAssumption DEF NotEnough, AllowancesAssumption
<1>4. ApprovalIs(c, a) /\ UNCHANGED <<tokensOf, allowance, hoped>>
  BY DEF ReadAllowance
<1>5. a.mode # "none" /\ a.mode # "hope_directly"
  BY <1>1 DEF Modes
<1> HIDE DEF a
<1>6. QED BY <1>2, <1>3, <1>4, <1>5, ThreadKeeps

LEMMA ReadCanKeeps ==
  ASSUME AllowancesInv, NEW c \in Approvers, ReadCan(c)
  PROVE  AllowancesInv'
<1> DEFINE a == [mode |-> "hope_directly", spent |-> 0,
                 state |-> IF hoped THEN "approved" ELSE "approving"]
<1>1. a \in Approval /\ a.mode = "hope_directly" /\ (a.state = "approved" => hoped)
  BY DEF Approval
<1>2. ApprovalIs(c, a) /\ UNCHANGED <<tokensOf, allowance, hoped>>
  BY DEF ReadCan
<1> HIDE DEF a
<1>3. QED BY <1>1, <1>2, ThreadKeeps

LEMMA ApproveFailedKeeps ==
  ASSUME AllowancesInv, NEW c \in Approvers, ApproveFailed(c)
  PROVE  AllowancesInv'
<1> DEFINE a == [approval[c] EXCEPT !.state = "raised"]
<1>1. approval[c] \in Approval /\ approval[c].mode # "none"
  BY DEF AllowancesInv, AllowancesTypeOK, ModesKnown, ApproveFailed
<1>2. a \in Approval /\ a.state = "raised" /\ a.mode # "none"
  BY <1>1 DEF Approval
<1>3. ApprovalIs(c, a) /\ UNCHANGED <<tokensOf, allowance, hoped>>
  BY DEF ApproveFailed
<1> HIDE DEF a
<1>4. QED BY <1>2, <1>3, ThreadKeeps

(* Any allowance that is approved is enough, for others as well. *)
LEMMA ApproveMinedKeeps ==
  ASSUME AllowancesInv, NEW c \in Approvers, ApproveMined(c)
  PROVE  AllowancesInv'
<1> DEFINE g == Grant[approval[c].mode]
<1>1. approval[c] \in Approval /\ approval[c].mode \in Modes
  BY DEF AllowancesInv, AllowancesTypeOK, ModesKnown, ApproveMined, Approval
<1>2. g \in Grants /\ allowance' = [allowance EXCEPT ![g] = UNLIMITED] /\ hoped' = hoped
  BY <1>1, GrantFacts DEF ApproveMined
<1>3. PICK state \in {"approved", "raised"} :
          approval' = [approval EXCEPT ![c] = [approval[c] EXCEPT !.state = state]]
  BY DEF ApproveMined, ApprovalIs
<1>4. [approval[c] EXCEPT !.state = state] \in Approval
  BY <1>1 DEF Approval
<1>5. AllowancesTypeOK'
  BY <1>2, <1>3, <1>4, AllowancesAssumption
  DEF AllowancesInv, AllowancesTypeOK, AllowancesAssumption, ApproveMined
<1>6. \A h \in Grants : allowance'[h] = UNLIMITED \/ allowance'[h] = allowance[h]
  BY <1>2 DEF AllowancesInv, AllowancesTypeOK
<1>7. allowance'[g] = UNLIMITED
  BY <1>2 DEF AllowancesInv, AllowancesTypeOK
<1>8. \A b \in Approvers :
          /\ approval'[b].mode = approval[b].mode /\ approval'[b].spent = approval[b].spent
          /\ b # c => approval'[b].state = approval[b].state
  BY <1>1, <1>3 DEF AllowancesInv, AllowancesTypeOK, Approval
<1>9. ModesKnown'
  BY <1>1, <1>8 DEF AllowancesInv, ModesKnown, Modes
<1>10. ApprovedCanSpend'
  <2> SUFFICES ASSUME NEW b \in Approvers, approval'[b].state = "approved"
               PROVE  IF approval'[b].mode = "hope_directly" THEN hoped'
                      ELSE allowance'[Grant[approval'[b].mode]] + approval'[b].spent >= ENOUGH
    BY DEF ApprovedCanSpend
  <2>1. CASE b = c
    BY <2>1, <1>1, <1>7, <1>8, AllowancesAssumption DEF Approval, Modes, AllowancesAssumption
  <2>2. CASE b # c /\ approval[b].mode = "hope_directly"
    BY <2>2, <1>2, <1>8 DEF AllowancesInv, ApprovedCanSpend
  <2>3. CASE b # c /\ approval[b].mode # "hope_directly"
    <3>1. approval[b].mode \in Modes /\ approval[b].spent \in Nat
      BY <2>3, <1>8 DEF AllowancesInv, AllowancesTypeOK, ModesKnown, Approval
    <3>2. Grant[approval[b].mode] \in Grants
      BY <3>1, GrantFacts
    <3>3. allowance[Grant[approval[b].mode]] + approval[b].spent >= ENOUGH
      BY <2>3, <1>8 DEF AllowancesInv, ApprovedCanSpend
    <3>4. QED BY <2>3, <3>1, <3>2, <3>3, <1>6, <1>8, AllowancesAssumption DEF AllowancesAssumption
  <2>4. QED BY <2>1, <2>2, <2>3
<1>11. QED BY <1>5, <1>9, <1>10 DEF AllowancesInv

LEMMA HopeMinedKeeps ==
  ASSUME AllowancesInv, NEW c \in Approvers, HopeMined(c)
  PROVE  AllowancesInv'
<1>1. approval[c] \in Approval /\ approval[c].mode = "hope_directly"
  BY DEF AllowancesInv, AllowancesTypeOK, HopeMined
<1>2. PICK state \in {"approved", "raised"} :
          approval' = [approval EXCEPT ![c] = [approval[c] EXCEPT !.state = state]]
  BY DEF HopeMined, ApprovalIs
<1>3. [approval[c] EXCEPT !.state = state] \in Approval
  BY <1>1 DEF Approval
<1>4. allowance' = allowance /\ tokensOf' = tokensOf /\ hoped'
  BY DEF HopeMined
<1>5. \A b \in Approvers :
          /\ approval'[b].mode = approval[b].mode /\ approval'[b].spent = approval[b].spent
          /\ b # c => approval'[b].state = approval[b].state
  BY <1>1, <1>2 DEF AllowancesInv, AllowancesTypeOK, Approval
<1>6. AllowancesTypeOK'
  BY <1>2, <1>3, <1>4 DEF AllowancesInv, AllowancesTypeOK
<1>7. ModesKnown' /\ ApprovedCanSpend'
  BY <1>1, <1>4, <1>5 DEF AllowancesInv, ModesKnown, ApprovedCanSpend
<1>8. QED BY <1>6, <1>7 DEF AllowancesInv

(* What is spent of an allowance is not more than what is seen of it. *)
LEMMA SpendingKeeps ==
  ASSUME AllowancesInv, NEW spending \in [Grants -> Nat], SpendingSeen(spending),
         tokensOf' \in [Holders -> Int],
         allowance' \in [Grants -> Int], hoped' = hoped,
         \A g \in Grants : allowance'[g] >= allowance[g] - spending[g]
  PROVE  AllowancesInv'
<1> USE DEF AllowancesInv, AllowancesTypeOK
<1>1. \A b \in Approvers :
          approval'[b] = IF approval[b].mode \in Modes
                         THEN [approval[b] EXCEPT
                                  !.spent = approval[b].spent + spending[Grant[approval[b].mode]]]
                         ELSE approval[b]
  BY GrantFacts DEF SpendingSeen
<1>2. \A b \in Approvers : approval[b].mode \in Modes =>
          /\ Grant[approval[b].mode] \in Grants
          /\ approval[b].spent + spending[Grant[approval[b].mode]] \in Nat
  BY GrantFacts DEF Approval
<1>3. \A b \in Approvers : approval'[b] \in Approval
  BY <1>1, <1>2 DEF Approval
<1>4. \A b \in Approvers : approval'[b].mode = approval[b].mode
                           /\ approval'[b].state = approval[b].state
  BY <1>1, <1>2 DEF Approval
<1>5. \A b \in Approvers : approval[b].mode \in Modes =>
          approval'[b].spent = approval[b].spent + spending[Grant[approval[b].mode]]
  BY <1>1, <1>2 DEF Approval
<1>6. approval' \in [Approvers -> Approval]
  BY <1>3 DEF SpendingSeen
<1>7. ModesKnown'
  BY <1>4 DEF ModesKnown
<1>8. ApprovedCanSpend'
  <2> SUFFICES ASSUME NEW b \in Approvers, approval'[b].state = "approved"
               PROVE  IF approval'[b].mode = "hope_directly" THEN hoped'
                      ELSE allowance'[Grant[approval'[b].mode]] + approval'[b].spent >= ENOUGH
    BY DEF ApprovedCanSpend
  <2>1. CASE approval[b].mode = "hope_directly"
    BY <2>1, <1>4 DEF ApprovedCanSpend
  <2>2. CASE approval[b].mode # "hope_directly"
    <3> DEFINE g == Grant[approval[b].mode]
    <3>1. approval[b].mode \in Modes /\ approval[b].spent \in Nat
      BY <2>2, <1>4 DEF ModesKnown, Approval
    <3>2. g \in Grants
      BY <3>1, <1>2
    <3>3. allowance[g] + approval[b].spent >= ENOUGH
      BY <2>2, <1>4 DEF ApprovedCanSpend
    <3>4. approval'[b].spent = approval[b].spent + spending[g]
      BY <3>1, <1>5
    <3>5. allowance'[g] >= allowance[g] - spending[g]
      BY <3>2
    <3>6. allowance'[g] \in Int /\ allowance[g] \in Int /\ spending[g] \in Nat
      BY <3>2
    <3> HIDE DEF g
    <3>7. allowance'[g] + approval'[b].spent >= ENOUGH
      BY ONLY <3>1, <3>3, <3>4, <3>5, <3>6, AllowancesAssumption DEF AllowancesAssumption
    <3>8. QED BY <2>2, <3>7, <1>4 DEF g
  <2>3. QED BY <2>1, <2>2
<1>9. QED BY <1>6, <1>7, <1>8

LEMMA AfterSpendingBound ==
  ASSUME NEW left \in Int, NEW amount \in Nat
  PROVE  AfterSpending(left, amount) \in Int /\ AfterSpending(left, amount) >= left - amount
  BY DEF AfterSpending

LEMMA TransferFromKeeps ==
  ASSUME AllowancesInv, NEW amount \in Nat, TransferFrom(amount)
  PROVE  AllowancesInv'
<1> DEFINE g == Grant["directly"]
           spending == [h \in Grants |-> IF h = g THEN amount ELSE 0]
<1>1. g \in Grants /\ allowance \in [Grants -> Int]
  BY GrantFacts DEF AllowancesInv, AllowancesTypeOK, Modes
<1>2. /\ allowance' = [allowance EXCEPT ![g] = AfterSpending(allowance[g], amount)]
      /\ SpendingSeen(spending) /\ hoped' = hoped
  BY DEF TransferFrom
<1>3. spending \in [Grants -> Nat] /\ \A h \in Grants : spending[h] = IF h = g THEN amount ELSE 0
  OBVIOUS
<1>4. /\ AfterSpending(allowance[g], amount) \in Int
      /\ AfterSpending(allowance[g], amount) >= allowance[g] - amount
  BY <1>1, AfterSpendingBound
<1> HIDE DEF g, spending
<1>5. allowance' \in [Grants -> Int]
  BY <1>1, <1>2, <1>4
<1>6. \A h \in Grants : allowance'[h] >= allowance[h] - spending[h]
  BY <1>1, <1>2, <1>3, <1>4
<1>7. tokensOf' \in [Holders -> Int]
  BY TokensMove DEF TransferFrom, AllowancesInv, Holders
<1>8. QED BY <1>2, <1>3, <1>5, <1>6, <1>7, SpendingKeeps

(* A batch is paid from two allowances, of us and of TxManager. *)
LEMMA ExecuteBatchKeeps ==
  ASSUME AllowancesInv, NEW amount \in Nat, ExecuteBatch(amount)
  PROVE  AllowancesInv'
<1> DEFINE g == Grant["tx_manager_directly"]
           h == Grant["via_tx_manager"]
           pulled == IF allowance[g] < tokensOf["us"] THEN allowance[g] ELSE tokensOf["us"]
           spending == [k \in Grants |-> IF k = g THEN pulled ELSE IF k = h THEN amount ELSE 0]
<1>1. g \in Grants /\ h \in Grants /\ g # h /\ allowance \in [Grants -> Int]
  BY GrantFacts DEF AllowancesInv, AllowancesTypeOK, Modes
<1>2. /\ allowance' = [allowance EXCEPT ![g] = AfterSpending(allowance[g], pulled),
                                        ![h] = AfterSpending(allowance[h], amount)]
      /\ SpendingSeen(spending) /\ hoped' = hoped /\ amount <= pulled
  BY <1>1 DEF ExecuteBatch
<1>3. pulled \in Nat
  <2>1. tokensOf["us"] \in Int /\ allowance[g] \in Int
    BY <1>1 DEF AllowancesInv, AllowancesTypeOK, Holders
  <2>2. pulled \in Int
    BY <2>1
  <2>3. QED BY ONLY <2>2, <1>2, amount \in Nat
<1>4. tokensOf' \in [Holders -> Int]
  BY TokensMove DEF ExecuteBatch, AllowancesInv, Holders
<1>5. spending \in [Grants -> Nat]
      /\ \A k \in Grants : spending[k] = IF k = g THEN pulled ELSE IF k = h THEN amount ELSE 0
  BY <1>3
<1>6. /\ AfterSpending(allowance[g], pulled) \in Int
      /\ AfterSpending(allowance[g], pulled) >= allowance[g] - pulled
      /\ AfterSpending(allowance[h], amount) \in Int
      /\ AfterSpending(allowance[h], amount) >= allowance[h] - amount
  BY <1>1, <1>3, AfterSpendingBound
<1> HIDE DEF g, h, pulled, spending
<1>7. allowance' \in [Grants -> Int]
  BY <1>1, <1>2, <1>6
<1>8. \A k \in Grants : allowance'[k] >= allowance[k] - spending[k]
  BY <1>1, <1>2, <1>5, <1>6
<1>9. QED BY <1>2, <1>4, <1>5, <1>7, <1>8, SpendingKeeps

(* Transfers of our own have nothing to do with allowances. *)
LEMMA TransferKeeps ==
  ASSUME AllowancesInv, NEW from \in Holders, NEW to \in Holders, NEW amount \in Nat,
         Transfer(from, to, amount)
  PROVE  AllowancesInv'
<1>1. tokensOf' \in [Holders -> Int]
  BY TokensMove DEF Transfer, AllowancesInv
<1>2. QED
  BY <1>1 DEF Transfer, AllowancesInv, AllowancesTypeOK, ModesKnown, ApprovedCanSpend

LEMMA AllowancesStep == AllowancesInv /\ [AllowancesNext]_allowancesVars => AllowancesInv'
<1> SUFFICES ASSUME AllowancesInv, [AllowancesNext]_allowancesVars PROVE AllowancesInv'
  OBVIOUS
<1>1. ASSUME NEW c \in Approvers,
             \/ \E mode \in DOMAIN Grant : ReadAllowance(c, mode)
             \/ ApproveMined(c) \/ ApproveFailed(c) \/ ReadCan(c) \/ HopeMined(c)
      PROVE  AllowancesInv'
  BY <1>1, ReadAllowanceKeeps, ApproveMinedKeeps, ApproveFailedKeeps, ReadCanKeeps, HopeMinedKeeps
<1>2. ASSUME NEW amount \in SpentAmounts,
             \/ Transfer("us", "exchange", amount) \/ Transfer("exchange", "us", amount)
             \/ TransferFrom(amount) \/ ExecuteBatch(amount)
      PROVE  AllowancesInv'
  <2>1. amount \in Nat
    BY AllowancesAssumption DEF AllowancesAssumption
  <2>2. "us" \in Holders /\ "exchange" \in Holders
    BY DEF Holders
  <2>3. QED BY <1>2, <2>1, <2>2, TransferKeeps, TransferFromKeeps, ExecuteBatchKeeps
<1>3. CASE UNCHANGED allowancesVars
  BY <1>3 DEF allowancesVars, AllowancesInv, AllowancesTypeOK, ModesKnown, ApprovedCanSpend
<1>4. QED BY <1>1, <1>2, <1>3 DEF AllowancesNext

(* AllowancesInv is an invariant. *)
THEOREM AllowancesHold == AllowancesSpec => []AllowancesInv
<1>1. QED BY AllowancesStart, AllowancesStep, PTL DEF AllowancesSpec

(* An approval function that returns has approved, for any number of       *)
(* threads and amounts (approval.py:38, 57, 85).                           *)
THEOREM ApprovalIsEnough == AllowancesSpec => []ApprovedCanSpend
<1>1. AllowancesInv => ApprovedCanSpend
  BY DEF AllowancesInv
<1>2. QED BY AllowancesHold, <1>1, PTL

-----------------------------------------------------------------------------
(***************************************************************************)
(* Retrieval of past events in chunks of blocks.                           *)
(***************************************************************************)

(* A function that is built up from its first value.                       *)
Continues(G, S, lo, N) == G \in [S \X (lo + 1 .. N) -> S]

BuiltUp(f, S, lo, N, base, G) ==
    /\ f \in [lo .. N -> S] /\ f[lo] = base
    /\ \A n \in lo + 1 .. N : f[n] = G[<<f[n - 1], n>>]

LEMMA RecursionExists ==
    ASSUME NEW S, NEW lo \in Nat, NEW base \in S, NEW N \in Nat, lo <= N,
           NEW G, Continues(G, S, lo, N)
    PROVE  \E f : BuiltUp(f, S, lo, N, base, G)
<1>0. G \in [S \X (lo + 1 .. N) -> S]
  BY DEF Continues
<1> DEFINE Upto(m, f) == /\ f \in [lo .. m -> S] /\ f[lo] = base
                         /\ \A n \in lo + 1 .. m : f[n] = G[<<f[n - 1], n>>]
           T == {m \in Nat : lo + m <= N => \E f : Upto(lo + m, f)}
<1>1. 0 \in T
  <2>1. PICK f : f = [n \in lo .. lo + 0 |-> base]
    OBVIOUS
  <2>2. Upto(lo + 0, f)
    BY <2>1
  <2> QED BY <2>2
<1>2. ASSUME NEW k \in Nat, k \in T PROVE k + 1 \in T
  <2>1. SUFFICES ASSUME lo + (k + 1) <= N PROVE \E f : Upto(lo + (k + 1), f)
    OBVIOUS
  <2> DEFINE m == lo + k
  <2>2. PICK f : Upto(m, f)
    BY <1>2, <2>1
  <2>0. m \in Nat /\ m + 1 <= N /\ lo + (k + 1) = m + 1 /\ lo <= m
    BY <2>1
  <2> HIDE DEF m
  <2>3. PICK g : g = [n \in lo .. m + 1 |-> IF n <= m THEN f[n] ELSE G[<<f[m], m + 1>>]]
    OBVIOUS
  <2>4. f[m] \in S /\ m + 1 \in lo + 1 .. N
    BY <2>0, <2>2
  <2>5. G[<<f[m], m + 1>>] \in S
    BY <1>0, <2>4
  <2>7. \A n \in lo .. m : g[n] = f[n] /\ f[n] \in S
    BY <2>0, <2>2, <2>3
  <2>8. g[m + 1] = G[<<f[m], m + 1>>]
    BY <2>0, <2>3
  <2>6. g \in [lo .. m + 1 -> S]
    <3>1. ASSUME NEW n \in lo .. m + 1 PROVE g[n] \in S
      <4>1. n = m + 1 \/ n \in lo .. m
        BY <2>0
      <4> QED BY <2>5, <2>7, <2>8, <4>1
    <3>2. g = [n \in lo .. m + 1 |-> g[n]]
      BY <2>3
    <3> QED BY <3>1, <3>2
  <2>9. ASSUME NEW n \in lo + 1 .. m + 1 PROVE g[n] = G[<<g[n - 1], n>>]
    <3>1. CASE n = m + 1
      BY <2>0, <2>7, <2>8, <3>1
    <3>2. CASE n \in lo + 1 .. m
      <4>1. n - 1 \in lo .. m /\ n \in lo .. m
        BY <2>0, <3>2
      <4> QED BY <2>2, <2>7, <3>2, <4>1
    <3>3. n = m + 1 \/ n \in lo + 1 .. m
      BY <2>0
    <3> QED BY <3>1, <3>2, <3>3
  <2>10. g[lo] = base
    BY <2>0, <2>2, <2>7
  <2>11. Upto(m + 1, g)
    BY <2>6, <2>9, <2>10
  <2> QED BY <2>0, <2>11
<1> HIDE DEF Upto
<1>3. N - lo \in T
  <2> HIDE DEF T
  <2> QED BY <1>1, <1>2, SetInduction
<1>4. PICK f : Upto(N, f)
  <2>1. lo + (N - lo) = N /\ N - lo \in Nat
    OBVIOUS
  <2> QED BY <1>3, <2>1
<1> QED
  BY <1>4 DEF Upto, BuiltUp

-----------------------------------------------------------------------------

LogEvent == [kind : STRING, number : Nat]

Logs == Seq(LogEvent)

(* Events in the order of their emission. *)
Ascends(s) == \A i, j \in DOMAIN s : i < j => s[i].number < s[j].number

Places(s, e) == {n \in DOMAIN s : s[n] = e}

Earlier(s, t) == \A e \in ToSet(s), f \in ToSet(t) : e.number < f.number

LEMMA JoinedLogs ==
    ASSUME NEW s \in Logs, NEW t \in Logs
    PROVE  /\ s \o t \in Logs
           /\ ToSet(s \o t) = ToSet(s) \cup ToSet(t)
           /\ Ascends(s) /\ Ascends(t) /\ Earlier(s, t) => Ascends(s \o t)
           /\ \A e : Places(s \o t, e) = Places(s, e) \cup {Len(s) + n : n \in Places(t, e)}
<1>1. PICK r : r = s \o t
  OBVIOUS
<1>2. PICK n \in Nat : n = Len(s) /\ DOMAIN s = 1 .. n
  BY DEF Logs
<1>3. PICK m \in Nat : m = Len(t) /\ DOMAIN t = 1 .. m
  BY DEF Logs
<1>4. /\ r \in Logs /\ DOMAIN r = 1 .. n + m
      /\ \A i \in 1 .. n : r[i] = s[i]
      /\ \A i \in 1 .. m : r[n + i] = t[i]
  BY <1>1, <1>2, <1>3 DEF Logs
<1>5. ASSUME NEW i \in 1 .. n + m PROVE i \in 1 .. n \/ (i - n \in 1 .. m /\ r[i] = t[i - n])
  BY <1>4
<1>6. ToSet(r) = ToSet(s) \cup ToSet(t)
  <2>1. ASSUME NEW e \in ToSet(r) PROVE e \in ToSet(s) \cup ToSet(t)
    <3>1. PICK i \in 1 .. n + m : e = r[i]
      BY <1>4 DEF ToSet
    <3> QED BY <1>2, <1>3, <1>4, <1>5, <3>1 DEF ToSet
  <2>2. ASSUME NEW e \in ToSet(s) PROVE e \in ToSet(r)
    <3>1. PICK i \in 1 .. n : e = s[i]
      BY <1>2 DEF ToSet
    <3>2. i \in DOMAIN r /\ r[i] = e
      BY <1>4, <3>1
    <3> QED BY <3>2 DEF ToSet
  <2>3. ASSUME NEW e \in ToSet(t) PROVE e \in ToSet(r)
    <3>1. PICK i \in 1 .. m : e = t[i]
      BY <1>3 DEF ToSet
    <3>2. n + i \in DOMAIN r /\ r[n + i] = e
      BY <1>4, <3>1
    <3> QED BY <3>2 DEF ToSet
  <2> QED BY <2>1, <2>2, <2>3
<1>7. ASSUME Ascends(s), Ascends(t), Earlier(s, t) PROVE Ascends(r)
  <2>1. ASSUME NEW i \in 1 .. n + m, NEW j \in 1 .. n + m, i < j
        PROVE  r[i].number < r[j].number
    <3>1. CASE i \in 1 .. n /\ j \in 1 .. n
      BY <1>2, <1>4, <1>7, <2>1, <3>1 DEF Ascends
    <3>2. CASE i \in 1 .. n /\ j \notin 1 .. n
      <4>1. s[i] \in ToSet(s) /\ t[j - n] \in ToSet(t)
        BY <1>2, <1>3, <1>5, <3>2 DEF ToSet
      <4> QED BY <1>4, <1>5, <1>7, <3>2, <4>1 DEF Earlier
    <3>3. CASE i \notin 1 .. n
      <4>1. j \notin 1 .. n
        BY <2>1, <3>3
      <4>2. i - n \in 1 .. m /\ j - n \in 1 .. m /\ i - n < j - n
        BY <1>5, <2>1, <3>3, <4>1
      <4>3. t[i - n].number < t[j - n].number
        BY <1>3, <1>7, <4>2 DEF Ascends
      <4> QED BY <1>5, <3>3, <4>1, <4>3
    <3> QED BY <3>1, <3>2, <3>3
  <2> QED BY <1>4, <2>1 DEF Ascends
<1>8. ASSUME NEW e PROVE Places(r, e) = Places(s, e) \cup {n + i : i \in Places(t, e)}
  <2>1. ASSUME NEW i \in Places(r, e)
        PROVE  i \in Places(s, e) \cup {n + k : k \in Places(t, e)}
    <3>1. i \in 1 .. n + m /\ r[i] = e
      BY <1>4 DEF Places
    <3>2. CASE i \in 1 .. n
      BY <1>2, <1>4, <3>1, <3>2 DEF Places
    <3>3. CASE i \notin 1 .. n
      <4>1. i - n \in 1 .. m /\ t[i - n] = e
        BY <1>5, <3>1, <3>3
      <4>2. i - n \in Places(t, e) /\ n + (i - n) = i
        BY <1>3, <3>1, <4>1 DEF Places
      <4> QED BY <4>2
    <3> QED BY <3>2, <3>3
  <2>2. ASSUME NEW i \in Places(s, e) PROVE i \in Places(r, e)
    BY <1>2, <1>4 DEF Places
  <2>3. ASSUME NEW i \in Places(t, e) PROVE n + i \in Places(r, e)
    BY <1>3, <1>4 DEF Places
  <2> QED BY <2>1, <2>2, <2>3
<1> QED
  BY <1>1, <1>2, <1>4, <1>6, <1>7, <1>8

LEMMA OneMore ==
    ASSUME NEW s \in Logs, NEW e \in LogEvent
    PROVE  /\ Append(s, e) \in Logs
           /\ ToSet(Append(s, e)) = ToSet(s) \cup {e}
           /\ Ascends(s) /\ (\A d \in ToSet(s) : d.number < e.number) => Ascends(Append(s, e))
<1>1. PICK r : r = Append(s, e)
  OBVIOUS
<1>2. PICK n \in Nat : n = Len(s) /\ DOMAIN s = 1 .. n
  BY DEF Logs
<1>3. /\ r \in Logs /\ DOMAIN r = 1 .. n + 1
      /\ \A i \in 1 .. n : r[i] = s[i]
      /\ r[n + 1] = e
  BY <1>1, <1>2 DEF Logs
<1>4. ToSet(r) = ToSet(s) \cup {e}
  <2>1. ASSUME NEW d \in ToSet(r) PROVE d \in ToSet(s) \cup {e}
    <3>1. PICK i \in 1 .. n + 1 : d = r[i]
      BY <1>3 DEF ToSet
    <3>2. i \in 1 .. n \/ i = n + 1
      OBVIOUS
    <3> QED BY <1>2, <1>3, <3>1, <3>2 DEF ToSet
  <2>2. ASSUME NEW d \in ToSet(s) PROVE d \in ToSet(r)
    <3>1. PICK i \in 1 .. n : d = s[i]
      BY <1>2 DEF ToSet
    <3>2. i \in DOMAIN r /\ r[i] = d
      BY <1>3, <3>1
    <3> QED BY <3>2 DEF ToSet
  <2>3. e \in ToSet(r)
    <3>1. n + 1 \in DOMAIN r
      BY <1>3
    <3> QED BY <1>3, <3>1 DEF ToSet
  <2> QED BY <2>1, <2>2, <2>3
<1>5. ASSUME Ascends(s), \A d \in ToSet(s) : d.number < e.number PROVE Ascends(r)
  <2>1. ASSUME NEW i \in 1 .. n + 1, NEW j \in 1 .. n + 1, i < j
        PROVE  r[i].number < r[j].number
    <3>1. i \in 1 .. n
      BY <2>1
    <3>2. CASE j \in 1 .. n
      BY <1>2, <1>3, <1>5, <2>1, <3>1, <3>2 DEF Ascends
    <3>3. CASE j = n + 1
      <4>1. s[i] \in ToSet(s)
        BY <1>2, <3>1 DEF ToSet
      <4> QED BY <1>3, <1>5, <3>1, <3>3, <4>1
    <3> QED BY <3>2, <3>3
  <2> QED BY <1>3, <2>1 DEF Ascends
<1> QED
  BY <1>1, <1>3, <1>4, <1>5

(* What upTo is, in OfKinds. *)
Selects(f, s, kinds) ==
    f = [n \in 0 .. Len(s) |->
            IF n = 0 THEN <<>>
            ELSE IF s[n].kind \in kinds THEN Append(f[n - 1], s[n])
            ELSE f[n - 1]]

LEMMA SelectionExists ==
    ASSUME NEW s \in Logs, NEW kinds
    PROVE  \E f \in [0 .. Len(s) -> Logs] : Selects(f, s, kinds)
<1>1. PICK N \in Nat : N = Len(s)
  BY DEF Logs
<1>2. PICK G : G = [p \in Logs \X (0 + 1 .. N) |->
                       IF s[p[2]].kind \in kinds THEN Append(p[1], s[p[2]]) ELSE p[1]]
  OBVIOUS
<1>3. ASSUME NEW v \in Logs, NEW n \in 1 .. N
      PROVE  /\ G[<<v, n>>] = IF s[n].kind \in kinds THEN Append(v, s[n]) ELSE v
             /\ G[<<v, n>>] \in Logs
  <2>1. G[<<v, n>>] = IF s[n].kind \in kinds THEN Append(v, s[n]) ELSE v
    BY <1>2
  <2>2. s[n] \in LogEvent
    BY <1>1 DEF Logs
  <2>3. Append(v, s[n]) \in Logs
    BY <2>2, OneMore
  <2> QED BY <2>1, <2>3
<1>4. G \in [Logs \X (0 + 1 .. N) -> Logs]
  <2>1. ASSUME NEW p \in Logs \X (0 + 1 .. N) PROVE G[p] \in Logs
    <3>1. PICK v \in Logs, n \in 1 .. N : p = <<v, n>>
      OBVIOUS
    <3> QED BY <1>3, <3>1
  <2> QED BY <1>2, <2>1
<1>5. <<>> \in Logs
  BY DEF Logs
<1>6. PICK f : BuiltUp(f, Logs, 0, N, <<>>, G)
  <2>1. Continues(G, Logs, 0, N)
    BY <1>4 DEF Continues
  <2>2. 0 \in Nat /\ 0 <= N
    OBVIOUS
  <2> QED BY <1>5, <2>1, <2>2, RecursionExists
<1>9. /\ f \in [0 .. N -> Logs] /\ f[0] = <<>>
      /\ \A n \in 1 .. N : f[n] = G[<<f[n - 1], n>>]
  BY <1>6 DEF BuiltUp
<1>7. ASSUME NEW n \in 0 .. N
      PROVE  f[n] = IF n = 0 THEN <<>>
                    ELSE IF s[n].kind \in kinds THEN Append(f[n - 1], s[n])
                    ELSE f[n - 1]
  <2>1. CASE n = 0
    BY <1>9, <2>1
  <2>2. CASE n # 0
    <3>1. n \in 1 .. N /\ n - 1 \in 0 .. N
      BY <2>2
    <3>2. f[n - 1] \in Logs
      BY <1>9, <3>1
    <3>3. f[n] = G[<<f[n - 1], n>>]
      BY <1>9, <3>1
    <3> QED BY <1>3, <2>2, <3>1, <3>2, <3>3
  <2> QED BY <2>1, <2>2
<1>8. Selects(f, s, kinds)
  <2>1. f = [n \in 0 .. N |-> f[n]]
    BY <1>9
  <2>2. f = [n \in 0 .. N |-> IF n = 0 THEN <<>>
                              ELSE IF s[n].kind \in kinds THEN Append(f[n - 1], s[n])
                              ELSE f[n - 1]]
    BY <1>7, <2>1
  <2> QED BY <1>1, <2>2 DEF Selects
<1> QED
  BY <1>1, <1>8, <1>9

LEMMA OfKindsIs ==
    ASSUME NEW s \in Logs, NEW kinds
    PROVE  /\ OfKinds(s, kinds) \in Logs
           /\ ToSet(OfKinds(s, kinds)) = {e \in ToSet(s) : e.kind \in kinds}
           /\ Ascends(s) => Ascends(OfKinds(s, kinds))
<1>1. PICK f : Selects(f, s, kinds) /\ OfKinds(s, kinds) = f[Len(s)]
  <2>1. \E f : Selects(f, s, kinds)
    BY SelectionExists
  <2> QED BY <2>1 DEF Selects, OfKinds
<1>2. PICK N \in Nat : N = Len(s) /\ DOMAIN s = 1 .. N
  BY DEF Logs
<1>3. f[0] = <<>>
  BY <1>1, <1>2 DEF Selects
<1>4. ASSUME NEW n \in Nat, n + 1 <= N
      PROVE  f[n + 1] = IF s[n + 1].kind \in kinds THEN Append(f[n], s[n + 1]) ELSE f[n]
  <2>1. n + 1 \in 0 .. Len(s) /\ n + 1 # 0 /\ (n + 1) - 1 = n
    BY <1>2, <1>4
  <2> QED BY <1>1, <2>1 DEF Selects
<1> DEFINE Chosen(n) == {e \in LogEvent : \E i \in 1 .. n : s[i] = e /\ e.kind \in kinds}
           T == {n \in Nat : n <= N => /\ f[n] \in Logs
                                       /\ ToSet(f[n]) = Chosen(n)
                                       /\ Ascends(s) => Ascends(f[n])}
<1>5. 0 \in T
  <2>1. <<>> \in Logs /\ ToSet(<<>>) = {} /\ Ascends(<<>>)
    BY DEF Logs, ToSet, Ascends
  <2>2. Chosen(0) = {}
    OBVIOUS
  <2> QED BY <1>3, <2>1, <2>2
<1>6. ASSUME NEW n \in Nat, n \in T PROVE n + 1 \in T
  <2>1. SUFFICES ASSUME n + 1 <= N
                 PROVE  /\ f[n + 1] \in Logs
                        /\ ToSet(f[n + 1]) = Chosen(n + 1)
                        /\ Ascends(s) => Ascends(f[n + 1])
    OBVIOUS
  <2>2. f[n] \in Logs /\ ToSet(f[n]) = Chosen(n) /\ (Ascends(s) => Ascends(f[n]))
    BY <1>6, <2>1
  <2>3. PICK e \in LogEvent : e = s[n + 1]
    BY <1>2, <2>1 DEF Logs
  <2>4. ASSUME NEW i \in 1 .. n + 1 PROVE i \in 1 .. n \/ i = n + 1
    OBVIOUS
  <2>5. CASE e.kind \in kinds
    <3>1. f[n + 1] = Append(f[n], e)
      BY <1>4, <2>1, <2>3, <2>5
    <3>2. Chosen(n + 1) = Chosen(n) \cup {e}
      <4>1. ASSUME NEW d \in Chosen(n + 1) PROVE d \in Chosen(n) \cup {e}
        <5>1. PICK i \in 1 .. n + 1 : s[i] = d /\ d.kind \in kinds
          OBVIOUS
        <5> QED BY <2>3, <2>4, <5>1
      <4>2. ASSUME NEW d \in Chosen(n) PROVE d \in Chosen(n + 1)
        <5>1. PICK i \in 1 .. n : s[i] = d /\ d.kind \in kinds
          OBVIOUS
        <5>2. i \in 1 .. n + 1
          OBVIOUS
        <5> QED BY <5>1, <5>2
      <4>3. e \in Chosen(n + 1)
        <5>1. n + 1 \in 1 .. n + 1
          OBVIOUS
        <5> QED BY <2>3, <2>5, <5>1
      <4> QED BY <4>1, <4>2, <4>3
    <3>3. ASSUME Ascends(s) PROVE \A d \in Chosen(n) : d.number < e.number
      <4>1. SUFFICES ASSUME NEW d \in Chosen(n) PROVE d.number < e.number
        OBVIOUS
      <4>2. PICK i \in 1 .. n : s[i] = d
        OBVIOUS
      <4>3. i \in DOMAIN s /\ n + 1 \in DOMAIN s /\ i < n + 1
        BY <1>2, <2>1
      <4> QED BY <2>3, <3>3, <4>2, <4>3 DEF Ascends
    <3> HIDE DEF Chosen
    <3> QED BY <2>2, <3>1, <3>2, <3>3, OneMore
  <2>6. CASE e.kind \notin kinds
    <3>1. f[n + 1] = f[n]
      BY <1>4, <2>1, <2>3, <2>6
    <3>2. Chosen(n + 1) = Chosen(n)
      <4>1. ASSUME NEW d \in Chosen(n + 1) PROVE d \in Chosen(n)
        <5>1. PICK i \in 1 .. n + 1 : s[i] = d /\ d.kind \in kinds
          OBVIOUS
        <5> QED BY <2>3, <2>4, <2>6, <5>1
      <4>2. ASSUME NEW d \in Chosen(n) PROVE d \in Chosen(n + 1)
        <5>1. PICK i \in 1 .. n : s[i] = d /\ d.kind \in kinds
          OBVIOUS
        <5>2. i \in 1 .. n + 1
          OBVIOUS
        <5> QED BY <5>1, <5>2
      <4> QED BY <4>1, <4>2
    <3> HIDE DEF Chosen
    <3> QED BY <2>2, <3>1, <3>2
  <2> QED BY <2>5, <2>6
<1>7. N \in T
  <2> HIDE DEF T
  <2> QED BY <1>5, <1>6, SetInduction
<1>8. Chosen(N) = {e \in ToSet(s) : e.kind \in kinds}
  <2>1. ASSUME NEW e \in Chosen(N) PROVE e \in ToSet(s) /\ e.kind \in kinds
    BY <1>2 DEF ToSet
  <2>2. ASSUME NEW e \in ToSet(s), e.kind \in kinds PROVE e \in Chosen(N)
    <3>1. PICK i \in 1 .. N : s[i] = e
      BY <1>2 DEF ToSet
    <3>2. e \in LogEvent
      BY <1>2, <3>1 DEF Logs
    <3> QED BY <2>2, <3>1, <3>2
  <2> QED BY <2>1, <2>2
<1> QED
  BY <1>1, <1>2, <1>7, <1>8

(* Blocks of events in the order of their emission. *)
InSequence(bs) ==
    /\ \A b \in DOMAIN bs : Ascends(bs[b])
    /\ \A b, c \in DOMAIN bs : b < c => Earlier(bs[b], bs[c])

EventsOf(bs) == {e \in LogEvent : \E b \in DOMAIN bs : e \in ToSet(bs[b])}

(* What flatten is, in FlattenSeq. *)
Flattens(f, bs) == f = [i \in 1 .. Len(bs) |-> IF i = 1 THEN bs[i] ELSE f[i - 1] \o bs[i]]

LEMMA FlatteningExists ==
    ASSUME NEW bs \in Seq(Logs), bs # <<>>
    PROVE  \E f \in [1 .. Len(bs) -> Logs] : Flattens(f, bs)
<1>1. PICK N \in Nat : N = Len(bs)
  OBVIOUS
<1>2. PICK G : G = [p \in Logs \X (1 + 1 .. N) |-> p[1] \o bs[p[2]]]
  OBVIOUS
<1>3. ASSUME NEW v \in Logs, NEW n \in 1 + 1 .. N
      PROVE  G[<<v, n>>] = v \o bs[n] /\ G[<<v, n>>] \in Logs
  <2>1. G[<<v, n>>] = v \o bs[n]
    BY <1>2
  <2>2. bs[n] \in Logs
    BY <1>1
  <2>3. v \o bs[n] \in Logs
    BY <2>2, JoinedLogs
  <2> QED BY <2>1, <2>3
<1>4. G \in [Logs \X (1 + 1 .. N) -> Logs]
  <2>1. ASSUME NEW p \in Logs \X (1 + 1 .. N) PROVE G[p] \in Logs
    <3>1. PICK v \in Logs, n \in 1 + 1 .. N : p = <<v, n>>
      OBVIOUS
    <3> QED BY <1>3, <3>1
  <2> QED BY <1>2, <2>1
<1>5. bs[1] \in Logs /\ 1 \in Nat /\ 1 <= N
  <2>1. 1 \in DOMAIN bs
    BY <1>1
  <2> QED BY <1>1, <2>1
<1>6. PICK f : BuiltUp(f, Logs, 1, N, bs[1], G)
  <2>1. Continues(G, Logs, 1, N)
    BY <1>4 DEF Continues
  <2> QED BY <1>5, <2>1, RecursionExists
<1>7. /\ f \in [1 .. N -> Logs] /\ f[1] = bs[1]
      /\ \A n \in 1 + 1 .. N : f[n] = G[<<f[n - 1], n>>]
  BY <1>6 DEF BuiltUp
<1>8. ASSUME NEW n \in 1 .. N
      PROVE  f[n] = IF n = 1 THEN bs[n] ELSE f[n - 1] \o bs[n]
  <2>1. CASE n = 1
    BY <1>7, <2>1
  <2>2. CASE n # 1
    <3>1. n \in 1 + 1 .. N /\ n - 1 \in 1 .. N
      BY <2>2
    <3>2. f[n - 1] \in Logs
      BY <1>7, <3>1
    <3>3. f[n] = G[<<f[n - 1], n>>]
      BY <1>7, <3>1
    <3> QED BY <1>3, <2>2, <3>1, <3>2, <3>3
  <2> QED BY <2>1, <2>2
<1>9. Flattens(f, bs)
  <2>1. f = [n \in 1 .. N |-> f[n]]
    BY <1>7
  <2>2. f = [n \in 1 .. N |-> IF n = 1 THEN bs[n] ELSE f[n - 1] \o bs[n]]
    BY <1>8, <2>1
  <2> QED BY <1>1, <2>2 DEF Flattens
<1> QED
  BY <1>1, <1>7, <1>9

LEMMA FlattenedIs ==
    ASSUME NEW bs \in Seq(Logs)
    PROVE  /\ FlattenSeq(bs) \in Logs
           /\ ToSet(FlattenSeq(bs)) = EventsOf(bs)
           /\ InSequence(bs) => Ascends(FlattenSeq(bs))
<1>1. PICK N \in Nat : N = Len(bs) /\ DOMAIN bs = 1 .. N
  OBVIOUS
<1>2. CASE N = 0
  <2>1. bs = <<>> /\ FlattenSeq(bs) = <<>>
    BY <1>1, <1>2 DEF FlattenSeq
  <2>2. <<>> \in Logs /\ ToSet(<<>>) = {} /\ Ascends(<<>>)
    BY DEF Logs, ToSet, Ascends
  <2>3. EventsOf(bs) = {}
    BY <2>1 DEF EventsOf
  <2> QED BY <2>1, <2>2, <2>3
<1>3. CASE N > 0
  <2>1. PICK f : Flattens(f, bs) /\ FlattenSeq(bs) = f[N]
    <3>1. \E f : Flattens(f, bs)
      BY <1>1, <1>3, FlatteningExists
    <3>2. PICK f : f = CHOOSE g : Flattens(g, bs)
      OBVIOUS
    <3>3. Flattens(f, bs)
      BY <3>1, <3>2
    <3>4. FlattenSeq(bs) = f[Len(bs)]
      <4>1. Len(bs) # 0
        BY <1>1, <1>3
      <4>2. FlattenSeq(bs) = (CHOOSE g : g = [i \in 1 .. Len(bs) |->
                                 IF i = 1 THEN bs[i] ELSE g[i - 1] \o bs[i]])[Len(bs)]
        BY <4>1 DEF FlattenSeq
      <4> QED BY <3>2, <4>2 DEF Flattens
    <3> QED BY <1>1, <3>3, <3>4
  <2>2. f[1] = bs[1]
    BY <1>1, <1>3, <2>1 DEF Flattens
  <2>3. ASSUME NEW n \in Nat, n > 0, n + 1 <= N PROVE f[n + 1] = f[n] \o bs[n + 1]
    <3>1. n + 1 \in 1 .. Len(bs) /\ n + 1 # 1 /\ (n + 1) - 1 = n
      BY <1>1, <2>3
    <3> QED BY <2>1, <3>1 DEF Flattens
  <2>4. ASSUME NEW n \in 1 .. N PROVE bs[n] \in Logs
    BY <1>1
  <2> DEFINE Passed(n) == {e \in LogEvent : \E b \in 1 .. n : e \in ToSet(bs[b])}
             T == {k \in Nat : k + 1 <= N => /\ f[k + 1] \in Logs
                                             /\ ToSet(f[k + 1]) = Passed(k + 1)
                                             /\ InSequence(bs) => Ascends(f[k + 1])}
  <2>5. ASSUME NEW s \in Logs, NEW e \in ToSet(s) PROVE e \in LogEvent
    BY DEF ToSet, Logs
  <2>6. 0 \in T
    <3>1. bs[1] \in Logs
      BY <1>3, <2>4
    <3>2. ToSet(bs[1]) = Passed(1)
      <4>1. ASSUME NEW e \in ToSet(bs[1]) PROVE e \in Passed(1)
        <5>1. 1 \in 1 .. 1
          OBVIOUS
        <5> QED BY <2>5, <3>1, <5>1
      <4>2. ASSUME NEW e \in Passed(1) PROVE e \in ToSet(bs[1])
        <5>1. PICK b \in 1 .. 1 : e \in ToSet(bs[b])
          OBVIOUS
        <5>2. b = 1
          OBVIOUS
        <5> QED BY <5>1, <5>2
      <4> QED BY <4>1, <4>2
    <3>3. InSequence(bs) => Ascends(bs[1])
      BY <1>1, <1>3 DEF InSequence
    <3> HIDE DEF Passed
    <3> QED BY <2>2, <3>1, <3>2, <3>3
  <2>7. ASSUME NEW k \in Nat, k \in T PROVE k + 1 \in T
    <3> DEFINE n == k + 1
    <3>0. n \in Nat /\ n > 0
      OBVIOUS
    <3>1. SUFFICES ASSUME n + 1 <= N
                   PROVE  /\ f[n + 1] \in Logs
                          /\ ToSet(f[n + 1]) = Passed(n + 1)
                          /\ InSequence(bs) => Ascends(f[n + 1])
      OBVIOUS
    <3>2. f[n] \in Logs /\ ToSet(f[n]) = Passed(n) /\ (InSequence(bs) => Ascends(f[n]))
      <4>1. n <= N
        BY <1>1, <3>0, <3>1
      <4> HIDE DEF Passed
      <4> QED BY <2>7, <4>1
    <3> HIDE DEF n
    <3>3. n + 1 \in 1 .. N /\ bs[n + 1] \in Logs /\ f[n + 1] = f[n] \o bs[n + 1]
      <4>1. n + 1 \in 1 .. N
        BY <3>0, <3>1
      <4> QED BY <2>3, <2>4, <3>0, <3>1, <4>1
    <3>4. ASSUME NEW b \in 1 .. n + 1 PROVE b \in 1 .. n \/ b = n + 1
      BY <3>0
    <3>5. Passed(n + 1) = Passed(n) \cup ToSet(bs[n + 1])
      <4>1. ASSUME NEW e \in Passed(n + 1) PROVE e \in Passed(n) \cup ToSet(bs[n + 1])
        <5>1. PICK b \in 1 .. n + 1 : e \in ToSet(bs[b])
          OBVIOUS
        <5> QED BY <3>4, <5>1
      <4>2. ASSUME NEW e \in Passed(n) PROVE e \in Passed(n + 1)
        <5>1. PICK b \in 1 .. n : e \in ToSet(bs[b])
          OBVIOUS
        <5>2. b \in 1 .. n + 1
          BY <3>0
        <5> QED BY <5>1, <5>2
      <4>3. ASSUME NEW e \in ToSet(bs[n + 1]) PROVE e \in Passed(n + 1)
        <5>1. n + 1 \in 1 .. n + 1 /\ e \in LogEvent
          BY <2>5, <3>0, <3>3
        <5> QED BY <5>1
      <4> QED BY <4>1, <4>2, <4>3
    <3>6. ASSUME InSequence(bs) PROVE Ascends(bs[n + 1]) /\ Earlier(f[n], bs[n + 1])
      <4>1. ASSUME NEW d \in Passed(n), NEW e \in ToSet(bs[n + 1]) PROVE d.number < e.number
        <5>1. PICK b \in 1 .. n : d \in ToSet(bs[b])
          OBVIOUS
        <5>2. b \in DOMAIN bs /\ n + 1 \in DOMAIN bs /\ b < n + 1
          BY <1>1, <3>0, <3>3
        <5>3. Earlier(bs[b], bs[n + 1])
          BY <3>6, <5>2 DEF InSequence
        <5> QED BY <5>1, <5>3 DEF Earlier
      <4>2. Ascends(bs[n + 1])
        BY <1>1, <3>3, <3>6 DEF InSequence
      <4> HIDE DEF Passed
      <4> QED BY <3>2, <4>1, <4>2 DEF Earlier
    <3> HIDE DEF Passed
    <3> QED BY <3>2, <3>3, <3>5, <3>6, JoinedLogs
  <2>8. N - 1 \in T
    <3> HIDE DEF T
    <3> QED BY <1>3, <2>6, <2>7, SetInduction
  <2>9. Passed(N) = EventsOf(bs)
    BY <1>1 DEF EventsOf
  <2>10. /\ f[N] \in Logs /\ ToSet(f[N]) = Passed(N)
         /\ InSequence(bs) => Ascends(f[N])
    <3>1. (N - 1) + 1 = N
      OBVIOUS
    <3> HIDE DEF Passed
    <3> QED BY <2>8, <3>1
  <2> QED BY <2>1, <2>9, <2>10
<1> QED
  BY <1>2, <1>3

LogClientNames == {"Vat", "Flipper", "Flapper", "Flopper", "Clipper"}

ChainInv ==
    /\ chain \in Seq(Logs) /\ InSequence(chain)
    /\ emitted \in Nat /\ reorgs \in Nat
    /\ \A b \in DOMAIN chain : \A e \in ToSet(chain[b]) : e.number <= emitted

ScanTypeOK ==
    scan \in [client : LogClientNames \cup {"none"}, state : {"idle", "scanning", "done"},
              from : Nat, to : Nat, start : Nat, events : Logs,
              include : SUBSET {"move", "fork"}, reorgs : Nat]

(* The next chunk starts a number of chunks after the first one.           *)
ScanPlaceInv ==
    /\ scan.reorgs <= reorgs
    /\ scan.state # "idle" =>
           /\ scan.client \in LogClientNames
           /\ 1 <= scan.from /\ scan.from <= scan.to /\ scan.to <= Len(chain)
           /\ scan.from <= scan.start /\ (scan.start - scan.from) % CHUNK = 0
           /\ scan.state = "scanning" <=> scan.start <= scan.to

(* What is wanted of some blocks. *)
WantedOf(bs) == {e \in LogEvent : e.kind \in WantedKinds /\ \E b \in bs : e \in ToSet(chain[b])}

(* The blocks that were asked for, up to the one where the next chunk starts. *)
Scanned ==
    IF scan.start = scan.from THEN {} ELSE {b \in scan.from .. scan.to : b <= scan.start}

MeetingsBefore(start) ==
    {b \in scan.from + 1 .. scan.to : b < start /\ (b - scan.from) % CHUNK = 0}

Once(s, e) == \E i \in DOMAIN s : Places(s, e) = {i}

Twice(s, e) == \E i, j \in DOMAIN s : i # j /\ Places(s, e) = {i, j}

RepeatedWhereChunksMeet ==
    \A e \in ToSet(scan.events) :
        \/ Once(scan.events, e)
        \/ /\ Twice(scan.events, e)
           /\ \E b \in MeetingsBefore(scan.start) : e \in ToSet(chain[b])

(* The last event has the highest number, and who goes back stays in a block. *)
ReplayInv ==
    /\ \A n \in DOMAIN scan.events : scan.events[n].number <= Last(scan.events).number
    /\ \A n \in 1 .. Len(scan.events) - 1 :
           scan.events[n + 1].number <= scan.events[n].number =>
               \E b \in scan.from .. scan.to :
                   {scan.events[n], scan.events[n + 1]} \subseteq ToSet(chain[b])

GatheredInv ==
    scan.state # "idle" /\ scan.reorgs = reorgs =>
        /\ ToSet(scan.events) = WantedOf(Scanned)
        /\ RepeatedWhereChunksMeet
        /\ scan.client # "Vat" => ReplayInv

EventLogInv == ChainInv /\ ScanTypeOK /\ ScanPlaceInv /\ GatheredInv

LEMMA BlocksAsked ==
    ASSUME ChainInv, NEW lo \in Nat, NEW hi \in Nat, 1 <= lo, lo <= hi, hi <= Len(chain)
    PROVE  LET s == EventsOfBlocks(SubSeq(chain, lo, hi))
           IN  /\ s \in Logs /\ Ascends(s)
               /\ ToSet(s) = {e \in LogEvent : \E b \in lo .. hi : e \in ToSet(chain[b])}
<1>1. PICK bs : bs = SubSeq(chain, lo, hi)
  OBVIOUS
<1>2. chain \in Seq(Logs) /\ InSequence(chain)
  BY DEF ChainInv
<1>3. PICK n \in Nat : n = hi - lo + 1
  OBVIOUS
<1>4. /\ bs \in Seq(Logs) /\ DOMAIN bs = 1 .. n
      /\ \A i \in 1 .. n : bs[i] = chain[lo + i - 1]
  BY <1>1, <1>2, <1>3
<1>5. ASSUME NEW i \in 1 .. n PROVE lo + i - 1 \in DOMAIN chain /\ lo + i - 1 \in lo .. hi
  BY <1>2, <1>3
<1>6. InSequence(bs)
  <2>1. ASSUME NEW i \in 1 .. n PROVE Ascends(bs[i])
    BY <1>2, <1>4, <1>5, <2>1 DEF InSequence
  <2>2. ASSUME NEW i \in 1 .. n, NEW j \in 1 .. n, i < j PROVE Earlier(bs[i], bs[j])
    <3>1. PICK b \in DOMAIN chain : b = lo + i - 1
      BY <1>5
    <3>2. PICK c \in DOMAIN chain : c = lo + j - 1
      BY <1>5
    <3>3. b < c
      BY <2>2, <3>1, <3>2
    <3>4. Earlier(chain[b], chain[c])
      BY <1>2, <3>3 DEF InSequence
    <3> QED BY <1>4, <3>1, <3>2, <3>4
  <2> QED BY <1>4, <2>1, <2>2 DEF InSequence
<1>7. EventsOf(bs) = {e \in LogEvent : \E b \in lo .. hi : e \in ToSet(chain[b])}
  <2>1. ASSUME NEW e \in EventsOf(bs) PROVE \E b \in lo .. hi : e \in ToSet(chain[b])
    <3>1. PICK i \in 1 .. n : e \in ToSet(bs[i])
      BY <1>4 DEF EventsOf
    <3> QED BY <1>4, <1>5, <3>1
  <2>2. ASSUME NEW e \in LogEvent, NEW b \in lo .. hi, e \in ToSet(chain[b])
        PROVE  e \in EventsOf(bs)
    <3>1. b - lo + 1 \in 1 .. n /\ lo + (b - lo + 1) - 1 = b
      BY <1>3
    <3>2. bs[b - lo + 1] = chain[b]
      BY <1>4, <3>1
    <3> QED BY <1>4, <2>2, <3>1, <3>2 DEF EventsOf
  <2> QED BY <2>1, <2>2 DEF EventsOf
<1> QED
  BY <1>1, <1>4, <1>6, <1>7, FlattenedIs DEF EventsOfBlocks

LEMMA AscendingIsOnce ==
    ASSUME NEW s \in Logs, Ascends(s), NEW e \in ToSet(s)
    PROVE  Once(s, e)
<1>1. PICK i \in DOMAIN s : s[i] = e
  BY DEF ToSet
<1>2. ASSUME NEW j \in DOMAIN s, s[j] = e PROVE j = i
  <2>1. i \in Int /\ j \in Int
    BY DEF Logs
  <2>2. e.number \in Int
    <3>1. e \in LogEvent
      BY <1>1 DEF Logs
    <3> QED BY <3>1 DEF LogEvent
  <2> QED BY <1>1, <1>2, <2>1, <2>2 DEF Ascends
<1>3. Places(s, e) = {i}
  BY <1>1, <1>2 DEF Places
<1> QED
  BY <1>3 DEF Once

LEMMA OnceInEither ==
    ASSUME NEW s \in Logs, NEW t \in Logs, ToSet(s) \cap ToSet(t) = {},
           \A e \in ToSet(s) : Once(s, e), \A e \in ToSet(t) : Once(t, e)
    PROVE  \A e \in ToSet(s \o t) : Once(s \o t, e)
<1>1. SUFFICES ASSUME NEW e \in ToSet(s \o t) PROVE Once(s \o t, e)
  OBVIOUS
<1>2. /\ e \in ToSet(s) \cup ToSet(t)
      /\ Places(s \o t, e) = Places(s, e) \cup {Len(s) + n : n \in Places(t, e)}
  BY JoinedLogs
<1>3. /\ e \notin ToSet(s) => Places(s, e) = {}
      /\ e \notin ToSet(t) => Places(t, e) = {}
  BY DEF ToSet, Places
<1>4. Places(s \o t, e) \subseteq DOMAIN (s \o t)
  BY DEF Places
<1>5. CASE e \in ToSet(s)
  <2>1. PICK i : Places(s, e) = {i}
    BY <1>5 DEF Once
  <2>2. Places(t, e) = {}
    BY <1>3, <1>5
  <2>3. Places(s \o t, e) = {i}
    BY <1>2, <2>1, <2>2
  <2> QED BY <1>4, <2>3 DEF Once
<1>6. CASE e \in ToSet(t) /\ e \notin ToSet(s)
  <2>1. PICK i : Places(t, e) = {i}
    BY <1>6 DEF Once
  <2>2. Places(s, e) = {}
    BY <1>3, <1>6
  <2>3. Places(s \o t, e) = {Len(s) + i}
    BY <1>2, <2>1, <2>2
  <2> QED BY <1>4, <2>3 DEF Once
<1> QED
  BY <1>2, <1>5, <1>6

LEMMA LeastOfTwo == ASSUME NEW x \in Nat, NEW y \in Nat, x <= y PROVE Min({x, y}) = x
<1>1. PICK m : m = Min({x, y})
  OBVIOUS
<1>2. \E z \in {x, y} : \A w \in {x, y} : z <= w
  OBVIOUS
<1>3. m \in {x, y} /\ \A w \in {x, y} : m <= w
  BY <1>1, <1>2 DEF Min
<1> QED
  BY <1>1, <1>3

(* The blocks of the next chunk. *)
NextBlocks == scan.start .. ChunkEnd(scan.start)

(* What a chunk adds. *)
LEMMA ChunkIs ==
    ASSUME ChainInv, ScanTypeOK, ScanPlaceInv, scan.state = "scanning",
           NEW t, t = IF scan.client = "Vat" THEN GroupedByKind(GetLogs) ELSE InOrder(GetLogs)
    PROVE  /\ t \in Logs /\ ToSet(t) = WantedOf(NextBlocks)
           /\ \A e \in ToSet(t) : Once(t, e)
           /\ scan.client # "Vat" => Ascends(t)
<1>1. PICK lo \in Nat : lo = scan.start
  BY DEF ScanTypeOK
<1>2. PICK hi \in Nat : hi = ChunkEnd(lo)
  BY EventLogAssumption DEF ScanTypeOK, ChunkEnd
<1>3. 1 <= lo /\ lo <= hi /\ hi <= scan.to /\ hi <= Len(chain) /\ Len(chain) \in Nat
  <2>1. 1 <= lo /\ lo <= scan.to /\ scan.to <= Len(chain) /\ scan.to \in Nat /\ Len(chain) \in Nat
    BY <1>1 DEF ScanPlaceInv, ScanTypeOK, ChainInv
  <2>2. CHUNK \in Nat
    BY EventLogAssumption
  <2> QED BY <1>2, <2>1, <2>2 DEF ChunkEnd
<1>4. PICK s : s = GetLogs
  OBVIOUS
<1>5. s = EventsOfBlocks(SubSeq(chain, lo, hi))
  <2>1. Min({hi, Len(chain)}) = hi
    BY <1>3, LeastOfTwo
  <2> QED BY <1>1, <1>2, <1>4, <2>1 DEF GetLogs
<1>6. /\ s \in Logs /\ Ascends(s)
      /\ ToSet(s) = {e \in LogEvent : \E b \in lo .. hi : e \in ToSet(chain[b])}
  BY <1>3, <1>5, BlocksAsked
<1>7. WantedOf(NextBlocks) = {e \in ToSet(s) : e.kind \in WantedKinds}
  BY <1>1, <1>2, <1>6 DEF WantedOf, NextBlocks
<1>8. CASE scan.client # "Vat"
  <2>1. t = OfKinds(s, WantedKinds)
    BY <1>4, <1>8 DEF InOrder
  <2>2. t \in Logs /\ ToSet(t) = {e \in ToSet(s) : e.kind \in WantedKinds} /\ Ascends(t)
    BY <1>6, <2>1, OfKindsIs
  <2> QED BY <1>7, <2>2, AscendingIsOnce
<1>9. CASE scan.client = "Vat"
  <2>1. PICK f : f = OfKinds(s, {"frob"})
    OBVIOUS
  <2>2. PICK m : m = OfKinds(s, {"move"} \cap scan.include)
    OBVIOUS
  <2>3. PICK k : k = OfKinds(s, {"fork"} \cap scan.include)
    OBVIOUS
  <2>0. PICK g : g = f \o m
    OBVIOUS
  <2>4. t = g \o k
    BY <1>4, <1>9, <2>0, <2>1, <2>2, <2>3 DEF GroupedByKind
  <2>5. f \in Logs /\ ToSet(f) = {e \in ToSet(s) : e.kind \in {"frob"}} /\ Ascends(f)
    BY <1>6, <2>1, OfKindsIs
  <2>6. m \in Logs /\ ToSet(m) = {e \in ToSet(s) : e.kind \in {"move"} \cap scan.include} /\ Ascends(m)
    BY <1>6, <2>2, OfKindsIs
  <2>7. k \in Logs /\ ToSet(k) = {e \in ToSet(s) : e.kind \in {"fork"} \cap scan.include} /\ Ascends(k)
    BY <1>6, <2>3, OfKindsIs
  <2>8. /\ g \in Logs /\ ToSet(g) = ToSet(f) \cup ToSet(m)
        /\ \A e \in ToSet(g) : Once(g, e)
    <3>1. ToSet(f) \cap ToSet(m) = {}
      BY <2>5, <2>6
    <3>2. (\A e \in ToSet(f) : Once(f, e)) /\ (\A e \in ToSet(m) : Once(m, e))
      BY <2>5, <2>6, AscendingIsOnce
    <3>3. \A e \in ToSet(g) : Once(g, e)
      BY <2>0, <2>5, <2>6, <3>1, <3>2, OnceInEither
    <3> QED BY <2>0, <2>5, <2>6, <3>3, JoinedLogs
  <2>9. /\ t \in Logs /\ ToSet(t) = (ToSet(f) \cup ToSet(m)) \cup ToSet(k)
        /\ \A e \in ToSet(t) : Once(t, e)
    <3>1. ToSet(g) \cap ToSet(k) = {}
      BY <2>5, <2>6, <2>7, <2>8
    <3>2. \A e \in ToSet(k) : Once(k, e)
      BY <2>7, AscendingIsOnce
    <3>3. \A e \in ToSet(t) : Once(t, e)
      BY <2>4, <2>7, <2>8, <3>1, <3>2, OnceInEither
    <3>4. t \in Logs /\ ToSet(t) = ToSet(g) \cup ToSet(k)
      <4>1. g \o k \in Logs /\ ToSet(g \o k) = ToSet(g) \cup ToSet(k)
        BY <2>7, <2>8, JoinedLogs
      <4> QED BY <2>4, <4>1
    <3> QED BY <2>8, <3>3, <3>4
  <2>10. WantedKinds = {"frob"} \cup scan.include /\ scan.include \subseteq {"move", "fork"}
    BY <1>9 DEF WantedKinds, VatKinds, ScanTypeOK
  <2>11. ToSet(t) = {e \in ToSet(s) : e.kind \in WantedKinds}
    BY <2>5, <2>6, <2>7, <2>9, <2>10
  <2> QED BY <1>7, <1>9, <2>9, <2>11
<1> QED
  BY <1>8, <1>9

(* Later events are in later blocks. *)
LEMMA BlocksInOrder ==
    ASSUME ChainInv, NEW b \in DOMAIN chain, NEW c \in DOMAIN chain,
           NEW e \in ToSet(chain[b]), NEW f \in ToSet(chain[c]), e.number <= f.number
    PROVE  b <= c
<1>1. SUFFICES ASSUME c < b PROVE FALSE
  BY DEF ChainInv
<1>2. Earlier(chain[c], chain[b])
  BY <1>1 DEF ChainInv, InSequence
<1>3. e \in LogEvent /\ f \in LogEvent
  <2>1. chain[b] \in Logs /\ chain[c] \in Logs
    BY DEF ChainInv
  <2> QED BY <2>1 DEF Logs, ToSet
<1>4. f.number < e.number
  BY <1>2 DEF Earlier
<1> QED
  BY <1>3, <1>4 DEF LogEvent

LEMMA NextMultiple ==
    ASSUME NEW x \in Nat, NEW d \in Nat \ {0}, x % d = 0
    PROVE  (x + d) % d = 0
<1>1. PICK q \in Nat : x = d * q
  <2>1. PICK q \in Nat : q = x \div d
    BY QuotientBounds
  <2>2. x = d * q + (x % d)
    BY <2>1
  <2> QED BY <2>2
<1>2. PICK p \in Nat : p = (x + d) \div d
  BY QuotientBounds
<1>3. PICK r \in 0 .. d - 1 : r = (x + d) % d
  OBVIOUS
<1>4. x + d = d * p + r
  BY <1>2, <1>3
<1>5. PICK g \in Int : g = q + 1 - p
  OBVIOUS
<1>6. d * g = r
  BY <1>1, <1>4, <1>5
<1>7. CASE g >= 1
  <2>1. PICK h \in Nat : g = h + 1
    <3>1. g - 1 \in Nat /\ g = (g - 1) + 1
      BY <1>7
    <3> QED BY <3>1
  <2>2. d * g = d * h + d /\ d * h \in Nat
    BY <2>1
  <2> QED BY <1>6, <2>2
<1>8. CASE g <= -1
  <2>1. PICK h \in Nat : g = -h - 1
    <3>1. -g - 1 \in Nat /\ g = -(-g - 1) - 1
      BY <1>8
    <3> QED BY <3>1
  <2>2. d * g = -(d * h) - d /\ d * h \in Nat
    BY <2>1
  <2> QED BY <1>6, <2>2
<1>9. CASE g = 0
  BY <1>3, <1>6, <1>9
<1> QED
  BY <1>7, <1>8, <1>9

LEMMA LastOfThem ==
    ASSUME NEW s \in Logs, NEW e \in ToSet(s)
    PROVE  /\ Len(s) \in DOMAIN s /\ Last(s) \in ToSet(s)
           /\ Ascends(s) => e.number <= Last(s).number
<1>1. PICK n \in Nat : n = Len(s) /\ DOMAIN s = 1 .. n
  BY DEF Logs
<1>2. PICK i \in 1 .. n : s[i] = e
  BY <1>1 DEF ToSet
<1>3. n \in DOMAIN s /\ Last(s) = s[n]
  BY <1>1, <1>2 DEF Last
<1>4. s[n] \in LogEvent /\ s[i] \in LogEvent
  BY <1>1, <1>3 DEF Logs
<1>5. ASSUME Ascends(s) PROVE e.number <= Last(s).number
  <2>1. i = n \/ s[i].number < s[n].number
    BY <1>1, <1>2, <1>5 DEF Ascends
  <2> QED BY <1>2, <1>3, <1>4, <2>1 DEF LogEvent
<1> QED
  BY <1>1, <1>3, <1>5 DEF ToSet

(* Where the events of the next chunk meet those that there are.           *)
LEMMA MeetingBlock ==
    ASSUME EventLogInv, scan.state = "scanning", scan.reorgs = reorgs,
           NEW e \in WantedOf(Scanned), NEW f \in WantedOf(NextBlocks), f.number <= e.number
    PROVE  /\ scan.start \in scan.from + 1 .. scan.to
           /\ scan.start \in DOMAIN chain
           /\ {e, f} \subseteq ToSet(chain[scan.start])
           /\ e \in WantedOf(NextBlocks)
<1>1. PICK from \in Nat : from = scan.from
  BY DEF EventLogInv, ScanTypeOK
<1>2. PICK start \in Nat : start = scan.start
  BY DEF EventLogInv, ScanTypeOK
<1>3. PICK to \in Nat : to = scan.to
  BY DEF EventLogInv, ScanTypeOK
<1>4. PICK n \in Nat : n = Len(chain) /\ DOMAIN chain = 1 .. n
  BY DEF EventLogInv, ChainInv
<1>5. 1 <= from /\ from <= start /\ start <= to /\ to <= n
  BY <1>1, <1>2, <1>3, <1>4 DEF EventLogInv, ScanPlaceInv
<1>6. PICK b \in Scanned : e \in ToSet(chain[b])
  BY DEF WantedOf
<1>7. from # start /\ b \in from .. to /\ b <= start
  BY <1>1, <1>2, <1>3, <1>6 DEF Scanned
<1>8. PICK c \in NextBlocks : f \in ToSet(chain[c])
  BY DEF WantedOf
<1>9. start <= c /\ c <= to /\ c \in Nat
  BY <1>2, <1>3, <1>5, <1>8, EventLogAssumption DEF NextBlocks, ChunkEnd
<1>10. b \in DOMAIN chain /\ c \in DOMAIN chain
  BY <1>4, <1>5, <1>7, <1>9
<1>11. c <= b
  BY <1>6, <1>8, <1>10, BlocksInOrder DEF EventLogInv
<1>12. b = start /\ c = start
  BY <1>7, <1>9, <1>11
<1>13. start \in NextBlocks
  BY <1>8, <1>12
<1>14. e \in WantedOf(NextBlocks)
  BY <1>6, <1>12, <1>13 DEF WantedOf
<1> QED
  BY <1>1, <1>2, <1>3, <1>5, <1>6, <1>7, <1>8, <1>10, <1>12, <1>14

LEMMA NewBlocks ==
    ASSUME EventLogInv, scan.state = "scanning", NEW t, Receives(t)
    PROVE  WantedOf(Scanned)' = WantedOf(Scanned) \cup WantedOf(NextBlocks)
<1>1. PICK from \in Nat : from = scan.from
  BY DEF EventLogInv, ScanTypeOK
<1>2. PICK start \in Nat : start = scan.start
  BY DEF EventLogInv, ScanTypeOK
<1>3. PICK to \in Nat : to = scan.to
  BY DEF EventLogInv, ScanTypeOK
<1>4. from <= start /\ start <= to
  BY <1>1, <1>2, <1>3 DEF EventLogInv, ScanPlaceInv
<1>5. PICK d \in Nat \ {0} : d = CHUNK
  BY EventLogAssumption
<1>6. /\ scan'.from = from /\ scan'.to = to /\ scan'.start = start + d /\ chain' = chain
      /\ scan'.client = scan.client /\ scan'.include = scan.include
  BY <1>1, <1>2, <1>3, <1>5 DEF Receives, NextStart, EventLogInv, ScanTypeOK
<1>7. WantedKinds' = WantedKinds
  BY <1>6 DEF WantedKinds, VatKinds, FlipperKinds, FlapperKinds, FlopperKinds, ClipperKinds
<1>8. Scanned' = Scanned \cup NextBlocks
  <2>1. Scanned' = {b \in from .. to : b <= start + d}
    <3>1. start + d # from
      BY <1>4, <1>5
    <3> QED BY <1>6, <3>1 DEF Scanned
  <2>2. NextBlocks = {b \in start .. to : b <= start + d}
    BY <1>2, <1>3, <1>4, <1>5 DEF NextBlocks, ChunkEnd
  <2>3. Scanned = IF start = from THEN {} ELSE {b \in from .. to : b <= start}
    BY <1>1, <1>2, <1>3 DEF Scanned
  <2> QED BY <1>4, <1>5, <2>1, <2>2, <2>3
<1>9. WantedOf(Scanned)' =
          {e \in LogEvent : e.kind \in WantedKinds /\ \E b \in Scanned' : e \in ToSet(chain[b])}
  BY <1>6, <1>7 DEF WantedOf
<1> QED
  BY <1>8, <1>9 DEF WantedOf

(* An event that a chunk repeats is in the block where the chunk begins. *)
LEMMA Repeats ==
    ASSUME EventLogInv, scan.state = "scanning", scan.reorgs = reorgs,
           NEW t \in Logs, ToSet(t) = WantedOf(NextBlocks), \A e \in ToSet(t) : Once(t, e),
           Receives(t)
    PROVE  RepeatedWhereChunksMeet'
<1>1. PICK s \in Logs : s = scan.events
  BY DEF EventLogInv, ScanTypeOK
<1>2. PICK r : r = s \o t
  OBVIOUS
<1>3. PICK n \in Nat : n = Len(s) /\ DOMAIN s = 1 .. n
  BY DEF Logs
<1>4. PICK start \in Nat : start = scan.start
  BY DEF EventLogInv, ScanTypeOK
<1>5. PICK d \in Nat \ {0} : d = CHUNK
  BY EventLogAssumption
<1>6. /\ scan'.events = r /\ scan'.start = start + d /\ scan'.from = scan.from
      /\ scan'.to = scan.to /\ chain' = chain
  BY <1>1, <1>2, <1>4, <1>5 DEF Receives, NextStart, EventLogInv, ScanTypeOK
<1>7. /\ r \in Logs /\ ToSet(r) = ToSet(s) \cup ToSet(t)
      /\ \A e : Places(r, e) = Places(s, e) \cup {n + i : i \in Places(t, e)}
  BY <1>2, <1>3, JoinedLogs
<1>8. ToSet(s) = WantedOf(Scanned) /\ RepeatedWhereChunksMeet
  BY <1>1 DEF EventLogInv, GatheredInv
<1>9. MeetingsBefore(start + d) =
          {b \in scan.from + 1 .. scan.to : b < start + d /\ (b - scan.from) % CHUNK = 0}
  BY DEF MeetingsBefore
<1>10. MeetingsBefore(start) \subseteq MeetingsBefore(start + d)
  BY <1>5, <1>9 DEF MeetingsBefore, EventLogInv, ScanTypeOK
<1>11. ASSUME NEW e \in ToSet(r)
       PROVE  Once(r, e) \/ (Twice(r, e) /\ \E b \in MeetingsBefore(start + d) : e \in ToSet(chain[b]))
  <2>1. Places(r, e) \subseteq DOMAIN r
    BY DEF Places
  <2>2. /\ e \notin ToSet(s) => Places(s, e) = {}
        /\ e \notin ToSet(t) => Places(t, e) = {}
    BY DEF ToSet, Places
  <2>3. CASE e \in ToSet(s) /\ e \notin ToSet(t)
    <3>1. Places(r, e) = Places(s, e)
      BY <1>7, <2>2, <2>3
    <3>2. CASE Once(s, e)
      BY <2>1, <3>1, <3>2 DEF Once
    <3>3. CASE Twice(s, e) /\ \E b \in MeetingsBefore(start) : e \in ToSet(chain[b])
      <4>1. Twice(r, e)
        BY <2>1, <3>1, <3>3 DEF Twice
      <4> QED BY <1>10, <3>3, <4>1
    <3> QED BY <1>1, <1>4, <1>8, <2>3, <3>2, <3>3 DEF RepeatedWhereChunksMeet
  <2>4. CASE e \in ToSet(t) /\ e \notin ToSet(s)
    <3>1. PICK i : Places(t, e) = {i}
      BY <2>4 DEF Once
    <3>2. Places(r, e) = {n + i}
      BY <1>7, <2>2, <2>4, <3>1
    <3> QED BY <2>1, <3>2 DEF Once
  <2>5. CASE e \in ToSet(s) /\ e \in ToSet(t)
    <3>1. e \in WantedOf(Scanned) /\ e \in WantedOf(NextBlocks) /\ e.number \in Nat
      BY <1>8, <2>5 DEF WantedOf, LogEvent
    <3>2. /\ start \in scan.from + 1 .. scan.to /\ start \in DOMAIN chain
          /\ e \in ToSet(chain[start])
      BY <1>4, <3>1, MeetingBlock
    <3>3. start \in MeetingsBefore(start + d)
      BY <1>4, <1>5, <1>9, <3>2 DEF EventLogInv, ScanPlaceInv
    <3>4. ASSUME NEW b \in MeetingsBefore(start), e \in ToSet(chain[b]) PROVE FALSE
      <4>1. b < start /\ b \in scan.from + 1 .. scan.to /\ b \in Int
        BY DEF MeetingsBefore, EventLogInv, ScanTypeOK
      <4>2. b \in DOMAIN chain
        BY <4>1 DEF EventLogInv, ChainInv, ScanPlaceInv, ScanTypeOK
      <4>3. start <= b
        BY <3>1, <3>2, <3>4, <4>2, BlocksInOrder DEF EventLogInv
      <4> QED BY <4>1, <4>3
    <3>5. Once(s, e)
      BY <1>1, <1>4, <1>8, <2>5, <3>4 DEF RepeatedWhereChunksMeet
    <3>6. PICK i \in DOMAIN s : Places(s, e) = {i}
      BY <3>5 DEF Once
    <3>7. PICK j \in DOMAIN t : Places(t, e) = {j}
      BY <2>5 DEF Once
    <3>8. Places(r, e) = {i, n + j}
      BY <1>7, <3>6, <3>7
    <3>9. i # n + j
      <4>1. j \in Nat /\ j >= 1
        BY DEF Logs
      <4> QED BY <1>3, <4>1
    <3>10. Twice(r, e)
      BY <2>1, <3>8, <3>9 DEF Twice
    <3> QED BY <3>2, <3>3, <3>10
  <2> QED BY <1>7, <2>3, <2>4, <2>5
<1>12. MeetingsBefore(scan.start)' = MeetingsBefore(start + d)
  BY <1>6 DEF MeetingsBefore
<1> QED
  BY <1>6, <1>11, <1>12 DEF RepeatedWhereChunksMeet

(* The auctions' events go back in the block where two chunks meet only. *)
LEMMA Replays ==
    ASSUME EventLogInv, scan.state = "scanning", scan.reorgs = reorgs, scan.client # "Vat",
           NEW t \in Logs, ToSet(t) = WantedOf(NextBlocks), Ascends(t), Receives(t)
    PROVE  ReplayInv'
<1>1. PICK s \in Logs : s = scan.events
  BY DEF EventLogInv, ScanTypeOK
<1>2. PICK r : r = s \o t
  OBVIOUS
<1>3. PICK n \in Nat : n = Len(s) /\ DOMAIN s = 1 .. n
  BY DEF Logs
<1>4. PICK m \in Nat : m = Len(t) /\ DOMAIN t = 1 .. m
  BY DEF Logs
<1>5. /\ r \in Logs /\ Len(r) = n + m /\ DOMAIN r = 1 .. n + m
      /\ \A i \in 1 .. n : r[i] = s[i]
      /\ \A i \in 1 .. m : r[n + i] = t[i]
      /\ \A i \in 1 .. n + m : r[i] \in LogEvent
  BY <1>2, <1>3, <1>4 DEF Logs
<1>6. /\ scan'.events = r /\ scan'.from = scan.from /\ scan'.to = scan.to /\ chain' = chain
  BY <1>1, <1>2 DEF Receives, NextStart, EventLogInv, ScanTypeOK
<1>7. ToSet(s) = WantedOf(Scanned) /\ ReplayInv
  BY <1>1 DEF EventLogInv, GatheredInv
<1>8. ASSUME NEW e \in ToSet(s), NEW f \in ToSet(t), f.number <= e.number
      PROVE  /\ {e, f} \subseteq ToSet(chain[scan.start]) /\ e \in ToSet(t)
             /\ scan.start \in scan.from .. scan.to
  <2>1. /\ scan.start \in scan.from + 1 .. scan.to
        /\ {e, f} \subseteq ToSet(chain[scan.start]) /\ e \in WantedOf(NextBlocks)
    BY <1>7, <1>8, MeetingBlock
  <2> QED BY <2>1 DEF EventLogInv, ScanTypeOK
<1>9. ASSUME NEW i \in 1 .. n PROVE s[i] \in ToSet(s)
  BY <1>3 DEF ToSet
<1>10. ASSUME NEW i \in 1 .. m PROVE t[i] \in ToSet(t)
  BY <1>4 DEF ToSet
<1>11. ASSUME NEW i \in 1 .. n + m PROVE i \in 1 .. n \/ i - n \in 1 .. m
  OBVIOUS
<1>12. ASSUME NEW i \in 1 .. n + m PROVE r[i].number <= r[n + m].number
  <2>0. r[i].number \in Nat /\ r[n + m].number \in Nat
    <3>1. n + m \in 1 .. n + m
      OBVIOUS
    <3> QED BY <1>5, <3>1 DEF LogEvent
  <2>1. CASE m = 0
    <3>1. i \in 1 .. n /\ n \in 1 .. n /\ n + m = n
      BY <2>1
    <3>2. s[i].number <= s[n].number
      BY <1>1, <1>3, <1>7, <3>1 DEF ReplayInv, Last
    <3> QED BY <1>5, <3>1, <3>2
  <2>2. CASE m > 0
    <3>1. m \in 1 .. m /\ r[n + m] = t[m] /\ Last(t) = t[m]
      BY <1>4, <1>5, <2>2 DEF Last
    <3>2. \A e \in ToSet(t) : e.number <= t[m].number
      BY <3>1, LastOfThem
    <3>3. CASE i \in 1 .. n
      <4>1. r[i] = s[i] /\ s[i] \in ToSet(s) /\ t[m] \in ToSet(t)
        BY <1>5, <1>9, <1>10, <3>1, <3>3
      <4>2. CASE t[m].number <= s[i].number
        <5>1. s[i] \in ToSet(t)
          BY <1>8, <4>1, <4>2
        <5> QED BY <3>1, <3>2, <4>1, <5>1
      <4> QED BY <2>0, <3>1, <4>1, <4>2
    <3>4. CASE i - n \in 1 .. m
      <4>1. r[i] = t[i - n] /\ t[i - n] \in ToSet(t)
        <5>1. n + (i - n) = i
          OBVIOUS
        <5> QED BY <1>5, <1>10, <3>4, <5>1
      <4> QED BY <3>1, <3>2, <4>1
    <3> QED BY <1>11, <3>3, <3>4
  <2> QED BY <2>1, <2>2
<1>13. ASSUME NEW i \in 1 .. n + m - 1, r[i + 1].number <= r[i].number
       PROVE  \E b \in scan.from .. scan.to : {r[i], r[i + 1]} \subseteq ToSet(chain[b])
  <2>1. CASE i + 1 <= n
    <3>1. i \in 1 .. n - 1 /\ i \in 1 .. n /\ i + 1 \in 1 .. n
      BY <2>1
    <3>2. r[i] = s[i] /\ r[i + 1] = s[i + 1]
      BY <1>5, <3>1
    <3>3. i \in 1 .. Len(scan.events) - 1
      BY <1>1, <1>3, <3>1
    <3> QED BY <1>1, <1>7, <1>13, <3>2, <3>3 DEF ReplayInv
  <2>2. CASE i = n
    <3>1. i \in 1 .. n /\ 1 \in 1 .. m /\ n + 1 = i + 1
      BY <2>2
    <3>2. r[i] = s[i] /\ r[i + 1] = t[1] /\ s[i] \in ToSet(s) /\ t[1] \in ToSet(t)
      BY <1>5, <1>9, <1>10, <3>1
    <3> QED BY <1>8, <1>13, <3>2
  <2>3. CASE i > n
    <3>1. i - n \in 1 .. m /\ i - n + 1 \in 1 .. m /\ n + (i - n) = i /\ n + (i - n + 1) = i + 1
      BY <2>3
    <3>2. r[i] = t[i - n] /\ r[i + 1] = t[i - n + 1]
      BY <1>5, <3>1
    <3>3. t[i - n].number < t[i - n + 1].number
      BY <1>4, <3>1 DEF Ascends
    <3>4. r[i].number \in Nat /\ r[i + 1].number \in Nat
      <4>1. i \in 1 .. n + m /\ i + 1 \in 1 .. n + m
        OBVIOUS
      <4> QED BY <1>5, <4>1 DEF LogEvent
    <3> QED BY <1>13, <3>2, <3>3, <3>4
  <2>4. i + 1 <= n \/ i = n \/ i > n
    OBVIOUS
  <2> QED BY <2>1, <2>2, <2>3, <2>4
<1> QED
  <2>1. Last(r) = r[n + m]
    BY <1>5 DEF Last
  <2>2. \A i \in DOMAIN r : r[i].number <= Last(r).number
    BY <1>5, <1>12, <2>1
  <2>3. \A i \in 1 .. Len(r) - 1 :
            r[i + 1].number <= r[i].number =>
                \E b \in scan.from .. scan.to : {r[i], r[i + 1]} \subseteq ToSet(chain[b])
    BY <1>5, <1>13
  <2> QED BY <1>6, <2>2, <2>3 DEF ReplayInv

LEMMA ChunkReceived ==
    ASSUME EventLogInv, scan.state = "scanning",
           NEW t, t = IF scan.client = "Vat" THEN GroupedByKind(GetLogs) ELSE InOrder(GetLogs),
           Receives(t)
    PROVE  EventLogInv'
<1>1. /\ t \in Logs /\ ToSet(t) = WantedOf(NextBlocks)
      /\ \A e \in ToSet(t) : Once(t, e)
      /\ scan.client # "Vat" => Ascends(t)
  BY ChunkIs DEF EventLogInv
<1>2. PICK s \in Logs : s = scan.events
  BY DEF EventLogInv, ScanTypeOK
<1>3. PICK d \in Nat \ {0} : d = CHUNK
  BY EventLogAssumption
<1>4. /\ scan' = [scan EXCEPT !.events = s \o t, !.start = scan.start + d,
                              !.state = IF scan.start + d <= scan.to THEN "scanning" ELSE "done"]
      /\ UNCHANGED <<chain, emitted, reorgs>>
  BY <1>2, <1>3 DEF Receives, NextStart
<1>5. s \o t \in Logs /\ ToSet(s \o t) = ToSet(s) \cup ToSet(t)
  BY <1>1, <1>2, JoinedLogs
<1>6. ChainInv'
  BY <1>4 DEF EventLogInv, ChainInv
<1>7. ScanTypeOK'
  <2>1. scan.start + d \in Nat
    BY <1>3 DEF EventLogInv, ScanTypeOK
  <2>2. (IF scan.start + d <= scan.to THEN "scanning" ELSE "done") \in {"idle", "scanning", "done"}
    OBVIOUS
  <2>3. PICK start \in Nat : start = scan.start + d
    BY <2>1
  <2>4. PICK state \in {"idle", "scanning", "done"} :
            state = IF scan.start + d <= scan.to THEN "scanning" ELSE "done"
    BY <2>2
  <2>5. PICK r \in Logs : r = s \o t
    BY <1>5
  <2>6. scan' = [scan EXCEPT !.events = r, !.start = start, !.state = state]
    BY <1>4, <2>3, <2>4, <2>5
  <2> QED BY <2>6 DEF EventLogInv, ScanTypeOK
<1>8. ScanPlaceInv'
  <2>1. PICK from \in Nat : from = scan.from
    BY DEF EventLogInv, ScanTypeOK
  <2>2. PICK start \in Nat : start = scan.start
    BY DEF EventLogInv, ScanTypeOK
  <2>3. PICK to \in Nat : to = scan.to
    BY DEF EventLogInv, ScanTypeOK
  <2>4. /\ scan'.from = from /\ scan'.to = to /\ scan'.start = start + d
        /\ scan'.client = scan.client /\ scan'.reorgs = scan.reorgs
        /\ scan'.state = IF start + d <= to THEN "scanning" ELSE "done"
        /\ chain' = chain /\ reorgs' = reorgs
    BY <1>4, <2>1, <2>2, <2>3 DEF EventLogInv, ScanTypeOK
  <2>5. /\ scan.reorgs <= reorgs /\ scan.client \in LogClientNames
        /\ 1 <= from /\ from <= to /\ to <= Len(chain) /\ from <= start
        /\ (start - from) % d = 0
    BY <1>3, <2>1, <2>2, <2>3 DEF EventLogInv, ScanPlaceInv
  <2>6. (start + d - from) % d = 0
    <3>1. start - from \in Nat /\ (start - from) + d = start + d - from
      BY <2>5
    <3> QED BY <2>5, <3>1, NextMultiple
  <2> QED BY <1>3, <2>4, <2>5, <2>6 DEF ScanPlaceInv
<1>9. GatheredInv'
  <2>1. SUFFICES ASSUME scan.reorgs = reorgs
                 PROVE  /\ ToSet(scan.events)' = WantedOf(Scanned)'
                        /\ RepeatedWhereChunksMeet'
                        /\ scan'.client # "Vat" => ReplayInv'
    BY <1>4 DEF GatheredInv, EventLogInv, ScanTypeOK
  <2>2. ToSet(scan'.events) = WantedOf(Scanned)'
    <3>1. scan'.events = s \o t
      BY <1>4 DEF EventLogInv, ScanTypeOK
    <3>2. ToSet(s) = WantedOf(Scanned)
      BY <1>2, <2>1 DEF EventLogInv, GatheredInv
    <3> QED BY <1>1, <1>5, <3>1, <3>2, NewBlocks
  <2>3. RepeatedWhereChunksMeet'
    BY <1>1, <2>1, Repeats
  <2>4. scan'.client = scan.client
    BY <1>4 DEF EventLogInv, ScanTypeOK
  <2>5. scan.client # "Vat" => ReplayInv'
    BY <1>1, <2>1, Replays
  <2> QED BY <2>2, <2>3, <2>4, <2>5
<1> QED
  BY <1>6, <1>7, <1>8, <1>9 DEF EventLogInv

LEMMA NewBlockIs ==
    ASSUME ChainInv, NEW ev \in BlockEvents
    PROVE  /\ ev \in Logs /\ Ascends(ev) /\ Len(ev) \in Nat
           /\ \A e \in ToSet(ev) : emitted < e.number /\ e.number <= emitted + Len(ev)
<1>1. PICK kinds \in Seq(STRING) :
          ev = [n \in DOMAIN kinds |-> [kind |-> kinds[n], number |-> emitted + n]]
  BY EventLogAssumption DEF BlockEvents
<1>2. PICK m \in Nat : m = Len(kinds) /\ DOMAIN kinds = 1 .. m
  OBVIOUS
<1>3. PICK x \in Nat : x = emitted
  BY DEF ChainInv
<1>4. ASSUME NEW n \in 1 .. m
      PROVE  ev[n] \in LogEvent /\ ev[n].number = x + n
  <2>1. kinds[n] \in STRING
    BY <1>1, <1>2
  <2>2. ev[n] = [kind |-> kinds[n], number |-> x + n]
    BY <1>1, <1>2, <1>3
  <2> QED BY <2>1, <2>2 DEF LogEvent
<1>5. ev \in [1 .. m -> LogEvent]
  <2>1. ev = [n \in 1 .. m |-> ev[n]]
    BY <1>1, <1>2
  <2> QED BY <1>4, <2>1
<1>6. ev \in Logs /\ Len(ev) = m /\ DOMAIN ev = 1 .. m
  BY <1>5 DEF Logs
<1>7. Ascends(ev)
  BY <1>4, <1>6 DEF Ascends
<1>8. ASSUME NEW e \in ToSet(ev) PROVE x < e.number /\ e.number <= x + m
  <2>1. PICK n \in 1 .. m : ev[n] = e
    BY <1>6 DEF ToSet
  <2> QED BY <1>4, <2>1
<1> QED
  BY <1>3, <1>6, <1>7, <1>8

(* A block at the head, whatever it takes the place of, is later than the rest. *)
LEMMA ChainGoesOn ==
    ASSUME ChainInv, NEW ev \in BlockEvents, NEW n \in Nat, n >= 1, n - 1 <= Len(chain),
           chain' \in Seq(Logs), Len(chain') = n, chain'[n] = ev,
           \A b \in 1 .. n - 1 : chain'[b] = chain[b],
           emitted' = emitted + Len(ev), reorgs' \in Nat
    PROVE  ChainInv'
<1>1. /\ ev \in Logs /\ Ascends(ev) /\ Len(ev) \in Nat
      /\ \A e \in ToSet(ev) : emitted < e.number /\ e.number <= emitted + Len(ev)
  BY NewBlockIs
<1>2. PICK x \in Nat : x = emitted
  BY DEF ChainInv
<1>3. PICK l \in Nat : l = Len(ev)
  BY <1>1
<1>4. emitted' = x + l
  BY <1>2, <1>3
<1>5. DOMAIN chain' = 1 .. n
  OBVIOUS
<1>6. ASSUME NEW b \in 1 .. n - 1
      PROVE  /\ b \in DOMAIN chain /\ chain'[b] = chain[b] /\ Ascends(chain[b])
             /\ \A e \in ToSet(chain[b]) : e \in LogEvent /\ e.number <= x
  <2>1. b \in DOMAIN chain
    BY DEF ChainInv
  <2>2. chain[b] \in Logs
    BY <2>1 DEF ChainInv
  <2>3. \A e \in ToSet(chain[b]) : e \in LogEvent
    BY <2>2 DEF ToSet, Logs
  <2> QED BY <1>2, <2>1, <2>3 DEF ChainInv, InSequence
<1>7. ASSUME NEW e \in ToSet(ev) PROVE e \in LogEvent /\ x < e.number /\ e.number <= x + l
  <2>1. e \in LogEvent
    BY <1>1 DEF ToSet, Logs
  <2> QED BY <1>1, <1>2, <1>3, <2>1
<1>8. ASSUME NEW b \in 1 .. n PROVE b \in 1 .. n - 1 \/ b = n
  OBVIOUS
<1>9. ASSUME NEW b \in 1 .. n PROVE Ascends(chain'[b])
  BY <1>1, <1>6, <1>8
<1>10. ASSUME NEW b \in 1 .. n, NEW c \in 1 .. n, b < c PROVE Earlier(chain'[b], chain'[c])
  <2>1. b \in 1 .. n - 1
    BY <1>10
  <2>2. CASE c \in 1 .. n - 1
    <3>1. Earlier(chain[b], chain[c])
      BY <1>6, <1>10, <2>1, <2>2 DEF ChainInv, InSequence
    <3> QED BY <2>1, <2>2, <3>1
  <2>3. CASE c = n
    <3>1. ASSUME NEW d \in ToSet(chain[b]), NEW e \in ToSet(ev) PROVE d.number < e.number
      <4>1. d.number \in Nat /\ d.number <= x
        BY <1>6, <2>1 DEF LogEvent
      <4>2. e.number \in Nat /\ x < e.number
        BY <1>7 DEF LogEvent
      <4> QED BY <4>1, <4>2
    <3> QED BY <2>1, <2>3, <3>1 DEF Earlier
  <2> QED BY <1>8, <2>2, <2>3
<1>11. ASSUME NEW b \in 1 .. n, NEW e \in ToSet(chain'[b]) PROVE e.number <= x + l
  <2>1. CASE b \in 1 .. n - 1
    <3>1. e \in LogEvent /\ e.number <= x
      BY <1>6, <2>1
    <3> QED BY <3>1 DEF LogEvent
  <2>2. CASE b = n
    BY <1>7, <2>2
  <2> QED BY <1>8, <2>1, <2>2
<1> QED
  BY <1>4, <1>5, <1>9, <1>10, <1>11 DEF ChainInv, InSequence

(* What was asked of the chain is what it was. *)
LEMMA AskedIsKept ==
    ASSUME EventLogInv, chain' \in Seq(Logs), Len(chain') >= Len(chain),
           \A b \in DOMAIN chain : chain'[b] = chain[b], UNCHANGED <<reorgs, scan>>
    PROVE  GatheredInv' /\ ScanPlaceInv' /\ ScanTypeOK'
<1>1. ScanTypeOK'
  BY DEF EventLogInv, ScanTypeOK
<1>2. ScanPlaceInv'
  BY DEF EventLogInv, ScanTypeOK, ScanPlaceInv, ChainInv
<1>3. ASSUME scan.state # "idle", NEW b \in scan.from .. scan.to PROVE chain'[b] = chain[b]
  <2>1. b \in DOMAIN chain
    BY <1>3 DEF EventLogInv, ScanTypeOK, ScanPlaceInv, ChainInv
  <2> QED BY <2>1
<1>4. GatheredInv'
  <2>1. SUFFICES ASSUME scan.state # "idle", scan.reorgs = reorgs
                 PROVE  /\ ToSet(scan.events) = WantedOf(Scanned)'
                        /\ RepeatedWhereChunksMeet'
                        /\ scan.client # "Vat" => ReplayInv'
    BY DEF GatheredInv
  <2>2. /\ ToSet(scan.events) = WantedOf(Scanned) /\ RepeatedWhereChunksMeet
        /\ scan.client # "Vat" => ReplayInv
    BY <2>1 DEF EventLogInv, GatheredInv
  <2>3. ToSet(scan.events) = WantedOf(Scanned)'
    <3>1. WantedKinds' = WantedKinds
      BY DEF WantedKinds, VatKinds, FlipperKinds, FlapperKinds, FlopperKinds, ClipperKinds
    <3>2. Scanned' = Scanned /\ Scanned \subseteq scan.from .. scan.to
      BY DEF Scanned
    <3>3. \A b \in Scanned : chain'[b] = chain[b]
      BY <1>3, <2>1, <3>2
    <3>4. WantedOf(Scanned)' = WantedOf(Scanned)
      BY <3>1, <3>2, <3>3 DEF WantedOf
    <3> QED BY <2>2, <3>4
  <2>4. RepeatedWhereChunksMeet'
    <3>1. MeetingsBefore(scan.start)' = MeetingsBefore(scan.start)
      BY DEF MeetingsBefore
    <3>2. MeetingsBefore(scan.start) \subseteq scan.from .. scan.to
      BY DEF MeetingsBefore, EventLogInv, ScanTypeOK
    <3>3. \A b \in MeetingsBefore(scan.start) : chain'[b] = chain[b]
      BY <1>3, <2>1, <3>2
    <3> QED BY <2>2, <3>1, <3>3 DEF RepeatedWhereChunksMeet
  <2>5. ASSUME scan.client # "Vat" PROVE ReplayInv'
    BY <1>3, <2>1, <2>2, <2>5 DEF ReplayInv
  <2> QED BY <2>3, <2>4, <2>5
<1> QED
  BY <1>1, <1>2, <1>4

LEMMA ScanStarts ==
    ASSUME EventLogInv, NEW who \in LogClientNames, NEW from \in DOMAIN chain,
           NEW to \in from .. Len(chain), NEW include \in SUBSET {"move", "fork"},
           Starts(who, from, to, include)
    PROVE  EventLogInv'
<1>1. scan' = [client |-> who, state |-> "scanning", from |-> from, to |-> to, start |-> from,
               events |-> <<>>, include |-> include, reorgs |-> reorgs]
  BY DEF Starts, NoScan
<1>2. UNCHANGED <<chain, emitted, reorgs>>
  BY DEF Starts
<1>3. /\ from \in Nat /\ to \in Nat /\ 1 <= from /\ from <= to /\ to <= Len(chain)
      /\ reorgs \in Nat
  BY DEF EventLogInv, ChainInv
<1>4. <<>> \in Logs /\ ToSet(<<>>) = {} /\ Len(<<>>) = 0 /\ DOMAIN <<>> = {}
  BY DEF Logs, ToSet
<1>5. ChainInv'
  BY <1>2 DEF EventLogInv, ChainInv
<1>6. ScanTypeOK'
  BY <1>1, <1>3, <1>4 DEF ScanTypeOK
<1>7. ScanPlaceInv'
  <2>1. (from - from) % CHUNK = 0
    <3>1. CHUNK \in Nat \ {0} /\ from - from = 0
      BY <1>3, EventLogAssumption
    <3>2. PICK d \in Nat \ {0} : d = CHUNK
      BY <3>1
    <3>3. 0 % d = 0
      OBVIOUS
    <3> QED BY <3>1, <3>2, <3>3
  <2> QED BY <1>1, <1>2, <1>3, <2>1 DEF ScanPlaceInv
<1>8. GatheredInv'
  <2>1. Scanned' = {} /\ scan'.events = <<>>
    BY <1>1 DEF Scanned
  <2>2. WantedOf(Scanned)' = {}
    BY <2>1 DEF WantedOf
  <2>3. RepeatedWhereChunksMeet'
    BY <1>4, <2>1 DEF RepeatedWhereChunksMeet
  <2>4. ReplayInv'
    BY <1>4, <2>1 DEF ReplayInv
  <2> QED BY <1>4, <2>1, <2>2, <2>3, <2>4 DEF GatheredInv
<1> QED
  BY <1>5, <1>6, <1>7, <1>8 DEF EventLogInv

LEMMA EventLogStep == EventLogInv /\ [EventLogNext]_eventLogVars => EventLogInv'
<1>1. SUFFICES ASSUME EventLogInv, [EventLogNext]_eventLogVars PROVE EventLogInv'
  OBVIOUS
<1>2. CASE BlockMined
  <2>1. PICK ev \in BlockEvents : chain' = Append(chain, ev) /\ emitted' = emitted + Len(ev)
    BY <1>2 DEF BlockMined
  <2>2. UNCHANGED <<reorgs, scan>>
    BY <1>2 DEF BlockMined
  <2>3. chain \in Seq(Logs) /\ ev \in Logs
    BY <1>1, NewBlockIs DEF EventLogInv, ChainInv
  <2>4. PICK n \in Nat : n = Len(chain) + 1
    BY <2>3
  <2>5. /\ chain' \in Seq(Logs) /\ Len(chain') = n /\ chain'[n] = ev
        /\ \A b \in 1 .. n - 1 : chain'[b] = chain[b]
    BY <2>1, <2>3, <2>4
  <2>6. n >= 1 /\ n - 1 <= Len(chain) /\ DOMAIN chain = 1 .. n - 1 /\ Len(chain') >= Len(chain)
    BY <2>3, <2>4, <2>5
  <2>7. ChainInv'
    BY <1>1, <2>1, <2>2, <2>5, <2>6, ChainGoesOn DEF EventLogInv, ChainInv
  <2>8. GatheredInv' /\ ScanPlaceInv' /\ ScanTypeOK'
    BY <1>1, <2>2, <2>5, <2>6, AskedIsKept
  <2> QED BY <2>7, <2>8 DEF EventLogInv
<1>3. CASE HeadReplaced
  <2>1. PICK ev \in BlockEvents : /\ chain' = [chain EXCEPT ![Len(chain)] = ev]
                                  /\ emitted' = emitted + Len(ev)
    BY <1>3 DEF HeadReplaced
  <2>2. reorgs' = reorgs + 1 /\ scan' = scan /\ chain # <<>>
    BY <1>3 DEF HeadReplaced
  <2>3. chain \in Seq(Logs) /\ ev \in Logs
    BY <1>1, NewBlockIs DEF EventLogInv, ChainInv
  <2>4. PICK n \in Nat : n = Len(chain)
    BY <2>3
  <2>5. /\ chain' \in Seq(Logs) /\ Len(chain') = n /\ chain'[n] = ev
        /\ \A b \in 1 .. n - 1 : chain'[b] = chain[b]
    BY <2>1, <2>2, <2>3, <2>4
  <2>6. n >= 1 /\ n - 1 <= Len(chain)
    BY <2>2, <2>3, <2>4
  <2>7. reorgs \in Nat /\ reorgs' \in Nat
    BY <1>1, <2>2 DEF EventLogInv, ChainInv
  <2>8. ChainInv'
    BY <1>1, <2>1, <2>5, <2>6, <2>7, ChainGoesOn DEF EventLogInv
  <2>9. ScanTypeOK'
    BY <1>1, <2>2 DEF EventLogInv, ScanTypeOK
  <2>10. scan.reorgs \in Nat /\ scan.reorgs < reorgs' /\ scan'.reorgs # reorgs'
    BY <1>1, <2>2, <2>7 DEF EventLogInv, ScanTypeOK, ScanPlaceInv
  <2>11. ScanPlaceInv'
    BY <1>1, <2>2, <2>4, <2>5, <2>7, <2>10 DEF EventLogInv, ScanPlaceInv
  <2>12. GatheredInv'
    BY <2>10 DEF GatheredInv
  <2> QED BY <2>8, <2>9, <2>11, <2>12 DEF EventLogInv
<1>4. CASE PastLogsOfVat
  <2>1. PICK from \in DOMAIN chain :
            \E to \in from .. Len(chain), include \in SUBSET {"move", "fork"} :
                Starts("Vat", from, to, include)
    BY <1>4 DEF PastLogsOfVat
  <2> QED BY <1>1, <2>1, ScanStarts DEF LogClientNames
<1>5. CASE PastLognotes
  <2>1. PICK who \in LogClients \ {"Vat"}, from \in DOMAIN chain :
            \E to \in from .. Len(chain) : Starts(who, from, to, {})
    BY <1>5 DEF PastLognotes
  <2>2. who \in LogClientNames
    BY EventLogAssumption DEF LogClientNames
  <2> QED BY <1>1, <2>1, <2>2, ScanStarts
<1>6. CASE VatChunk
  <2>1. /\ scan.state = "scanning"
        /\ Receives(IF scan.client = "Vat" THEN GroupedByKind(GetLogs) ELSE InOrder(GetLogs))
    BY <1>6 DEF VatChunk
  <2> QED BY <1>1, <2>1, ChunkReceived
<1>7. CASE AuctionChunk
  <2>1. /\ scan.state = "scanning"
        /\ Receives(IF scan.client = "Vat" THEN GroupedByKind(GetLogs) ELSE InOrder(GetLogs))
    BY <1>7 DEF AuctionChunk
  <2> QED BY <1>1, <2>1, ChunkReceived
<1>8. CASE UNCHANGED eventLogVars
  <2>1. UNCHANGED <<chain, emitted, reorgs, scan>>
    BY <1>8 DEF eventLogVars
  <2>2. ChainInv'
    BY <1>1, <2>1 DEF EventLogInv, ChainInv
  <2>3. GatheredInv' /\ ScanPlaceInv' /\ ScanTypeOK'
    BY <1>1, <2>1, AskedIsKept DEF EventLogInv, ChainInv
  <2> QED BY <2>2, <2>3 DEF EventLogInv
<1> QED
  BY <1>1, <1>2, <1>3, <1>4, <1>5, <1>6, <1>7, <1>8 DEF EventLogNext

LEMMA TimesIs ==
    ASSUME NEW s, NEW e
    PROVE  /\ Once(s, e) => Cardinality({n \in DOMAIN s : s[n] = e}) = 1
           /\ Twice(s, e) => Cardinality({n \in DOMAIN s : s[n] = e}) = 2
<1>1. ASSUME Once(s, e) PROVE Cardinality(Places(s, e)) = 1
  <2>1. PICK i : Places(s, e) = {i}
    BY <1>1 DEF Once
  <2> QED BY <2>1, FS_Singleton
<1>2. ASSUME Twice(s, e) PROVE Cardinality(Places(s, e)) = 2
  <2>1. PICK i, j \in DOMAIN s : i # j /\ Places(s, e) = {i, j}
    BY <1>2 DEF Twice
  <2>2. Places(s, e) = {i} \cup {j} /\ j \notin {i}
    BY <2>1
  <2>3. IsFiniteSet({i}) /\ Cardinality({i}) = 1
    BY FS_Singleton
  <2>4. Cardinality({i} \cup {j}) = Cardinality({i}) + 1
    BY <2>2, <2>3, FS_AddElement
  <2> QED BY <2>2, <2>3, <2>4
<1> QED
  BY <1>1, <1>2 DEF Places

LEMMA DoneIsComplete ==
    ASSUME EventLogInv, scan.state = "done", scan.reorgs = reorgs
    PROVE  EventsComplete /\ ReplayEndsRight
<1>1. PICK from \in Nat : from = scan.from
  BY DEF EventLogInv, ScanTypeOK
<1>2. PICK start \in Nat : start = scan.start
  BY DEF EventLogInv, ScanTypeOK
<1>3. PICK to \in Nat : to = scan.to
  BY DEF EventLogInv, ScanTypeOK
<1>4. 1 <= from /\ from <= to /\ to <= Len(chain) /\ to < start
  <2>1. scan.state # "scanning" /\ scan.state # "idle"
    OBVIOUS
  <2> QED BY <1>1, <1>2, <1>3, <2>1 DEF EventLogInv, ScanPlaceInv
<1>5. PICK w : w = Wanted
  OBVIOUS
<1>6. PICK s \in Logs : s = scan.events
  BY DEF EventLogInv, ScanTypeOK
<1>7. /\ ToSet(s) = WantedOf(Scanned) /\ RepeatedWhereChunksMeet
      /\ scan.client # "Vat" => ReplayInv
  BY <1>6 DEF EventLogInv, GatheredInv
<1>8. Scanned = from .. to
  <2>1. start # from
    BY <1>4
  <2>2. Scanned = {b \in from .. to : b <= start}
    BY <1>1, <1>2, <1>3, <2>1 DEF Scanned
  <2>3. ASSUME NEW b \in from .. to PROVE b <= start
    BY <1>4
  <2> QED BY <2>2, <2>3
<1>9. w \in Logs /\ Ascends(w) /\ ToSet(w) = ToSet(s)
  <2>1. PICK b : b = EventsOfBlocks(SubSeq(chain, from, to))
    OBVIOUS
  <2>2. /\ b \in Logs /\ Ascends(b)
        /\ ToSet(b) = {e \in LogEvent : \E c \in from .. to : e \in ToSet(chain[c])}
    BY <1>4, <2>1, BlocksAsked DEF EventLogInv
  <2>3. w = OfKinds(b, WantedKinds)
    BY <1>1, <1>3, <1>5, <2>1 DEF Wanted
  <2>4. w \in Logs /\ Ascends(w) /\ ToSet(w) = {e \in ToSet(b) : e.kind \in WantedKinds}
    BY <2>2, <2>3, OfKindsIs
  <2> QED BY <1>7, <1>8, <2>2, <2>4 DEF WantedOf
<1>10. EventsComplete
  <2>1. PICK D : D = UNION {ToSet(chain[b]) : b \in
                               {b \in scan.from + 1 .. scan.to : (b - scan.from) % CHUNK = 0}}
    OBVIOUS
  <2>2. ASSUME NEW e \in ToSet(s)
        PROVE  \/ Cardinality({n \in DOMAIN s : s[n] = e}) = 1
               \/ Cardinality({n \in DOMAIN s : s[n] = e}) = 2 /\ e \in D
    <3>1. CASE Once(s, e)
      BY <3>1, TimesIs
    <3>2. CASE Twice(s, e) /\ \E b \in MeetingsBefore(scan.start) : e \in ToSet(chain[b])
      <4>1. e \in D
        BY <2>1, <3>2 DEF MeetingsBefore
      <4> QED BY <3>2, <4>1, TimesIs
    <3> QED BY <1>6, <1>7, <3>1, <3>2 DEF RepeatedWhereChunksMeet
  <2> QED BY <1>5, <1>6, <1>9, <2>1, <2>2 DEF EventsComplete
<1>11. ASSUME scan.client # "Vat", s # <<>> PROVE Last(s) = Last(w)
  <2>1. PICK n \in Nat : n = Len(s) /\ DOMAIN s = 1 .. n /\ n >= 1
    BY <1>11 DEF Logs
  <2>2. Last(s) = s[n] /\ Last(s) \in ToSet(s) /\ \A e \in ToSet(s) : e.number <= Last(s).number
    BY <1>6, <1>7, <1>11, <2>1 DEF ReplayInv, Last, ToSet
  <2>3. PICK m \in Nat : m = Len(w) /\ DOMAIN w = 1 .. m
    BY <1>9 DEF Logs
  <2>4. PICK i \in 1 .. m : w[i] = Last(s)
    BY <1>9, <2>2, <2>3 DEF ToSet
  <2>5. m \in 1 .. m /\ Last(w) = w[m] /\ w[m] \in ToSet(s)
    BY <1>9, <2>3, <2>4 DEF ToSet, Last
  <2>6. w[i] \in LogEvent /\ w[m] \in LogEvent
    BY <1>9, <2>3, <2>5 DEF Logs
  <2>7. w[m].number <= w[i].number
    BY <2>2, <2>4, <2>5
  <2>8. i = m \/ w[i].number < w[m].number
    BY <1>9, <2>3, <2>5 DEF Ascends
  <2>9. i = m
    BY <2>6, <2>7, <2>8 DEF LogEvent
  <2> QED BY <2>4, <2>5, <2>9
<1>12. ReplayEndsRight
  <2>1. SUFFICES ASSUME scan.client # "Vat", scan.events # <<>>
                 PROVE  /\ Last(scan.events) = Last(Wanted)
                        /\ \A n \in 1 .. Len(scan.events) - 1 :
                               scan.events[n + 1].number <= scan.events[n].number =>
                                   \E b \in DOMAIN chain :
                                       {scan.events[n], scan.events[n + 1]} \subseteq ToSet(chain[b])
    BY DEF ReplayEndsRight
  <2>2. \A b \in scan.from .. scan.to : b \in DOMAIN chain
    <3>1. DOMAIN chain = 1 .. Len(chain) /\ Len(chain) \in Nat
      BY DEF EventLogInv, ChainInv
    <3> QED BY <1>1, <1>3, <1>4, <3>1
  <2>3. \A n \in 1 .. Len(scan.events) - 1 :
            scan.events[n + 1].number <= scan.events[n].number =>
                \E b \in scan.from .. scan.to :
                    {scan.events[n], scan.events[n + 1]} \subseteq ToSet(chain[b])
    BY <1>7, <2>1 DEF ReplayInv
  <2> QED BY <1>5, <1>6, <1>11, <2>1, <2>2, <2>3
<1> QED
  BY <1>10, <1>12

(* Whatever is mined meanwhile, and however long the chain and the chunks  *)
(* are: retrieval in chunks has every event that was asked for, repeats    *)
(* those where chunks meet only, and its replay ends with the last event   *)
(* (dss.py:406, auctions.py:114).                                          *)
THEOREM ScansAreComplete == EventLogSpec => []ScanIsComplete
<1>1. EventLogInit => EventLogInv
  <2>1. SUFFICES ASSUME EventLogInit PROVE EventLogInv
    OBVIOUS
  <2>2. <<>> \in Seq(Logs) /\ <<>> \in Logs /\ DOMAIN <<>> = {}
    BY DEF Logs
  <2>3. ChainInv
    BY <2>1, <2>2 DEF EventLogInit, ChainInv, InSequence
  <2>4. ScanTypeOK
    BY <2>1, <2>2 DEF EventLogInit, NoScan, ScanTypeOK
  <2>5. ScanPlaceInv /\ GatheredInv
    BY <2>1 DEF EventLogInit, NoScan, ScanPlaceInv, GatheredInv
  <2> QED BY <2>3, <2>4, <2>5 DEF EventLogInv
<1>2. EventLogInv => ScanIsComplete
  BY DoneIsComplete DEF ScanIsComplete, Undisturbed
<1> QED
  BY <1>1, <1>2, EventLogStep, PTL DEF EventLogSpec

-----------------------------------------------------------------------------
(***************************************************************************)
(* Configurations.                                                         *)
(*                                                                         *)
(* ConfigInv is inductive.  A cached value that was disturbed while it was *)
(* made may lag behind the import that is recorded with it.  It stays out  *)
(* of use once a reload has begun, even if that reload raises, as edits    *)
(* have ever higher numbers (Outdated).                                    *)
(***************************************************************************)

MainFiles == [edit : Nat, imports : BOOLEAN, valid : BOOLEAN]
ImportFiles == [edit : Nat, exists : BOOLEAN]
Configs == [main : Nat, import : Nat \cup {NoConfig}]

ReaderLabels ==
    {"idle", "imports", "open", "evaluate", "compare", "store", "stored", "returned", "raised"}

Loaded == reader \in {"compare", "store", "stored"}

ConfigTypeOK ==
    /\ main_file \in MainFiles /\ import_file \in ImportFiles
    /\ reader \in ReaderLabels
    /\ stat \in Nat
    /\ (reader = "evaluate" \/ Loaded) => content \in MainFiles
    /\ imported \in Nat \cup {NoConfig}
    /\ _config # NoConfig => _config \in Configs /\ _mtime \in Nat
    /\ _imported_mtimes \in Nat \cup {NoConfig}
    /\ asOf \in [main : Nat, import : Nat]
    /\ disturbed \in BOOLEAN

(* The files only move on from what was read or recorded of them. *)
EditsRise ==
    /\ stat = asOf.main /\ stat <= main_file.edit /\ asOf.import <= import_file.edit
    /\ _config # NoConfig => _mtime <= stat
    /\ _imported_mtimes # NoConfig =>
           /\ _imported_mtimes <= import_file.edit
           /\ _imported_mtimes = import_file.edit => import_file.exists

(* What is recorded with the cached value keeps it from being returned. *)
Outdated ==
    \/ _mtime < stat
    \/ _imported_mtimes # NoConfig /\ _imported_mtimes < import_file.edit

(* What a load holds is recent; what it evaluates is still there unless it *)
(* was disturbed.                                                          *)
LoadIsRecent ==
    /\ reader = "imports" => _config # NoConfig /\ _mtime = stat
    /\ reader = "open" => _config = NoConfig \/ Outdated
    /\ (reader = "evaluate" \/ Loaded) => content.edit >= stat
    /\ Loaded /\ imported # NoConfig /\ ~disturbed =>
           imported = import_file.edit /\ import_file.exists
    /\ reader = "stored" => _config.main = content.edit /\ _config.import = imported

(* The cached value is not older than its recorded time, and its import is *)
(* the one recorded, but for a value that was disturbed or is outdated.    *)
CacheIsKnown ==
    _config # NoConfig =>
        /\ _config.main >= _mtime
        /\ reader # "stored" /\ _config.import # NoConfig /\ ~disturbed =>
               _imported_mtimes = _config.import \/ Outdated

ConfigInv ==
    /\ ConfigTypeOK
    /\ EditsRise
    /\ LoadIsRecent
    /\ CacheIsKnown
    /\ ConfigIsFresh

USE ConfigAssumption
USE DEF ConfigTypeOK, MainFiles, ImportFiles, Configs, ReaderLabels, Loaded, ConfigIsFresh,
        MainIsFresh, ImportIsFresh, files, readerVars, cache

-----------------------------------------------------------------------------

(* Nothing has been read at first. *)
LEMMA ConfigStart == ConfigInit => ConfigInv
<1> SUFFICES ASSUME ConfigInit PROVE ConfigInv
  OBVIOUS
<1>1. ConfigTypeOK
  BY DEF ConfigInit
<1>2. EditsRise
  BY DEF ConfigInit, EditsRise
<1>3. LoadIsRecent /\ CacheIsKnown /\ ConfigIsFresh
  BY DEF ConfigInit, LoadIsRecent, CacheIsKnown
<1>4. QED BY <1>1, <1>2, <1>3 DEF ConfigInv

(* Edits of the main file leave the reader behind. *)
LEMMA EditMainKeeps == ConfigInv /\ EditMain => ConfigInv'
  BY DEF EditMain, ConfigInv, EditsRise, LoadIsRecent, CacheIsKnown, Outdated

(* Edits of the imported file disturb a load, and outdate what is recorded.*)
LEMMA EditImportKeeps == ConfigInv /\ EditImport => ConfigInv'
  BY DEF EditImport, Loading, ConfigInv, EditsRise, LoadIsRecent, CacheIsKnown, Outdated

(* A call goes for the cached value only if the main file is as recorded.  *)
LEMMA GetConfigKeeps == ConfigInv /\ GetConfig => ConfigInv'
  BY DEF GetConfig, ConfigInv, EditsRise, LoadIsRecent, CacheIsKnown, Outdated

(* An outdated value with the recorded main file has a changed import.     *)
LEMMA CheckImportsKeeps == ConfigInv /\ CheckImports => ConfigInv'
  BY DEF CheckImports, MtimesChanged, ConfigInv, EditsRise, LoadIsRecent, CacheIsKnown, Outdated

(* What is reloaded is outdated: a new load may begin undisturbed.         *)
LEMMA OpenKeeps == ConfigInv /\ Open => ConfigInv'
  BY DEF Open, ConfigInv, EditsRise, LoadIsRecent, CacheIsKnown, Outdated

LEMMA EvaluateKeeps == ConfigInv /\ Evaluate => ConfigInv'
  BY DEF Evaluate, ImportFound, ConfigInv, EditsRise, LoadIsRecent, CacheIsKnown, Outdated

LEMMA CompareForLogKeeps == ConfigInv /\ CompareForLog => ConfigInv'
  BY DEF CompareForLog, ConfigInv, EditsRise, LoadIsRecent, CacheIsKnown, Outdated

(* The time that is stored was read before the content. *)
LEMMA StoreKeeps == ConfigInv /\ Store => ConfigInv'
  BY DEF Store, EarlyMtime, ConfigInv, EditsRise, LoadIsRecent, CacheIsKnown, Outdated

(* The import is recorded as it was evaluated unless the load was disturbed. *)
LEMMA StoreImportsKeeps == ConfigInv /\ StoreImports => ConfigInv'
  BY DEF StoreImports, ConfigInv, EditsRise, LoadIsRecent, CacheIsKnown, Outdated

LEMMA ConfigStutters == ConfigInv /\ UNCHANGED configVars => ConfigInv'
  BY DEF configVars, ConfigInv, EditsRise, LoadIsRecent, CacheIsKnown, Outdated

(* ConfigInv is an invariant. *)
THEOREM Config == ConfigSpec => []ConfigInv
<1>1. ConfigInv /\ [ConfigNext]_configVars => ConfigInv'
  BY EditMainKeeps, EditImportKeeps, GetConfigKeeps, CheckImportsKeeps, OpenKeeps, EvaluateKeeps,
     CompareForLogKeeps, StoreKeeps, StoreImportsKeeps, ConfigStutters
  DEF ConfigNext
<1>2. QED BY ConfigStart, <1>1, PTL DEF ConfigSpec

(* get_config returns nothing that is older than its call, for any number  *)
(* of edits of both files (reloadable_config.py:70-120).                   *)
THEOREM ConfigStaysFresh == ConfigSpec => []ConfigIsFresh
<1>1. ConfigInv => ConfigIsFresh
  BY DEF ConfigInv
<1>2. QED BY Config, <1>1, PTL
=============================================================================
