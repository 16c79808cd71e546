------------------------------ MODULE Savings ------------------------------
(***************************************************************************)
(* Dai in the savings contract: get_balance and get_total_dai of           *)
(* src/pymaker/dsr.py, dai_of of dsrmanager.py, and the Pot client of      *)
(* dss.py.  A balance is a share of all the Dai in the Pot, put together   *)
(* from three calls.  Pot and DsrManager are external.                     *)
(***************************************************************************)
EXTENDS FixedPoint

CONSTANTS
    FirstPies,      \* what savers may have at first: shares by saver
    Saver,          \* whose balance is asked for
    PieAmounts,     \* what is joined or exited
    Rates,          \* the values of chi, rising
    MaxJoins        \* bound: joins and exits

ASSUME SavingsAssumption ==
    /\ Saver # "others" /\ FirstPies \subseteq [{Saver, "others"} -> Nat]
    /\ PieAmounts \subseteq Nat /\ Rates \subseteq Nat \ {0} /\ MaxJoins \in Nat

VARIABLES
    pies,       \* the shares of each saver
    chi,        \* the Dai per share
    daiInPot,   \* the Dai that the Pot has
    joins,      \* how many joins and exits there were
    query       \* the balance asked for: the call, what it read, its result

savingsVars == <<pies, chi, daiInPot, joins, query>>

NoQuery == [op |-> "none", step |-> 0, total |-> 0, slice |-> 0, chi |-> 0, dai |-> 0,
            result |-> 0, moved |-> FALSE, own |-> FALSE]

TotalPie == pies[Saver] + pies["others"]

SavingsInit ==
    /\ pies \in FirstPies
    /\ chi \in {r \in Rates : \A q \in Rates : r <= q}
    /\ daiInPot = TotalPie * chi /\ joins = 0 /\ query = NoQuery

(* What the query in progress does not see. *)
Moves(saver) ==
    query' = [query EXCEPT !.moved = query.step # 0 \/ @,
                           !.own = (query.step # 0 /\ saver = Saver) \/ @]

(* join, exit and exit_all of any saver, through a proxy or DsrManager. *)
JoinPot(saver, pie) ==
    /\ joins < MaxJoins /\ joins' = joins + 1
    /\ pies' = [pies EXCEPT ![saver] = @ + pie]
    /\ daiInPot' = daiInPot + pie * chi
    /\ Moves(saver) /\ UNCHANGED chi

ExitPot(saver, pie) ==
    /\ joins < MaxJoins /\ joins' = joins + 1
    /\ pie <= pies[saver]
    /\ pies' = [pies EXCEPT ![saver] = @ - pie]
    /\ daiInPot' = daiInPot - pie * chi
    /\ Moves(saver) /\ UNCHANGED chi

(* drip of Pot. *)
DripPot ==
    /\ chi' \in {r \in Rates : r > chi}
    /\ daiInPot' = daiInPot + TotalPie * (chi' - chi)
    /\ Moves("others") /\ UNCHANGED <<pies, joins>>

-----------------------------------------------------------------------------

Asks(q) ==
    query' = q /\ UNCHANGED <<pies, chi, daiInPot, joins>>

(* get_balance: nothing if there are no shares at all. *)
ReadTotalPie ==
    /\ query.step = 0
    /\ Asks([NoQuery EXCEPT !.op = "get_balance", !.total = TotalPie,
                            !.step = IF TotalPie = 0 THEN 4 ELSE 1])

ReadSlice ==
    /\ query.op = "get_balance" /\ query.step = 1
    /\ Asks([query EXCEPT !.step = 2, !.slice = pies[Saver]])

(* A mutant: the share of the others. *)
RestOf(slice, total) == WadDiv(total - slice, total)

Portion(slice, total) == WadDiv(slice, total)

ReadDaiInPot ==
    /\ query.op = "get_balance" /\ query.step = 2
    /\ Asks([query EXCEPT !.step = 4, !.dai = daiInPot,
                          !.result = WadOf(RadMul(daiInPot, Portion(query.slice, query.total), WAD),
                                           RAD)])

(* dai_of of DsrManager: the shares and then chi. *)
ReadPieOf ==
    /\ query.step = 0
    /\ Asks([NoQuery EXCEPT !.op = "dai_of", !.step = 1, !.slice = pies[Saver]])

(* A mutant: the shares, as if chi had not risen. *)
PieAsDai(pie, rate) == RadOf(pie, WAD)

DaiOf(pie, rate) == RadMul(RadOf(pie, WAD), RadOf(rate, RAY), RAD)

ReadChi ==
    /\ query.op = "dai_of" /\ query.step = 1
    /\ Asks([query EXCEPT !.step = 4, !.chi = chi, !.result = DaiOf(query.slice, chi)])

(* get_total_dai: all the shares and then chi. *)
ReadAllPie ==
    /\ query.step = 0
    /\ Asks([NoQuery EXCEPT !.op = "get_total_dai", !.step = 1, !.total = TotalPie])

ReadTotalDai ==
    /\ query.op = "get_total_dai" /\ query.step = 1
    /\ Asks([query EXCEPT !.step = 4, !.chi = chi, !.result = WadMul(query.total, chi, RAY)])

SavingsNext ==
    \/ \E saver \in {Saver, "others"}, pie \in PieAmounts : JoinPot(saver, pie) \/ ExitPot(saver, pie)
    \/ DripPot
    \/ ReadTotalPie \/ ReadSlice \/ ReadDaiInPot
    \/ ReadPieOf \/ ReadChi
    \/ ReadAllPie \/ ReadTotalDai

SavingsSpec == SavingsInit /\ [][SavingsNext]_savingsVars

-----------------------------------------------------------------------------

(* If nothing moves meanwhile, the balance reported is the saver's, but    *)
(* for a hundredth - the last place of a Wad - of the Pot and what Wad and *)
(* Rad round off, as long as all the shares have no more digits than are   *)
(* kept (dsr.py:69).                                                       *)
BalanceIsClose ==
    query.op = "get_balance" /\ query.step = 4 /\ ~ query.moved /\ TotalPie < TenTo(PREC) =>
        AbsValue(query.result * (RAD \div WAD) - pies[Saver] * chi)
            <= daiInPot \div WAD + RAD \div WAD + TenTo(Excess[daiInPot])

(* dai_of may be stale, but only downwards: unless the saver joins or      *)
(* exits, it does not exceed what the shares are worth, whenever chi was   *)
(* read, and is just that if nothing moved, but for the last digit kept,   *)
(* as long as neither factor has more digits than are kept                 *)
(* (dsrmanager.py:69).                                                     *)
DaiOfNeverExceeds ==
    LET worth == pies[Saver] * chi
    IN  query.op = "dai_of" /\ query.step = 4
            /\ query.slice < TenTo(PREC) /\ query.chi < TenTo(PREC) =>
            /\ ~ query.own => query.result <= worth + TenTo(Excess[worth])
            /\ ~ query.moved => query.result >= worth - TenTo(Excess[worth])
=============================================================================
