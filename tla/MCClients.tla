------------------------------ MODULE MCClients ------------------------------
(***************************************************************************)
(* One instance of every module that models a client of contracts, or a    *)
(* helper of such clients.  They share no state, so that a behaviour lets  *)
(* one of them act, chosen at first, and leaves the others as they begin.  *)
(***************************************************************************)
EXTENDS Numbers, GasPrices, ReloadableConfig, Oasis, OffChain, Vaults,
        EventLog, PastEvents, Auctions, Savings, Allowances

CONSTANTS
    Parts,      \* the modules that are checked
    me, other   \* accounts

VARIABLE part   \* the module that acts

-----------------------------------------------------------------------------
(* Instances. *)

MCNumber ==
    {-1250, -150, -7, -1, 0, 1, 2, 3, 7, 15, 49, 50, 99, 100, 101, 150,
     333, 999, 1000, 1001, 9996, 9999, 10005, 12345}

OfKind(kind, initial, increase, every, ratio, max) ==
    [kind |-> kind, initial |-> initial, increase_by |-> increase,
     every_secs |-> every, up |-> ratio[1], down |-> ratio[2], max |-> max]

MCStrategies ==
    {OfKind(k, 8, 1, 1, <<2, 1>>, NoPrice) : k \in {"default", "node", "fixed"}}
    \cup {OfKind("increasing", i, b, e, <<2, 1>>, m) :
             i \in {8, 10}, b \in {1, 3}, e \in {1, 2}, m \in {NoPrice, 9, 14}}
    \cup {OfKind("geometric", i, 1, e, r, m) :
             i \in {7, 8, 16}, e \in {1, 2}, r \in {<<9, 8>>, <<5, 4>>, <<2, 1>>},
             m \in {NoPrice, 18}}

MCMarkets ==
    {[kind |-> "simple", scale |-> 1], [kind |-> "matching", scale |-> 1],
     [kind |-> "support", scale |-> 10]}

(* Of two of the three prices the quotients are equal. *)
MCNewOrders ==
    {[maker |-> me, pay |-> 2, buy |-> 4], [maker |-> other, pay |-> 1, buy |-> 13],
     [maker |-> other, pay |-> 1, buy |-> 14]}

MCOrderAmounts == {<<151, 2>>}

MCFillAmounts(buy) == {buy \div 2, buy}

(* A collateral that is not in use yet. *)
MCUnused ==
    [live |-> 1, ink |-> 0, art |-> 0, Art |-> 0, rate |-> 0, spot |-> 0, line |-> 0,
     dust |-> 0, debt |-> 10000, Line |-> 20000, box |-> 18000, litter |-> 0,
     dunk |-> 0, chop |-> 0]

MCVatStates ==
    {[live |-> 1, ink |-> ink, art |-> art, Art |-> art + 3, rate |-> rate,
      spot |-> spot, line |-> line, dust |-> dust, debt |-> (art + 3) * rate,
      Line |-> 20000, box |-> 18000, litter |-> litter, dunk |-> dunk,
      chop |-> 113] :
         ink \in {1, 100}, art \in {7, 11}, rate \in {1000, 1091},
         spot \in {100, 130}, line \in {18000, 12000}, dust \in {0, 8000},
         litter \in {0, 12000}, dunk \in {100, 9000}}
    \cup {MCUnused}

(* The rate is set at first.  Later: the end, a drip, a price, ceilings, a *)
(* Clipper's chop, a bite, and frobs of others and of the urn.             *)
MCVatChanges(s) ==
    IF s.rate = 0 THEN {[s EXCEPT !.rate = RAY]} ELSE
    {[s EXCEPT !.live = 0], [s EXCEPT !.rate = @ + 10, !.debt = @ + 10 * s.Art],
     [s EXCEPT !.spot = @ - 30], [s EXCEPT !.Line = 15000],
     [s EXCEPT !.line = 12000], [s EXCEPT !.chop = 0],
     [s EXCEPT !.litter = @ + 6000],
     [s EXCEPT !.Art = @ + 1, !.debt = @ + s.rate],
     [s EXCEPT !.ink = 0, !.art = 0, !.Art = @ - s.art]}

MCDinks == {-90, 0, 3}

MCDarts == {-7, -1, 0, 5}

MCBlockKinds == {<<>>, <<"tend", "kick">>, <<"fork", "frob">>}

MCSales == {[tab |-> 18000, lot |-> 2, top |-> 10731]}

MCFirstPies == {[us |-> a, others |-> b] : a \in {0, 3, 7}, b \in {0, 4, 11}}

-----------------------------------------------------------------------------
(* The composition. *)

(* Those that do not act begin in one of their initial states.             *)
Fixed ==
    /\ part # "vaults" => system = CHOOSE s \in VatStates : TRUE
    /\ part # "auctions" => /\ house = CHOOSE h \in Houses : TRUE
                            /\ balance = CHOOSE b \in DaiBalances : TRUE
    /\ part # "savings" => pies = CHOOSE p \in FirstPies : TRUE
    /\ part # "past" => source = CHOOSE s \in Sources : TRUE
    /\ part # "allowances" =>
           /\ allowance = [g \in Grants |-> 0]
           /\ hoped = FALSE /\ keepsUnlimited = FALSE

ClientsInit ==
    /\ part \in Parts
    /\ Fixed
    /\ NumbersInit /\ GasInit /\ ConfigInit /\ OasisInit /\ OffChainInit
    /\ VaultsInit /\ EventLogInit /\ PastEventsInit /\ AuctionsInit
    /\ SavingsInit /\ AllowancesInit

RestStays ==
    /\ part' = part
    /\ part # "numbers" => UNCHANGED calculated
    /\ part # "gas" => UNCHANGED gasVars
    /\ part # "config" => UNCHANGED configVars
    /\ part # "oasis" => UNCHANGED oasisVars
    /\ part # "offchain" => UNCHANGED offChainVars
    /\ part # "vaults" => UNCHANGED vaultVars
    /\ part # "events" => UNCHANGED eventLogVars
    /\ part # "past" => UNCHANGED pastEventsVars
    /\ part # "auctions" => UNCHANGED auctionsVars
    /\ part # "savings" => UNCHANGED savingsVars
    /\ part # "allowances" => UNCHANGED allowancesVars

ClientsNext ==
    /\ \/ part = "numbers" /\ NumbersNext
       \/ part = "gas" /\ GasNext
       \/ part = "config" /\ ConfigNext
       \/ part = "oasis" /\ OasisNext
       \/ part = "offchain" /\ OffChainNext
       \/ part = "vaults" /\ VaultsNext
       \/ part = "events" /\ EventLogNext
       \/ part = "past" /\ PastEventsNext
       \/ part = "auctions" /\ AuctionsNext
       \/ part = "savings" /\ SavingsNext
       \/ part = "allowances" /\ AllowancesNext
    /\ RestStays

ClientsVars ==
    <<part, calculated, gasVars, configVars, oasisVars, offChainVars, vaultVars,
      eventLogVars, pastEventsVars, auctionsVars, savingsVars, allowancesVars>>

ClientsSpec == ClientsInit /\ [][ClientsNext]_ClientsVars
=============================================================================
