------------------------------ MODULE Auctions ------------------------------
(***************************************************************************)
(* The clients of Flipper, Flapper, Flopper and Clipper in                 *)
(* src/pymaker/auctions.py.  active_auctions reads the number of auctions, *)
(* then one auction at a time, and judges what it read by its own clock;   *)
(* validate_take repeats the conditions of Clipper's take in fixed-point   *)
(* numbers, with one call per getter.                                      *)
(*                                                                         *)
(* The contracts are external; what they require of a bid is reduced to a  *)
(* higher bid or a lower lot.  The local clock shows the time of the chain.*)
(***************************************************************************)
EXTENDS FixedPoint, Sequences

CONSTANTS
    Houses,         \* among "Flipper", "Flapper", "Flopper", "Clipper"
    MaxKicks,       \* bound: auctions started
    MaxClock,       \* bound: time
    TTL, TAU,       \* lifetime of a bid; length of an auction, or Clipper's tail
    FullBid,        \* the bid at which Flipper's bidders turn to the lot
    FullLot,        \* the lot of a new auction
    Sales,          \* new auctions of Clipper: the debt, lot and starting price
    CHOST,          \* Clipper's chost
    DaiBalances,    \* what a taker has
    Amounts,        \* what a taker asks for
    MaxPrices       \* what a taker is ready to pay

ASSUME AuctionsAssumption ==
    /\ Houses \subseteq {"Flipper", "Flapper", "Flopper", "Clipper"}
    /\ MaxKicks \in Nat /\ MaxClock \in Nat /\ TTL \in Nat \ {0} /\ TAU \in Nat \ {0}
    /\ FullBid \in Nat /\ FullLot \in Nat /\ CHOST \in Nat
    /\ Sales \subseteq [tab : Nat, lot : Nat, top : Nat \ {0}]
    /\ DaiBalances \subseteq Nat /\ Amounts \subseteq Nat /\ MaxPrices \subseteq Nat

VARIABLES
    house,      \* the contract in use
    clock,      \* the time
    auctions,   \* the auctions of the contract, by number
    balance,    \* the taker's Dai
    lister,     \* active_auctions in progress
    watched,    \* history: the auctions that stood throughout it, or at some
                \* time of it, or changed after they were read, before judged
    taker       \* validate_take in progress

auctionsVars == <<house, clock, auctions, balance, lister, watched, taker>>

Deleted == [guy |-> "nobody", bid |-> 0, lot |-> 0, tab |-> 0, tic |-> 0, end |-> 0, top |-> 0]

NoLister == [state |-> "idle", count |-> 0, index |-> 0, read |-> Deleted, active |-> {}]

NoTaker == [state |-> "idle", id |-> 0, amt |-> 0, max |-> 0, done |-> FALSE, price |-> 0,
            lot |-> 0, tab |-> 0, dai |-> 0, verdict |-> "none"]

AuctionsInit ==
    /\ house \in Houses /\ clock = 1 /\ auctions = <<>> /\ balance \in DaiBalances
    /\ lister = NoLister /\ watched = [throughout |-> {}, sometime |-> {}, renewed |-> {}]
    /\ taker = NoTaker

(* The auctions that take bids: not won, nor run out. *)
TakesBids(a, t) == a.guy # "nobody" /\ (a.tic = 0 \/ t < a.tic) /\ t < a.end

(* The auctions that stand: by the contract, not by the client. *)
Standing ==
    {id \in DOMAIN auctions :
        IF house = "Clipper" THEN auctions[id].guy # "nobody" ELSE TakesBids(auctions[id], clock)}

(* The auction that is being judged is no longer the one that was read.    *)
Renewed ==
    {id \in DOMAIN auctions : lister.state = "read" /\ id = lister.index /\ auctions[id] # lister.read}

(* Keeps watch over the auctions while active_auctions runs. *)
Watches ==
    watched' = CASE lister.state = "idle" /\ lister'.state = "listing" ->
                        [throughout |-> Standing, sometime |-> Standing, renewed |-> {}]
                 [] lister.state \in {"listing", "read"} ->
                        [throughout |-> watched.throughout \cap Standing',
                         sometime |-> watched.sometime \cup Standing',
                         renewed |-> watched.renewed \cup Renewed']
                 [] OTHER -> watched

Replaces(id, a) ==
    /\ auctions' = [auctions EXCEPT ![id] = a]
    /\ UNCHANGED <<house, clock, balance, lister, taker>> /\ Watches

ClockTicks ==
    /\ clock < MaxClock /\ clock' = clock + 1
    /\ UNCHANGED <<house, auctions, balance, lister, taker>> /\ Watches

-----------------------------------------------------------------------------
(* The contracts. *)

Kick(a) ==
    /\ Len(auctions) < MaxKicks
    /\ auctions' = Append(auctions, a)
    /\ UNCHANGED <<house, clock, balance, lister, taker>> /\ Watches

KickDealable ==
    /\ house # "Clipper"
    /\ Kick([Deleted EXCEPT !.guy = "kicker", !.lot = FullLot, !.end = clock + TAU])

KickClipper ==
    /\ house = "Clipper"
    /\ \E s \in Sales : Kick([Deleted EXCEPT !.guy = "urn", !.tab = s.tab, !.lot = s.lot,
                                             !.top = s.top, !.tic = clock])

(* tend, of Flipper and Flapper: a higher bid. *)
Tend(id) ==
    LET a == auctions[id]
    IN  /\ house \in {"Flipper", "Flapper"} /\ TakesBids(a, clock)
        /\ a.bid < FullBid
        /\ Replaces(id, [a EXCEPT !.guy = "bidder", !.bid = @ + 1, !.tic = clock + TTL])

(* dent, of Flipper, once the bid is full, and of Flopper: a lower lot. *)
Dent(id) ==
    LET a == auctions[id]
    IN  /\ house \in {"Flipper", "Flopper"} /\ TakesBids(a, clock)
        /\ house = "Flipper" => a.bid = FullBid
        /\ a.lot > 0
        /\ Replaces(id, [a EXCEPT !.guy = "bidder", !.lot = @ - 1, !.tic = clock + TTL])

Deal(id) ==
    LET a == auctions[id]
    IN  /\ house # "Clipper" /\ a.tic # 0 /\ (a.tic < clock \/ a.end < clock)
        /\ Replaces(id, Deleted)

Tick(id) ==
    LET a == auctions[id]
    IN  /\ house # "Clipper" /\ a.guy # "nobody" /\ a.end < clock /\ a.tic = 0
        /\ Replaces(id, [a EXCEPT !.end = clock + TAU])

(* yank, once the system has ended; bids of Flipper are yanked by the End. *)
YankAuction(id) ==
    /\ house \in {"Flapper", "Flopper"} /\ auctions[id].guy # "nobody"
    /\ Replaces(id, Deleted)

(* Clipper's price falls by a fifth of the top each time. *)
PriceOf(a) ==
    LET fallen == (a.top \div 5) * (clock - a.tic)
    IN  IF fallen < a.top THEN a.top - fallen ELSE 0

IsDone(a) == clock - a.tic > TAU \/ PriceOf(a) = 0

Redo(id) ==
    LET a == auctions[id]
    IN  /\ house = "Clipper" /\ a.guy # "nobody" /\ IsDone(a)
        /\ Replaces(id, [a EXCEPT !.tic = clock])

(* What take sells for at most amt, or nothing: exact. *)
Purchase(a, amt) ==
    LET asked == IF amt < a.lot THEN amt ELSE a.lot
        price == PriceOf(a)
        owe == asked * price
        left == a.tab - owe
    IN  IF owe > a.tab THEN [can |-> TRUE, owe |-> a.tab, slice |-> a.tab \div price]
        ELSE IF owe < a.tab /\ asked < a.lot /\ left < CHOST
             THEN [can |-> a.tab > CHOST, owe |-> a.tab - CHOST,
                   slice |-> (a.tab - CHOST) \div price]
        ELSE [can |-> TRUE, owe |-> owe, slice |-> asked]

TakeSucceeds(a, amt, max, dai) ==
    /\ a.guy # "nobody" /\ ~ IsDone(a) /\ PriceOf(a) <= max
    /\ Purchase(a, amt).can /\ Purchase(a, amt).owe <= dai

(* What take of Clipper leaves of an auction. *)
AfterTake(a, amt) ==
    LET p == Purchase(a, amt)
    IN  IF p.slice = a.lot \/ p.owe = a.tab THEN Deleted
        ELSE [a EXCEPT !.tab = @ - p.owe, !.lot = @ - p.slice]

TakeByOthers(id, amt) ==
    LET a == auctions[id]
    IN  /\ house = "Clipper" /\ a.guy # "nobody" /\ ~ IsDone(a) /\ Purchase(a, amt).can
        /\ Replaces(id, AfterTake(a, amt))

-----------------------------------------------------------------------------
(* active_auctions *)

(* A mutant: an auction without a bid is not found. *)
HasCurrentBid(a) == a.guy # "nobody" /\ clock < a.tic /\ clock < a.end

ActiveDealable(a) ==
    a.guy # "nobody" /\ (a.tic = 0 \/ clock < a.tic) /\ clock < a.end

ActiveClipper(a) == a.guy # "nobody"

IsActive(a) == IF house = "Clipper" THEN ActiveClipper(a) ELSE ActiveDealable(a)

ReadKicks ==
    /\ lister.state = "idle" /\ taker.state = "idle"
    /\ lister' = [NoLister EXCEPT !.state = "listing", !.count = Len(auctions), !.index = 1]
    /\ UNCHANGED <<house, clock, auctions, balance, taker>> /\ Watches

(* bids or sales: one call of the node. *)
ReadAuction ==
    /\ lister.state = "listing" /\ lister.index <= lister.count
    /\ lister' = [lister EXCEPT !.state = "read", !.read = auctions[lister.index]]
    /\ UNCHANGED <<house, clock, auctions, balance, taker>> /\ Watches

(* What was read is judged by the time that it is now. *)
JudgeAuction ==
    /\ lister.state = "read"
    /\ lister' = [lister EXCEPT !.state = "listing", !.index = @ + 1, !.read = Deleted,
                                !.active = IF IsActive(lister.read)
                                           THEN @ \cup {lister.index} ELSE @]
    /\ UNCHANGED <<house, clock, auctions, balance, taker>> /\ Watches

ReturnActive ==
    /\ lister.state = "listing" /\ lister.index > lister.count
    /\ lister' = [lister EXCEPT !.state = "returned"]
    /\ UNCHANGED <<house, clock, auctions, balance, taker>> /\ Watches

-----------------------------------------------------------------------------
(* validate_take *)

(* status: done, price, lot and tab. *)
ReadStatus(id, amt, max) ==
    LET a == auctions[id]
        done == a.guy # "nobody" /\ IsDone(a)
    IN  /\ house = "Clipper" /\ taker.state = "idle" /\ lister.state = "idle"
        /\ taker' = [state |-> IF done \/ max < PriceOf(a) THEN "answered" ELSE "status read",
                     id |-> id, amt |-> amt, max |-> max, done |-> done,
                     price |-> PriceOf(a), lot |-> a.lot, tab |-> a.tab, dai |-> balance,
                     verdict |-> IF done \/ max < PriceOf(a) THEN "invalid" ELSE "none"]
        /\ UNCHANGED <<house, clock, auctions, balance, lister>> /\ Watches

(* The product that is owed, which loses digits, and the slice it pays for. *)
SliceOf(t) == IF t.amt < t.lot THEN t.amt ELSE t.lot

ProductOwed(t) == RadMul(RadOf(SliceOf(t), WAD), RadOf(t.price, RAY), RAD)

(* A mutant: the minimum that is left is not considered. *)
OweForAll(t) == [can |-> TRUE, owe |-> ProductOwed(t)]

(* What is owed, unless the assertion on what is left of the debt fails. *)
OweOf(t) ==
    LET owe == ProductOwed(t)
    IN  IF owe > t.tab THEN [can |-> TRUE, owe |-> t.tab]
        ELSE IF owe < t.tab /\ SliceOf(t) < t.lot /\ t.tab - owe < CHOST
             THEN [can |-> t.tab > CHOST, owe |-> t.tab - CHOST]
        ELSE [can |-> TRUE, owe |-> owe]

(* chost is read next, and then the balance of Dai. *)
ReadDaiAnswers ==
    LET bill == OweOf(taker)
    IN  /\ taker.state = "status read"
        /\ taker' = [taker EXCEPT !.state = "answered", !.dai = balance,
                                  !.verdict = IF bill.can /\ balance >= bill.owe
                                              THEN "valid" ELSE "invalid"]
        /\ UNCHANGED <<house, clock, auctions, balance, lister>> /\ Watches

(* take is sent if it validates, and may have come too late. *)
Take ==
    LET a == auctions[taker.id]
    IN  /\ taker.verdict = "valid" /\ TakeSucceeds(a, taker.amt, taker.max, balance)
        /\ auctions' = [auctions EXCEPT ![taker.id] = AfterTake(a, taker.amt)]
        /\ balance' = balance - Purchase(a, taker.amt).owe
        /\ taker' = NoTaker
        /\ UNCHANGED <<house, clock, lister>> /\ Watches

AuctionsNext ==
    \/ ClockTicks
    \/ KickDealable \/ KickClipper
    \/ \E id \in DOMAIN auctions :
          \/ Tend(id) \/ Dent(id) \/ Deal(id) \/ Tick(id) \/ YankAuction(id) \/ Redo(id)
          \/ \E amt \in Amounts, max \in MaxPrices : ReadStatus(id, amt, max)
          \/ \E amt \in Amounts : TakeByOthers(id, amt)
    \/ ReadKicks \/ ReadAuction \/ JudgeAuction \/ ReturnActive
    \/ ReadDaiAnswers \/ Take

AuctionsSpec == AuctionsInit /\ [][AuctionsNext]_auctionsVars

-----------------------------------------------------------------------------

(* active_auctions returns every auction that stood from its beginning to  *)
(* its end, but for those that changed between the call that read them and *)
(* the clock (auctions.py:160, 162), and none that did not stand at some   *)
(* time between.                                                           *)
StandingAreListed ==
    lister.state = "returned" =>
        /\ watched.throughout \subseteq lister.active \cup watched.renewed
        /\ lister.active \subseteq watched.sometime

(* What is owed is not where one case becomes another, within two units of *)
(* the last digit that is kept: the slice, the price and their product may *)
(* each lose half of one.                                                  *)
OffTheEdge(a, amt) ==
    LET owe == (IF amt < a.lot THEN amt ELSE a.lot) * PriceOf(a)
        margin == (2 * owe) \div TenTo(PREC - 1)
    IN  /\ AbsValue(owe - a.tab) > margin /\ AbsValue(a.tab - owe - CHOST) > margin
        /\ AbsValue(Purchase(a, amt).owe - balance) > margin

(* While the auction, its status and the balance are as they were read, a  *)
(* take that validates succeeds, and one that does not is rejected, unless *)
(* a case hangs on what is rounded off (auctions.py:815).                  *)
TakeIsJudged ==
    LET a == auctions[taker.id]
    IN  taker.state = "answered" /\ a.guy # "nobody" /\ OffTheEdge(a, taker.amt)
        /\ taker.done = IsDone(a) /\ taker.price = PriceOf(a)
        /\ taker.lot = a.lot /\ taker.tab = a.tab /\ taker.dai = balance
        => (taker.verdict = "valid") = TakeSucceeds(a, taker.amt, taker.max, balance)
=============================================================================
