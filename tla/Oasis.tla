-------------------------------- MODULE Oasis --------------------------------
(***************************************************************************)
(* SimpleMarket and MatchingMarket of src/pymaker/oasis.py: a client that  *)
(* enumerates the orders of a token pair, or calculates the position of a  *)
(* new order from them, call by call, while others make, take and cancel   *)
(* orders.  The contracts are external.                                    *)
(*                                                                         *)
(* MatchingMarket keeps a list from the best order to the worst.  An order *)
(* that leaves the list keeps its pointer to the next worse one.           *)
(***************************************************************************)
EXTENDS FixedPoint, SequencesExt

CONSTANTS
    MaxOrders,      \* bound: orders made
    PAGE,           \* orders in an answer of the support contract: 100
    NewOrders,      \* what is ordered: [maker, pay, buy]
    Markets,        \* [kind, scale]: with or without a support contract, and
                    \* the factor of Token.normalize_amount for the pay token
    client          \* the account of the client

ASSUME OasisAssumption ==
    /\ MaxOrders \in Nat /\ PAGE \in Nat \ {0}
    /\ \A o \in NewOrders : o.pay \in Nat \ {0} /\ o.buy \in Nat \ {0}
    /\ \A m \in Markets : /\ m.kind \in {"simple", "matching", "support"}
                         /\ m.scale \in Nat \ {0}

VARIABLES
    market,     \* the kind of market, with or without support contract, its scale
    offers,     \* the contract's offers, by id
    book,       \* the ids in the contract's list, best first
    stale,      \* the pointer of an order that left the list
    listing,       \* the enumeration in progress or done
    standing,   \* history: orders that stand since the enumeration began
    unrest      \* history: what happened since then

oasisVars == <<market, offers, book, stale, listing, standing, unrest>>

Ids == DOMAIN offers

Live == {i \in Ids : offers[i].timestamp # 0}

(* The contract's comparison of two prices, which are not divided.         *)
AtLeast(pay1, buy1, pay2, buy2) == pay1 * buy2 >= pay2 * buy1

(* getBestOffer and getWorseOffer *)
BestOffer == IF book = <<>> THEN 0 ELSE Head(book)

PlaceOf(i) == CHOOSE k \in DOMAIN book : book[k] = i

WorseOffer(i) ==
    CASE i = 0 -> 0
      [] i \in ToSet(book) -> IF PlaceOf(i) = Len(book) THEN 0 ELSE book[PlaceOf(i) + 1]
      [] OTHER -> stale[i]

(* getOffers: up to PAGE orders from one on, as far as they stand. *)
Page(i) ==
    IF i \notin Live THEN <<>>
    ELSE LET rest == SubSeq(book, PlaceOf(i), Len(book))
         IN  IF Len(rest) <= PAGE THEN rest ELSE SubSeq(rest, 1, PAGE)

-----------------------------------------------------------------------------

NoListing == [op |-> "none", at |-> 0, last |-> 0, page |-> <<>>,
         found |-> {}, pay |-> 0, buy |-> 0, pos |-> 0]

OasisInit ==
    /\ market = [kind |-> "none", scale |-> 1]
    /\ offers = <<>> /\ book = <<>> /\ stale = <<>>
    /\ listing = NoListing /\ standing = {} /\ unrest = {}

(* The constructors. *)
OpenMarket ==
    /\ market.kind = "none"
    /\ market' \in Markets
    /\ UNCHANGED <<offers, book, stale, listing, standing, unrest>>

(* The id of a new order, which LogMake in the receipt of make shows.      *)
NewId == Len(offers) + 1

Offers(o) ==
    /\ NewId <= MaxOrders
    /\ offers' = Append(offers, [maker |-> o.maker, pay |-> o.pay, buy |-> o.buy, timestamp |-> 1])
    /\ stale' = Append(stale, 0)
    /\ unrest' = unrest \cup {"made"}
    /\ UNCHANGED <<market, listing, standing>>

(* make of SimpleMarket, which keeps no list. *)
MakeSimple(o) == market.kind = "simple" /\ Offers(o) /\ UNCHANGED book

(* make of MatchingMarket: the contract puts the order behind those that   *)
(* are as good, wherever the client thought that it belongs.               *)
MakeMatching(o) ==
    LET ahead == Cardinality({k \in DOMAIN book :
                    AtLeast(offers[book[k]].pay, offers[book[k]].buy, o.pay, o.buy)})
    IN  /\ market.kind # "simple"
        /\ Offers(o)
        /\ book' = InsertAt(book, ahead + 1, NewId)

Leaves(i) ==
    /\ offers' = [offers EXCEPT ![i].timestamp = 0]
    /\ stale' = [stale EXCEPT ![i] = WorseOffer(i)]
    /\ book' = IF i \in ToSet(book) THEN RemoveAt(book, PlaceOf(i)) ELSE book
    /\ standing' = standing \ {i}
    /\ unrest' = unrest \cup {"left"}

(* take: the whole order, or a part that leaves the price as it is.        *)
TakeOffer(i, quantity) ==
    LET spend == (quantity * offers[i].buy) \div offers[i].pay
    IN  /\ i \in Live /\ quantity \in 1 .. offers[i].pay
        /\ spend > 0 /\ spend * offers[i].pay = quantity * offers[i].buy
        /\ IF quantity = offers[i].pay
           THEN Leaves(i)
           ELSE /\ offers' = [offers EXCEPT ![i].pay = @ - quantity, ![i].buy = @ - spend]
                /\ UNCHANGED <<book, stale, standing, unrest>>
        /\ UNCHANGED <<market, listing>>

(* kill: only the owner can. *)
Kill(maker, i) ==
    /\ i \in Live /\ offers[i].maker = maker
    /\ Leaves(i)
    /\ UNCHANGED <<market, listing>>

-----------------------------------------------------------------------------
(* Enumerations. *)

BeginsListing ==
    /\ listing.op = "none"
    /\ standing' = Live
    /\ unrest' = {}
    /\ UNCHANGED <<market, offers, book, stale>>

(* SimpleMarket.get_orders, get_orders_by_maker: the last id is read.      *)
GetOrders ==
    /\ market.kind = "simple"
    /\ listing' = [NoListing EXCEPT !.op = "ids", !.at = 1, !.last = Len(offers)]
    /\ BeginsListing

GetOrdersByMaker ==
    /\ market.kind # "none"
    /\ listing' = [NoListing EXCEPT !.op = "maker", !.at = 1, !.last = Len(offers)]
    /\ BeginsListing

(* MatchingMarket.get_orders of a pair, here called by position: the best  *)
(* offer is read, or with the support contract the first page.             *)
PairOrders(pay, buy) ==
    /\ market.kind \in {"matching", "support"}
    /\ LET asked == [NoListing EXCEPT !.pay = pay, !.buy = buy]
       IN  listing' = IF market.kind = "matching"
                   THEN [asked EXCEPT !.op = "walk", !.at = BestOffer]
                   ELSE [asked EXCEPT !.op = "pages", !.page = Page(BestOffer)]
    /\ BeginsListing

(* get_order: None for an order that was taken or cancelled. *)
GetOrder(i) == IF offers[i].timestamp = 0 THEN {} ELSE {i}

(* A mutant: the last order is left out. *)
IdsBelow(last) == 1 .. last - 1

ScannedIds(last) == 1 .. last

(* One turn over the ids. *)
ScanId ==
    /\ listing.op \in {"ids", "maker"}
    /\ IF listing.at \in ScannedIds(listing.last)
       THEN listing' = [listing EXCEPT !.at = @ + 1,
                        !.found = @ \cup {i \in GetOrder(listing.at) :
                                             listing.op = "maker" => offers[i].maker = client}]
       ELSE listing' = [listing EXCEPT !.op = IF @ = "ids" THEN "done ids" ELSE "done maker"]
    /\ UNCHANGED <<market, offers, book, stale, standing, unrest>>

(* A turn of the walk: an order, and the next worse one, in two calls. *)
WalkOrder ==
    /\ listing.op = "walk"
    /\ listing' = IF listing.at = 0
               THEN [listing EXCEPT !.op = "done walk"]
               ELSE [listing EXCEPT !.op = "worse", !.found = @ \cup GetOrder(listing.at)]
    /\ UNCHANGED <<market, offers, book, stale, standing, unrest>>

WalkWorse ==
    /\ listing.op = "worse"
    /\ listing' = [listing EXCEPT !.op = "walk", !.at = WorseOffer(listing.at)]
    /\ UNCHANGED <<market, offers, book, stale, standing, unrest>>

PageIsFull == Len(listing.page) = PAGE

(* A page is read; the last order of a full one leads to the next page.    *)
ReadPage ==
    /\ listing.op = "pages"
    /\ LET read == [listing EXCEPT !.found = @ \cup {listing.page[k] : k \in DOMAIN listing.page}]
       IN  listing' = IF PageIsFull
                   THEN [read EXCEPT !.op = "next page", !.at = WorseOffer(listing.page[PAGE])]
                   ELSE [read EXCEPT !.op = "done pages"]
    /\ UNCHANGED <<market, offers, book, stale, standing, unrest>>

NextPage ==
    /\ listing.op = "next page"
    /\ listing' = [listing EXCEPT !.op = "pages", !.page = Page(listing.at)]
    /\ UNCHANGED <<market, offers, book, stale, standing, unrest>>

-----------------------------------------------------------------------------
(* Positions. *)

(* A mutant: the amount of the new order is taken as it is. *)
RawAmount(pay) == pay

(* Token.normalize_amount of the pay token. *)
NormalizedPay(pay) == pay * market.scale

(* Only the support contract's orders are normalized, not those of         *)
(* get_order.                                                              *)
ListedPay(i) ==
    IF market.kind = "support" THEN offers[i].pay * market.scale ELSE offers[i].pay

(* pay_amount / buy_amount: a Wad, of 18 decimals. *)
Ratio(pay, buy) == WadDiv(pay, buy)

OrderRatio(i) == Ratio(ListedPay(i), offers[i].buy)

(* The orders whose ratio is no lower than that of the new one; of these   *)
(* the one of the lowest ratio, and the lowest id of equal ones.           *)
Position(pay, buy) ==
    LET candidates == {i \in listing.found : OrderRatio(i) >= Ratio(NormalizedPay(pay), buy)}
    IN  IF candidates = {} THEN 0
        ELSE CHOOSE i \in candidates : \A j \in candidates \ {i} :
                 \/ OrderRatio(i) < OrderRatio(j)
                 \/ OrderRatio(i) = OrderRatio(j) /\ i < j

GivePosition ==
    /\ listing.op \in {"done walk", "done pages"} /\ listing.pos = 0
    /\ Position(listing.pay, listing.buy) # 0
    /\ listing' = [listing EXCEPT !.pos = Position(listing.pay, listing.buy)]
    /\ UNCHANGED <<market, offers, book, stale, standing, unrest>>

(* The caller is done with the orders. *)
Forget ==
    /\ listing.op \in {"done ids", "done maker", "done walk", "done pages"}
    /\ listing' = NoListing
    /\ UNCHANGED <<market, offers, book, stale, standing, unrest>>

Trade ==
    \/ \E o \in NewOrders : MakeSimple(o) \/ MakeMatching(o)
    \/ \E i \in Ids : \/ \E quantity \in 1 .. offers[i].pay : TakeOffer(i, quantity)
                     \/ \E o \in NewOrders : Kill(o.maker, i)

OasisNext ==
    \/ OpenMarket
    \/ market.kind # "none" /\ Trade
    \/ GetOrders \/ GetOrdersByMaker \/ \E o \in NewOrders : PairOrders(o.pay, o.buy)
    \/ ScanId \/ WalkOrder \/ WalkWorse \/ ReadPage \/ NextPage
    \/ GivePosition \/ Forget

OasisSpec == OasisInit /\ [][OasisNext]_oasisVars

-----------------------------------------------------------------------------

(* An enumeration returns every order that stands from its beginning to    *)
(* its end, whatever happens to the others: "all active orders"            *)
(* (oasis.py:351, 371, 569).  With the support contract this needs that    *)
(* no order leaves meanwhile: the next page may begin with it.             *)
StandingFound ==
    /\ listing.op \in {"done ids", "done walk"} => standing \subseteq listing.found
    /\ listing.op = "done pages" /\ "left" \notin unrest => standing \subseteq listing.found
    /\ listing.op = "done maker" =>
           {i \in standing : offers[i].maker = client} \subseteq listing.found

(* What is paid and bought by an order or, as 0, by the new one, in the    *)
(* units of Wad.                                                           *)
OrderPrice(i) ==
    LET o == IF i = 0 THEN listing ELSE offers[i]
    IN  [pay |-> o.pay * market.scale, buy |-> o.buy]

(* The price of i is below 10^9: at least one decimal place more is kept   *)
(* of it than a Wad has.                                                   *)
PriceFits(i) == ~AtLeast(OrderPrice(i).pay * WAD, OrderPrice(i).buy, TenTo(PREC - 1), 1)

(* The price of i is lower than that of j by some units of Wad, or more.   *)
LowerBy(units, i, j) ==
    AtLeast(OrderPrice(j).pay * WAD, OrderPrice(j).buy,
            OrderPrice(i).pay * WAD + units * OrderPrice(i).buy, OrderPrice(i).buy)

(* Without the support contract a position needs tokens of 18 decimals;    *)
(* and nothing changed since the enumeration began.                        *)
PositionIsFresh ==
    listing.pos # 0 /\ unrest = {} /\ (market.kind = "support" \/ market.scale = 1)

(* The order behind which a new one is placed (oasis.py:693) is as good as *)
(* the new one, or better, and no other order belongs between the two, but *)
(* for what the division of the amounts (oasis.py:715, 720) loses: less    *)
(* than three units of the last decimal place, for prices that fit.        *)
PositionRight ==
    PositionIsFresh /\ PriceFits(0) /\ PriceFits(listing.pos) =>
        /\ ~LowerBy(3, listing.pos, 0)
        /\ \A i \in Live : PriceFits(i) /\ LowerBy(3, i, listing.pos) => ~LowerBy(2, 0, i)

(* "the correct insertion position" (oasis.py:693), to the last digit: the *)
(* order is no worse than the new one, and no order that is worse than it  *)
(* is as good as the new one.  Quotients of 18 decimals do not tell.       *)
PositionExact ==
    PositionIsFresh =>
        /\ LowerBy(0, 0, listing.pos)
        /\ \A i \in Live : ~LowerBy(0, listing.pos, i) => ~LowerBy(0, 0, i)
=============================================================================
