------------------------------ MODULE OffChain ------------------------------
(***************************************************************************)
(* Off-chain orders: EtherDelta of src/pymaker/etherdelta.py, and 0x, of   *)
(* zrx.py and zrxv2.py.  The maker creates, configures, signs, publishes   *)
(* and cancels orders; a taker fetches and fills them; the client derives  *)
(* what remains of an order from the amount that the contract calls filled *)
(* or unavailable.  Relayers and contracts are external.                   *)
(*                                                                         *)
(* An order is identified by a hash of its fields, here the fields         *)
(* themselves, and lives until the end of the second of its creation.      *)
(***************************************************************************)
EXTENDS FixedPoint, Sequences

CONSTANTS
    Venues,         \* among "EtherDelta", "ZrxExchange", "ZrxExchangeV2"
    OrderAmounts,   \* pairs of a pay_amount and a buy_amount of new orders
    FillAmounts(_), \* what a taker asks for of an order, in buy_token
    Fees,           \* what a relayer may ask for
    Deposits,       \* what may be deposited at EtherDelta or withdrawn
    MaxCreated,     \* bound: orders created
    MaxTime,        \* bound: time, in milliseconds; a second has two
    ATTEMPTS,       \* EtherDeltaApi.number_of_attempts
    Unsigned        \* None

ASSUME OffChainAssumption ==
    /\ Venues \subseteq {"EtherDelta", "ZrxExchange", "ZrxExchangeV2"}
    /\ OrderAmounts \subseteq (Nat \ {0}) \X (Nat \ {0})
    /\ \A a \in OrderAmounts : FillAmounts(a[2]) \subseteq Nat \ {0}
    /\ Fees \subseteq Nat /\ 0 \in Fees
    /\ Deposits \subseteq Nat \ {0}
    /\ MaxCreated \in Nat /\ MaxTime \in Nat /\ ATTEMPTS \in Nat \ {0}

VARIABLES
    venue,      \* the exchange in use, "none" before it is chosen
    now,        \* milliseconds
    orders,     \* the maker's order objects
    relayed,    \* the orders that the relayer lists
    ledger,     \* the contract: filled and cancelled amount of each hash
    deposited,  \* the maker's pay_token at EtherDelta
    publisher   \* the threads of publish_order, by order

offChainVars == <<venue, now, orders, relayed, ledger, deposited, publisher>>

Smaller(a, b) == IF a < b THEN a ELSE b

Larger(a, b) == IF a > b THEN a ELSE b

HashFields(o) == 
    [pay |-> o.pay, buy |-> o.buy, fee |-> o.fee, salt |-> o.salt, expiration |-> o.expiration]

Entry(h) == IF h \in DOMAIN ledger THEN ledger[h] ELSE [filled |-> 0, cancelled |-> 0]

Enter(h, e) == ledger' = [g \in DOMAIN ledger \cup {h} |-> IF g = h THEN e ELSE ledger[g]]

Second == now \div 2

Expired(h) == Second >= h.expiration

Available(h) == h.buy - Entry(h).filled - Entry(h).cancelled

-----------------------------------------------------------------------------
(* What the client reads and derives. *)

(* amount_filled: a cancelled order looks like a filled one. *)
AmountFilled(o) == o.buy - Available(HashFields(o))

(* amount_available: not more than the maker's deposit pays for. *)
AmountAvailable(o) ==
    Smaller(Available(HashFields(o)), (deposited * o.buy) \div o.pay)

(* get_unavailable_buy_amount of the first version. *)
UnavailableV1(o) == AmountFilled(o)

(* A mutant: the amount left in place of the amount filled. *)
LeftForFilled(o) == Available(HashFields(o))

(* The second version goes by the status: anything but FILLABLE is all     *)
(* unavailable.                                                            *)
UnavailableV2(o) ==
    IF Expired(HashFields(o)) \/ Available(HashFields(o)) = 0
    THEN o.buy
    ELSE Entry(HashFields(o)).filled

Unavailable(o) ==
    IF venue = "ZrxExchangeV2" THEN UnavailableV2(o) ELSE UnavailableV1(o)

(* remaining_buy_amount *)
RemainingBuyEtherDelta(o) == o.buy - AmountFilled(o)

RemainingBuyV1(o) == Larger(o.buy - UnavailableV1(o), 0)

RemainingBuyV2(o) == Larger(o.buy - UnavailableV2(o), 0)

RemainingBuy(o) ==
    CASE venue = "EtherDelta" -> RemainingBuyEtherDelta(o)
      [] venue = "ZrxExchange" -> RemainingBuyV1(o)
      [] venue = "ZrxExchangeV2" -> RemainingBuyV2(o)

(* amount * pay_amount / buy_amount, in Wad. *)
ShareOf[a \in Nat \X (Nat \ {0})] == WadDiv(a[1], a[2])

SellShare(o, amount) == ShareOf[<<WadMul(amount, o.pay, WAD), o.buy>>]

(* A mutant: the share is subtracted without a look at the whole.          *)
SellWithoutGuard(o, unavailable) == Larger(o.pay - SellShare(o, unavailable), 0)

SellWithGuard(o, unavailable) ==
    IF unavailable >= o.buy THEN 0
    ELSE Larger(o.pay - SellShare(o, unavailable), 0)

(* remaining_sell_amount; EtherDelta's has neither a guard nor a floor. *)
RemainingSellEtherDelta(o) == o.pay - SellShare(o, AmountFilled(o))

RemainingSellV1(o) == SellWithGuard(o, UnavailableV1(o))

RemainingSellV2(o) == SellWithGuard(o, UnavailableV2(o))

RemainingSell(o) ==
    CASE venue = "EtherDelta" -> RemainingSellEtherDelta(o)
      [] venue = "ZrxExchange" -> RemainingSellV1(o)
      [] venue = "ZrxExchangeV2" -> RemainingSellV2(o)

-----------------------------------------------------------------------------
(* The maker. *)

OffChainInit ==
    /\ venue = "none" /\ now = 0
    /\ orders = <<>> /\ relayed = {}
    /\ ledger = [h \in {} |-> 0]
    /\ deposited = 0 /\ publisher = <<>>

ChooseVenue ==
    /\ venue = "none" /\ venue' \in Venues
    /\ UNCHANGED <<now, orders, relayed, ledger, deposited, publisher>>

(* Random salts and nonces do not meet. *)
RandomSalt == MaxTime + Len(orders) + 1

(* generate_salt of the second version. *)
TimeSalt == now

NewOrder(a, salt) ==
    [pay |-> a[1], buy |-> a[2], fee |-> 0, salt |-> salt, expiration |-> Second + 1,
     signature |-> Unsigned]

Creates(o) ==
    /\ Len(orders) < MaxCreated
    /\ orders' = Append(orders, o)
    /\ publisher' = Append(publisher, [state |-> "none", attempt |-> 0])
    /\ UNCHANGED <<venue, now, relayed, ledger, deposited>>

(* EtherDelta signs the order at once. *)
CreateOrderEtherDelta(a) ==
    LET o == NewOrder(a, RandomSalt)
    IN  venue = "EtherDelta" /\ Creates([o EXCEPT !.signature = HashFields(o)])

CreateOrderV1(a) == venue = "ZrxExchange" /\ Creates(NewOrder(a, RandomSalt))

CreateOrderV2(a) == venue = "ZrxExchangeV2" /\ Creates(NewOrder(a, TimeSalt))

Changes(i, o) ==
    /\ orders' = [orders EXCEPT ![i] = o]
    /\ UNCHANGED <<venue, now, relayed, ledger, deposited, publisher>>

(* The relayer's fees go into a copy, which keeps an earlier signature. *)
CalculateFees(i) ==
    /\ venue = "ZrxExchange"
    /\ \E fee \in Fees : Changes(i, [orders[i] EXCEPT !.fee = fee])

ConfigureOrder(i) ==
    /\ venue = "ZrxExchangeV2"
    /\ \E fee \in Fees : Changes(i, [orders[i] EXCEPT !.fee = fee])

(* sign_order: a copy with the signature of the hash as it is now. *)
SignOrderV1(i) ==
    /\ venue = "ZrxExchange"
    /\ Changes(i, [orders[i] EXCEPT !.signature = HashFields(orders[i])])

SignOrderV2(i) ==
    /\ venue = "ZrxExchangeV2"
    /\ Changes(i, [orders[i] EXCEPT !.signature = HashFields(orders[i])])

(* The relayer has the order. *)
Lists(i) == relayed' = relayed \cup {orders[i]}

(* submit_order: the relayer lists it, or refuses. *)
Submits(i) ==
    /\ orders[i].signature = HashFields(orders[i])
    /\ Lists(i)
    /\ UNCHANGED <<venue, now, orders, ledger, deposited, publisher>>

SubmitOrderV1(i) == venue = "ZrxExchange" /\ Submits(i)

SubmitOrderV2(i) == venue = "ZrxExchangeV2" /\ Submits(i)

(* The contracts cap the amount: it is all that is left. *)
Cancels(h, amount) ==
    /\ Enter(h, [Entry(h) EXCEPT !.cancelled = @ + Smaller(amount, Available(h))])
    /\ UNCHANGED <<venue, now, orders, relayed, deposited, publisher>>

(* cancel_order, when it is mined: the whole amount. *)
CancelOrderEtherDelta(i) ==
    venue = "EtherDelta" /\ Cancels(HashFields(orders[i]), orders[i].buy)

CancelOrderV1(i) ==
    venue = "ZrxExchange" /\ Cancels(HashFields(orders[i]), orders[i].buy)

CancelOrderV2(i) ==
    venue = "ZrxExchangeV2" /\ Cancels(HashFields(orders[i]), orders[i].buy)

-----------------------------------------------------------------------------
(* EtherDelta's balances and its publishing threads. *)

Deposit(amount) ==
    /\ venue = "EtherDelta" /\ deposited = 0
    /\ deposited' = amount
    /\ UNCHANGED <<venue, now, orders, relayed, ledger, publisher>>

Withdraw(amount) ==
    /\ venue = "EtherDelta" /\ amount <= deposited
    /\ deposited' = deposited - amount
    /\ UNCHANGED <<venue, now, orders, relayed, ledger, publisher>>

Publishes(i, state, attempt) ==
    publisher' = [publisher EXCEPT ![i] = [state |-> state, attempt |-> attempt]]

(* publish_order starts a thread that runs the client tool. *)
PublishOrder(i) ==
    /\ venue = "EtherDelta" /\ publisher[i].state = "none"
    /\ Publishes(i, "tool runs", 1)
    /\ UNCHANGED <<venue, now, orders, relayed, ledger, deposited>>

(* A mutant: the last attempt is not made. *)
OneLess(attempt) == attempt + 1 < ATTEMPTS

AttemptsLeft(attempt) == attempt < ATTEMPTS

(* The tool says that it published the order; or that it did not, and may  *)
(* be wrong, which ends in the next attempt or the last one.               *)
ToolEnds(i) ==
    LET attempt == publisher[i].attempt
    IN  /\ publisher[i].state = "tool runs"
        /\ \/ Lists(i) /\ Publishes(i, "sent", attempt)
           \/ /\ Lists(i) \/ UNCHANGED relayed
              /\ IF AttemptsLeft(attempt)
                 THEN Publishes(i, "tool runs", attempt + 1)
                 ELSE Publishes(i, "failed", attempt)
        /\ UNCHANGED <<venue, now, orders, ledger, deposited>>

(* The tool takes too long: TimeoutExpired leaves the thread, and the tool *)
(* goes on.                                                                *)
ToolHangs(i) ==
    /\ publisher[i].state = "tool runs"
    /\ Publishes(i, "timeout", publisher[i].attempt)
    /\ UNCHANGED <<venue, now, orders, relayed, ledger, deposited>>

ToolEndsLate(i) ==
    /\ publisher[i].state = "timeout"
    /\ Lists(i)
    /\ UNCHANGED <<venue, now, orders, ledger, deposited, publisher>>

-----------------------------------------------------------------------------
(* The taker. *)

(* get_orders and the like: what the relayer lists, as from_json reads it. *)
GetOrdersV1 == {o \in relayed : venue = "ZrxExchange"}

GetOrdersV2 == {o \in relayed : venue = "ZrxExchangeV2"}

(* fillOrder: what is left, up to the amount, of a signed order. *)
Fills(o, amount) ==
    LET h == HashFields(o)
    IN  /\ o.signature = h /\ ~ Expired(h) /\ Available(h) > 0
        /\ Enter(h, [Entry(h) EXCEPT !.filled = @ + Smaller(amount, Available(h))])
        /\ UNCHANGED <<venue, now, orders, relayed, publisher>>

FillOrderV1(o, amount) == Fills(o, amount) /\ UNCHANGED deposited

FillOrderV2(o, amount) == Fills(o, amount) /\ UNCHANGED deposited

(* trade, of what can_trade says can be traded; the maker pays. *)
CanTrade(o, amount) ==
    o.signature = HashFields(o) /\ amount <= AmountAvailable(o)

Trades(o, amount) ==
    /\ venue = "EtherDelta" /\ CanTrade(o, amount) /\ Fills(o, amount)
    /\ deposited' = deposited - (amount * o.pay) \div o.buy

(* Time passes; only with the second version of 0x does it matter.         *)
Millisecond ==
    /\ venue = "ZrxExchangeV2" /\ now < MaxTime /\ now' = now + 1
    /\ UNCHANGED <<venue, orders, relayed, ledger, deposited, publisher>>

OffChainNext ==
    \/ ChooseVenue
    \/ \E a \in OrderAmounts :
          CreateOrderEtherDelta(a) \/ CreateOrderV1(a) \/ CreateOrderV2(a)
    \/ \E i \in DOMAIN orders :
          \/ CalculateFees(i) \/ ConfigureOrder(i) \/ SignOrderV1(i) \/ SignOrderV2(i)
          \/ SubmitOrderV1(i) \/ SubmitOrderV2(i)
          \/ CancelOrderEtherDelta(i) \/ CancelOrderV1(i) \/ CancelOrderV2(i)
          \/ PublishOrder(i) \/ ToolEnds(i) \/ ToolHangs(i) \/ ToolEndsLate(i)
    \/ \E amount \in Deposits : Deposit(amount) \/ Withdraw(amount)
    \/ \E o \in GetOrdersV1 : \E amount \in FillAmounts(o.buy) : FillOrderV1(o, amount)
    \/ \E o \in GetOrdersV2 : \E amount \in FillAmounts(o.buy) : FillOrderV2(o, amount)
    \/ \E o \in relayed : \E amount \in FillAmounts(o.buy) : Trades(o, amount)
    \/ Millisecond

OffChainSpec == OffChainInit /\ [][OffChainNext]_offChainVars

-----------------------------------------------------------------------------

(* However an order was filled and cancelled, what remains of it is sane:  *)
(* never below nothing nor above the whole on either side; with 0x, when   *)
(* there is nothing left to buy there is nothing left to sell; and nothing *)
(* is left of an order that was cancelled, though fills went on until the  *)
(* cancellation was mined (zrx.py:91-103, 498, zrxv2.py:143-155, 565).     *)
(* EtherDelta's remaining_sell_amount, which has no floor (etherdelta.py:  *)
(* 92), can round to less than nothing when pay_amount has as many digits  *)
(* as are kept.                                                            *)
RemainingIsSane ==
    \A i \in DOMAIN orders :
        LET o == orders[i]
        IN  /\ RemainingBuy(o) \in 0 .. o.buy
            /\ venue # "EtherDelta" \/ o.pay < TenTo(PREC - 1) => RemainingSell(o) \in 0 .. o.pay
            /\ venue # "EtherDelta" /\ RemainingBuy(o) = 0 => RemainingSell(o) = 0
            /\ Entry(HashFields(o)).cancelled > 0 => RemainingBuy(o) = 0

(* What remains of an order shrinks: no fill, cancellation or expiration   *)
(* makes any of it come back (zrxv2.py:494-517).                           *)
RemainingShrinks ==
    [][ledger' # ledger \/ now' # now =>
          \A i \in DOMAIN orders :
              /\ RemainingBuy(orders[i])' <= RemainingBuy(orders[i])
              /\ RemainingSell(orders[i])' <= RemainingSell(orders[i])]_offChainVars

(* publish_order makes all its attempts before it gives up, and only then  *)
(* gives up, unless the tool hangs; and what it calls sent is listed       *)
(* (etherdelta.py:587, 643).                                               *)
PublishedOrTried ==
    \A i \in DOMAIN publisher :
        /\ publisher[i].state = "sent" => orders[i] \in relayed
        /\ publisher[i].state = "failed" => publisher[i].attempt = ATTEMPTS
=============================================================================
