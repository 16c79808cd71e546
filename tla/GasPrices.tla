------------------------------ MODULE GasPrices ------------------------------
(***************************************************************************)
(* The gas price strategies of src/pymaker/gas.py, asked for a price turn  *)
(* by turn as the loop of transact_async does.  A coefficient is a ratio,  *)
(* and a power of it exact, where the code multiplies floats.              *)
(***************************************************************************)
EXTENDS Powers

CONSTANTS
    Strategies,     \* records of the parameters of a strategy
    NodePrices,     \* what eth_gasPrice may answer
    UpdatedPrices,  \* what update_gas_price may be called with
    GWEI,           \* the least price that get_node_gas_price returns
    MaxElapsed,     \* bound: seconds from the first call
    NoPrice         \* None

Strategy ==
    [kind : {"default", "node", "fixed", "increasing", "geometric"},
     initial : Nat \ {0}, increase_by : Nat \ {0}, every_secs : Nat \ {0},
     up : Nat, down : Nat \ {0}, max : (Nat \ {0}) \cup {NoPrice}]

(* The asserts of the constructors. *)
ASSUME StrategyAssumption ==
    /\ Strategies \subseteq Strategy
    /\ \A s \in Strategies :
          /\ s.up > s.down
          /\ s.kind = "geometric" /\ s.max # NoPrice => s.max >= s.initial
    /\ NodePrices \subseteq Nat /\ UpdatedPrices \subseteq Nat \ {0}
    /\ GWEI \in Nat /\ NoPrice \notin Nat \cup Strategy

VARIABLES
    strategy,       \* the strategy in use, NoPrice before one is made
    elapsed,        \* seconds since transact_async began
    quoted,         \* the last price returned, and when
    sent            \* the last price sent, and when

gasVars == <<strategy, elapsed, quoted, sent>>

LowerOf(a, b) == IF a < b THEN a ELSE b

HigherOf(a, b) == IF a > b THEN a ELSE b

(* A mutant: the seconds of the current interval instead of the intervals. *)
Remainder(s, seconds) == seconds % s.every_secs

(* The intervals that have passed. *)
Intervals(s, seconds) == seconds \div s.every_secs

(* min with max_price, if there is one. *)
Capped(s, price) == IF s.max = NoPrice THEN price ELSE LowerOf(price, s.max)

RoundedUp(n, d) == (n + d - 1) \div d

NodePrice(answer) == HigherOf(answer, GWEI)

FixedPrice(s) == s.initial

IncreasingPrice(s, seconds) ==
    Capped(s, s.initial + Intervals(s, seconds) * s.increase_by)

(* A mutant: the price is raised once, not once an interval. *)
RaisedOnce(s, seconds) ==
    Capped(s, IF seconds >= s.every_secs THEN RoundedUp(s.initial * s.up, s.down) ELSE s.initial)

GeometricPrice(s, seconds) ==
    LET n == Intervals(s, seconds)
    IN  Capped(s, RoundedUp(s.initial * Powers(s.up)[n], Powers(s.down)[n]))

-----------------------------------------------------------------------------

GasInit ==
    /\ strategy = NoPrice
    /\ elapsed = 0
    /\ quoted = [price |-> NoPrice, at |-> 0]
    /\ sent = [price |-> NoPrice, at |-> 0]

MakeStrategy ==
    /\ strategy = NoPrice
    /\ strategy' \in Strategies
    /\ UNCHANGED <<elapsed, quoted, sent>>

(* What the loop of transact_async does with a price: it sends the first   *)
(* one, and later ones that exceed the last one sent by more than 12.5%.   *)
Bids(price) ==
    /\ quoted' = [price |-> price, at |-> elapsed]
    /\ sent' = IF \/ sent.price = NoPrice
                  \/ price # NoPrice /\ 8 * price > 9 * sent.price
               THEN [price |-> price, at |-> elapsed]
               ELSE sent
    /\ UNCHANGED <<strategy, elapsed>>

GetDefaultPrice == strategy.kind = "default" /\ Bids(NoPrice)

GetNodePrice ==
    /\ strategy.kind = "node"
    /\ \E answer \in NodePrices : Bids(NodePrice(answer))

GetFixedPrice == strategy.kind = "fixed" /\ Bids(FixedPrice(strategy))

GetIncreasingPrice ==
    strategy.kind = "increasing" /\ Bids(IncreasingPrice(strategy, elapsed))

GetGeometricPrice ==
    strategy.kind = "geometric" /\ Bids(GeometricPrice(strategy, elapsed))

(* Another thread changes the price of a strategy in use. *)
UpdateGasPrice ==
    /\ strategy.kind = "fixed"
    /\ \E price \in UpdatedPrices : strategy' = [strategy EXCEPT !.initial = price]
    /\ UNCHANGED <<elapsed, quoted, sent>>

SecondPasses ==
    /\ elapsed < MaxElapsed
    /\ elapsed' = elapsed + 1
    /\ UNCHANGED <<strategy, quoted, sent>>

GasNext ==
    \/ MakeStrategy
    \/ /\ strategy # NoPrice
       /\ \/ GetDefaultPrice \/ GetNodePrice \/ GetFixedPrice
          \/ GetIncreasingPrice \/ GetGeometricPrice
          \/ UpdateGasPrice \/ SecondPasses

GasSpec == GasInit /\ [][GasNext]_gasVars

-----------------------------------------------------------------------------

(* A strategy that rises with time never returns less than it did before,  *)
(* and never more than its maximum (gas.py:130, 169).                      *)
QuotesRise ==
    [][strategy # NoPrice /\ strategy.kind \in {"increasing", "geometric"}
          /\ quoted.price # NoPrice
       => /\ quoted'.price >= quoted.price
          /\ strategy.max # NoPrice => quoted'.price <= strategy.max]_gasVars

(* "the minimum increase for Parity to replace a transaction" (gas.py:172) *)
(* is not enough for the loop, which wants more than 12.5%; but two        *)
(* increases are: until the maximum is reached, a transaction that is      *)
(* asked about is sent again within two intervals.  Below eight Wei a      *)
(* price that is rounded up to the next Wei may stay for longer.           *)
GeometricBidsAreSent ==
    /\ strategy # NoPrice /\ sent.price # NoPrice
    /\ strategy.kind = "geometric" /\ strategy.initial >= 8
    /\ 8 * strategy.up >= 9 * strategy.down
    /\ quoted.price # strategy.max
    => Intervals(strategy, quoted.at) < Intervals(strategy, sent.at) + 2
=============================================================================
