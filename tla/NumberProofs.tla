----------------------------- MODULE NumberProofs ----------------------------
(***************************************************************************)
(* The numbers of clients: what gas prices, products and quotients of Wad, *)
(* Ray and Rad, savings and debts are, for any parameters, any base and    *)
(* any number of digits that Decimal keeps.                                *)
(***************************************************************************)
EXTENDS Arithmetic, GasPrices, Numbers, Savings, Vaults

(***************************************************************************)
(* Gas prices.                                                             *)
(***************************************************************************)

(* Rounding up. *)
LEMMA RoundedUpBounds ==
    ASSUME NEW n \in Nat, NEW d \in Nat \ {0}
    PROVE  /\ RoundedUp(n, d) \in Nat /\ n <= d * RoundedUp(n, d)
           /\ d * RoundedUp(n, d) < n + d
<1>1. PICK a \in Nat : a = n + d - 1
  OBVIOUS
<1>2. PICK q \in Nat : q = a \div d
  BY QuotientBounds
<1>3. d * q <= a /\ a < d * q + d
  BY <1>2, QuotientBounds
<1>4. RoundedUp(n, d) = q
  BY <1>1, <1>2 DEF RoundedUp
<1>5. PICK p \in Nat : p = d * q
  OBVIOUS
<1> QED
  BY <1>1, <1>3, <1>4, <1>5

LEMMA RoundedUpRises ==
    ASSUME NEW n1 \in Nat, NEW d1 \in Nat \ {0}, NEW n2 \in Nat, NEW d2 \in Nat \ {0},
           n1 * d2 <= n2 * d1
    PROVE  RoundedUp(n1, d1) <= RoundedUp(n2, d2)
<1>1. PICK p \in Nat : p = RoundedUp(n1, d1)
  BY RoundedUpBounds
<1>2. PICK q \in Nat : q = RoundedUp(n2, d2)
  BY RoundedUpBounds
<1>3. d1 * p < n1 + d1 /\ n2 <= d2 * q
  BY <1>1, <1>2, RoundedUpBounds
<1>4. SUFFICES ASSUME q + 1 <= p PROVE FALSE
  BY <1>1, <1>2
<1>5. d1 * (q + 1) <= d1 * p /\ d1 * (q + 1) = d1 * q + d1
  BY <1>4
<1>6. PICK u \in Nat : u = d1 * q
  OBVIOUS
<1>7. u < n1
  BY <1>3, <1>5, <1>6
<1>8. u * d2 < n1 * d2
  BY <1>7, TimesLess
<1>9. n2 * d1 <= (d2 * q) * d1
  BY <1>3
<1>10. (d2 * q) * d1 = u * d2
  BY <1>6
<1>11. u * d2 \in Nat /\ n1 * d2 \in Nat /\ n2 * d1 \in Nat
  BY <1>6
<1> QED
  BY <1>8, <1>9, <1>10, <1>11

(* Prices rise with time. *)
Prices == Nat \cup {NoPrice}

LEMMA IntervalsRise ==
    ASSUME NEW s \in Strategy, NEW t \in Nat, NEW u \in Nat, t <= u
    PROVE  Intervals(s, t) \in Nat /\ Intervals(s, u) \in Nat /\ Intervals(s, t) <= Intervals(s, u)
<1>1. s.every_secs \in Nat \ {0}
  BY DEF Strategy
<1> QED
  BY <1>1, QuotientBounds, QuotientRises DEF Intervals

LEMMA CappedRises ==
    ASSUME NEW s \in Strategy, NEW p \in Nat, NEW q \in Nat, p <= q
    PROVE  /\ Capped(s, p) \in Nat /\ Capped(s, p) <= Capped(s, q) /\ Capped(s, p) <= p
           /\ s.max # NoPrice => Capped(s, p) <= s.max /\ s.max \in Nat
           /\ Capped(s, p) # s.max => Capped(s, p) = p
<1>1. s.max \in Nat \/ s.max = NoPrice
  BY DEF Strategy
<1> QED
  BY <1>1 DEF Capped, LowerOf

(* The price before it is capped. *)
Uncapped(s, seconds) ==
    IF s.kind = "increasing" THEN s.initial + Intervals(s, seconds) * s.increase_by
    ELSE RoundedUp(s.initial * Powers(s.up)[Intervals(s, seconds)],
                   Powers(s.down)[Intervals(s, seconds)])

LEMMA UncappedRises ==
    ASSUME NEW s \in Strategy, s.up > s.down, NEW t \in Nat, NEW u \in Nat, t <= u
    PROVE  Uncapped(s, t) \in Nat /\ Uncapped(s, u) \in Nat /\ Uncapped(s, t) <= Uncapped(s, u)
<1>1. PICK n \in Nat : n = Intervals(s, t)
  BY IntervalsRise
<1>2. PICK m \in Nat : m = Intervals(s, u)
  BY IntervalsRise
<1>3. n <= m
  BY <1>1, <1>2, IntervalsRise
<1>4. /\ s.initial \in Nat \ {0} /\ s.increase_by \in Nat /\ s.up \in Nat \ {0} /\ s.down \in Nat \ {0}
      /\ s.down <= s.up
  BY DEF Strategy
<1>5. CASE s.kind = "increasing"
  <2>1. PICK b \in Nat : b = s.increase_by
    BY <1>4
  <2>2. PICK i \in Nat : i = s.initial
    BY <1>4
  <2>3. n * b <= m * b /\ n * b \in Nat /\ m * b \in Nat
    BY <1>3
  <2> QED BY <1>1, <1>2, <1>5, <2>1, <2>2, <2>3 DEF Uncapped
<1>6. CASE s.kind # "increasing"
  <2>1. PICK i \in Nat : i = s.initial
    BY <1>4
  <2>2. PICK x \in Nat \ {0} : x = Powers(s.up)[n]
    BY <1>4, PowersArePositive
  <2>3. PICK y \in Nat \ {0} : y = Powers(s.down)[n]
    BY <1>4, PowersArePositive
  <2>4. PICK v \in Nat \ {0} : v = Powers(s.up)[m]
    BY <1>4, PowersArePositive
  <2>5. PICK w \in Nat \ {0} : w = Powers(s.down)[m]
    BY <1>4, PowersArePositive
  <2>6. x * w <= v * y
    BY <1>3, <1>4, <2>2, <2>3, <2>4, <2>5, PowersRise
  <2>7. i * x \in Nat /\ i * v \in Nat
    OBVIOUS
  <2>8. (i * x) * w <= (i * v) * y
    <3>1. (i * x) * w = i * (x * w) /\ (i * v) * y = i * (v * y)
      OBVIOUS
    <3>2. i * (x * w) <= i * (v * y)
      BY <2>6
    <3> QED BY <3>1, <3>2
  <2>9. /\ RoundedUp(i * x, y) \in Nat /\ RoundedUp(i * v, w) \in Nat
        /\ RoundedUp(i * x, y) <= RoundedUp(i * v, w)
    BY <2>7, <2>8, RoundedUpBounds, RoundedUpRises
  <2> QED BY <1>1, <1>2, <1>6, <2>1, <2>2, <2>3, <2>4, <2>5, <2>9 DEF Uncapped
<1> QED
  BY <1>5, <1>6

(* From eight Wei on, two increases of an eighth raise what is bid by more *)
(* than one of an eighth.                                                  *)
LEMMA TwoIncreases ==
    ASSUME NEW s \in Strategy, s.kind = "geometric", s.up > s.down, s.initial >= 8,
           8 * s.up >= 9 * s.down, NEW t \in Nat, NEW u \in Nat,
           Intervals(s, t) + 2 <= Intervals(s, u)
    PROVE  8 * Uncapped(s, u) > 9 * Uncapped(s, t)
<1>1. PICK n \in Nat : n = Intervals(s, t)
  BY IntervalsRise
<1>2. PICK m \in Nat : m = Intervals(s, u)
  BY IntervalsRise
<1>3. PICK i \in Nat : i = s.initial /\ i >= 8
  BY DEF Strategy
<1>4. PICK up \in Nat \ {0} : up = s.up
  BY DEF Strategy
<1>5. PICK down \in Nat \ {0} : down = s.down
  BY DEF Strategy
<1>6. 8 * up >= 9 * down /\ down <= up
  BY <1>4, <1>5
<1>7. PICK x \in Nat \ {0} : x = Powers(up)[n]
  BY PowersArePositive
<1>8. PICK y \in Nat \ {0} : y = Powers(down)[n]
  BY PowersArePositive
<1>9. PICK v \in Nat \ {0} : v = Powers(up)[m]
  BY PowersArePositive
<1>10. PICK w \in Nat \ {0} : w = Powers(down)[m]
  BY PowersArePositive
<1>11. y <= x
  <2>1. Powers(up)[0] * Powers(down)[n] <= Powers(up)[n] * Powers(down)[0]
    BY <1>6, PowersRise
  <2>2. Powers(up)[0] = 1 /\ Powers(down)[0] = 1
    BY PowersAre
  <2> QED BY <1>7, <1>8, <2>1, <2>2
<1>12. 64 * (v * y) >= 81 * (x * w)
  <2>1. PICK x2 \in Nat \ {0} : x2 = Powers(up)[n + 2]
    BY PowersArePositive
  <2>2. PICK y2 \in Nat \ {0} : y2 = Powers(down)[n + 2]
    BY PowersArePositive
  <2>3. x2 = up * (up * x) /\ y2 = down * (down * y)
    <3>1. n + 1 \in Nat /\ n + 2 = (n + 1) + 1
      OBVIOUS
    <3> QED BY <1>7, <1>8, <2>1, <2>2, <3>1, PowersAre
  <2>4. x2 * w <= v * y2
    <3>1. n + 2 \in Nat /\ n + 2 <= m
      BY <1>1, <1>2
    <3> QED BY <1>6, <1>9, <1>10, <2>1, <2>2, <3>1, PowersRise
  <2>5. 64 * (up * up) >= 81 * (down * down)
    <3>1. PICK a \in Nat : a = 8 * up
      OBVIOUS
    <3>2. PICK b \in Nat : b = 9 * down
      OBVIOUS
    <3>3. a * a >= b * b
      BY <1>6, <3>1, <3>2
    <3>4. a * a = 64 * (up * up) /\ b * b = 81 * (down * down)
      BY <3>1, <3>2
    <3> QED BY <3>3, <3>4
  <2>6. PICK g \in Nat \ {0} : g = down * down
    OBVIOUS
  <2>7. PICK h \in Nat : h = up * up
    OBVIOUS
  <2>8. PICK a \in Nat : a = x * w
    OBVIOUS
  <2>9. PICK b \in Nat : b = v * y
    OBVIOUS
  <2>10. h * a <= g * b
    <3>1. x2 * w = h * a /\ v * y2 = g * b
      BY <2>3, <2>6, <2>7, <2>8, <2>9
    <3> QED BY <2>4, <3>1
  <2>11. 81 * g <= 64 * h
    BY <2>5, <2>6, <2>7
  <2>12. (81 * g) * a <= (64 * h) * a
    <3>1. PICK k \in Nat : k = 81 * g
      OBVIOUS
    <3>2. PICK l \in Nat : l = 64 * h
      OBVIOUS
    <3>3. k * a <= l * a
      BY <2>11, <3>1, <3>2
    <3> QED BY <3>1, <3>2, <3>3
  <2>13. (81 * a) * g <= (64 * b) * g
    <3>1. (81 * g) * a = (81 * a) * g /\ (64 * h) * a = 64 * (h * a) /\ (64 * b) * g = 64 * (g * b)
      OBVIOUS
    <3>2. h * a \in Nat /\ g * b \in Nat /\ (81 * a) * g \in Nat
      OBVIOUS
    <3> QED BY <2>10, <2>12, <3>1, <3>2
  <2>14. 81 * a <= 64 * b
    <3>1. 81 * a \in Nat /\ 64 * b \in Nat /\ g > 0
      OBVIOUS
    <3> QED BY <2>13, <3>1, TimesLess
  <2> QED BY <2>8, <2>9, <2>14
<1>13. PICK p \in Nat : p = Uncapped(s, t)
  BY UncappedRises
<1>14. PICK q \in Nat : q = Uncapped(s, u)
  BY UncappedRises
<1>15. SUFFICES ASSUME 8 * q <= 9 * p PROVE FALSE
  BY <1>13, <1>14
<1>16. y * p < i * x + y /\ i * v <= w * q
  <2>1. i * x \in Nat /\ i * v \in Nat
    OBVIOUS
  <2>2. p = RoundedUp(i * x, y) /\ q = RoundedUp(i * v, w)
    BY <1>1, <1>2, <1>3, <1>4, <1>5, <1>7, <1>8, <1>9, <1>10, <1>13, <1>14 DEF Uncapped
  <2> QED BY <2>1, <2>2, RoundedUpBounds
<1>17. PICK a \in Nat : a = i * (x * w)
  OBVIOUS
<1>18. PICK b \in Nat : b = i * (v * y)
  OBVIOUS
<1>19. PICK e \in Nat \ {0} : e = w * y
  OBVIOUS
<1>20. 81 * a <= 64 * b
  <2>1. PICK f \in Nat : f = x * w
    OBVIOUS
  <2>2. PICK g \in Nat : g = v * y
    OBVIOUS
  <2>3. (81 * f) * i <= (64 * g) * i
    <3>1. 81 * f <= 64 * g
      BY <1>12, <2>1, <2>2
    <3> QED BY <3>1
  <2>4. (81 * f) * i = 81 * a /\ (64 * g) * i = 64 * b
    BY <1>17, <1>18, <2>1, <2>2
  <2> QED BY <2>3, <2>4
<1>21. b <= q * e
  <2>1. (i * v) * y <= (w * q) * y
    <3>1. PICK f \in Nat : f = i * v
      OBVIOUS
    <3>2. PICK g \in Nat : g = w * q
      OBVIOUS
    <3> QED BY <1>16, <3>1, <3>2
  <2>2. (i * v) * y = b /\ (w * q) * y = q * e
    BY <1>18, <1>19
  <2> QED BY <2>1, <2>2
<1>22. p * e < a + e
  <2>1. (y * p) * w < (i * x + y) * w
    <3>1. PICK f \in Nat : f = y * p
      OBVIOUS
    <3>2. PICK g \in Nat : g = i * x + y
      OBVIOUS
    <3>3. w > 0
      OBVIOUS
    <3> QED BY <1>16, <3>1, <3>2, <3>3, TimesLess
  <2>2. (y * p) * w = p * e /\ (i * x + y) * w = a + e
    BY <1>17, <1>19
  <2> QED BY <2>1, <2>2
<1>23. (8 * q) * e <= (9 * p) * e
  <2>1. PICK f \in Nat : f = 8 * q
    OBVIOUS
  <2>2. PICK g \in Nat : g = 9 * p
    OBVIOUS
  <2> QED BY <1>15, <2>1, <2>2
<1>24. PICK qe \in Nat : qe = q * e
  OBVIOUS
<1>25. PICK pe \in Nat : pe = p * e
  OBVIOUS
<1>26. 8 * qe <= 9 * pe
  BY <1>23, <1>24, <1>25
<1>27. a < 8 * e
  BY <1>20, <1>21, <1>22, <1>24, <1>25, <1>26
<1>28. 8 * e <= a
  <2>1. y * w <= x * w
    BY <1>11
  <2>2. PICK f \in Nat : f = x * w
    OBVIOUS
  <2>3. 8 * f <= i * f
    BY <1>3
  <2> QED BY <1>17, <1>19, <2>1, <2>2, <2>3
<1> QED
  BY <1>27, <1>28

-----------------------------------------------------------------------------
Rises(s) == s.kind \in {"increasing", "geometric"}

Quote == [price : Prices, at : Nat]

(* A price that was given is that of its moment.                           *)
IsQuoted(s, q) == q.price # NoPrice /\ Rises(s) => q.price = Capped(s, Uncapped(s, q.at))

(* Inductive: what was quoted and what was sent are the prices of the      *)
(* strategy at their moments, and what was quoted since is not so much     *)
(* higher that it had to be sent.                                          *)
GasInv ==
    /\ strategy = NoPrice \/ (strategy \in Strategy /\ strategy.up > strategy.down)
    /\ elapsed \in Nat /\ quoted \in Quote /\ sent \in Quote
    /\ quoted.at <= elapsed /\ sent.at <= elapsed
    /\ strategy = NoPrice => quoted.price = NoPrice /\ sent.price = NoPrice
    /\ strategy # NoPrice => IsQuoted(strategy, quoted) /\ IsQuoted(strategy, sent)
    /\ strategy # NoPrice /\ Rises(strategy) /\ sent.price # NoPrice =>
           quoted.price # NoPrice /\ (quoted = sent \/ 8 * quoted.price <= 9 * sent.price)

LEMMA GasStarts == GasInit => GasInv
  BY DEF GasInit, GasInv, Quote, Prices

(* A price that the loop is given. *)
LEMMA BidsKeep ==
    ASSUME GasInv, strategy # NoPrice, NEW price \in Prices, Bids(price),
           Rises(strategy) => price = Capped(strategy, Uncapped(strategy, elapsed)) /\ price # NoPrice
    PROVE  GasInv'
<1>1. /\ quoted' = [price |-> price, at |-> elapsed] /\ UNCHANGED <<strategy, elapsed>>
      /\ sent' = quoted' \/ (sent' = sent /\ sent.price # NoPrice
                                /\ (price # NoPrice => ~(8 * price > 9 * sent.price)))
  BY DEF Bids
<1>2. elapsed \in Nat /\ elapsed <= elapsed /\ quoted' \in Quote
  BY <1>1 DEF GasInv, Quote
<1>3. quoted'.price = price /\ quoted'.at = elapsed
  BY <1>1
<1>4. IsQuoted(strategy, quoted')
  BY <1>3 DEF IsQuoted
<1>5. CASE sent' = quoted'
  BY <1>1, <1>2, <1>3, <1>4, <1>5 DEF GasInv
<1>6. CASE sent' = sent /\ sent.price # NoPrice /\ (price # NoPrice => ~(8 * price > 9 * sent.price))
  <2>1. Rises(strategy) => price \in Nat /\ sent.price \in Nat /\ 8 * price <= 9 * sent.price
    BY <1>6 DEF Prices, GasInv, Quote
  <2> QED BY <1>1, <1>2, <1>3, <1>4, <1>6, <2>1 DEF GasInv
<1> QED
  BY <1>1, <1>5, <1>6

LEMMA GasStep == GasInv /\ [GasNext]_gasVars => GasInv'
<1>1. SUFFICES ASSUME GasInv, [GasNext]_gasVars PROVE GasInv'
  OBVIOUS
<1>2. CASE MakeStrategy
  <2>1. /\ strategy = NoPrice /\ strategy' \in Strategies /\ UNCHANGED <<elapsed, quoted, sent>>
    BY <1>2 DEF MakeStrategy
  <2>2. strategy' \in Strategy /\ strategy'.up > strategy'.down
    BY <2>1, StrategyAssumption
  <2> QED BY <1>1, <2>1, <2>2 DEF GasInv, IsQuoted
<1>3. CASE strategy # NoPrice /\ (GetDefaultPrice \/ GetNodePrice \/ GetFixedPrice)
  <2>1. ~Rises(strategy) /\ \E price \in Prices : Bids(price)
    <3>1. CASE GetDefaultPrice
      BY <3>1 DEF GetDefaultPrice, Rises, Prices
    <3>2. CASE GetNodePrice
      <4>1. PICK answer \in NodePrices : Bids(NodePrice(answer)) /\ strategy.kind = "node"
        BY <3>2 DEF GetNodePrice
      <4>2. NodePrice(answer) \in Prices
        BY StrategyAssumption DEF NodePrice, HigherOf, Prices
      <4> QED BY <4>1, <4>2 DEF Rises
    <3>3. CASE GetFixedPrice
      <4>1. strategy.initial \in Prices
        BY <1>1, <1>3 DEF GasInv, Strategy, Prices
      <4> QED BY <3>3, <4>1 DEF GetFixedPrice, FixedPrice, Rises
    <3> QED BY <1>3, <3>1, <3>2, <3>3
  <2> QED BY <1>1, <1>3, <2>1, BidsKeep
<1>4. CASE strategy # NoPrice /\ (GetIncreasingPrice \/ GetGeometricPrice)
  <2>1. PICK price : price = Capped(strategy, Uncapped(strategy, elapsed))
    OBVIOUS
  <2>2. Bids(price)
    <3>1. CASE GetIncreasingPrice
      BY <2>1, <3>1 DEF GetIncreasingPrice, IncreasingPrice, Uncapped
    <3>2. CASE GetGeometricPrice
      BY <2>1, <3>2 DEF GetGeometricPrice, GeometricPrice, Uncapped
    <3> QED BY <1>4, <3>1, <3>2
  <2>3. price \in Nat /\ price # NoPrice
    <3>1. strategy \in Strategy /\ strategy.up > strategy.down /\ elapsed \in Nat
      BY <1>1, <1>4 DEF GasInv
    <3>2. Uncapped(strategy, elapsed) \in Nat
      BY <3>1, UncappedRises
    <3> QED BY <2>1, <3>1, <3>2, CappedRises, StrategyAssumption
  <2>4. price \in Prices
    BY <2>3 DEF Prices
  <2> QED BY <1>1, <1>4, <2>1, <2>2, <2>3, <2>4, BidsKeep
<1>5. CASE strategy # NoPrice /\ UpdateGasPrice
  <2>1. PICK price \in UpdatedPrices : strategy' = [strategy EXCEPT !.initial = price]
    BY <1>5 DEF UpdateGasPrice
  <2>2. price \in Nat \ {0} /\ strategy \in Strategy /\ strategy.up > strategy.down
    BY <1>1, <1>5, StrategyAssumption DEF GasInv
  <2>3. /\ strategy' \in Strategy /\ strategy'.up > strategy'.down /\ strategy'.kind = strategy.kind
    BY <2>1, <2>2 DEF Strategy
  <2>4. ~Rises(strategy') /\ strategy' # NoPrice
    BY <1>5, <2>3, StrategyAssumption DEF UpdateGasPrice, Rises
  <2> QED BY <1>1, <1>5, <2>3, <2>4 DEF GasInv, IsQuoted, UpdateGasPrice
<1>6. CASE SecondPasses
  <2>1. elapsed' = elapsed + 1 /\ UNCHANGED <<strategy, quoted, sent>>
    BY <1>6 DEF SecondPasses
  <2> QED BY <1>1, <2>1 DEF GasInv, Quote
<1>7. CASE UNCHANGED gasVars
  BY <1>1, <1>7 DEF GasInv, gasVars
<1> QED
  BY <1>1, <1>2, <1>3, <1>4, <1>5, <1>6, <1>7 DEF GasNext

(* A price that a rising strategy returns (gas.py:130, 169) is no less     *)
(* than the one before, and no more than the maximum: for any start,       *)
(* increase, coefficient and interval.                                     *)
THEOREM PricesNeverFall == GasSpec => QuotesRise
<1>1. GasInv /\ [GasNext]_gasVars =>
          [strategy # NoPrice /\ strategy.kind \in {"increasing", "geometric"}
                /\ quoted.price # NoPrice
             => /\ quoted'.price >= quoted.price
                /\ strategy.max # NoPrice => quoted'.price <= strategy.max]_gasVars
  <2>1. SUFFICES ASSUME GasInv, GasNext, Rises(strategy), strategy # NoPrice, quoted.price # NoPrice
                 PROVE  /\ quoted'.price >= quoted.price
                        /\ strategy.max # NoPrice => quoted'.price <= strategy.max
    BY DEF Rises
  <2>2. /\ strategy \in Strategy /\ strategy.up > strategy.down
        /\ quoted.at \in Nat /\ quoted.at <= elapsed /\ elapsed \in Nat
        /\ quoted.price = Capped(strategy, Uncapped(strategy, quoted.at))
    BY <2>1 DEF GasInv, Quote, IsQuoted
  <2>3. /\ Uncapped(strategy, quoted.at) \in Nat /\ Uncapped(strategy, elapsed) \in Nat
        /\ Uncapped(strategy, quoted.at) <= Uncapped(strategy, elapsed)
    BY <2>2, UncappedRises
  <2>4. /\ quoted.price \in Nat
        /\ quoted.price <= Capped(strategy, Uncapped(strategy, elapsed))
        /\ strategy.max # NoPrice => quoted.price <= strategy.max
        /\ strategy.max # NoPrice => Capped(strategy, Uncapped(strategy, elapsed)) <= strategy.max
    BY <2>2, <2>3, CappedRises
  <2>5. \/ quoted' = quoted
        \/ quoted'.price = Capped(strategy, Uncapped(strategy, elapsed))
    <3>1. CASE GetIncreasingPrice \/ GetGeometricPrice
      BY <3>1 DEF GetIncreasingPrice, GetGeometricPrice, IncreasingPrice, GeometricPrice, Bids, Uncapped
    <3>2. CASE MakeStrategy \/ UpdateGasPrice \/ SecondPasses
      BY <3>2 DEF MakeStrategy, UpdateGasPrice, SecondPasses
    <3>3. CASE GetDefaultPrice \/ GetNodePrice \/ GetFixedPrice
      BY <2>1, <3>3 DEF GetDefaultPrice, GetNodePrice, GetFixedPrice, Rises
    <3> QED BY <2>1, <3>1, <3>2, <3>3 DEF GasNext
  <2> QED BY <2>4, <2>5
<1> QED
  BY <1>1, GasStarts, GasStep, PTL DEF GasSpec, QuotesRise

(* The loop of transact_async, asked for bids, bids at least once in two   *)
(* intervals of a geometric strategy with the least coefficient that the   *)
(* docs name (gas.py:172), until the maximum: for any start from eight Wei *)
(* on, and any interval and higher coefficient.                            *)
THEOREM GeometricBidsFollow == GasSpec => []GeometricBidsAreSent
<1>1. GasInv => GeometricBidsAreSent
  <2>1. SUFFICES ASSUME GasInv, strategy # NoPrice, sent.price # NoPrice,
                        strategy.kind = "geometric", strategy.initial >= 8,
                        8 * strategy.up >= 9 * strategy.down, quoted.price # strategy.max,
                        ~(Intervals(strategy, quoted.at) < Intervals(strategy, sent.at) + 2)
                 PROVE  FALSE
    BY DEF GeometricBidsAreSent
  <2>2. Rises(strategy) /\ strategy \in Strategy /\ strategy.up > strategy.down
        /\ quoted.at \in Nat /\ sent.at \in Nat
    BY <2>1 DEF Rises, GasInv, Quote
  <2>3. /\ quoted.price # NoPrice /\ (quoted = sent \/ 8 * quoted.price <= 9 * sent.price)
        /\ quoted.price = Capped(strategy, Uncapped(strategy, quoted.at))
        /\ sent.price = Capped(strategy, Uncapped(strategy, sent.at))
    BY <2>1, <2>2 DEF GasInv, IsQuoted
  <2>4. PICK m \in Nat : m = Intervals(strategy, quoted.at)
    BY <2>2, IntervalsRise
  <2>5. PICK n \in Nat : n = Intervals(strategy, sent.at)
    BY <2>2, IntervalsRise
  <2>6. n + 2 <= m
    BY <2>1, <2>4, <2>5
  <2>7. 8 * Uncapped(strategy, quoted.at) > 9 * Uncapped(strategy, sent.at)
    BY <2>1, <2>2, <2>4, <2>5, <2>6, TwoIncreases
  <2>8. Uncapped(strategy, quoted.at) \in Nat /\ Uncapped(strategy, sent.at) \in Nat
    BY <2>2, UncappedRises
  <2>9. quoted.price = Uncapped(strategy, quoted.at)
    BY <2>1, <2>2, <2>3, <2>8, CappedRises
  <2>10. sent.price <= Uncapped(strategy, sent.at) /\ sent.price \in Nat
    BY <2>2, <2>3, <2>8, CappedRises
  <2>11. quoted # sent
    BY <2>4, <2>5, <2>6
  <2> QED BY <2>3, <2>7, <2>8, <2>9, <2>10, <2>11
<1> QED
  BY <1>1, GasStarts, GasStep, PTL DEF GasSpec

-----------------------------------------------------------------------------
(***************************************************************************)
(* Fixed-point numbers.                                                    *)
(***************************************************************************)

(* The powers of the base. *)
LEMMA TenToIs ==
    /\ TenTo(0) = 1 /\ TEN \in Nat \ {0, 1}
    /\ \A k \in Nat : TenTo(k) \in Nat \ {0} /\ TenTo(k + 1) = TEN * TenTo(k)
<1>1. TEN \in Nat \ {0, 1}
  BY FixedPointAssumption
<1> QED
  BY <1>1, PowersAre, PowersArePositive DEF TenTo

LEMMA TenToAdds == \A j, k \in Nat : TenTo(j + k) = TenTo(j) * TenTo(k)
  BY PowersAdd, FixedPointAssumption DEF TenTo

LEMMA TenToRises ==
    ASSUME NEW j \in Nat, NEW k \in Nat
    PROVE  /\ j <= k => TenTo(j) <= TenTo(k)
           /\ j < k => TEN * TenTo(j) <= TenTo(k)
<1>1. ASSUME NEW i \in Nat, i <= k PROVE TenTo(i) <= TenTo(k)
  <2>1. PICK d \in Nat : k = i + d
    BY <1>1
  <2>2. PICK x \in Nat \ {0} : x = TenTo(i)
    BY TenToIs
  <2>3. PICK y \in Nat \ {0} : y = TenTo(d)
    BY TenToIs
  <2>4. TenTo(k) = x * y
    BY <2>1, <2>2, <2>3, TenToAdds
  <2>5. x <= x * y
    OBVIOUS
  <2> QED BY <2>2, <2>4, <2>5
<1>2. ASSUME j < k PROVE TEN * TenTo(j) <= TenTo(k)
  <2>1. j + 1 \in Nat /\ j + 1 <= k
    BY <1>2
  <2> QED BY <1>1, <2>1, TenToIs
<1> QED
  BY <1>1, <1>2

(* Rounding half to even. *)
LEMMA HalfEvenIs ==
    ASSUME NEW n \in Nat, NEW d \in Nat \ {0}
    PROVE  HalfEven(n, d) \in Nat /\ 2 * (n - d * HalfEven(n, d)) <= d /\ 2 * (d * HalfEven(n, d) - n) <= d
<1>1. PICK q \in Nat : q = n \div d
  BY QuotientBounds
<1>2. PICK r \in Nat : r = n % d
  OBVIOUS
<1>3. n = d * q + r /\ r < d
  BY <1>1, <1>2
<1>4. HalfEven(n, d) = IF 2 * r > d \/ (2 * r = d /\ q % 2 = 1) THEN q + 1 ELSE q
  BY <1>1, <1>2 DEF HalfEven
<1>5. CASE HalfEven(n, d) = q + 1 /\ 2 * r >= d
  <2>1. d * (q + 1) = d * q + d
    OBVIOUS
  <2>2. PICK u \in Nat : u = d * q
    OBVIOUS
  <2> QED BY <1>3, <1>5, <2>1, <2>2
<1>6. CASE HalfEven(n, d) = q /\ 2 * r <= d
  <2>2. PICK u \in Nat : u = d * q
    OBVIOUS
  <2> QED BY <1>3, <1>6, <2>2
<1> QED
  BY <1>4, <1>5, <1>6

LEMMA HalfEvenExact ==
    ASSUME NEW n \in Nat, NEW d \in Nat \ {0}, NEW m \in Nat, n = d * m
    PROVE  HalfEven(n, d) = m
<1>1. PICK h \in Nat : h = HalfEven(n, d)
  BY HalfEvenIs
<1>2. 2 * (d * m - d * h) <= d /\ 2 * (d * h - d * m) <= d
  BY <1>1, HalfEvenIs
<1>3. ASSUME h + 1 <= m PROVE FALSE
  <2>1. d * (h + 1) <= d * m /\ d * (h + 1) = d * h + d
    BY <1>3
  <2> QED BY <1>2, <2>1
<1>4. ASSUME m + 1 <= h PROVE FALSE
  <2>1. d * (m + 1) <= d * h /\ d * (m + 1) = d * m + d
    BY <1>4
  <2> QED BY <1>2, <2>1
<1> QED
  BY <1>1, <1>3, <1>4

-----------------------------------------------------------------------------
(* The digits beyond those that are kept. *)

Digits(m, g) == g = [n \in 0 .. m |-> IF n < TenTo(PREC) THEN 0 ELSE g[n \div TEN] + 1]

LEMMA TenthIsLess ==
    ASSUME NEW n \in Nat, ~(n < TenTo(PREC))
    PROVE  n \div TEN \in Nat /\ n \div TEN < n
<1>1. PICK q \in Nat : q = n \div TEN
  BY TenToIs, QuotientBounds
<1>2. n > 0
  BY TenToIs, FixedPointAssumption
<1>3. TEN * q <= n
  BY <1>1, TenToIs, QuotientBounds
<1>4. q = 0 \/ q < TEN * q
  <2>1. PICK d \in Nat : TEN = d + 2
    <3>1. TEN - 2 \in Nat /\ TEN = (TEN - 2) + 2
      BY TenToIs
    <3> QED BY <3>1
  <2>2. TEN * q = d * q + 2 * q /\ d * q \in Nat
    BY <2>1
  <2>3. q = 0 \/ q < 2 * q
    OBVIOUS
  <2> QED BY <2>2, <2>3
<1>5. PICK a \in Nat : a = TEN * q
  BY TenToIs
<1>6. q < n
  BY <1>2, <1>3, <1>4, <1>5
<1> QED
  BY <1>1, <1>6

LEMMA DigitsAgree ==
    ASSUME NEW m \in Nat, NEW k \in Nat, NEW g, NEW h, Digits(m, g), Digits(k, h),
           NEW n \in Nat, n <= m, n <= k
    PROVE  g[n] = h[n]
<1> DEFINE S == {i \in Nat : i <= m /\ i <= k => g[i] = h[i]}
<1>1. ASSUME NEW i \in Nat, \A j \in Nat : j < i => j \in S
      PROVE  i \in S
  <2>1. SUFFICES ASSUME i <= m, i <= k PROVE g[i] = h[i]
    OBVIOUS
  <2>2. /\ g[i] = IF i < TenTo(PREC) THEN 0 ELSE g[i \div TEN] + 1
        /\ h[i] = IF i < TenTo(PREC) THEN 0 ELSE h[i \div TEN] + 1
    <3>1. i \in 0 .. m /\ i \in 0 .. k
      BY <2>1
    <3> QED BY <3>1 DEF Digits
  <2>3. CASE i < TenTo(PREC)
    BY <2>2, <2>3
  <2>4. CASE ~(i < TenTo(PREC))
    <3>1. PICK q : q = i \div TEN
      OBVIOUS
    <3>2. q \in Nat /\ q < i
      BY <2>4, <3>1, TenthIsLess
    <3>3. g[q] = h[q]
      BY <1>1, <2>1, <3>2
    <3> QED BY <2>2, <3>1, <3>3
  <2> QED BY <2>3, <2>4
<1> HIDE DEF S
<1>2. n \in S
  BY <1>1, StrongInduction
<1> QED
  BY <1>2 DEF S

LEMMA DigitsExist ==
    ASSUME NEW m \in Nat
    PROVE  \E g : Digits(m, g)
<1> DEFINE S == {i \in Nat : \E g : Digits(i, g)}
<1>1. 0 \in S
  <2>1. 0 < TenTo(PREC)
    BY TenToIs, FixedPointAssumption
  <2>2. Digits(0, [n \in 0 .. 0 |-> 0])
    BY <2>1 DEF Digits
  <2> QED BY <2>2
<1>2. ASSUME NEW i \in Nat, i \in S PROVE i + 1 \in S
  <2>1. PICK g : Digits(i, g)
    BY <1>2
  <2>2. PICK top : top = IF i + 1 < TenTo(PREC) THEN 0 ELSE g[(i + 1) \div TEN] + 1
    OBVIOUS
  <2>3. PICK h : h = [n \in 0 .. i + 1 |-> IF n = i + 1 THEN top ELSE g[n]]
    OBVIOUS
  <2>4. \A n \in 0 .. i : h[n] = g[n]
    BY <2>3
  <2>5. ASSUME NEW n \in 0 .. i + 1
        PROVE  h[n] = IF n < TenTo(PREC) THEN 0 ELSE h[n \div TEN] + 1
    <3>1. PICK q : q = n \div TEN
      OBVIOUS
    <3>2. ~(n < TenTo(PREC)) => q \in 0 .. i
      <4>1. SUFFICES ASSUME ~(n < TenTo(PREC)) PROVE q \in 0 .. i
        OBVIOUS
      <4>2. q \in Nat /\ q < n
        BY <3>1, <4>1, TenthIsLess
      <4> QED BY <4>2
    <3>3. CASE n = i + 1
      BY <2>2, <2>3, <2>4, <3>1, <3>2, <3>3
    <3>4. CASE n \in 0 .. i
      <4>1. g[n] = IF n < TenTo(PREC) THEN 0 ELSE g[q] + 1
        BY <2>1, <3>1, <3>4 DEF Digits
      <4> QED BY <2>4, <3>1, <3>2, <3>4, <4>1
    <3> QED BY <3>3, <3>4
  <2>6. Digits(i + 1, h)
    <3>1. h = [n \in 0 .. i + 1 |-> h[n]]
      BY <2>3
    <3>2. h = [n \in 0 .. i + 1 |-> IF n < TenTo(PREC) THEN 0 ELSE h[n \div TEN] + 1]
      BY <2>5, <3>1
    <3> QED BY <3>2 DEF Digits
  <2> QED BY <2>6
<1> HIDE DEF S
<1>3. m \in S
  BY <1>1, <1>2, SetInduction
<1> QED
  BY <1>3 DEF S

LEMMA ExcessIs ==
    \A n \in Nat : Excess[n] = IF n < TenTo(PREC) THEN 0 ELSE Excess[n \div TEN] + 1
<1>1. PICK f : f = [n \in Nat |-> (CHOOSE g : Digits(n, g))[n]]
  OBVIOUS
<1>2. ASSUME NEW n \in Nat PROVE f[n] = IF n < TenTo(PREC) THEN 0 ELSE f[n \div TEN] + 1
  <2>1. PICK g : g = CHOOSE h : Digits(n, h)
    OBVIOUS
  <2>2. Digits(n, g) /\ f[n] = g[n]
    BY <1>1, <2>1, DigitsExist
  <2>3. PICK q : q = n \div TEN
    OBVIOUS
  <2>4. g[n] = IF n < TenTo(PREC) THEN 0 ELSE g[q] + 1
    BY <2>2, <2>3 DEF Digits
  <2>5. ASSUME ~(n < TenTo(PREC)) PROVE g[q] = f[q]
    <3>1. q \in Nat /\ q < n
      BY <2>3, <2>5, TenthIsLess
    <3>2. PICK h : h = CHOOSE k : Digits(q, k)
      OBVIOUS
    <3>3. Digits(q, h) /\ f[q] = h[q]
      BY <1>1, <3>1, <3>2, DigitsExist
    <3> QED BY <2>2, <3>1, <3>3, DigitsAgree
  <2> QED BY <2>2, <2>3, <2>4, <2>5
<1>3. f = [n \in Nat |-> IF n < TenTo(PREC) THEN 0 ELSE f[n \div TEN] + 1]
  BY <1>1, <1>2
<1>4. Excess = [n \in Nat |-> IF n < TenTo(PREC) THEN 0 ELSE Excess[n \div TEN] + 1]
  BY <1>3 DEF Excess
<1> QED
  BY <1>4

(* A number has PREC digits and those in excess.                           *)
LEMMA ExcessBounds ==
    ASSUME NEW n \in Nat
    PROVE  /\ Excess[n] \in Nat /\ n < TenTo(PREC + Excess[n])
           /\ Excess[n] # 0 => n >= TenTo(PREC + Excess[n] - 1)
           /\ n < TenTo(PREC) => Excess[n] = 0
<1> DEFINE Fits(i, e) == /\ e \in Nat /\ i < TenTo(PREC + e)
                         /\ e # 0 => i >= TenTo(PREC + e - 1)
           S == {i \in Nat : Fits(i, Excess[i])}
<1>1. ASSUME NEW i \in Nat, \A j \in Nat : j < i => j \in S
      PROVE  i \in S
  <2>1. CASE i < TenTo(PREC)
    <3>1. Excess[i] = 0 /\ PREC + 0 = PREC
      BY <2>1, ExcessIs, FixedPointAssumption
    <3> QED BY <2>1, <3>1
  <2>2. CASE ~(i < TenTo(PREC))
    <3>1. PICK q : q = i \div TEN
      OBVIOUS
    <3>2. q \in Nat /\ q < i
      BY <2>2, <3>1, TenthIsLess
    <3>3. PICK e : e = Excess[q]
      OBVIOUS
    <3>4. Fits(q, e)
      BY <1>1, <3>2, <3>3
    <3>5. Excess[i] = e + 1
      BY <2>2, <3>1, <3>3, ExcessIs
    <3>6. TEN * q <= i /\ i < TEN * q + TEN
      BY <3>1, TenToIs, QuotientBounds
    <3>7. PICK t \in Nat : t = TenTo(PREC + e)
      BY <3>4, TenToIs, FixedPointAssumption
    <3>8. TenTo(PREC + (e + 1)) = TEN * t
      <4>1. PREC + e \in Nat /\ PREC + (e + 1) = (PREC + e) + 1
        BY <3>4, FixedPointAssumption
      <4> QED BY <3>7, <4>1, TenToIs
    <3>9. i < TEN * t
      <4>1. q + 1 <= t
        BY <3>2, <3>4, <3>7
      <4>2. TEN * (q + 1) <= TEN * t /\ TEN * (q + 1) = TEN * q + TEN
        BY <3>2, <4>1, TenToIs
      <4>3. TEN * q \in Nat /\ TEN * t \in Nat
        BY <3>2, TenToIs
      <4> QED BY <3>6, <4>2, <4>3, TenToIs
    <3>10. i >= t
      <4>1. CASE e = 0
        BY <2>2, <3>7, <4>1, TenToIs, FixedPointAssumption
      <4>2. CASE e # 0
        <5>1. PICK u \in Nat : u = TenTo(PREC + e - 1)
          BY <3>4, <4>2, TenToIs, FixedPointAssumption
        <5>2. t = TEN * u
          <6>1. PREC + e - 1 \in Nat /\ PREC + e = (PREC + e - 1) + 1
            BY <3>4, <4>2, FixedPointAssumption
          <6> QED BY <3>7, <5>1, <6>1, TenToIs
        <5>3. u <= q
          BY <3>4, <4>2, <5>1
        <5>4. TEN * u <= TEN * q
          BY <3>2, <5>3, TenToIs
        <5>5. PICK a \in Nat : a = TEN * q
          BY <3>2, TenToIs
        <5>6. t <= a /\ a <= i
          BY <3>6, <5>2, <5>4, <5>5
        <5> QED BY <5>6
      <4> QED BY <4>1, <4>2
    <3>11. PREC + (e + 1) - 1 = PREC + e
      BY <3>4, FixedPointAssumption
    <3>12. Fits(i, e + 1)
      BY <3>4, <3>7, <3>8, <3>9, <3>10, <3>11
    <3> QED BY <3>5, <3>12
  <2> QED BY <2>1, <2>2
<1> HIDE DEF S
<1>2. n \in S
  BY <1>1, StrongInduction
<1> QED
  BY <1>2, ExcessIs DEF S

(* The bounds determine the excess. *)
LEMMA ExcessRises ==
    ASSUME NEW n \in Nat, NEW m \in Nat, n <= m
    PROVE  Excess[n] <= Excess[m]
<1>1. PICK e \in Nat : e = Excess[n]
  BY ExcessBounds
<1>2. PICK f \in Nat : f = Excess[m]
  BY ExcessBounds
<1>3. SUFFICES ASSUME f < e PROVE FALSE
  BY <1>1, <1>2
<1>4. n >= TenTo(PREC + e - 1) /\ m < TenTo(PREC + f)
  BY <1>1, <1>2, <1>3, ExcessBounds
<1>5. TenTo(PREC + f) <= TenTo(PREC + e - 1)
  <2>1. PREC + f \in Nat /\ PREC + e - 1 \in Nat /\ PREC + f <= PREC + e - 1
    BY <1>3, FixedPointAssumption
  <2> QED BY <2>1, TenToRises
<1>6. PICK a \in Nat : a = TenTo(PREC + f)
  BY TenToIs, FixedPointAssumption
<1>7. PICK b \in Nat : b = TenTo(PREC + e - 1)
  <2>1. PREC + e - 1 \in Nat
    BY <1>3, FixedPointAssumption
  <2> QED BY <2>1, TenToIs
<1> QED
  BY <1>4, <1>5, <1>6, <1>7

LEMMA ExcessOfMore ==
    ASSUME NEW n \in Nat, NEW k \in Nat
    PROVE  /\ Excess[n * TenTo(k)] <= Excess[n] + k
           /\ Excess[n] # 0 => Excess[n * TenTo(k)] = Excess[n] + k
<1>1. PICK e \in Nat : e = Excess[n]
  BY ExcessBounds
<1>2. PICK t \in Nat \ {0} : t = TenTo(k)
  BY TenToIs
<1>3. PICK m \in Nat : m = n * t
  OBVIOUS
<1>4. PICK f \in Nat : f = Excess[m]
  BY ExcessBounds
<1>5. m < TenTo(PREC + (e + k))
  <2>1. PICK a \in Nat : a = TenTo(PREC + e)
    BY TenToIs, FixedPointAssumption
  <2>2. TenTo(PREC + (e + k)) = a * t
    <3>1. PREC + e \in Nat /\ PREC + (e + k) = (PREC + e) + k
      BY FixedPointAssumption
    <3> QED BY <1>2, <2>1, <3>1, TenToAdds
  <2>3. n < a
    BY <1>1, <2>1, ExcessBounds
  <2>4. n * t < a * t
    BY <2>3, TimesLess
  <2> QED BY <1>3, <2>2, <2>4
<1>6. f <= e + k
  <2>1. SUFFICES ASSUME e + k < f PROVE FALSE
    OBVIOUS
  <2>2. PREC + (e + k) \in Nat /\ PREC + f - 1 \in Nat /\ PREC + (e + k) <= PREC + f - 1
    BY <2>1, FixedPointAssumption
  <2>3. PICK a \in Nat : a = TenTo(PREC + (e + k))
    BY <2>2, TenToIs
  <2>4. PICK b \in Nat : b = TenTo(PREC + f - 1)
    BY <2>2, TenToIs
  <2>5. a <= b
    BY <2>2, <2>3, <2>4, TenToRises
  <2>6. m >= b
    BY <1>4, <2>1, <2>4, ExcessBounds
  <2> QED BY <1>5, <2>3, <2>5, <2>6
<1>7. ASSUME e # 0 PROVE f = e + k
  <2>1. SUFFICES ASSUME f < e + k PROVE FALSE
    BY <1>6
  <2>2. PREC + e - 1 \in Nat /\ PREC + f \in Nat /\ PREC + f <= (PREC + e - 1) + k
    BY <1>7, <2>1, FixedPointAssumption
  <2>3. PICK a \in Nat : a = TenTo(PREC + e - 1)
    BY <2>2, TenToIs
  <2>4. PICK b \in Nat : b = TenTo(PREC + f)
    BY <2>2, TenToIs
  <2>5. b <= a * t
    <3>1. TenTo((PREC + e - 1) + k) = a * t
      BY <1>2, <2>2, <2>3, TenToAdds
    <3>2. TenTo(PREC + f) <= TenTo((PREC + e - 1) + k)
      BY <2>2, TenToRises
    <3> QED BY <2>4, <3>1, <3>2
  <2>6. a <= n
    BY <1>1, <1>7, <2>3, ExcessBounds
  <2>7. a * t <= m
    BY <1>3, <2>6, TimesLess
  <2>8. m < b
    BY <1>4, <2>4, ExcessBounds
  <2>9. a * t \in Nat
    OBVIOUS
  <2> QED BY <2>5, <2>7, <2>8, <2>9
<1> QED
  BY <1>1, <1>2, <1>3, <1>4, <1>6, <1>7

-----------------------------------------------------------------------------
(* What Decimal keeps of a number. *)

Lost(n) == TenTo(Excess[n])

LEMMA LostIs ==
    ASSUME NEW n \in Nat
    PROVE  Lost(n) \in Nat \ {0} /\ (n < TenTo(PREC) => Lost(n) = 1)
  BY ExcessBounds, TenToIs DEF Lost

LEMMA KeptIs ==
    ASSUME NEW n \in Nat
    PROVE  /\ Kept[n] \in Nat
           /\ 2 * (n - Kept[n]) <= Lost(n) /\ 2 * (Kept[n] - n) <= Lost(n)
           /\ \E h \in Nat : h <= TenTo(PREC) /\ Kept[n] = Lost(n) * h
           /\ \A m \in Nat : n = Lost(n) * m => Kept[n] = n
           /\ n # 0 => Kept[-n] = -Kept[n]
<1>1. PICK l \in Nat \ {0} : l = Lost(n)
  BY LostIs
<1>2. PICK h \in Nat : h = HalfEven(n, l)
  BY HalfEvenIs
<1>3. Kept[n] = l * h
  <2>1. AbsValue(n) = n /\ Sign(n) = 1 /\ n \in Int
    BY DEF AbsValue, Sign
  <2> QED BY <1>1, <1>2, <2>1 DEF Kept, Lost
<1>4. n # 0 => Kept[-n] = -(l * h)
  <2>1. SUFFICES ASSUME n # 0 PROVE Kept[-n] = -(l * h)
    OBVIOUS
  <2>2. AbsValue(-n) = n /\ Sign(-n) = -1 /\ -n \in Int
    BY <2>1 DEF AbsValue, Sign
  <2>3. Kept[-n] = (-1) * l * h
    BY <1>1, <1>2, <2>2 DEF Kept, Lost
  <2> QED BY <2>3
<1>5. 2 * (n - l * h) <= l /\ 2 * (l * h - n) <= l /\ l * h \in Nat
  <2>1. 2 * (n - l * HalfEven(n, l)) <= l /\ 2 * (l * HalfEven(n, l) - n) <= l
    BY HalfEvenIs
  <2>2. l * h \in Nat
    OBVIOUS
  <2> QED BY <1>2, <2>1, <2>2
<1>6. ASSUME NEW m \in Nat, n = l * m PROVE l * h = n
  BY <1>2, <1>6, HalfEvenExact
<1>7. h <= TenTo(PREC)
  <2>1. PICK p \in Nat : p = TenTo(PREC)
    BY TenToIs, FixedPointAssumption
  <2>2. n < p * l
    <3>1. PICK e \in Nat : e = Excess[n]
      BY ExcessBounds
    <3>2. TenTo(PREC + e) = p * l
      BY <1>1, <2>1, <3>1, TenToAdds, FixedPointAssumption DEF Lost
    <3> QED BY <3>1, <3>2, ExcessBounds
  <2>3. SUFFICES ASSUME p + 1 <= h PROVE FALSE
    BY <2>1
  <2>4. (p + 1) * l <= h * l
    BY <2>3, TimesLess
  <2>5. PICK u \in Nat : u = p * l
    OBVIOUS
  <2>6. PICK v \in Nat : v = l * h
    OBVIOUS
  <2>7. u + l <= v
    BY <2>4, <2>5, <2>6
  <2>8. 2 * (v - n) <= l
    BY <1>5, <2>6
  <2> QED BY <2>2, <2>5, <2>7, <2>8
<1> QED
  BY <1>1, <1>3, <1>4, <1>5, <1>6, <1>7

(* Of a number of up to PREC digits that is shifted all is kept. *)
LEMMA KeptShifted ==
    ASSUME NEW n \in Nat, NEW k \in Nat, n < TenTo(PREC)
    PROVE  Kept[n * TenTo(k)] = n * TenTo(k)
<1>1. PICK t \in Nat \ {0} : t = TenTo(k)
  BY TenToIs
<1>2. PICK e \in Nat : e = Excess[n * t]
  BY ExcessBounds
<1>3. e <= k
  <2>1. Excess[n] = 0
    BY ExcessBounds
  <2> QED BY <1>1, <1>2, <2>1, ExcessOfMore
<1>4. PICK d \in Nat : k = e + d
  BY <1>3
<1>5. PICK x \in Nat : x = TenTo(d)
  BY TenToIs
<1>6. PICK y \in Nat : y = TenTo(e)
  BY TenToIs
<1>7. n * t = y * (n * x)
  <2>1. t = y * x
    BY <1>1, <1>4, <1>5, <1>6, TenToAdds
  <2> QED BY <2>1
<1>8. Lost(n * t) = y
  BY <1>2, <1>6 DEF Lost
<1>9. n * t \in Nat /\ n * x \in Nat
  OBVIOUS
<1> QED
  BY <1>1, <1>7, <1>8, <1>9, KeptIs

(* Cutting towards zero. *)
LEMMA TruncatedIs ==
    ASSUME NEW n \in Nat, NEW d \in Nat \ {0}
    PROVE  /\ Truncated(n, d) \in Nat
           /\ d * Truncated(n, d) <= n /\ n < d * Truncated(n, d) + d
           /\ n # 0 => Truncated(-n, d) = -Truncated(n, d)
<1>1. PICK q \in Nat : q = n \div d
  BY QuotientBounds
<1>2. d * q <= n /\ n < d * q + d
  BY <1>1, QuotientBounds
<1>3. Truncated(n, d) = q
  <2>1. AbsValue(n) = n /\ Sign(n) = 1
    BY DEF AbsValue, Sign
  <2> QED BY <1>1, <2>1 DEF Truncated
<1>4. n # 0 => Truncated(-n, d) = -q
  <2>1. SUFFICES ASSUME n # 0 PROVE Truncated(-n, d) = -q
    OBVIOUS
  <2>2. AbsValue(-n) = n /\ Sign(-n) = -1
    BY <2>1 DEF AbsValue, Sign
  <2> QED BY <1>1, <2>2 DEF Truncated
<1> QED
  BY <1>2, <1>3, <1>4

(* The product of two numbers, when it is not negative. *)
LEMMA ProductIs ==
    ASSUME NEW n \in Nat, NEW one \in Nat \ {0}
    PROVE  /\ Truncated(Kept[n], one) \in Nat
           /\ 2 * (n - one * Truncated(Kept[n], one)) < 2 * one + Lost(n)
           /\ 2 * (one * Truncated(Kept[n], one) - n) <= Lost(n)
           /\ n # 0 => Truncated(Kept[-n], one) = -Truncated(Kept[n], one)
           /\ Kept[n] = n => /\ one * Truncated(Kept[n], one) <= n
                             /\ n < one * (Truncated(Kept[n], one) + 1)
<1>1. PICK k \in Nat : k = Kept[n]
  BY KeptIs
<1>2. PICK r \in Nat : r = Truncated(k, one)
  BY TruncatedIs
<1>3. PICK l \in Nat \ {0} : l = Lost(n)
  BY LostIs
<1>4. 2 * (n - k) <= l /\ 2 * (k - n) <= l
  BY <1>1, <1>3, KeptIs
<1>5. PICK u \in Nat : u = one * r
  OBVIOUS
<1>6. u <= k /\ k < u + one
  BY <1>2, <1>5, TruncatedIs
<1>7. 2 * (n - u) < 2 * one + l /\ 2 * (u - n) <= l
  BY <1>4, <1>6
<1>8. ASSUME n # 0 PROVE Truncated(Kept[-n], one) = -r
  <2>1. Kept[-n] = -k
    BY <1>1, <1>8, KeptIs
  <2>2. CASE k # 0
    BY <1>2, <2>1, <2>2, TruncatedIs
  <2>3. CASE k = 0
    <3>1. r = 0
      <4>1. one * r >= r
        OBVIOUS
      <4> QED BY <1>5, <1>6, <2>3, <4>1
    <3> QED BY <1>2, <2>1, <2>3, <3>1
  <2> QED BY <2>2, <2>3
<1>9. one * (r + 1) = u + one
  BY <1>5
<1> QED
  BY <1>1, <1>2, <1>3, <1>5, <1>6, <1>7, <1>8, <1>9

-----------------------------------------------------------------------------
(* Quotients. *)

LEMMA PlacesExist ==
    ASSUME NEW q \in Nat, q < TenTo(PREC)
    PROVE  Places[q] \in Nat
<1> DEFINE Holds(k) == q < TenTo(PREC - k) /\ (k = PREC \/ q >= TenTo(PREC - k - 1))
           S == {j \in Nat : j <= PREC /\ q < TenTo(j)}
<1>1. PREC \in S
  BY FixedPointAssumption
<1>2. PICK j \in S : \A i \in S : j <= i
  <2>1. S \subseteq Nat
    OBVIOUS
  <2> HIDE DEF S
  <2> QED BY <1>1, <2>1, LeastOf
<1>3. PICK k \in 0 .. PREC : k = PREC - j
  BY <1>2, FixedPointAssumption
<1>4. PREC - k = j /\ j \in Nat
  BY <1>2, <1>3, FixedPointAssumption
<1>5. k = PREC \/ q >= TenTo(PREC - k - 1)
  <2>1. SUFFICES ASSUME j # 0 PROVE q >= TenTo(j - 1)
    BY <1>3, <1>4, FixedPointAssumption
  <2>2. j - 1 \in Nat /\ j - 1 <= PREC /\ ~(j <= j - 1)
    BY <1>2, <2>1, FixedPointAssumption
  <2>3. j - 1 \notin S
    BY <1>2, <2>2
  <2>4. TenTo(j - 1) \in Nat
    BY <2>2, TenToIs
  <2> QED BY <2>2, <2>3, <2>4
<1>6. Holds(k)
  BY <1>2, <1>4, <1>5
<1>7. Places[q] = CHOOSE i \in 0 .. PREC : Holds(i)
  BY DEF Places
<1> HIDE DEF Holds
<1>8. Places[q] \in 0 .. PREC
  BY <1>6, <1>7
<1> QED
  BY <1>8, FixedPointAssumption

(* A quotient of no more than PREC digits is off by less than a unit.      *)
LEMMA QuotientIs ==
    ASSUME NEW n \in Nat, NEW d \in Nat \ {0}, n < TenTo(PREC) * d
    PROVE  /\ SignificantQuotient(n, d) \in Nat
           /\ n - d * SignificantQuotient(n, d) < d /\ d * SignificantQuotient(n, d) - n < d
<1>1. PICK q \in Nat : q = n \div d
  BY QuotientBounds
<1>2. PICK r \in Nat : r = n % d
  OBVIOUS
<1>3. n = d * q + r /\ r < d
  BY <1>1, <1>2
<1>4. PICK p \in Nat \ {0} : p = TenTo(PREC)
  BY TenToIs, FixedPointAssumption
<1>5. q < p
  <2>1. SUFFICES ASSUME p <= q PROVE FALSE
    BY <1>4
  <2>2. p * d <= q * d
    BY <2>1, TimesLess
  <2>3. PICK u \in Nat : u = q * d
    OBVIOUS
  <2>4. PICK v \in Nat : v = p * d
    OBVIOUS
  <2> QED BY <1>3, <1>4, <2>2, <2>3, <2>4
<1>6. TenTo(Excess[q]) = 1
  BY <1>4, <1>5, LostIs DEF Lost
<1>7. PICK t \in Nat \ {0} : t = TenTo(Places[q])
  BY <1>4, <1>5, PlacesExist, TenToIs
<1>8. PICK s : s = SignificantQuotient(n, d)
  OBVIOUS
<1>9. s = IF q >= TenTo(PREC - 1) THEN 1 * HalfEven(n, d * 1)
          ELSE IF 2 * t * (d - r) <= d THEN q + 1 ELSE q
  BY <1>1, <1>2, <1>6, <1>7, <1>8 DEF SignificantQuotient
<1>10. CASE q >= TenTo(PREC - 1)
  <2>1. PICK h \in Nat : h = HalfEven(n, d)
    BY HalfEvenIs
  <2>2. 2 * (n - d * HalfEven(n, d)) <= d /\ 2 * (d * HalfEven(n, d) - n) <= d
    BY HalfEvenIs
  <2>3. PICK u \in Nat : u = d * h
    OBVIOUS
  <2>4. 2 * (n - u) <= d /\ 2 * (u - n) <= d
    BY <2>1, <2>2, <2>3
  <2>5. n - u < d /\ u - n < d
    BY <2>4
  <2>6. s = h
    BY <1>9, <1>10, <2>1
  <2> QED BY <1>8, <2>3, <2>5, <2>6
<1>11. CASE ~(q >= TenTo(PREC - 1))
  <2>1. PICK u \in Nat : u = d * q
    OBVIOUS
  <2>2. CASE s = q
    BY <1>3, <1>8, <2>1, <2>2
  <2>3. CASE s = q + 1 /\ 2 * t * (d - r) <= d
    <3>1. PICK e \in Nat : e = d - r
      BY <1>3
    <3>2. e < d
      <4>1. t * e >= e
        OBVIOUS
      <4>2. 2 * (t * e) <= d
        BY <2>3, <3>1
      <4>3. PICK f \in Nat : f = t * e
        OBVIOUS
      <4> QED BY <4>1, <4>2, <4>3
    <3>3. d * (q + 1) = u + d
      BY <2>1
    <3>4. d * s = n + e
      BY <1>3, <2>1, <2>3, <3>1, <3>3
    <3> QED BY <1>8, <2>3, <3>2, <3>4
  <2> QED BY <1>9, <1>11, <2>2, <2>3
<1> QED
  BY <1>10, <1>11

-----------------------------------------------------------------------------
(* The calculator. *)

LEMMA UnitsAre ==
    /\ WAD \in Nat \ {0} /\ RAY \in Nat \ {0} /\ RAD \in Nat \ {0}
    /\ \A type \in UnitType : One[type] \in Nat \ {0}
  BY TenToIs DEF WAD, RAY, RAD, One, UnitType

LEMMA SizeIs ==
    ASSUME NEW x \in Int
    PROVE  AbsValue(x) \in Nat /\ (x = AbsValue(x) \/ x = -AbsValue(x)) /\ (x >= 0 <=> x = AbsValue(x))
  BY DEF AbsValue

LEMMA SizeOfProduct ==
    ASSUME NEW x \in Int, NEW o \in Nat
    PROVE  AbsValue(x * o) = AbsValue(x) * o
<1>1. CASE x >= 0
  <2>1. x * o \in Nat
    BY <1>1
  <2> QED BY <1>1, <2>1 DEF AbsValue
<1>2. CASE x < 0
  <2>1. PICK z \in Nat : x = -z
    <3>1. -x \in Nat /\ x = -(-x)
      BY <1>2
    <3> QED BY <3>1
  <2>2. x * o = -(z * o) /\ z * o \in Nat
    BY <2>1
  <2>3. PICK u \in Nat : u = z * o
    OBVIOUS
  <2>4. AbsValue(x) = z
    BY <1>2, <2>1 DEF AbsValue
  <2>5. AbsValue(-u) = u
    BY DEF AbsValue
  <2> QED BY <2>2, <2>3, <2>4, <2>5
<1> QED
  BY <1>1, <1>2

(* The conditions on a product and on a quotient. *)
ProductClose(exact, one, result) ==
    /\ 2 * AbsValue(exact - result * one) < 2 * one + Lost(AbsValue(exact))
    /\ AbsValue(exact) < TenTo(PREC) =>
           /\ AbsValue(result) * one <= AbsValue(exact)
           /\ AbsValue(exact) < (AbsValue(result) + 1) * one
           /\ result # 0 => Sign(result) = Sign(exact)

LEMMA ProductIsClose ==
    ASSUME NEW exact \in Int, NEW one \in Nat \ {0}, NEW result,
           result = Truncated(Significant(exact), one)
    PROVE  ProductClose(exact, one, result)
<1>1. PICK n \in Nat : n = AbsValue(exact)
  BY SizeIs
<1>2. PICK r \in Nat : r = Truncated(Kept[n], one)
  BY ProductIs
<1>3. PICK l \in Nat \ {0} : l = Lost(n)
  BY LostIs
<1>4. PICK u \in Nat : u = r * one
  OBVIOUS
<1>5. 2 * (n - u) < 2 * one + l /\ 2 * (u - n) <= l
  <2>1. one * r = u
    BY <1>4
  <2> QED BY <1>2, <1>3, <2>1, ProductIs
<1>6. n < TenTo(PREC) => u <= n /\ n < u + one
  <2>1. SUFFICES ASSUME n < TenTo(PREC) PROVE u <= n /\ n < u + one
    OBVIOUS
  <2>2. Kept[n] = n
    <3>1. n = 1 * n
      OBVIOUS
    <3> QED BY <2>1, <3>1, LostIs, KeptIs
  <2>3. one * r = u /\ one * (r + 1) = u + one
    BY <1>4
  <2> QED BY <1>2, <2>2, <2>3, ProductIs
<1>7. (r + 1) * one = u + one
  BY <1>4
<1>8. CASE exact = n
  <2>1. result = r
    BY <1>2, <1>8 DEF Significant
  <2>2. AbsValue(r) = r
    BY DEF AbsValue
  <2>3. 2 * AbsValue(n - u) < 2 * one + l
    BY <1>5 DEF AbsValue
  <2>4. r # 0 => Sign(r) = Sign(n)
    BY DEF Sign
  <2> QED BY <1>1, <1>3, <1>4, <1>6, <1>7, <1>8, <2>1, <2>2, <2>3, <2>4 DEF ProductClose
<1>9. CASE exact = -n /\ n # 0
  <2>1. result = -r
    BY <1>2, <1>9, ProductIs DEF Significant
  <2>2. AbsValue(-r) = r
    BY DEF AbsValue
  <2>3. (-r) * one = -u
    BY <1>4
  <2>4. 2 * AbsValue((-n) - (-u)) < 2 * one + l
    BY <1>5 DEF AbsValue
  <2>5. -r # 0 => Sign(-r) = Sign(-n)
    BY <1>9 DEF Sign
  <2> QED BY <1>1, <1>3, <1>6, <1>7, <1>4, <1>9, <2>1, <2>2, <2>3, <2>4, <2>5 DEF ProductClose
<1> QED
  BY <1>1, <1>8, <1>9, SizeIs

LEMMA QuotientIsClose ==
    ASSUME NEW x \in Int, NEW y \in Int \ {0}, NEW one \in Nat \ {0},
           AbsValue(x * one) < TenTo(PREC)
    PROVE  AbsValue(AbsValue(Quotient(x, y, one) * y) - AbsValue(x * one)) < AbsValue(y)
<1>1. PICK n \in Nat : n = AbsValue(x) * one
  BY SizeIs
<1>2. AbsValue(x * one) = n
  BY <1>1, SizeOfProduct
<1>3. PICK d \in Nat \ {0} : d = AbsValue(y)
  BY SizeIs
<1>4. Significant(n) = n
  <2>1. n = 1 * n
    OBVIOUS
  <2> QED BY <1>2, <2>1, LostIs, KeptIs DEF Significant
<1>5. n < TenTo(PREC) * d
  <2>1. PICK p \in Nat : p = TenTo(PREC)
    BY TenToIs, FixedPointAssumption
  <2>2. p <= p * d
    OBVIOUS
  <2>3. p * d \in Nat
    OBVIOUS
  <2> QED BY <1>2, <2>1, <2>2, <2>3
<1>6. PICK s \in Nat : s = SignificantQuotient(n, d)
  BY <1>5, QuotientIs
<1>7. PICK u \in Nat : u = d * s
  OBVIOUS
<1>8. n - u < d /\ u - n < d
  BY <1>5, <1>6, <1>7, QuotientIs
<1>9. Quotient(x, y, one) = Sign(x) * Sign(y) * s
  BY <1>1, <1>3, <1>4, <1>6 DEF Quotient
<1>10. Sign(x) * Sign(y) * s = s \/ Sign(x) * Sign(y) * s = -s
  BY DEF Sign
<1>11. s * y = u \/ s * y = -u
  <2>1. y = d \/ y = -d
    BY <1>3, SizeIs
  <2> QED BY <1>7, <2>1
<1>12. (-s) * y = -(s * y)
  OBVIOUS
<1>13. Quotient(x, y, one) * y = u \/ Quotient(x, y, one) * y = -u
  BY <1>9, <1>10, <1>11, <1>12
<1>14. AbsValue(u) = u /\ AbsValue(-u) = u
  BY DEF AbsValue
<1>15. AbsValue(u - n) < d
  BY <1>8 DEF AbsValue
<1> QED
  BY <1>2, <1>3, <1>13, <1>14, <1>15

(* Of any two numbers, in any base and precision, the product is off by no *)
(* more than one unit and half of the last digit kept, exact if all digits *)
(* are kept, and the quotient by less than a unit (numeric.py:98, 112).    *)
THEOREM ErrorsAreBounded == NumbersSpec => []ErrorIsBounded
<1>1. NumbersInit => ErrorIsBounded
  BY DEF NumbersInit, ErrorIsBounded
<1>2. ErrorIsBounded /\ [NumbersNext]_calculated => ErrorIsBounded'
  <2>1. SUFFICES ASSUME ErrorIsBounded, [NumbersNext]_calculated PROVE ErrorIsBounded'
    OBVIOUS
  <2>2. CASE UNCHANGED calculated
    BY <2>1, <2>2 DEF ErrorIsBounded
  <2>3. CASE NumbersNext
    <3>1. PICK x \in Number, y \in Number, type \in UnitType, other \in UnitType :
              \/ Add(type, x, y) \/ Subtract(type, x, y) \/ Modulo(type, x, y)
              \/ Multiply(type, other, x, y) \/ Divide(type, x, y)
              \/ ToWad(other, x) \/ ToRay(other, x) \/ ToRad(other, x)
      BY <2>3 DEF NumbersNext
    <3>2. x \in Int /\ y \in Int
      BY NumberAssumption
    <3>3. CASE Multiply(type, other, x, y)
      <4>1. PICK result : result = Truncated(Significant(x * y), One[other])
        OBVIOUS
      <4>2. calculated' = [op |-> "mul", type |-> type, other |-> other, x |-> x, y |-> y,
                           result |-> result]
        BY <3>3, <4>1 DEF Multiply, Calculates, WadMul, RayMul, RadMul, Product, UnitType, One
      <4>3. ProductClose(x * y, One[other], result)
        BY <3>2, <4>1, UnitsAre, ProductIsClose
      <4> QED BY <4>2, <4>3 DEF ErrorIsBounded, ProductClose, Lost
    <3>4. CASE Divide(type, x, y)
      <4>1. PICK result : result = Quotient(x, y, One[type])
        OBVIOUS
      <4>2. y # 0 /\ calculated' = [op |-> "div", type |-> type, other |-> type, x |-> x, y |-> y,
                                    result |-> result]
        BY <3>4, <4>1 DEF Divide, Calculates, WadDiv, RayDiv, RadDiv, UnitType, One
      <4>3. AbsValue(x * One[type]) < TenTo(PREC) =>
                AbsValue(AbsValue(result * y) - AbsValue(x * One[type])) < AbsValue(y)
        BY <3>2, <4>1, <4>2, UnitsAre, QuotientIsClose
      <4> QED BY <4>2, <4>3 DEF ErrorIsBounded
    <3>5. CASE \/ Add(type, x, y) \/ Subtract(type, x, y) \/ Modulo(type, x, y)
               \/ ToWad(other, x) \/ ToRay(other, x) \/ ToRad(other, x)
      <4>1. calculated'.op \notin {"mul", "div"}
        BY <3>5 DEF Add, Subtract, Modulo, ToWad, ToRay, ToRad, Calculates
      <4> QED BY <4>1 DEF ErrorIsBounded
    <3> QED BY <3>1, <3>3, <3>4, <3>5
  <2> QED BY <2>1, <2>2, <2>3
<1> QED
  BY <1>1, <1>2, PTL DEF NumbersSpec

-----------------------------------------------------------------------------
(***************************************************************************)
(* Savings and debts.                                                      *)
(***************************************************************************)

(* The quotient of a product. *)
LEMMA DividesOut ==
    ASSUME NEW a \in Nat, NEW b \in Nat \ {0}
    PROVE  (a * b) \div b = a
<1>1. PICK n \in Nat : n = b * a
  OBVIOUS
<1>2. a * b = n
  BY <1>1
<1>3. PICK q \in Nat : q = n \div b
  BY QuotientBounds
<1>4. b * q <= b * a /\ b * a < b * q + b
  BY <1>1, <1>3, QuotientBounds
<1>5. ASSUME q + 1 <= a PROVE FALSE
  <2>1. b * (q + 1) <= b * a /\ b * (q + 1) = b * q + b
    BY <1>5
  <2> QED BY <1>4, <2>1
<1>6. ASSUME a + 1 <= q PROVE FALSE
  <2>1. b * (a + 1) <= b * q /\ b * (a + 1) = b * a + b
    BY <1>6
  <2>2. PICK u \in Nat : u = b * a
    OBVIOUS
  <2>3. PICK v \in Nat : v = b * q
    OBVIOUS
  <2> QED BY <1>4, <2>1, <2>2, <2>3
<1> QED
  BY <1>2, <1>3, <1>5, <1>6

LEMMA TruncatedExact ==
    ASSUME NEW a \in Nat, NEW b \in Nat \ {0}
    PROVE  Truncated(a * b, b) = a
<1>1. PICK n \in Nat : n = a * b
  OBVIOUS
<1>2. AbsValue(n) = n /\ Sign(n) = 1
  BY DEF AbsValue, Sign
<1>3. n \div b = a
  BY <1>1, DividesOut
<1> QED
  BY <1>1, <1>2, <1>3 DEF Truncated

(* The places that one type has and another has not. *)
LEMMA ShiftsAre ==
    /\ RAD \div WAD = TenTo(3) /\ RAD \div RAY = TenTo(2)
    /\ TenTo(3) \in Nat \ {0} /\ TenTo(2) \in Nat \ {0} /\ TenTo(5) = TenTo(3) * TenTo(2)
<1>1. TenTo(3) \in Nat \ {0} /\ TenTo(2) \in Nat \ {0}
  BY TenToIs
<1>2. TenTo(3 + 2) = TenTo(3) * TenTo(2)
  BY TenToAdds
<1>3. TenTo(5) = TenTo(3) * TenTo(2) /\ TenTo(5) = TenTo(2) * TenTo(3)
  BY <1>1, <1>2
<1> QED
  BY <1>1, <1>3, DividesOut DEF RAD, RAY, WAD

(* A number of as many digits as are kept is kept, wherever its digits are. *)
LEMMA KeptAgain ==
    ASSUME NEW h \in Nat, NEW e \in Nat, h <= TenTo(PREC)
    PROVE  Kept[TenTo(e) * h] = TenTo(e) * h
<1>1. PICK l \in Nat \ {0} : l = TenTo(e)
  BY TenToIs
<1>2. CASE h < TenTo(PREC)
  <2>1. Kept[h * l] = h * l
    BY <1>1, <1>2, KeptShifted
  <2>2. h * l = l * h
    OBVIOUS
  <2> QED BY <1>1, <2>1, <2>2
<1>3. CASE h = TenTo(PREC)
  <2>1. l * h = 1 * TenTo(e + PREC) /\ e + PREC \in Nat
    <3>1. TenTo(e + PREC) = l * h
      BY <1>1, <1>3, TenToAdds, FixedPointAssumption
    <3>2. l * h = 1 * (l * h)
      OBVIOUS
    <3> QED BY <3>1, <3>2, FixedPointAssumption
  <2>2. 1 < TenTo(PREC)
    <3>1. PICK p \in Nat : p = TenTo(PREC)
      BY TenToIs, FixedPointAssumption
    <3>2. TEN * TenTo(0) <= p
      BY <3>1, TenToRises, FixedPointAssumption
    <3>3. TEN * 1 <= p
      BY <3>2, TenToIs
    <3> QED BY <3>1, <3>3, TenToIs
  <2>3. Kept[1 * TenTo(e + PREC)] = 1 * TenTo(e + PREC)
    BY <2>1, <2>2, KeptShifted
  <2> QED BY <1>1, <2>1, <2>3
<1> QED
  <2>1. TenTo(PREC) \in Nat
    BY TenToIs, FixedPointAssumption
  <2> QED BY <1>2, <1>3, <2>1

(* A shifted product that is shifted back: only the digits in excess are lost. *)
LEMMA KeptTimes ==
    ASSUME NEW n \in Nat, NEW k \in Nat
    PROVE  LET cut == Truncated(Kept[n * TenTo(k)], TenTo(k))
           IN  /\ cut \in Nat /\ Kept[n * TenTo(k)] = cut * TenTo(k)
               /\ 2 * (n - cut) <= Lost(n) /\ 2 * (cut - n) <= Lost(n)
               /\ \E h \in Nat : h <= TenTo(PREC) /\ cut = Lost(n) * h
<1>1. PICK t \in Nat \ {0} : t = TenTo(k)
  BY TenToIs
<1>2. PICK cut : cut = Truncated(Kept[n * t], t)
  OBVIOUS
<1>3. PICK l \in Nat \ {0} : l = Lost(n)
  BY LostIs
<1>4. CASE n < TenTo(PREC)
  <2>1. cut = n
    BY <1>1, <1>2, <1>4, KeptShifted, TruncatedExact
  <2>2. l = 1
    BY <1>3, <1>4, LostIs
  <2>3. n = 1 * n /\ n <= TenTo(PREC)
    BY <1>4, TenToIs, FixedPointAssumption
  <2>4. Kept[n * t] = n * t
    BY <1>1, <1>4, KeptShifted
  <2> QED BY <1>1, <1>2, <1>3, <2>1, <2>2, <2>3, <2>4
<1>5. CASE ~(n < TenTo(PREC))
  <2>1. PICK e \in Nat : e = Excess[n]
    BY ExcessBounds
  <2>2. e # 0
    <3>1. e = Excess[n \div TEN] + 1
      BY <1>5, <2>1, ExcessIs
    <3>2. Excess[n \div TEN] \in Nat
      <4>1. n \div TEN \in Nat
        BY TenToIs, QuotientBounds
      <4> QED BY <4>1, ExcessBounds
    <3> QED BY <3>1, <3>2
  <2>3. PICK m \in Nat : m = n * t
    OBVIOUS
  <2>4. Lost(m) = l * t
    <3>1. Excess[m] = e + k
      BY <1>1, <2>1, <2>2, <2>3, ExcessOfMore
    <3>2. TenTo(e + k) = TenTo(e) * t
      BY <1>1, TenToAdds
    <3> QED BY <1>3, <2>1, <3>1, <3>2 DEF Lost
  <2>5. PICK h \in Nat : h <= TenTo(PREC) /\ Kept[m] = l * t * h
    BY <2>4, KeptIs
  <2>6. PICK r \in Nat : r = l * h
    OBVIOUS
  <2>7. Kept[m] = r * t
    <3>1. l * t * h = (l * h) * t
      OBVIOUS
    <3> QED BY <2>5, <2>6, <3>1
  <2>8. cut = r
    BY <1>2, <2>3, <2>7, TruncatedExact
  <2>9. 2 * (m - r * t) <= l * t /\ 2 * (r * t - m) <= l * t
    BY <2>4, <2>7, KeptIs
  <2>10. 2 * n <= l + 2 * r
    <3>1. PICK u \in Nat : u = r * t
      OBVIOUS
    <3>2. PICK v \in Nat : v = l * t
      OBVIOUS
    <3>3. (2 * n) * t = 2 * m /\ (l + 2 * r) * t = v + 2 * u
      BY <2>3, <3>1, <3>2
    <3>4. 2 * m <= v + 2 * u
      BY <2>9, <3>1, <3>2
    <3>5. (2 * n) * t <= (l + 2 * r) * t
      BY <3>3, <3>4
    <3>6. 2 * n \in Nat /\ l + 2 * r \in Nat
      OBVIOUS
    <3> QED BY ONLY <3>5, <3>6, t \in Nat, t > 0, TimesLess
  <2>11. 2 * r <= l + 2 * n
    <3>1. PICK u \in Nat : u = r * t
      OBVIOUS
    <3>2. PICK v \in Nat : v = l * t
      OBVIOUS
    <3>3. (2 * r) * t = 2 * u /\ (l + 2 * n) * t = v + 2 * m
      BY <2>3, <3>1, <3>2
    <3>4. 2 * u <= v + 2 * m
      BY <2>9, <3>1, <3>2
    <3>5. (2 * r) * t <= (l + 2 * n) * t
      BY <3>3, <3>4
    <3>6. 2 * r \in Nat /\ l + 2 * n \in Nat
      OBVIOUS
    <3> QED BY ONLY <3>5, <3>6, t \in Nat, t > 0, TimesLess
  <2>12. 2 * (n - r) <= l /\ 2 * (r - n) <= l
    BY <2>10, <2>11
  <2> QED BY <1>1, <1>2, <1>3, <2>3, <2>5, <2>6, <2>7, <2>8, <2>12
<1> QED
  BY <1>4, <1>5

(* The product of a Wad and a Ray as Rad computes it. *)
LEMMA RadProduct ==
    ASSUME NEW x \in Nat, NEW y \in Nat, x < TenTo(PREC), y < TenTo(PREC)
    PROVE  RadMul(RadOf(x, WAD), RadOf(y, RAY), RAD) = Truncated(Kept[(x * y) * TenTo(5)], TenTo(5))
<1>1. PICK a \in Nat : a = TenTo(3)
  BY ShiftsAre
<1>2. PICK b \in Nat : b = TenTo(2)
  BY ShiftsAre
<1>3. RadOf(x, WAD) = x * a
  BY <1>1, ShiftsAre, KeptShifted DEF RadOf, Significant
<1>4. RadOf(y, RAY) = y * b
  BY <1>2, ShiftsAre, KeptShifted DEF RadOf, Significant
<1>5. (x * a) * (y * b) = (x * y) * (a * b)
  OBVIOUS
<1>6. TenTo(5) = a * b /\ RAD = TenTo(5)
  BY <1>1, <1>2, ShiftsAre DEF RAD
<1> QED
  BY <1>3, <1>4, <1>5, <1>6 DEF RadMul, Product, Significant


-----------------------------------------------------------------------------
(* dai_of and get_balance. *)

SavingsQuery ==
    [op : {"none", "get_balance", "dai_of", "get_total_dai"}, step : 0 .. 4,
     total : Nat, slice : Nat, chi : Nat, dai : Nat, result : Nat,
     moved : BOOLEAN, own : BOOLEAN]

SavingsTypeOK ==
    /\ pies \in [{Saver, "others"} -> Nat] /\ chi \in Nat \ {0}
    /\ joins \in Nat /\ query \in SavingsQuery

(* What the Pot has is what the shares are worth. *)
PotIsCovered == daiInPot = TotalPie * chi

(* What get_balance has read, and what it makes of it. *)
Balance(q) == WadOf(RadMul(q.dai, Portion(q.slice, q.total), WAD), RAD)

BalanceIsRead ==
    query.op = "get_balance" =>
        /\ query.step \in {1, 2, 4}
        /\ query.step \in {1, 2} => query.total # 0
        /\ ~ query.moved =>
               /\ query.total = TotalPie
               /\ query.step = 2 => query.slice = pies[Saver]
               /\ query.step = 4 /\ query.total # 0 =>
                      /\ query.slice = pies[Saver] /\ query.dai = daiInPot
                      /\ query.result = Balance(query)
               /\ query.step = 4 /\ query.total = 0 => query.result = 0

(* What dai_of has read: chi only rises. *)
DaiOfIsRead ==
    query.op = "dai_of" =>
        /\ query.step \in {1, 4}
        /\ ~ query.own => query.slice = pies[Saver]
        /\ ~ query.moved => query.slice = pies[Saver]
        /\ query.step = 4 =>
               /\ query.result = DaiOf(query.slice, query.chi)
               /\ query.chi <= chi
               /\ ~ query.moved => query.chi = chi

SavingsInv ==
    /\ SavingsTypeOK /\ PotIsCovered /\ BalanceIsRead /\ DaiOfIsRead
    /\ query.step = 0 => query.op = "none"

LEMMA SizesAre ==
    ASSUME NEW n \in Nat
    PROVE  AbsValue(n) = n /\ Sign(n) = 1
  BY DEF AbsValue, Sign

LEMMA SignificantQuotientIsNat ==
    ASSUME NEW n \in Nat, NEW d \in Nat \ {0}
    PROVE  SignificantQuotient(n, d) \in Nat
<1>1. PICK q \in Nat : q = n \div d
  BY QuotientBounds
<1>2. PICK l \in Nat \ {0} : l = TenTo(Excess[q])
  BY LostIs DEF Lost
<1>3. PICK b \in Nat \ {0} : b = d * l
  OBVIOUS
<1>4. PICK h \in Nat : h = HalfEven(n, b)
  BY HalfEvenIs
<1>5. PICK s : s = SignificantQuotient(n, d)
  OBVIOUS
<1>6. s = l * h \/ s = q + 1 \/ s = q
  BY <1>1, <1>2, <1>3, <1>4, <1>5 DEF SignificantQuotient
<1>7. l * h \in Nat /\ q + 1 \in Nat
  OBVIOUS
<1> QED
  BY <1>5, <1>6, <1>7

LEMMA ResultsAreNat ==
    /\ \A x, y \in Nat, one \in {WAD, RAY, RAD} : Truncated(Kept[x * y], one) \in Nat
    /\ \A x \in Nat, one \in {WAD, RAY} : RadOf(x, one) \in Nat
    /\ \A x \in Nat : WadOf(x, RAD) \in Nat
    /\ \A s \in Nat, n \in Nat \ {0} : Portion(s, n) \in Nat
<1>1. ASSUME NEW x \in Nat, NEW y \in Nat, NEW one \in {WAD, RAY, RAD}
      PROVE  Truncated(Kept[x * y], one) \in Nat
  <2>1. x * y \in Nat /\ one \in Nat \ {0}
    BY UnitsAre
  <2> QED BY <2>1, ProductIs
<1>2. ASSUME NEW x \in Nat, NEW one \in {WAD, RAY} PROVE RadOf(x, one) \in Nat
  <2>1. x * (RAD \div one) \in Nat
    BY ShiftsAre
  <2> QED BY <2>1, KeptIs DEF RadOf, Significant
<1>3. ASSUME NEW x \in Nat PROVE WadOf(x, RAD) \in Nat
  BY ShiftsAre, TruncatedIs DEF WadOf
<1>4. ASSUME NEW s \in Nat, NEW n \in Nat \ {0} PROVE Portion(s, n) \in Nat
  <2>1. s * WAD \in Nat
    BY UnitsAre
  <2>2. PICK k \in Nat : k = Kept[s * WAD]
    BY <2>1, KeptIs
  <2>3. PICK r \in Nat : r = SignificantQuotient(k, n)
    BY SignificantQuotientIsNat
  <2>4. Portion(s, n) = 1 * 1 * r
    BY <2>2, <2>3, SizesAre DEF Portion, WadDiv, Quotient, Significant
  <2> QED BY <2>4
<1> QED
  BY <1>1, <1>2, <1>3, <1>4

LEMMA SavingsStarts == SavingsInit => SavingsInv
<1>1. SUFFICES ASSUME SavingsInit PROVE SavingsInv
  OBVIOUS
<1>2. query = NoQuery /\ query \in SavingsQuery
  BY <1>1 DEF SavingsInit, NoQuery, SavingsQuery
<1>3. pies \in [{Saver, "others"} -> Nat] /\ chi \in Nat \ {0} /\ joins = 0 /\ daiInPot = TotalPie * chi
  BY <1>1, SavingsAssumption DEF SavingsInit
<1> QED
  BY <1>2, <1>3 DEF SavingsInv, SavingsTypeOK, PotIsCovered, BalanceIsRead, DaiOfIsRead, NoQuery

(* Whoever moves, whatever is in progress has been moved. *)
LEMMA MovesKeep ==
    ASSUME SavingsInv, NEW saver \in {Saver, "others"}, Moves(saver),
           pies' \in [{Saver, "others"} -> Nat], chi' \in Nat, chi <= chi',
           saver = "others" => pies'[Saver] = pies[Saver]
    PROVE  /\ query' \in SavingsQuery /\ BalanceIsRead' /\ DaiOfIsRead'
           /\ (query.step = 0 => query.op = "none")'
<1>1. query \in SavingsQuery
  BY DEF SavingsInv, SavingsTypeOK
<1>2. /\ query' \in SavingsQuery
      /\ query'.op = query.op /\ query'.step = query.step
      /\ query'.total = query.total /\ query'.slice = query.slice /\ query'.chi = query.chi
      /\ query'.result = query.result
      /\ query'.moved = (query.step # 0 \/ query.moved)
      /\ query'.own = ((query.step # 0 /\ saver = Saver) \/ query.own)
  BY <1>1 DEF Moves, SavingsQuery
<1>3. query.step = 0 => query.op = "none"
  BY DEF SavingsInv
<1>4. BalanceIsRead'
  BY <1>2, <1>3 DEF BalanceIsRead, SavingsInv
<1>5. DaiOfIsRead'
  <2>1. SUFFICES ASSUME query.op = "dai_of" PROVE DaiOfIsRead'
    BY <1>2 DEF DaiOfIsRead
  <2>2. query'.moved /\ query.step # 0
    BY <1>2, <1>3, <2>1
  <2>3. ~ query'.own => ~ query.own /\ saver = "others"
    BY <1>2, <2>2
  <2>4. /\ query.step \in {1, 4}
        /\ ~ query.own => query.slice = pies[Saver]
        /\ query.step = 4 => query.result = DaiOf(query.slice, query.chi) /\ query.chi <= chi
    BY <2>1 DEF SavingsInv, DaiOfIsRead
  <2>5. query.chi \in Nat /\ chi \in Nat
    BY <1>1 DEF SavingsQuery, SavingsInv, SavingsTypeOK
  <2>6. query.step = 4 => query.chi <= chi'
    BY <2>4, <2>5
  <2>7. DaiOf(query.slice, query.chi)' = DaiOf(query.slice, query.chi)
    BY <1>2 DEF DaiOf
  <2> QED BY <1>2, <2>2, <2>3, <2>4, <2>6, <2>7 DEF DaiOfIsRead
<1> QED
  BY <1>2, <1>3, <1>4, <1>5

LEMMA SavingsMove ==
    ASSUME SavingsInv,
           \/ \E saver \in {Saver, "others"}, pie \in PieAmounts : JoinPot(saver, pie) \/ ExitPot(saver, pie)
           \/ DripPot
    PROVE  SavingsInv'
<1>1. /\ pies \in [{Saver, "others"} -> Nat] /\ chi \in Nat \ {0} /\ joins \in Nat
      /\ daiInPot = TotalPie * chi /\ Saver # "others"
  BY SavingsAssumption DEF SavingsInv, SavingsTypeOK, PotIsCovered
<1>2. PICK a \in Nat : a = pies[Saver]
  BY <1>1
<1>3. PICK b \in Nat : b = pies["others"]
  BY <1>1
<1>4. CASE \E saver \in {Saver, "others"}, pie \in PieAmounts : JoinPot(saver, pie)
  <2>1. PICK saver \in {Saver, "others"}, pie \in PieAmounts : JoinPot(saver, pie)
    BY <1>4
  <2>2. pie \in Nat
    BY SavingsAssumption
  <2>3. /\ pies' = [pies EXCEPT ![saver] = @ + pie] /\ daiInPot' = daiInPot + pie * chi
        /\ chi' = chi /\ joins' \in Nat /\ Moves(saver)
    BY <1>1, <2>1 DEF JoinPot
  <2>4. pies' \in [{Saver, "others"} -> Nat] /\ TotalPie' = TotalPie + pie
    BY <1>1, <2>2, <2>3 DEF TotalPie
  <2>5. (TotalPie + pie) * chi = TotalPie * chi + pie * chi
    BY <1>1, <2>2 DEF TotalPie
  <2>6. PotIsCovered'
    BY <1>1, <2>3, <2>4, <2>5 DEF PotIsCovered
  <2>7. saver = "others" => pies'[Saver] = pies[Saver]
    BY <1>1, <2>3
  <2>8. chi' \in Nat \ {0} /\ chi <= chi'
    BY <1>1, <2>3
  <2> QED BY <2>3, <2>4, <2>6, <2>7, <2>8, MovesKeep DEF SavingsInv, SavingsTypeOK
<1>5. CASE \E saver \in {Saver, "others"}, pie \in PieAmounts : ExitPot(saver, pie)
  <2>1. PICK saver \in {Saver, "others"}, pie \in PieAmounts : ExitPot(saver, pie)
    BY <1>5
  <2>2. pie \in Nat
    BY SavingsAssumption
  <2>3. /\ pies' = [pies EXCEPT ![saver] = @ - pie] /\ daiInPot' = daiInPot - pie * chi
        /\ chi' = chi /\ joins' \in Nat /\ Moves(saver) /\ pie <= pies[saver]
    BY <1>1, <2>1 DEF ExitPot
  <2>4. pies' \in [{Saver, "others"} -> Nat] /\ TotalPie' = TotalPie - pie
    BY <1>1, <2>2, <2>3 DEF TotalPie
  <2>5. (TotalPie - pie) * chi = TotalPie * chi - pie * chi
    BY <1>1, <2>2 DEF TotalPie
  <2>6. PotIsCovered'
    BY <1>1, <2>3, <2>4, <2>5 DEF PotIsCovered
  <2>7. saver = "others" => pies'[Saver] = pies[Saver]
    BY <1>1, <2>3
  <2>8. chi' \in Nat \ {0} /\ chi <= chi'
    BY <1>1, <2>3
  <2> QED BY <2>3, <2>4, <2>6, <2>7, <2>8, MovesKeep DEF SavingsInv, SavingsTypeOK
<1>6. CASE DripPot
  <2>1. /\ chi' \in Nat \ {0} /\ chi < chi' /\ daiInPot' = daiInPot + TotalPie * (chi' - chi)
        /\ pies' = pies /\ joins' = joins /\ Moves("others")
    BY <1>6, SavingsAssumption DEF DripPot
  <2>2. TotalPie' = TotalPie /\ TotalPie \in Nat
    BY <1>1, <2>1 DEF TotalPie
  <2>3. TotalPie * chi' = TotalPie * chi + TotalPie * (chi' - chi)
    BY <1>1, <2>1, <2>2
  <2>4. PotIsCovered'
    BY <1>1, <2>1, <2>2, <2>3 DEF PotIsCovered
  <2>5. chi <= chi' /\ pies'[Saver] = pies[Saver]
    BY <1>1, <2>1
  <2> QED BY <1>1, <2>1, <2>4, <2>5, MovesKeep DEF SavingsInv, SavingsTypeOK
<1> QED
  BY <1>4, <1>5, <1>6

LEMMA SavingsRead ==
    ASSUME SavingsInv,
           \/ ReadTotalPie \/ ReadSlice \/ ReadDaiInPot
           \/ ReadPieOf \/ ReadChi
           \/ ReadAllPie \/ ReadTotalDai
    PROVE  SavingsInv'
<1>1. /\ pies \in [{Saver, "others"} -> Nat] /\ chi \in Nat \ {0} /\ joins \in Nat
      /\ query \in SavingsQuery /\ PotIsCovered
  BY DEF SavingsInv, SavingsTypeOK
<1>2. pies' = pies /\ chi' = chi /\ daiInPot' = daiInPot /\ joins' = joins
  BY DEF ReadTotalPie, ReadSlice, ReadDaiInPot, ReadPieOf, ReadChi, ReadAllPie, ReadTotalDai, Asks
<1>3. TotalPie' = TotalPie /\ TotalPie \in Nat
  BY <1>1, <1>2 DEF TotalPie
<1>4. PotIsCovered'
  BY <1>1, <1>2, <1>3 DEF PotIsCovered
<1>5. SUFFICES /\ query' \in SavingsQuery /\ BalanceIsRead' /\ DaiOfIsRead'
               /\ (query.step = 0 => query.op = "none")'
  BY <1>1, <1>2, <1>4 DEF SavingsInv, SavingsTypeOK
<1>12. 0 \in 0 .. 4 /\ 1 \in 0 .. 4 /\ 2 \in 0 .. 4 /\ 4 \in 0 .. 4
  OBVIOUS
<1>6. CASE ReadTotalPie
  <2>1. query' = [NoQuery EXCEPT !.op = "get_balance", !.total = TotalPie,
                                 !.step = IF TotalPie = 0 THEN 4 ELSE 1]
    BY <1>6 DEF ReadTotalPie, Asks
  <2>2. /\ query' \in SavingsQuery /\ query'.op = "get_balance" /\ query'.total = TotalPie
        /\ query'.step = IF TotalPie = 0 THEN 4 ELSE 1
        /\ query'.result = 0
    BY <1>12, <1>3, <2>1 DEF NoQuery, SavingsQuery
  <2> QED BY <1>3, <2>2 DEF BalanceIsRead, DaiOfIsRead
<1>7. CASE ReadSlice
  <2>1. query.op = "get_balance" /\ query.step = 1
        /\ query' = [query EXCEPT !.step = 2, !.slice = pies[Saver]]
    BY <1>7 DEF ReadSlice, Asks
  <2>2. /\ query' \in SavingsQuery /\ query'.op = "get_balance" /\ query'.total = query.total
        /\ query'.step = 2 /\ query'.slice = pies[Saver] /\ query'.moved = query.moved
    BY <1>12, <1>1, <2>1 DEF SavingsQuery
  <2> QED BY <1>2, <1>3, <2>1, <2>2 DEF BalanceIsRead, DaiOfIsRead, SavingsInv
<1>8. CASE ReadDaiInPot
  <2>1. PICK r : r = WadOf(RadMul(daiInPot, Portion(query.slice, query.total), WAD), RAD)
    OBVIOUS
  <2>2. query.op = "get_balance" /\ query.step = 2
        /\ query' = [query EXCEPT !.step = 4, !.dai = daiInPot, !.result = r]
    BY <1>8, <2>1 DEF ReadDaiInPot, Asks
  <2>3. daiInPot \in Nat /\ query.slice \in Nat /\ query.total \in Nat \ {0}
    BY <1>1, <1>3, <2>2 DEF PotIsCovered, SavingsInv, BalanceIsRead, SavingsQuery
  <2>4. r \in Nat
    <3>1. PICK p \in Nat : p = Portion(query.slice, query.total)
      BY <2>3, ResultsAreNat
    <3>2. PICK m \in Nat : m = Truncated(Kept[daiInPot * p], WAD)
      BY <2>3, ResultsAreNat
    <3>3. r = WadOf(m, RAD)
      BY <2>1, <3>1, <3>2 DEF RadMul, Product, Significant
    <3> QED BY <3>3, ResultsAreNat
  <2>5. /\ query' \in SavingsQuery /\ query'.op = "get_balance" /\ query'.total = query.total
        /\ query'.step = 4 /\ query'.slice = query.slice /\ query'.dai = daiInPot
        /\ query'.result = r /\ query'.moved = query.moved
    BY <1>12, <1>1, <2>2, <2>3, <2>4 DEF SavingsQuery
  <2>6. r = Balance(query')
    BY <2>1, <2>5 DEF Balance
  <2> QED BY <1>2, <1>3, <2>2, <2>3, <2>5, <2>6 DEF BalanceIsRead, DaiOfIsRead, SavingsInv, Balance
<1>9. CASE ReadPieOf
  <2>1. query' = [NoQuery EXCEPT !.op = "dai_of", !.step = 1, !.slice = pies[Saver]]
    BY <1>9 DEF ReadPieOf, Asks
  <2>2. /\ query' \in SavingsQuery /\ query'.op = "dai_of" /\ query'.step = 1
        /\ query'.slice = pies[Saver]
    BY <1>12, <1>1, <2>1 DEF NoQuery, SavingsQuery
  <2> QED BY <1>2, <2>2 DEF BalanceIsRead, DaiOfIsRead
<1>10. CASE ReadChi
  <2>1. PICK r : r = DaiOf(query.slice, chi)
    OBVIOUS
  <2>2. query.op = "dai_of" /\ query.step = 1
        /\ query' = [query EXCEPT !.step = 4, !.chi = chi, !.result = r]
    BY <1>10, <2>1 DEF ReadChi, Asks
  <2>3. r \in Nat
    <3>1. PICK a \in Nat : a = RadOf(query.slice, WAD)
      BY <1>1, ResultsAreNat DEF SavingsQuery
    <3>2. PICK b \in Nat : b = RadOf(chi, RAY)
      BY <1>1, ResultsAreNat
    <3>3. r = Truncated(Kept[a * b], RAD)
      BY <2>1, <3>1, <3>2 DEF DaiOf, RadMul, Product, Significant
    <3> QED BY <3>3, ResultsAreNat
  <2>4. /\ query' \in SavingsQuery /\ query'.op = "dai_of" /\ query'.step = 4
        /\ query'.slice = query.slice /\ query'.chi = chi /\ query'.result = r
        /\ query'.moved = query.moved /\ query'.own = query.own
    BY <1>12, <1>1, <2>2, <2>3 DEF SavingsQuery
  <2>5. chi <= chi
    BY <1>1
  <2> QED BY <1>2, <2>1, <2>2, <2>4, <2>5 DEF BalanceIsRead, DaiOfIsRead, SavingsInv
<1>11. CASE ReadTotalDai
  <2>1. PICK r : r = WadMul(query.total, chi, RAY)
    OBVIOUS
  <2>2. /\ query.op = "get_total_dai"
        /\ query' = [query EXCEPT !.step = 4, !.chi = chi, !.result = r]
    BY <1>11, <2>1 DEF ReadTotalDai, Asks
  <2>3. r \in Nat
    BY <1>1, <2>1, ResultsAreNat DEF SavingsQuery, WadMul, Product, Significant
  <2>4. query' \in SavingsQuery /\ query'.op = "get_total_dai" /\ query'.step = 4
    BY <1>12, <1>1, <2>2, <2>3 DEF SavingsQuery
  <2> QED BY <2>4 DEF BalanceIsRead, DaiOfIsRead
<1>13. CASE ReadAllPie
  <2>1. query' = [NoQuery EXCEPT !.op = "get_total_dai", !.step = 1, !.total = TotalPie]
    BY <1>13 DEF ReadAllPie, Asks
  <2>2. query' \in SavingsQuery /\ query'.op = "get_total_dai" /\ query'.step = 1
    BY <1>12, <1>3, <2>1 DEF NoQuery, SavingsQuery
  <2> QED BY <2>2 DEF BalanceIsRead, DaiOfIsRead
<1> QED
  BY <1>6, <1>7, <1>8, <1>9, <1>10, <1>11, <1>13

LEMMA SavingsStep == SavingsInv /\ [SavingsNext]_savingsVars => SavingsInv'
<1>1. ASSUME SavingsInv, UNCHANGED savingsVars PROVE SavingsInv'
  BY <1>1 DEF savingsVars, SavingsInv, SavingsTypeOK, PotIsCovered, TotalPie, BalanceIsRead,
              DaiOfIsRead, Balance, DaiOf
<1> QED
  BY <1>1, SavingsMove, SavingsRead DEF SavingsNext

(* A number loses no fewer digits than a smaller one. *)
LEMMA LostRises ==
    ASSUME NEW n \in Nat, NEW m \in Nat, n <= m
    PROVE  Lost(n) <= Lost(m)
<1>1. Excess[n] \in Nat /\ Excess[m] \in Nat /\ Excess[n] <= Excess[m]
  BY ExcessBounds, ExcessRises
<1> QED
  BY <1>1, TenToRises DEF Lost

(* dai_of, of shares and a chi of no more digits than are kept, is the     *)
(* product but for half of the last digit.                                 *)
LEMMA DaiOfIs ==
    ASSUME NEW x \in Nat, NEW y \in Nat, x < TenTo(PREC), y < TenTo(PREC)
    PROVE  /\ DaiOf(x, y) \in Nat
           /\ 2 * (x * y - DaiOf(x, y)) <= Lost(x * y) /\ 2 * (DaiOf(x, y) - x * y) <= Lost(x * y)
<1>1. x * y \in Nat
  OBVIOUS
<1> QED
  BY <1>1, RadProduct, KeptTimes DEF DaiOf

(* For any rates and shares and any interleaving of others' transactions,  *)
(* dai_of does not exceed what the shares are worth, unless the saver      *)
(* joins or exits between its two calls (dsrmanager.py:69).                *)
THEOREM DaiOfIsNoMore == SavingsSpec => []DaiOfNeverExceeds
<1>1. SavingsInv => DaiOfNeverExceeds
  <2>1. SUFFICES ASSUME SavingsInv, query.op = "dai_of", query.step = 4,
                        query.slice < TenTo(PREC), query.chi < TenTo(PREC)
                 PROVE  LET worth == pies[Saver] * chi
                        IN  /\ ~ query.own => query.result <= worth + TenTo(Excess[worth])
                            /\ ~ query.moved => query.result >= worth - TenTo(Excess[worth])
    BY DEF DaiOfNeverExceeds
  <2>2. query \in SavingsQuery
    BY <2>1 DEF SavingsInv, SavingsTypeOK
  <2>3. PICK x \in Nat : x = query.slice
    BY <2>2 DEF SavingsQuery
  <2>4. PICK y \in Nat : y = query.chi
    BY <2>2 DEF SavingsQuery
  <2>5. PICK c \in Nat : c = chi
    BY <2>1 DEF SavingsInv, SavingsTypeOK
  <2>6. PICK r \in Nat : r = DaiOf(x, y)
    BY <2>1, <2>3, <2>4, DaiOfIs
  <2>7. PICK n \in Nat : n = x * y
    OBVIOUS
  <2>8. PICK l \in Nat \ {0} : l = Lost(n)
    BY LostIs
  <2>9. 2 * (n - r) <= l /\ 2 * (r - n) <= l
    BY <2>1, <2>3, <2>4, <2>6, <2>7, <2>8, DaiOfIs
  <2>10. /\ query.result = r /\ y <= c
         /\ ~ query.own => x = pies[Saver]
         /\ ~ query.moved => x = pies[Saver] /\ y = c
    BY <2>1, <2>3, <2>4, <2>5, <2>6 DEF SavingsInv, DaiOfIsRead
  <2>11. ASSUME ~ query.own PROVE r <= pies[Saver] * chi + TenTo(Excess[pies[Saver] * chi])
    <3>1. PICK w \in Nat : w = x * c
      OBVIOUS
    <3>2. n <= w
      BY <2>7, <2>10, <3>1
    <3>3. PICK k \in Nat \ {0} : k = Lost(w)
      BY LostIs
    <3>4. l <= k
      BY <2>8, <3>2, <3>3, LostRises
    <3>5. r <= w + k
      BY <2>9, <3>2, <3>4
    <3> QED BY <2>5, <2>10, <2>11, <3>1, <3>3, <3>5 DEF Lost
  <2>12. ASSUME ~ query.moved PROVE r >= pies[Saver] * chi - TenTo(Excess[pies[Saver] * chi])
    <3>1. r >= n - l
      BY <2>9
    <3> QED BY <2>5, <2>7, <2>8, <2>10, <2>12, <3>1 DEF Lost
  <2> QED BY <2>10, <2>11, <2>12
<1> QED
  BY <1>1, SavingsStarts, SavingsStep, PTL DEF SavingsSpec

(* The share that get_balance computes, in hundredths: within one of them. *)
LEMMA PortionIs ==
    ASSUME NEW s \in Nat, NEW n \in Nat \ {0}, s <= n, n < TenTo(PREC)
    PROVE  /\ Portion(s, n) \in Nat /\ Portion(s, n) <= WAD
           /\ s * WAD - n * Portion(s, n) < n /\ n * Portion(s, n) - s * WAD < n
<1>1. PICK w \in Nat \ {0} : w = WAD
  BY UnitsAre
<1>2. PICK m \in Nat : m = s * w
  OBVIOUS
<1>3. Significant(m) = m
  <2>1. s < TenTo(PREC)
    BY TenToIs, FixedPointAssumption
  <2> QED BY <1>1, <1>2, <2>1, KeptShifted DEF Significant, WAD
<1>4. m < TenTo(PREC) * n
  <2>1. PICK p \in Nat : p = TenTo(PREC)
    BY TenToIs, FixedPointAssumption
  <2>2. w < p
    <3>1. TEN * w <= p
      <4>1. PREC \in Nat /\ 2 < PREC /\ 2 \in Nat
        BY FixedPointAssumption
      <4> QED BY <1>1, <2>1, <4>1, TenToRises DEF WAD
    <3>2. PICK d \in Nat : TEN = d + 2
      <4>1. TEN - 2 \in Nat /\ TEN = (TEN - 2) + 2
        BY TenToIs
      <4> QED BY <4>1
    <3>3. TEN * w = d * w + 2 * w /\ d * w \in Nat
      BY <3>2
    <3>4. PICK u \in Nat : u = d * w
      BY <3>3
    <3> QED BY <3>1, <3>3, <3>4
  <2>3. s * w <= n * w
    BY TimesLess
  <2>4. n * w < n * p
    <3>1. w * n < p * n
      BY <2>2, TimesLess
    <3> QED BY <3>1
  <2>5. n * w \in Nat /\ n * p \in Nat
    OBVIOUS
  <2>6. p * n = n * p
    OBVIOUS
  <2> QED BY <1>2, <2>1, <2>3, <2>4, <2>5, <2>6
<1>5. PICK q \in Nat : q = SignificantQuotient(m, n)
  BY <1>4, QuotientIs
<1>6. PICK u \in Nat : u = n * q
  OBVIOUS
<1>7. m - u < n /\ u - m < n
  BY <1>4, <1>5, <1>6, QuotientIs
<1>8. Portion(s, n) = 1 * 1 * q
  BY <1>1, <1>2, <1>3, <1>5, SizesAre DEF Portion, WadDiv, Quotient
<1>9. q <= w
  <2>1. SUFFICES ASSUME w + 1 <= q PROVE FALSE
    OBVIOUS
  <2>2. (w + 1) * n <= q * n
    BY <2>1, TimesLess
  <2>3. s * w <= n * w
    BY TimesLess
  <2>4. PICK v \in Nat : v = n * w
    OBVIOUS
  <2>5. (w + 1) * n = v + n /\ q * n = u
    BY <1>6, <2>4
  <2> QED BY <1>2, <1>7, <2>2, <2>3, <2>4, <2>5
<1> QED
  BY <1>1, <1>2, <1>5, <1>6, <1>7, <1>8, <1>9

(* What three roundings add up to: that of the portion, that of the        *)
(* product and that of the conversion to a Wad.                            *)
LEMMA RoundingsAddUp ==
    ASSUME NEW w \in Nat \ {0}, NEW k \in Nat, NEW l \in Nat, NEW d \in Nat, NEW b \in Nat,
           NEW e \in Nat, NEW n \in Nat, NEW f \in Nat, NEW m \in Nat, NEW x \in Nat,
           d < w * b + w, e * w - n < d, n - e * w < d,
           2 * (n - w * m) < 2 * w + f, 2 * (w * m - n) <= f, f <= l * w,
           x <= m, m < x + k
    PROVE  AbsValue(x - e) <= b + k + l
<1>1. PICK wb \in Nat : wb = w * b
  OBVIOUS
<1>2. PICK we \in Nat : we = e * w
  OBVIOUS
<1>3. PICK wm \in Nat : wm = w * m
  OBVIOUS
<1>4. PICK wl \in Nat : wl = l * w
  OBVIOUS
<1>5. PICK wk \in Nat : wk = w * k
  OBVIOUS
<1>6. PICK wx \in Nat : wx = w * x
  OBVIOUS
<1>7. /\ d < wb + w /\ we - n < d /\ n - we < d
      /\ 2 * (n - wm) < 2 * w + f /\ 2 * (wm - n) <= f /\ f <= wl
  BY <1>1, <1>2, <1>3, <1>4
<1>8. wx <= wm
  <2>1. x * w <= m * w
    BY TimesLess
  <2> QED BY <1>3, <1>6, <2>1
<1>9. wm + w <= wx + wk
  <2>1. m + 1 <= x + k /\ m + 1 \in Nat /\ x + k \in Nat
    OBVIOUS
  <2>2. (m + 1) * w <= (x + k) * w
    BY <2>1, TimesLess
  <2>3. (m + 1) * w = wm + w /\ (x + k) * w = wx + wk
    BY <1>3, <1>5, <1>6
  <2> QED BY <2>2, <2>3
<1>10. ASSUME NEW u \in Nat, NEW v \in Nat, u >= v + b + k + l + 1
       PROVE  w * u >= w * v + wb + wk + wl + w
  <2>1. PICK z \in Nat : z = v + b + k + l + 1
    OBVIOUS
  <2>2. z * w <= u * w
    BY <1>10, <2>1, TimesLess
  <2>3. z * w = w * v + wb + wk + wl + w
    BY <1>1, <1>4, <1>5, <2>1
  <2> QED BY <2>2, <2>3
<1>11. ASSUME x >= e + b + k + l + 1 PROVE FALSE
  <2>1. wx >= we + wb + wk + wl + w
    BY <1>2, <1>6, <1>10, <1>11
  <2> QED BY ONLY <1>7, <1>8, <2>1, w \in Nat, w > 0, wb \in Nat, we \in Nat, wm \in Nat,
                  wl \in Nat, wk \in Nat, wx \in Nat, n \in Nat, d \in Nat, f \in Nat
<1>12. ASSUME e >= x + b + k + l + 1 PROVE FALSE
  <2>1. we >= wx + wb + wk + wl + w
    BY <1>2, <1>6, <1>10, <1>12
  <2> QED BY ONLY <1>7, <1>9, <2>1, w \in Nat, w > 0, wb \in Nat, we \in Nat, wm \in Nat,
                  wl \in Nat, wk \in Nat, wx \in Nat, n \in Nat, d \in Nat, f \in Nat
<1> QED
  BY <1>11, <1>12 DEF AbsValue

(* The balance is s * c, up to those roundings. *)
LEMMA BalanceIs ==
    ASSUME NEW s \in Nat, NEW n \in Nat \ {0}, NEW c \in Nat \ {0}, s <= n, n < TenTo(PREC),
           NEW dai, dai = n * c,
           NEW r, r = WadOf(RadMul(dai, Portion(s, n), WAD), RAD)
    PROVE  AbsValue(r * (RAD \div WAD) - s * c) <= dai \div WAD + RAD \div WAD + TenTo(Excess[dai])
<1>1. PICK w \in Nat \ {0} : w = WAD
  BY UnitsAre
<1>2. PICK k \in Nat \ {0} : k = RAD \div WAD
  BY ShiftsAre
<1>3. PICK d \in Nat \ {0} : d = dai
  OBVIOUS
<1>4. PICK p \in Nat : p = Portion(s, n)
  BY PortionIs
<1>5. p <= w /\ s * w - n * p < n /\ n * p - s * w < n
  BY <1>1, <1>4, PortionIs
<1>6. PICK q \in Nat : q = d * p
  OBVIOUS
<1>7. PICK m \in Nat : m = Truncated(Kept[q], w)
  BY ProductIs
<1>8. PICK f \in Nat : f = Lost(q)
  BY LostIs
<1>9. PICK l \in Nat : l = Lost(d)
  BY LostIs
<1>10. 2 * (q - w * m) < 2 * w + f /\ 2 * (w * m - q) <= f
  BY <1>7, <1>8, ProductIs
<1>11. f <= l * w
  <2>1. PICK g \in Nat : g = d * w
    OBVIOUS
  <2>2. q <= g
    <3>1. p * d <= w * d
      BY <1>5, TimesLess
    <3> QED BY <1>6, <2>1, <3>1
  <2>3. Excess[q] <= Excess[d] + 2
    <3>1. Excess[q] <= Excess[g]
      BY <2>2, ExcessRises
    <3>2. Excess[g] <= Excess[d] + 2
      BY <1>1, <2>1, ExcessOfMore DEF WAD
    <3>3. Excess[q] \in Nat /\ Excess[g] \in Nat /\ Excess[d] \in Nat
      BY ExcessBounds
    <3> QED BY <3>1, <3>2, <3>3
  <2>4. Excess[q] \in Nat /\ Excess[d] \in Nat /\ Excess[d] + 2 \in Nat
    BY ExcessBounds
  <2>5. f <= TenTo(Excess[d] + 2)
    BY <1>8, <2>3, <2>4, TenToRises DEF Lost
  <2>6. TenTo(Excess[d] + 2) = l * w
    BY <1>1, <1>9, <2>4, TenToAdds DEF WAD, Lost
  <2> QED BY <2>5, <2>6
<1>12. r = Truncated(m, k)
  BY <1>1, <1>2, <1>3, <1>4, <1>6, <1>7 DEF WadOf, RadMul, Product, Significant
<1>13. PICK t \in Nat : t = r
  BY <1>12, TruncatedIs
<1>14. PICK x \in Nat : x = k * t
  OBVIOUS
<1>15. x <= m /\ m < x + k
  BY <1>12, <1>13, <1>14, TruncatedIs
<1>16. PICK e \in Nat : e = s * c
  OBVIOUS
<1>17. e * w - q < d /\ q - e * w < d
  <2>1. PICK a \in Nat : a = s * w
    OBVIOUS
  <2>2. PICK h \in Nat : h = n * p
    OBVIOUS
  <2>3. e * w = a * c /\ q = h * c /\ d = n * c
    <3>1. (s * c) * w = (s * w) * c /\ (n * c) * p = (n * p) * c
      OBVIOUS
    <3> QED BY <1>3, <1>6, <1>16, <2>1, <2>2, <3>1
  <2>4. a < n + h /\ h < n + a /\ n + h \in Nat /\ n + a \in Nat
    BY <1>5, <2>1, <2>2
  <2>5. a * c < (n + h) * c /\ h * c < (n + a) * c
    BY <2>4, TimesLess
  <2>6. (n + h) * c = d + q /\ (n + a) * c = d + a * c
    BY <2>3
  <2>7. PICK v \in Nat : v = a * c
    OBVIOUS
  <2> QED BY <2>3, <2>5, <2>6, <2>7
<1>18. PICK b \in Nat : b = d \div w
  BY QuotientBounds
<1>19. d < w * b + w
  BY <1>18, QuotientBounds
<1>20. AbsValue(x - e) <= b + k + l
  BY <1>10, <1>11, <1>15, <1>17, <1>19, RoundingsAddUp
<1>21. r * k = x
  BY <1>13, <1>14
<1> QED
  BY <1>1, <1>2, <1>3, <1>9, <1>16, <1>18, <1>20, <1>21 DEF Lost

(* For any shares and rates, a balance put together from three calls is    *)
(* the saver's share of the Pot, up to the roundings of Wad and Rad, if    *)
(* nothing moved meanwhile (dsr.py:69).                                    *)
THEOREM BalancesAreClose == SavingsSpec => []BalanceIsClose
<1>1. SavingsInv => BalanceIsClose
  <2>1. SUFFICES ASSUME SavingsInv, query.op = "get_balance", query.step = 4, ~ query.moved,
                        TotalPie < TenTo(PREC)
                 PROVE  AbsValue(query.result * (RAD \div WAD) - pies[Saver] * chi)
                            <= daiInPot \div WAD + RAD \div WAD + TenTo(Excess[daiInPot])
    BY DEF BalanceIsClose
  <2>2. PICK s \in Nat : s = pies[Saver]
    BY <2>1 DEF SavingsInv, SavingsTypeOK
  <2>3. PICK o \in Nat : o = pies["others"]
    BY <2>1 DEF SavingsInv, SavingsTypeOK
  <2>4. PICK c \in Nat \ {0} : c = chi
    BY <2>1 DEF SavingsInv, SavingsTypeOK
  <2>5. PICK n \in Nat : n = TotalPie
    BY <2>2, <2>3 DEF TotalPie
  <2>6. n = s + o /\ daiInPot = n * c /\ query.total = n
    BY <2>1, <2>2, <2>3, <2>4, <2>5 DEF TotalPie, SavingsInv, PotIsCovered, BalanceIsRead
  <2>7. CASE n = 0
    <3>1. s = 0 /\ query.result = 0 /\ daiInPot = 0
      BY <2>1, <2>5, <2>6, <2>7 DEF SavingsInv, BalanceIsRead
    <3>2. PICK k \in Nat : k = RAD \div WAD
      BY ShiftsAre
    <3>3. PICK l \in Nat : l = TenTo(Excess[0])
      BY LostIs DEF Lost
    <3>4. 0 * k - 0 * c = 0 /\ AbsValue(0) = 0
      BY DEF AbsValue
    <3>5. 0 \div WAD \in Nat
      BY UnitsAre, QuotientBounds
    <3>6. 0 <= 0 \div WAD + k + l
      BY <3>5
    <3> QED BY <2>2, <2>4, <3>1, <3>2, <3>3, <3>4, <3>6
  <2>8. CASE n # 0
    <3>1. query.result = WadOf(RadMul(daiInPot, Portion(s, n), WAD), RAD)
      BY <2>1, <2>2, <2>5, <2>6, <2>8 DEF SavingsInv, BalanceIsRead, Balance
    <3>2. s <= n
      BY <2>6
    <3> QED BY <2>1, <2>2, <2>4, <2>5, <2>6, <2>8, <3>1, <3>2, BalanceIs
  <2> QED BY <2>7, <2>8
<1> QED
  BY <1>1, SavingsStarts, SavingsStep, PTL DEF SavingsSpec

-----------------------------------------------------------------------------
(* get_wipe_all_dart. *)

(* Rounding up to a Wad raises a debt by less than one. *)
LEMMA RoundedUpWadIs ==
    ASSUME NEW n \in Nat, NEW cut \in Nat,
           \E h \in Nat : h <= TenTo(PREC) /\ cut = Lost(n) * h
    PROVE  /\ RoundedUpWad(cut) \in Nat
           /\ cut <= RoundedUpWad(cut) * (RAD \div WAD)
           /\ RoundedUpWad(cut) * (RAD \div WAD) < cut + RAD \div WAD
<1>1. PICK k \in Nat \ {0} : k = RAD \div WAD
  BY ShiftsAre
<1>2. PICK wad \in Nat : wad = WadOf(cut, RAD)
  BY ResultsAreNat
<1>3. PICK x \in Nat : x = wad * k
  OBVIOUS
<1>4. x <= cut /\ cut < x + k
  <2>1. k * Truncated(cut, k) <= cut /\ cut < k * Truncated(cut, k) + k
    BY TruncatedIs
  <2>2. Truncated(cut, k) = wad /\ k * wad = x
    BY <1>1, <1>2, <1>3 DEF WadOf
  <2> QED BY <2>1, <2>2
<1>5. PICK h \in Nat : h <= TenTo(PREC) /\ cut = Lost(n) * h
  OBVIOUS
<1>6. PICK e \in Nat : e = Excess[n]
  BY ExcessBounds
<1>7. Kept[x] = x
  <2>1. CASE e >= 3
    <3>1. PICK d \in Nat : e = d + 3
      BY <2>1
    <3>2. PICK v \in Nat : v = TenTo(d)
      BY TenToIs
    <3>3. Lost(n) = v * k
      BY <1>1, <1>6, <3>1, <3>2, TenToAdds, ShiftsAre DEF Lost
    <3>4. cut = (v * h) * k
      <4>1. v * k * h = (v * h) * k
        OBVIOUS
      <4> QED BY <1>5, <3>3, <4>1
    <3>5. PICK u \in Nat : u = v * h
      OBVIOUS
    <3>6. wad = u
      BY <1>1, <1>2, <3>4, <3>5, TruncatedExact DEF WadOf
    <3>7. x = TenTo(e) * h
      BY <1>3, <1>5, <1>6, <3>4, <3>5, <3>6 DEF Lost
    <3> QED BY <1>5, <1>6, <3>7, KeptAgain
  <2>2. CASE e < 3
    <3>1. PICK p \in Nat : p = TenTo(PREC)
      BY TenToIs, FixedPointAssumption
    <3>2. PICK l \in Nat \ {0} : l = Lost(n)
      BY LostIs
    <3>3. l < k
      <4>1. TEN * l <= k
        BY <1>1, <1>6, <2>2, <3>2, ShiftsAre, TenToRises DEF Lost
      <4>2. PICK d \in Nat : TEN = d + 2
        <5>1. TEN - 2 \in Nat /\ TEN = (TEN - 2) + 2
          BY TenToIs
        <5> QED BY <5>1
      <4>3. TEN * l = d * l + 2 * l
        BY <4>2
      <4>4. PICK u \in Nat : u = d * l
        OBVIOUS
      <4> QED BY <4>1, <4>3, <4>4
    <3>4. wad < p
      <4>1. SUFFICES ASSUME p <= wad PROVE FALSE
        BY <3>1
      <4>2. p * k <= x
        BY <1>3, <4>1, TimesLess
      <4>3. p > 0
        BY <3>1, TenToIs, FixedPointAssumption
      <4>4. l * p < k * p
        BY <3>3, <4>3, TimesLess
      <4>5. h * l <= p * l
        BY <1>5, <3>1, <3>2, TimesLess
      <4>6. cut = h * l
        BY <1>5, <3>2
      <4>7. PICK u \in Nat : u = p * k
        OBVIOUS
      <4>8. PICK v \in Nat : v = p * l
        OBVIOUS
      <4>9. v < u
        BY <4>4, <4>7, <4>8
      <4> QED BY <1>4, <4>2, <4>5, <4>6, <4>7, <4>8, <4>9
    <3>5. Kept[wad * TenTo(3)] = wad * TenTo(3)
      BY <3>1, <3>4, KeptShifted
    <3> QED BY <1>1, <1>3, <3>5, ShiftsAre
  <2> QED BY <2>1, <2>2
<1>8. RoundedUpWad(cut) = IF x < cut THEN wad + 1 ELSE wad
  BY <1>1, <1>2, <1>3, <1>7 DEF RoundedUpWad, RadOf, Significant
<1>9. (wad + 1) * k = x + k
  BY <1>3
<1> QED
  BY <1>1, <1>3, <1>4, <1>8, <1>9

(* get_wipe_all_dart answers from what it has read. *)
VaultCallOK ==
    vaultCall = [op |-> vaultCall.op, step |-> vaultCall.step, dink |-> vaultCall.dink,
                 dart |-> vaultCall.dart, read |-> vaultCall.read,
                 verdict |-> vaultCall.verdict, amount |-> vaultCall.amount]

WipeAllInv ==
    /\ VaultCallOK
    /\ vaultCall.op = "get_wipe_all_dart" =>
        /\ vaultCall.step \in {1, 2, 3, 4}
        /\ vaultCall.step # 1 => "rate" \in DOMAIN vaultCall.read
        /\ vaultCall.step \in {3, 4} => "art" \in DOMAIN vaultCall.read
        /\ vaultCall.step \in {1, 2, 3} => vaultCall.verdict = "none"
        /\ vaultCall.step = 4 /\ vaultCall.verdict = "amount" =>
               vaultCall.amount = GetWipeAllDart(vaultCall.read)

LEMMA WipeAllStep == WipeAllInv /\ [VaultsNext]_vaultVars => WipeAllInv'
<1>1. SUFFICES ASSUME WipeAllInv, [VaultsNext]_vaultVars PROVE WipeAllInv'
  OBVIOUS
<1>2. ASSUME UNCHANGED vaultCall PROVE WipeAllInv'
  BY <1>1, <1>2 DEF WipeAllInv, VaultCallOK, GetWipeAllDart
<1>3. ASSUME NEW op, NEW dink, NEW dart, CallVat(op, dink, dart) PROVE WipeAllInv'
  <2>1. vaultCall' = [op |-> op, step |-> 1, dink |-> dink, dart |-> dart, read |-> NothingRead,
                      verdict |-> "none", amount |-> 0]
    BY <1>3 DEF CallVat, NoVaultCall
  <2> QED BY <2>1 DEF WipeAllInv, VaultCallOK
<1>4. CASE ReadGetter
  <2>1. PICK read : read = Read(Getters[vaultCall.op][vaultCall.step])
    OBVIOUS
  <2>2. vaultCall' = [vaultCall EXCEPT !.step = @ + 1, !.read = read]
    BY <1>4, <2>1 DEF ReadGetter
  <2>3. /\ VaultCallOK' /\ vaultCall'.op = vaultCall.op /\ vaultCall'.step = vaultCall.step + 1
        /\ vaultCall'.read = read /\ vaultCall'.verdict = vaultCall.verdict
    BY <1>1, <2>2 DEF WipeAllInv, VaultCallOK
  <2>4. SUFFICES ASSUME vaultCall.op = "get_wipe_all_dart" PROVE WipeAllInv'
    BY <2>3 DEF WipeAllInv
  <2>5. Getters[vaultCall.op] = <<{"rate"}, {"art"}>>
    BY <2>4 DEF Getters, WipeAllGetters
  <2>6. vaultCall.step \in {1, 2}
    BY <1>4, <2>5 DEF ReadGetter
  <2>7. DOMAIN read = DOMAIN vaultCall.read \cup Getters[vaultCall.op][vaultCall.step]
    BY <2>1 DEF Read
  <2>8. CASE vaultCall.step = 1
    BY <1>1, <2>3, <2>4, <2>5, <2>7, <2>8 DEF WipeAllInv
  <2>9. CASE vaultCall.step = 2
    BY <1>1, <2>3, <2>4, <2>5, <2>7, <2>9 DEF WipeAllInv
  <2> QED BY <2>6, <2>8, <2>9
<1>5. CASE ValidateFrobAnswers \/ CanBiteAnswers
  <2>1. vaultCall.op \in {"validate_frob", "can_bite"}
    BY <1>5 DEF ValidateFrobAnswers, CanBiteAnswers, AllRead
  <2>2. \E verdict, amount, step :
            vaultCall' = [vaultCall EXCEPT !.step = step, !.verdict = verdict, !.amount = amount]
    BY <1>5 DEF ValidateFrobAnswers, CanBiteAnswers, Answers
  <2>3. VaultCallOK' /\ vaultCall'.op = vaultCall.op
    BY <1>1, <2>2 DEF WipeAllInv, VaultCallOK
  <2> QED BY <2>1, <2>3 DEF WipeAllInv
<1>6. CASE WipeAllAnswers
  <2>1. vaultCall.op = "get_wipe_all_dart" /\ vaultCall.step = 3
    <3>1. vaultCall.op = "get_wipe_all_dart" /\ vaultCall.step = Len(Getters["get_wipe_all_dart"]) + 1
      BY <1>6 DEF WipeAllAnswers, AllRead
    <3>2. Getters["get_wipe_all_dart"] = <<{"rate"}, {"art"}>>
      BY DEF Getters, WipeAllGetters
    <3> QED BY <3>1, <3>2
  <2>2. PICK verdict : verdict = IF vaultCall.read.rate < RAY THEN "raised" ELSE "amount"
    OBVIOUS
  <2>3. PICK amount :
            amount = IF vaultCall.read.rate < RAY THEN 0 ELSE GetWipeAllDart(vaultCall.read)
    OBVIOUS
  <2>4. vaultCall' = [vaultCall EXCEPT !.step = @ + 1, !.verdict = verdict, !.amount = amount]
    BY <1>6, <2>2, <2>3 DEF WipeAllAnswers, Answers
  <2>5. verdict = "amount" => amount = GetWipeAllDart(vaultCall.read)
    BY <2>2, <2>3
  <2>6. /\ VaultCallOK' /\ vaultCall'.op = vaultCall.op /\ vaultCall'.step = vaultCall.step + 1
        /\ vaultCall'.read = vaultCall.read /\ vaultCall'.verdict = verdict
        /\ vaultCall'.amount = amount
    BY <1>1, <2>4 DEF WipeAllInv, VaultCallOK
  <2>7. GetWipeAllDart(vaultCall.read)' = GetWipeAllDart(vaultCall.read)
    BY <2>6 DEF GetWipeAllDart
  <2> QED BY <1>1, <2>1, <2>5, <2>6, <2>7 DEF WipeAllInv
<1> QED
  BY <1>1, <1>2, <1>3, <1>4, <1>5, <1>6 DEF VaultsNext, OthersTransact, vaultVars

(* For every debt and rate of no more digits than are kept: the amount     *)
(* covers the debt up to half of the last digit kept, and exceeds it by no *)
(* more than that and one unit (dss.py:298).                               *)
THEOREM WipesAreClose == VaultsSpec => []WipeAllIsClose
<1>1. VaultsInit => WipeAllInv
  BY DEF VaultsInit, NoVaultCall, WipeAllInv, VaultCallOK
<1>2. WipeAllInv => WipeAllIsClose
  <2>1. SUFFICES ASSUME WipeAllInv, StillTrue("get_wipe_all_dart"),
                        vaultCall.verdict = "amount",
                        {system.art, system.rate} \subseteq 0 .. TenTo(PREC) - 1
                 PROVE  LET debt == system.art * system.rate
                            paid == vaultCall.amount * (RAD \div WAD)
                            lost == TenTo(Excess[debt])
                        IN  2 * (debt - paid) <= lost /\ 2 * (paid - debt) < 2 * (RAD \div WAD) + lost
    BY DEF WipeAllIsClose
  <2>2. vaultCall.op = "get_wipe_all_dart" /\ vaultCall.step = 4
    BY <2>1 DEF WipeAllInv, StillTrue
  <2>3. PICK x \in Nat : x = system.art /\ x < TenTo(PREC)
    <3>1. PICK p \in Nat : p = TenTo(PREC)
      BY TenToIs, FixedPointAssumption
    <3>2. system.art \in Nat /\ system.art < p
      BY <2>1, <3>1
    <3> QED BY <3>1, <3>2
  <2>4. PICK y \in Nat : y = system.rate /\ y < TenTo(PREC)
    <3>1. PICK p \in Nat : p = TenTo(PREC)
      BY TenToIs, FixedPointAssumption
    <3>2. system.rate \in Nat /\ system.rate < p
      BY <2>1, <3>1
    <3> QED BY <3>1, <3>2
  <2>5. vaultCall.read.art = x /\ vaultCall.read.rate = y
    BY <2>1, <2>2, <2>3, <2>4 DEF WipeAllInv, StillTrue
  <2>6. PICK n \in Nat : n = x * y
    OBVIOUS
  <2>7. PICK cut \in Nat : cut = Truncated(Kept[n * TenTo(5)], TenTo(5))
    BY KeptTimes
  <2>8. vaultCall.amount = RoundedUpWad(cut)
    BY <2>1, <2>2, <2>3, <2>4, <2>5, <2>6, <2>7, RadProduct DEF WipeAllInv, GetWipeAllDart
  <2>9. PICK l \in Nat : l = Lost(n)
    BY LostIs
  <2>10. 2 * (n - cut) <= l /\ 2 * (cut - n) <= l
    BY <2>7, <2>9, KeptTimes
  <2>11. \E h \in Nat : h <= TenTo(PREC) /\ cut = Lost(n) * h
    BY <2>7, KeptTimes
  <2>12. PICK k \in Nat : k = RAD \div WAD
    BY ShiftsAre
  <2>13. PICK a \in Nat : a = RoundedUpWad(cut)
    BY <2>11, RoundedUpWadIs
  <2>14. PICK paid \in Nat : paid = a * k
    OBVIOUS
  <2>15. cut <= paid /\ paid < cut + k
    BY <2>11, <2>12, <2>13, <2>14, RoundedUpWadIs
  <2>16. 2 * (n - paid) <= l /\ 2 * (paid - n) < 2 * k + l
    BY <2>10, <2>15
  <2> QED BY <2>3, <2>4, <2>6, <2>8, <2>9, <2>12, <2>13, <2>14, <2>16 DEF Lost
<1> QED
  BY <1>1, <1>2, WipeAllStep, PTL DEF VaultsSpec
=============================================================================
