---------------------------- MODULE VerdictProofs ----------------------------
(***************************************************************************)
(* What a client derives from rounded values or from several calls: what   *)
(* remains of an order, whether a take, a frob or a bite will succeed,     *)
(* which auctions stand, where a new order belongs.  For any amounts, any  *)
(* base and any number of digits that Decimal keeps.                       *)
(***************************************************************************)
EXTENDS ClientProofs, NumberProofs

-----------------------------------------------------------------------------
(* Roundings keep the order. *)

(* Rounding keeps the order of numbers. *)
LEMMA HalfEvenRises ==
    ASSUME NEW n \in Nat, NEW m \in Nat, n <= m, NEW d \in Nat \ {0}
    PROVE  HalfEven(n, d) <= HalfEven(m, d)
<1>1. PICK q \in Nat : q = n \div d
  BY QuotientBounds
<1>2. PICK s \in Nat : s = m \div d
  BY QuotientBounds
<1>3. PICK r \in Nat : r = n % d
  OBVIOUS
<1>4. PICK t \in Nat : t = m % d
  OBVIOUS
<1>5. q <= s
  BY <1>1, <1>2, QuotientRises
<1>6. /\ HalfEven(n, d) = IF 2 * r > d \/ (2 * r = d /\ q % 2 = 1) THEN q + 1 ELSE q
      /\ HalfEven(m, d) = IF 2 * t > d \/ (2 * t = d /\ s % 2 = 1) THEN s + 1 ELSE s
  BY <1>1, <1>2, <1>3, <1>4 DEF HalfEven
<1>7. CASE q < s
  BY <1>5, <1>6, <1>7
<1>8. CASE q = s
  <2>1. n = d * q + r /\ m = d * q + t
    BY <1>1, <1>2, <1>3, <1>4, <1>8
  <2>2. PICK u \in Nat : u = d * q
    OBVIOUS
  <2>3. r <= t
    BY <2>1, <2>2
  <2> QED BY <1>6, <1>8, <2>3
<1> QED
  BY <1>5, <1>7, <1>8

LEMMA HalfEvenAtLeast ==
    ASSUME NEW n \in Nat, NEW d \in Nat \ {0}, NEW b \in Nat, d * b <= n
    PROVE  b <= HalfEven(n, d)
<1>1. PICK u \in Nat : u = d * b
  OBVIOUS
<1>2. HalfEven(u, d) = b
  BY <1>1, HalfEvenExact
<1> QED
  BY <1>1, <1>2, HalfEvenRises

LEMMA HalfEvenAtMost ==
    ASSUME NEW n \in Nat, NEW d \in Nat \ {0}, NEW b \in Nat, n <= d * b
    PROVE  HalfEven(n, d) <= b
<1>1. PICK u \in Nat : u = d * b
  OBVIOUS
<1>2. HalfEven(u, d) = b
  BY <1>1, HalfEvenExact
<1> QED
  BY <1>1, <1>2, HalfEvenRises

(* A number that loses digits has all those that are kept. *)
LEMMA FirstDigits ==
    ASSUME NEW n \in Nat, Excess[n] # 0
    PROVE  Lost(n) * TenTo(PREC - 1) <= n
<1>1. PICK e \in Nat : e = Excess[n]
  BY ExcessBounds
<1>2. PICK k \in Nat : k + 1 = PREC
  <2>1. PREC - 1 \in Nat /\ (PREC - 1) + 1 = PREC
    BY FixedPointAssumption
  <2> QED BY <2>1
<1>3. PREC + e - 1 = e + k /\ PREC - 1 = k
  BY <1>1, <1>2
<1>4. TenTo(e + k) = TenTo(e) * TenTo(k)
  BY TenToAdds
<1>5. n >= TenTo(e + k)
  BY <1>1, <1>3, ExcessBounds
<1>6. PICK x \in Nat : x = TenTo(e) * TenTo(k)
  BY TenToIs
<1> QED
  BY <1>1, <1>3, <1>4, <1>5, <1>6 DEF Lost

LEMMA KeptIsRounded ==
    ASSUME NEW n \in Nat
    PROVE  Kept[n] = Lost(n) * HalfEven(n, Lost(n))
<1>1. PICK l \in Nat \ {0} : l = Lost(n)
  BY LostIs
<1>2. PICK h \in Nat : h = HalfEven(n, l)
  BY HalfEvenIs
<1>3. AbsValue(n) = n /\ Sign(n) = 1 /\ n \in Int
  BY DEF AbsValue, Sign
<1>4. Kept[n] = 1 * l * h
  BY <1>1, <1>2, <1>3 DEF Kept, Lost
<1> QED
  BY <1>1, <1>2, <1>4

LEMMA KeptRises ==
    ASSUME NEW n \in Nat, NEW m \in Nat, n <= m
    PROVE  Kept[n] <= Kept[m]
<1>1. PICK d \in Nat : d = Excess[n]
  BY ExcessBounds
<1>2. PICK e \in Nat : e = Excess[m]
  BY ExcessBounds
<1>3. d <= e
  BY <1>1, <1>2, ExcessRises
<1>4. PICK l \in Nat \ {0} : l = Lost(m)
  BY LostIs
<1>5. PICK h \in Nat : h = HalfEven(m, l)
  BY HalfEvenIs
<1>6. Kept[m] = l * h
  BY <1>4, <1>5, KeptIsRounded
<1>7. CASE d = e
  <2>1. Lost(n) = l
    BY <1>1, <1>2, <1>4, <1>7 DEF Lost
  <2>2. PICK g \in Nat : g = HalfEven(n, l)
    BY HalfEvenIs
  <2>3. g <= h
    BY <1>5, <2>2, HalfEvenRises
  <2>4. g * l <= h * l
    BY <2>3, TimesLess
  <2>5. Kept[n] = l * g
    BY <2>1, <2>2, KeptIsRounded
  <2> QED BY <1>6, <2>4, <2>5
<1>8. CASE d < e
  <2>1. PICK k \in Nat \ {0} : k = Lost(n)
    BY LostIs
  <2>2. TEN * k <= l
    BY <1>1, <1>2, <1>4, <1>8, <2>1, TenToRises DEF Lost
  <2>3. PICK p \in Nat : p = TenTo(PREC - 1)
    BY TenToIs, FixedPointAssumption
  <2>4. TenTo(PREC) = TEN * p
    <3>1. PICK j \in Nat : j = PREC - 1 /\ j + 1 = PREC
      BY FixedPointAssumption
    <3> QED BY <2>3, <3>1, TenToIs
  <2>5. PICK g \in Nat : g <= TEN * p /\ Kept[n] = k * g
    BY <2>1, <2>4, KeptIs
  <2>6. PICK t \in Nat : t = TEN
    BY TenToIs
  <2>7. k * g <= (k * t) * p
    <3>1. PICK u \in Nat : u = t * p
      OBVIOUS
    <3>2. g * k <= u * k
      BY <2>1, <2>5, <2>6, <3>1, TimesLess
    <3>3. u * k = (k * t) * p /\ g * k = k * g
      BY <3>1
    <3> QED BY <3>2, <3>3
  <2>8. (k * t) * p <= l * p
    <3>1. PICK u \in Nat : u = k * t
      OBVIOUS
    <3>2. u <= l
      BY <2>2, <2>6, <3>1
    <3>3. CASE p = 0
      BY <3>1, <3>3
    <3>4. CASE p > 0
      BY <3>1, <3>2, <3>4, TimesLess
    <3> QED BY <3>3, <3>4
  <2>9. l * p <= m
    BY <1>2, <1>4, <1>8, <1>1, <2>3, FirstDigits
  <2>10. p <= h
    BY <1>5, <2>9, HalfEvenAtLeast
  <2>11. l * p <= l * h
    BY <2>10
  <2>12. PICK u \in Nat : u = k * g
    OBVIOUS
  <2>13. PICK v \in Nat : v = (k * t) * p
    OBVIOUS
  <2>14. PICK w \in Nat : w = l * p
    OBVIOUS
  <2>15. PICK x \in Nat : x = l * h
    OBVIOUS
  <2> QED BY <1>6, <2>5, <2>7, <2>8, <2>11, <2>12, <2>13, <2>14, <2>15
<1> QED
  BY <1>3, <1>7, <1>8

LEMMA TruncatedRises ==
    ASSUME NEW n \in Nat, NEW m \in Nat, n <= m, NEW d \in Nat \ {0}
    PROVE  Truncated(n, d) <= Truncated(m, d)
<1>1. Truncated(n, d) = n \div d /\ Truncated(m, d) = m \div d
  <2>1. \A k \in Nat : AbsValue(k) = k /\ Sign(k) = 1
    BY DEF AbsValue, Sign
  <2>2. \A k \in Nat : k \div d \in Nat
    BY QuotientBounds
  <2> QED BY <2>1, <2>2 DEF Truncated
<1> QED
  BY <1>1, QuotientRises

(* A quotient with all the digits that are kept is rounded like a number,  *)
(* one with fewer is raised at most to the next integer.                   *)
LEMMA LargeQuotient ==
    ASSUME NEW n \in Nat, NEW d \in Nat \ {0}, NEW q \in Nat, q = n \div d,
           q >= TenTo(PREC - 1)
    PROVE  /\ SignificantQuotient(n, d) = Lost(q) * HalfEven(n, d * Lost(q))
           /\ Lost(q) * TenTo(PREC - 1) <= SignificantQuotient(n, d)
           /\ SignificantQuotient(n, d) <= Lost(q) * TenTo(PREC)
<1>1. PICK l \in Nat \ {0} : l = Lost(q)
  BY LostIs
<1>2. PICK a \in Nat \ {0} : a = TenTo(PREC - 1)
  BY TenToIs, FixedPointAssumption
<1>3. PICK b \in Nat : b = TenTo(PREC)
  BY TenToIs, FixedPointAssumption
<1>4. PICK c \in Nat \ {0} : c = d * l
  OBVIOUS
<1>5. PICK h \in Nat : h = HalfEven(n, c)
  BY HalfEvenIs
<1>6. SignificantQuotient(n, d) = l * h
  BY <1>1, <1>4, <1>5 DEF SignificantQuotient, Lost
<1>7. l * a <= q
  <2>1. CASE Excess[q] = 0
    <3>1. l = 1
      BY <1>1, <2>1, TenToIs DEF Lost
    <3> QED BY <1>2, <3>1
  <2>2. CASE Excess[q] # 0
    BY <1>1, <1>2, <2>2, FirstDigits
  <2> QED BY <2>1, <2>2
<1>8. q < l * b
  <2>1. PICK e \in Nat : e = Excess[q]
    BY ExcessBounds
  <2>2. TenTo(PREC + e) = b * l
    BY <1>1, <1>3, <2>1, TenToAdds, FixedPointAssumption DEF Lost
  <2>3. q < b * l
    BY <2>1, <2>2, ExcessBounds
  <2> QED BY <2>3
<1>9. c * a <= n
  <2>1. PICK u \in Nat : u = l * a
    OBVIOUS
  <2>2. d * q <= n
    BY QuotientBounds
  <2>3. u * d <= q * d
    BY <1>7, <2>1, TimesLess
  <2>4. u * d = c * a /\ q * d = d * q
    BY <1>4, <2>1
  <2>5. PICK v \in Nat : v = d * q
    OBVIOUS
  <2> QED BY <2>2, <2>3, <2>4, <2>5
<1>10. n <= c * b
  <2>1. PICK u \in Nat : u = l * b
    OBVIOUS
  <2>2. n < d * q + d
    BY QuotientBounds
  <2>3. (q + 1) * d <= u * d
    BY <1>8, <2>1, TimesLess
  <2>4. u * d = c * b /\ (q + 1) * d = d * q + d
    BY <1>4, <2>1
  <2>5. PICK v \in Nat : v = d * q
    OBVIOUS
  <2>6. PICK w \in Nat : w = c * b
    OBVIOUS
  <2> QED BY <2>2, <2>3, <2>4, <2>5, <2>6
<1>11. a <= h /\ h <= b
  BY <1>5, <1>9, <1>10, HalfEvenAtLeast, HalfEvenAtMost
<1>12. l * a <= l * h /\ l * h <= l * b
  BY <1>11
<1> QED
  BY <1>1, <1>2, <1>3, <1>4, <1>5, <1>6, <1>12

LEMMA SmallQuotient ==
    ASSUME NEW n \in Nat, NEW d \in Nat \ {0}, NEW q \in Nat, q = n \div d,
           ~(q >= TenTo(PREC - 1))
    PROVE  /\ SignificantQuotient(n, d)
                  = IF 2 * TenTo(Places[q]) * (d - (n % d)) <= d THEN q + 1 ELSE q
           /\ TenTo(Places[q]) \in Nat \ {0}
<1>1. q < TenTo(PREC)
  <2>1. PICK a \in Nat : a = TenTo(PREC - 1)
    BY TenToIs, FixedPointAssumption
  <2>2. PICK b \in Nat : b = TenTo(PREC)
    BY TenToIs, FixedPointAssumption
  <2>3. a <= b
    <3>1. PREC \in Nat /\ PREC - 1 \in Nat /\ PREC - 1 <= PREC
      BY FixedPointAssumption
    <3> QED BY <2>1, <2>2, <3>1, TenToRises
  <2> QED BY <2>1, <2>2, <2>3
<1> QED
  BY <1>1, PlacesExist, TenToIs DEF SignificantQuotient

LEMMA QuotientsRise ==
    ASSUME NEW n \in Nat, NEW m \in Nat, n <= m, NEW d \in Nat \ {0}
    PROVE  SignificantQuotient(n, d) <= SignificantQuotient(m, d)
<1>1. PICK q \in Nat : q = n \div d
  BY QuotientBounds
<1>2. PICK s \in Nat : s = m \div d
  BY QuotientBounds
<1>3. q <= s
  BY <1>1, <1>2, QuotientRises
<1>4. PICK a \in Nat \ {0} : a = TenTo(PREC - 1)
  BY TenToIs, FixedPointAssumption
<1>5. PICK x \in Nat : x = SignificantQuotient(n, d)
  BY SignificantQuotientIsNat
<1>6. PICK y \in Nat : y = SignificantQuotient(m, d)
  BY SignificantQuotientIsNat
<1>7. PICK k \in Nat \ {0} : k = Lost(q)
  BY LostIs
<1>8. PICK l \in Nat \ {0} : l = Lost(s)
  BY LostIs
<1>9. CASE s < a
  <2>1. /\ x = IF 2 * TenTo(Places[q]) * (d - (n % d)) <= d THEN q + 1 ELSE q
        /\ y = IF 2 * TenTo(Places[s]) * (d - (m % d)) <= d THEN s + 1 ELSE s
        /\ TenTo(Places[q]) \in Nat \ {0}
    <3>1. ~(q >= TenTo(PREC - 1)) /\ ~(s >= TenTo(PREC - 1))
      BY <1>3, <1>4, <1>9
    <3>2. /\ x = IF 2 * TenTo(Places[q]) * (d - (n % d)) <= d THEN q + 1 ELSE q
          /\ TenTo(Places[q]) \in Nat \ {0}
      BY <1>1, <1>5, <3>1, SmallQuotient
    <3>3. y = IF 2 * TenTo(Places[s]) * (d - (m % d)) <= d THEN s + 1 ELSE s
      BY <1>2, <1>6, <3>1, SmallQuotient
    <3> QED BY <3>2, <3>3
  <2>2. CASE q < s
    <3>1. x <= q + 1 /\ s <= y
      BY <2>1
    <3>2. x <= y
      BY <2>2, <3>1
    <3> QED BY <1>5, <1>6, <3>2
  <2>3. CASE q = s
    <3>1. PICK t \in Nat \ {0} : t = TenTo(Places[q])
      BY <2>1
    <3>2. PICK b \in Nat : b = d - (n % d)
      OBVIOUS
    <3>3. PICK c \in Nat : c = d - (m % d)
      OBVIOUS
    <3>4. c <= b
      <4>1. n = d * q + (n % d) /\ m = d * q + (m % d)
        BY <1>1, <1>2, <2>3
      <4>2. PICK u \in Nat : u = d * q
        OBVIOUS
      <4> QED BY <3>2, <3>3, <4>1, <4>2
    <3>5. 2 * t * c <= 2 * t * b
      BY <3>4
    <3>6. PICK u \in Nat : u = 2 * t * b
      OBVIOUS
    <3>7. PICK v \in Nat : v = 2 * t * c
      OBVIOUS
    <3>8. x = (IF u <= d THEN q + 1 ELSE q) /\ y = (IF v <= d THEN q + 1 ELSE q)
      BY <2>1, <2>3, <3>1, <3>2, <3>3, <3>6, <3>7
    <3>9. v <= u
      BY <3>5, <3>6, <3>7
    <3>10. x <= y
      BY <3>8, <3>9
    <3> QED BY <1>5, <1>6, <3>10
  <2> QED BY <1>3, <1>5, <1>6, <2>2, <2>3
<1>10. CASE q < a /\ a <= s
  <2>1. x <= q + 1
    <3>1. ~(q >= TenTo(PREC - 1))
      BY <1>4, <1>10
    <3>2. x = q + 1 \/ x = q
      BY <1>1, <1>5, <3>1, SmallQuotient
    <3> QED BY <3>2
  <2>2. l * a <= y
    BY <1>2, <1>4, <1>6, <1>8, <1>10, LargeQuotient
  <2>3. a <= l * a
    OBVIOUS
  <2>4. PICK u \in Nat : u = l * a
    OBVIOUS
  <2> QED BY <1>5, <1>6, <1>10, <2>1, <2>2, <2>3, <2>4
<1>11. CASE a <= q /\ Excess[q] = Excess[s]
  <2>1. k = l
    BY <1>7, <1>8, <1>11 DEF Lost
  <2>2. PICK c \in Nat \ {0} : c = d * k
    OBVIOUS
  <2>3. PICK g \in Nat : g = HalfEven(n, c)
    BY HalfEvenIs
  <2>4. PICK h \in Nat : h = HalfEven(m, c)
    BY HalfEvenIs
  <2>5. x = k * g /\ y = k * h
    <3>1. s >= a
      BY <1>3, <1>11
    <3> QED BY <1>1, <1>2, <1>4, <1>5, <1>6, <1>7, <1>8, <1>11, <2>1, <2>2, <2>3, <2>4, <3>1, LargeQuotient
  <2>6. g * k <= h * k
    BY <2>3, <2>4, HalfEvenRises, TimesLess
  <2> QED BY <1>5, <1>6, <2>5, <2>6
<1>12. CASE a <= q /\ Excess[q] # Excess[s]
  <2>1. PICK b \in Nat : b = TenTo(PREC)
    BY TenToIs, FixedPointAssumption
  <2>2. x <= k * b /\ l * a <= y
    <3>1. s >= a
      BY <1>3, <1>12
    <3> QED BY <1>1, <1>2, <1>4, <1>5, <1>6, <1>7, <1>8, <1>12, <2>1, <3>1, LargeQuotient
  <2>3. TEN * k <= l
    <3>1. Excess[q] \in Nat /\ Excess[s] \in Nat /\ Excess[q] <= Excess[s]
      BY <1>3, ExcessBounds, ExcessRises
    <3>2. Excess[q] < Excess[s]
      BY <1>12, <3>1
    <3> QED BY <1>7, <1>8, <3>1, <3>2, TenToRises DEF Lost
  <2>4. PICK t \in Nat : t = TEN
    BY TenToIs
  <2>5. b = t * a
    <3>1. PICK j \in Nat : j = PREC - 1 /\ j + 1 = PREC
      BY FixedPointAssumption
    <3> QED BY <1>4, <2>1, <2>4, <3>1, TenToIs
  <2>6. PICK u \in Nat : u = t * k
    OBVIOUS
  <2>7. u * a <= l * a
    BY <2>3, <2>4, <2>6, TimesLess
  <2>8. u * a = k * b
    BY <2>5, <2>6
  <2>9. PICK v \in Nat : v = k * b
    OBVIOUS
  <2>10. PICK w \in Nat : w = l * a
    OBVIOUS
  <2> QED BY <1>5, <1>6, <2>2, <2>7, <2>8, <2>9, <2>10
<1>13. s < a \/ (q < a /\ a <= s) \/ a <= q
  BY <1>3, <1>4
<1> QED
  BY <1>9, <1>10, <1>11, <1>12, <1>13

(* The amount of pay_token for an amount of buy_token. *)
LEMMA SellShareIs ==
    ASSUME NEW o, o.pay \in Nat, o.buy \in Nat \ {0}, NEW amount \in Nat
    PROVE  \E k, w, n \in Nat :
               /\ k = Kept[amount * o.pay] /\ w = Truncated(k, WAD) /\ n = Kept[w * WAD]
               /\ SellShare(o, amount) = SignificantQuotient(n, o.buy)
<1>1. amount * o.pay \in Nat /\ WAD \in Nat \ {0}
  BY UnitsAre
<1>2. PICK k \in Nat : k = Kept[amount * o.pay]
  BY <1>1, KeptIs
<1>3. PICK w \in Nat : w = Truncated(k, WAD)
  BY <1>1, <1>2, TruncatedIs
<1>4. w * WAD \in Nat
  BY <1>1
<1>5. PICK n \in Nat : n = Kept[w * WAD]
  BY <1>4, KeptIs
<1>6. PICK s \in Nat : s = SignificantQuotient(n, o.buy)
  BY <1>5, SignificantQuotientIsNat
<1>7. WadMul(amount, o.pay, WAD) = w
  BY <1>2, <1>3 DEF WadMul, Product, Significant
<1>8. WadDiv(w, o.buy) = s
  <2>1. AbsValue(o.buy) = o.buy /\ Sign(o.buy) = 1 /\ AbsValue(w * WAD) = w * WAD /\ Sign(w) = 1
        /\ AbsValue(w) = w
    BY <1>4, SizesAre
  <2>2. WadDiv(w, o.buy) = 1 * 1 * s
    BY <1>5, <1>6, <2>1 DEF WadDiv, Quotient, Significant
  <2> QED BY <2>2
<1>9. ShareOf[<<w, o.buy>>] = WadDiv(w, o.buy)
  BY DEF ShareOf
<1>10. SellShare(o, amount) = s
  BY <1>7, <1>8, <1>9 DEF SellShare
<1> QED
  BY <1>2, <1>3, <1>5, <1>6, <1>10

LEMMA SellShareIsNat ==
    ASSUME NEW o, o.pay \in Nat, o.buy \in Nat \ {0}, NEW amount \in Nat
    PROVE  SellShare(o, amount) \in Nat
<1>1. PICK n \in Nat : SellShare(o, amount) = SignificantQuotient(n, o.buy)
  BY SellShareIs
<1> QED
  BY <1>1, SignificantQuotientIsNat

LEMMA SellShareRises ==
    ASSUME NEW o, o.pay \in Nat, o.buy \in Nat \ {0}, NEW x \in Nat, NEW y \in Nat, x <= y
    PROVE  SellShare(o, x) <= SellShare(o, y)
<1>1. PICK k1, w1, n1 \in Nat :
               /\ k1 = Kept[x * o.pay] /\ w1 = Truncated(k1, WAD) /\ n1 = Kept[w1 * WAD]
               /\ SellShare(o, x) = SignificantQuotient(n1, o.buy)
  BY SellShareIs
<1>2. PICK k2, w2, n2 \in Nat :
               /\ k2 = Kept[y * o.pay] /\ w2 = Truncated(k2, WAD) /\ n2 = Kept[w2 * WAD]
               /\ SellShare(o, y) = SignificantQuotient(n2, o.buy)
  BY SellShareIs
<1>3. PICK one \in Nat \ {0} : one = WAD
  BY UnitsAre
<1>4. PICK p \in Nat : p = o.pay
  OBVIOUS
<1>5. x * p <= y * p
  <2>1. CASE p = 0
    BY <2>1
  <2>2. CASE p > 0
    BY <2>2, TimesLess
  <2> QED BY <2>1, <2>2
<1>6. x * p \in Nat /\ y * p \in Nat
  OBVIOUS
<1>7. k1 <= k2
  BY <1>1, <1>2, <1>4, <1>5, <1>6, KeptRises
<1>8. w1 <= w2
  BY <1>1, <1>2, <1>3, <1>7, TruncatedRises
<1>9. w1 * one <= w2 * one /\ w1 * one \in Nat /\ w2 * one \in Nat
  BY <1>8, TimesLess
<1>10. n1 <= n2
  BY <1>1, <1>2, <1>3, <1>9, KeptRises
<1> QED
  BY <1>1, <1>2, <1>10, QuotientsRise

LEMMA PlacesOfSmall ==
    ASSUME NEW q \in Nat, q < TenTo(PREC - 1)
    PROVE  /\ TenTo(Places[q]) \in Nat /\ TenTo(Places[q]) >= 2
           /\ IF q = 0 THEN TenTo(Places[q]) = TenTo(PREC)
              ELSE TenTo(Places[q]) * q >= TenTo(PREC - 1)
<1> DEFINE Holds(k) == q < TenTo(PREC - k) /\ (k = PREC \/ q >= TenTo(PREC - k - 1))
           S == {j \in Nat : j <= PREC /\ q < TenTo(j)}
<1>0. PREC \in Nat /\ PREC - 1 \in Nat /\ PREC - 1 <= PREC
  BY FixedPointAssumption
<1>1. PREC - 1 \in S
  BY <1>0
<1>2. PICK j \in S : \A i \in S : j <= i
  <2>1. S \subseteq Nat
    OBVIOUS
  <2> HIDE DEF S
  <2> QED BY <1>1, <2>1, LeastOf
<1>3. PICK k \in 0 .. PREC : k = PREC - j
  BY <1>0, <1>2
<1>4. PREC - k = j /\ j \in Nat
  BY <1>0, <1>2, <1>3
<1>5. k = PREC \/ q >= TenTo(PREC - k - 1)
  <2>1. SUFFICES ASSUME j # 0 PROVE q >= TenTo(j - 1)
    BY <1>0, <1>3, <1>4
  <2>2. j - 1 \in Nat /\ j - 1 <= PREC /\ ~(j <= j - 1)
    BY <1>0, <1>2, <2>1
  <2>3. j - 1 \notin S
    BY <1>2, <2>2
  <2>4. TenTo(j - 1) \in Nat
    BY <2>2, TenToIs
  <2> QED BY <2>2, <2>3, <2>4
<1>6. Holds(k)
  BY <1>2, <1>4, <1>5
<1>7. Places[q] = CHOOSE i \in 0 .. PREC : Holds(i)
  BY DEF Places
<1>8. PICK p : p = Places[q]
  OBVIOUS
<1>9. p \in 0 .. PREC /\ Holds(p)
  <2> HIDE DEF Holds
  <2> QED BY <1>6, <1>7, <1>8
<1>10. p # 0
  <2>1. SUFFICES ASSUME p = 0 PROVE FALSE
    OBVIOUS
  <2>2. q >= TenTo(PREC - 0 - 1) /\ PREC - 0 - 1 = PREC - 1
    BY <1>0, <1>9, <2>1, FixedPointAssumption
  <2>3. TenTo(PREC - 1) \in Nat
    BY <1>0, TenToIs
  <2> QED BY <2>2, <2>3
<1>11. PICK i \in Nat : i + 1 = p
  <2>1. p - 1 \in Nat /\ (p - 1) + 1 = p
    BY <1>0, <1>9, <1>10
  <2> QED BY <2>1
<1>12. PICK t \in Nat \ {0} : t = TenTo(i)
  BY TenToIs
<1>13. TenTo(p) = TEN * t /\ TEN \in Nat /\ TEN >= 2
  BY <1>11, <1>12, TenToIs
<1>14. TEN * t \in Nat /\ TEN * t >= 2
  <2>1. PICK a \in Nat : TEN = a + 2
    <3>1. TEN - 2 \in Nat /\ TEN = (TEN - 2) + 2
      BY <1>13
    <3> QED BY <3>1
  <2>2. TEN * t = a * t + 2 * t /\ a * t \in Nat
    BY <2>1
  <2> QED BY <2>2
<1>15. CASE p = PREC
  <2>1. q < TenTo(PREC - PREC) /\ PREC - PREC = 0
    BY <1>0, <1>9, <1>15
  <2>2. q = 0
    BY <2>1, TenToIs
  <2> QED BY <1>8, <1>13, <1>14, <1>15, <2>2
<1>16. CASE p # PREC
  <2>1. PICK m \in Nat : m = PREC - p - 1
    <3>1. PREC - p - 1 \in Nat
      BY <1>0, <1>9, <1>16
    <3> QED BY <3>1
  <2>2. PICK x \in Nat \ {0} : x = TenTo(m)
    BY TenToIs
  <2>3. q >= x
    BY <1>9, <1>16, <2>1, <2>2
  <2>4. TenTo(PREC - 1) = TenTo(p) * x
    <3>1. PREC - 1 = p + m /\ p \in Nat
      BY <1>0, <1>9, <2>1
    <3> QED BY <2>2, <3>1, TenToAdds
  <2>5. PICK y \in Nat : y = TenTo(p)
    BY <1>13, <1>14
  <2>6. x * y <= q * y
    BY <2>3, TimesLess
  <2>7. y * q >= y * x
    BY <2>6
  <2> QED BY <1>8, <1>13, <1>14, <2>2, <2>3, <2>4, <2>5, <2>7
<1> QED
  BY <1>15, <1>16

(* The share of the whole is no more than the whole, unless it has as many *)
(* digits as are kept.                                                     *)
LEMMA WholeShare ==
    ASSUME NEW o, o.pay \in Nat \ {0}, o.buy \in Nat \ {0}, o.pay < TenTo(PREC - 1)
    PROVE  SellShare(o, o.buy) <= o.pay
<1>1. PICK p \in Nat \ {0} : p = o.pay
  OBVIOUS
<1>2. PICK b \in Nat \ {0} : b = o.buy
  OBVIOUS
<1>3. PICK k, w, n \in Nat :
               /\ k = Kept[b * p] /\ w = Truncated(k, WAD) /\ n = Kept[w * WAD]
               /\ SellShare(o, b) = SignificantQuotient(n, b)
  <2>1. PICK k, w, n \in Nat :
               /\ k = Kept[o.buy * o.pay] /\ w = Truncated(k, WAD) /\ n = Kept[w * WAD]
               /\ SellShare(o, o.buy) = SignificantQuotient(n, o.buy)
    BY SellShareIs
  <2> QED BY <1>1, <1>2, <2>1
<1>4. PICK x \in Nat : x = b * p
  OBVIOUS
<1>5. n <= k
  <2>1. PICK one \in Nat \ {0} : one = WAD
    BY UnitsAre
  <2>2. one * w <= k
    BY <1>3, <2>1, TruncatedIs
  <2>3. w * one <= k /\ w * one \in Nat
    BY <2>2
  <2>4. PICK e \in Nat : e = Excess[x]
    BY ExcessBounds
  <2>5. PICK h \in Nat : h <= TenTo(PREC) /\ k = Lost(x) * h
    BY <1>3, <1>4, KeptIs
  <2>6. Kept[k] = k
    BY <2>4, <2>5, KeptAgain DEF Lost
  <2> QED BY <1>3, <2>1, <2>3, <2>6, KeptRises
<1>6. 2 * k <= 2 * x + b
  <2>1. PICK l \in Nat \ {0} : l = Lost(x)
    BY LostIs
  <2>2. 2 * (k - x) <= l
    BY <1>3, <1>4, <2>1, KeptIs
  <2>3. CASE Excess[x] = 0
    <3>1. x = Lost(x) * x
      BY <2>3, TenToIs DEF Lost
    <3>2. k = x
      BY <1>3, <1>4, <3>1, KeptIs
    <3> QED BY <3>2
  <2>4. CASE Excess[x] # 0
    <3>1. PICK a \in Nat : a = TenTo(PREC - 1)
      BY TenToIs, FixedPointAssumption
    <3>2. l * a <= x
      BY <2>1, <2>4, <3>1, FirstDigits
    <3>3. p < a
      BY <1>1, <3>1
    <3>4. l <= b
      <4>1. SUFFICES ASSUME b < l PROVE FALSE
        OBVIOUS
      <4>2. p * l < a * l
        BY <3>3, TimesLess
      <4>3. b * p < l * p
        BY <4>1, TimesLess
      <4>4. l * p = p * l /\ a * l = l * a
        OBVIOUS
      <4>5. PICK u \in Nat : u = p * l
        OBVIOUS
      <4>6. PICK v \in Nat : v = l * a
        OBVIOUS
      <4> QED BY <1>4, <3>2, <4>2, <4>3, <4>4, <4>5, <4>6
    <3> QED BY <2>2, <3>4
  <2> QED BY <2>3, <2>4
<1>7. PICK s \in Nat : s = SignificantQuotient(k, b)
  BY SignificantQuotientIsNat
<1>8. s <= p
  <2>1. PICK q \in Nat : q = k \div b
    BY QuotientBounds
  <2>2. PICK r \in Nat : r = k % b
    OBVIOUS
  <2>3. k = b * q + r /\ r < b
    BY <2>1, <2>2
  <2>4. q <= p
    <3>1. SUFFICES ASSUME p + 1 <= q PROVE FALSE
      OBVIOUS
    <3>2. b * (p + 1) <= b * q /\ b * (p + 1) = b * p + b
      BY <3>1
    <3>3. PICK u \in Nat : u = b * q
      OBVIOUS
    <3> QED BY <1>4, <1>6, <2>3, <3>2, <3>3
  <2>5. PICK a \in Nat : a = TenTo(PREC - 1)
    BY TenToIs, FixedPointAssumption
  <2>6. q < a /\ ~(q >= TenTo(PREC - 1))
    BY <1>1, <2>4, <2>5
  <2>7. PICK t \in Nat : t = TenTo(Places[q]) /\ t >= 2
    BY <2>5, <2>6, PlacesOfSmall
  <2>8. s = IF 2 * t * (b - r) <= b THEN q + 1 ELSE q
    BY <1>7, <2>1, <2>2, <2>6, <2>7, SmallQuotient
  <2>9. CASE q < p
    BY <2>8, <2>9
  <2>10. CASE q = p
    <3>1. 2 * r <= b
      BY <1>4, <1>6, <2>3, <2>10
    <3>2. PICK d \in Nat : d = b - r
      BY <2>3
    <3>3. 2 * d >= b /\ d > 0
      BY <2>3, <3>1, <3>2
    <3>4. PICK c \in Nat : t = c + 2
      <4>1. t - 2 \in Nat /\ t = (t - 2) + 2
        BY <2>7
      <4> QED BY <4>1
    <3>5. 2 * t * d = 2 * (c * d) + 4 * d /\ c * d \in Nat
      BY <3>4
    <3>6. PICK u \in Nat : u = c * d
      OBVIOUS
    <3>7. ~(2 * t * d <= b)
      BY <3>3, <3>5, <3>6
    <3> QED BY <2>8, <2>10, <3>2, <3>7
  <2> QED BY <2>4, <2>9, <2>10
<1>9. SellShare(o, b) \in Nat /\ SellShare(o, b) <= s
  BY <1>3, <1>5, <1>7, QuotientsRise, SignificantQuotientIsNat
<1> QED
  BY <1>1, <1>2, <1>8, <1>9

-----------------------------------------------------------------------------
(* What remains of an order. *)

(* What remains to be sold goes by the amount that the contract calls      *)
(* unavailable, with a floor except at EtherDelta.                         *)
WhatIsLeftToSell(o) ==
    OffChainInv /\ venue # "none" =>
        /\ Unavailable(o) =
               IF venue # "ZrxExchangeV2" THEN o.buy - Available(HashFields(o))
               ELSE IF Expired(HashFields(o)) \/ Available(HashFields(o)) = 0 THEN o.buy
               ELSE Entry(HashFields(o)).filled
        /\ Unavailable(o) \in 0 .. o.buy
        /\ Available(HashFields(o)) \in 0 .. o.buy /\ Entry(HashFields(o)).filled \in 0 .. o.buy
        /\ RemainingSell(o) = IF venue = "EtherDelta" THEN o.pay - SellShare(o, Unavailable(o))
                              ELSE SellWithGuard(o, Unavailable(o))

LEMMA WhatIsLeft == ASSUME NEW o \in SignedOrder PROVE WhatIsLeftToSell(o)
<1>1. SUFFICES ASSUME OffChainInv, venue # "none"
               PROVE  /\ Unavailable(o) =
                             IF venue # "ZrxExchangeV2" THEN o.buy - Available(HashFields(o))
                             ELSE IF Expired(HashFields(o)) \/ Available(HashFields(o)) = 0 THEN o.buy
                             ELSE Entry(HashFields(o)).filled
                      /\ Unavailable(o) \in 0 .. o.buy
                      /\ Available(HashFields(o)) \in 0 .. o.buy
                      /\ Entry(HashFields(o)).filled \in 0 .. o.buy
                      /\ RemainingSell(o) =
                             IF venue = "EtherDelta" THEN o.pay - SellShare(o, Unavailable(o))
                             ELSE SellWithGuard(o, Unavailable(o))
  BY DEF WhatIsLeftToSell
<1>2. PICK h \in Hash : h = HashFields(o) /\ h.buy = o.buy
  BY HashType
<1>3. PICK b \in Nat : b = o.buy
  BY <1>1, WhatRemains
<1>4. /\ Available(h) \in 0 .. b
      /\ venue \in {"EtherDelta", "ZrxExchange", "ZrxExchangeV2"}
  BY <1>1, <1>2, <1>3, WhatRemains
<1>5. Entry(h).filled \in 0 .. b
  BY <1>1, <1>2, <1>3 DEF OffChainInv, LedgerOK, Booked
<1>6. Unavailable(o) = IF venue # "ZrxExchangeV2" THEN b - Available(h)
                       ELSE IF Expired(h) \/ Available(h) = 0 THEN b ELSE Entry(h).filled
  BY <1>2, <1>3, <1>4 DEF Unavailable, UnavailableV1, UnavailableV2, AmountFilled
<1>7. Unavailable(o) \in 0 .. b
  <2>1. b - Available(h) \in 0 .. b /\ b \in 0 .. b
    BY <1>4
  <2> QED BY <1>5, <1>6, <2>1
<1>8. RemainingSell(o) = IF venue = "EtherDelta" THEN o.pay - SellShare(o, Unavailable(o))
                         ELSE SellWithGuard(o, Unavailable(o))
  <2>1. CASE venue = "EtherDelta"
    BY <2>1 DEF RemainingSell, RemainingSellEtherDelta, Unavailable, UnavailableV1
  <2>2. CASE venue = "ZrxExchange"
    BY <2>2 DEF RemainingSell, RemainingSellV1, Unavailable
  <2>3. CASE venue = "ZrxExchangeV2"
    BY <2>3 DEF RemainingSell, RemainingSellV2, Unavailable
  <2> QED BY <1>4, <2>1, <2>2, <2>3
<1> QED
  BY <1>2, <1>3, <1>4, <1>5, <1>6, <1>7, <1>8

LEMMA WhatIsLeftThroughout == (\A o \in SignedOrder : WhatIsLeftToSell(o))
                              /\ (\A o \in SignedOrder : WhatIsLeftToSell(o))'
<1>1. \A o \in SignedOrder : WhatIsLeftToSell(o)
  BY WhatIsLeft
<1>2. (\A o \in SignedOrder : WhatIsLeftToSell(o))'
  BY <1>1, PTL
<1> QED BY <1>1, <1>2

LEMMA OrderIsChosen ==
    ASSUME OffChainInv, NEW i \in DOMAIN orders
    PROVE  orders[i] \in SignedOrder /\ venue # "none"
<1>1. orders[i] \in SignedOrder
  BY ThreadFacts
<1>2. SUFFICES ASSUME venue = "none" PROVE FALSE
  BY <1>1
<1>3. DOMAIN orders = {}
  BY <1>2 DEF OffChainInv, OffChainTypeOK
<1> QED BY <1>3

LEMMA OrderAmountsAre ==
    ASSUME NEW o \in SignedOrder
    PROVE  o.pay \in Nat \ {0} /\ o.buy \in Nat \ {0}
BY BuysAreAmounts DEF SignedOrder

(* The guarded remainder is between nothing and the whole, and shrinks.    *)
LEMMA SellWithGuardIs ==
    ASSUME NEW o \in SignedOrder, NEW x \in Nat, NEW y \in Nat, x <= y
    PROVE  SellWithGuard(o, x) \in 0 .. o.pay /\ SellWithGuard(o, y) <= SellWithGuard(o, x)
<1>1. o.pay \in Nat \ {0} /\ o.buy \in Nat \ {0}
  BY OrderAmountsAre
<1>2. PICK s \in Nat : s = SellShare(o, x)
  BY <1>1, SellShareIsNat
<1>3. PICK t \in Nat : t = SellShare(o, y)
  BY <1>1, SellShareIsNat
<1>4. s <= t
  BY <1>1, <1>2, <1>3, SellShareRises
<1>5. SellWithGuard(o, x) = IF x >= o.buy THEN 0 ELSE IF o.pay - s > 0 THEN o.pay - s ELSE 0
  BY <1>2 DEF SellWithGuard, Larger
<1>6. SellWithGuard(o, y) = IF y >= o.buy THEN 0 ELSE IF o.pay - t > 0 THEN o.pay - t ELSE 0
  BY <1>3 DEF SellWithGuard, Larger
<1> QED
  BY <1>1, <1>4, <1>5, <1>6

LEMMA SellSideIsSane ==
    ASSUME NEW o \in SignedOrder, NEW u \in 0 .. o.buy
    PROVE  /\ SellWithGuard(o, u) \in 0 .. o.pay
           /\ o.pay < TenTo(PREC - 1) => o.pay - SellShare(o, u) \in 0 .. o.pay
<1>1. o.pay \in Nat \ {0} /\ o.buy \in Nat \ {0}
  BY OrderAmountsAre
<1>2. u \in Nat /\ u <= o.buy
  BY <1>1
<1>3. SellWithGuard(o, u) \in 0 .. o.pay
  BY <1>2, SellWithGuardIs
<1>4. ASSUME o.pay < TenTo(PREC - 1) PROVE o.pay - SellShare(o, u) \in 0 .. o.pay
  <2>1. PICK s \in Nat : s = SellShare(o, u)
    BY <1>1, <1>2, SellShareIsNat
  <2>2. PICK t \in Nat : t = SellShare(o, o.buy)
    BY <1>1, SellShareIsNat
  <2>3. s <= t
    BY <1>1, <1>2, <2>1, <2>2, SellShareRises
  <2>4. t <= o.pay
    BY <1>1, <1>4, <2>2, WholeShare
  <2> QED BY <1>1, <2>1, <2>3, <2>4
<1> QED
  BY <1>3, <1>4

(* Whatever an order's amounts, its fills and its cancellations: what      *)
(* remains of it is between nothing and the whole on either side, nothing  *)
(* remains to be bought after a cancellation, and with 0x nothing is left  *)
(* to sell once nothing is left to buy (zrx.py:91-103, 498,                *)
(* zrxv2.py:143-155, 565, etherdelta.py:90-92).                            *)
THEOREM RemainsAreSane == OffChainSpec => []RemainingIsSane
<1>1. OffChainInit => OffChainInv
  BY OffChainStarts
<1>2. OffChainInv /\ [OffChainNext]_offChainVars => OffChainInv'
  BY OffChainStep
<1>3. OffChainInv => RemainingIsSane
  <2>1. SUFFICES ASSUME OffChainInv, NEW i \in DOMAIN orders, NEW o, o = orders[i]
                 PROVE  /\ RemainingBuy(o) \in 0 .. o.buy
                        /\ venue # "EtherDelta" \/ o.pay < TenTo(PREC - 1)
                              => RemainingSell(o) \in 0 .. o.pay
                        /\ venue # "EtherDelta" /\ RemainingBuy(o) = 0 => RemainingSell(o) = 0
                        /\ Entry(HashFields(o)).cancelled > 0 => RemainingBuy(o) = 0
    BY DEF RemainingIsSane
  <2>2. o \in SignedOrder /\ venue # "none"
    BY <2>1, OrderIsChosen
  <2>3. /\ RemainingBuy(o) = IF venue = "ZrxExchangeV2" /\ Expired(HashFields(o)) THEN 0
                             ELSE Available(HashFields(o))
        /\ Available(HashFields(o)) \in 0 .. o.buy /\ o.buy \in Nat
        /\ venue \in {"EtherDelta", "ZrxExchange", "ZrxExchangeV2"}
    BY <2>1, <2>2, WhatRemains
  <2>4. /\ Unavailable(o) =
               IF venue # "ZrxExchangeV2" THEN o.buy - Available(HashFields(o))
               ELSE IF Expired(HashFields(o)) \/ Available(HashFields(o)) = 0 THEN o.buy
               ELSE Entry(HashFields(o)).filled
        /\ Unavailable(o) \in 0 .. o.buy
        /\ RemainingSell(o) = IF venue = "EtherDelta" THEN o.pay - SellShare(o, Unavailable(o))
                              ELSE SellWithGuard(o, Unavailable(o))
    BY <2>1, <2>2, WhatIsLeft DEF WhatIsLeftToSell
  <2>5. RemainingBuy(o) \in 0 .. o.buy
    BY <2>3
  <2>6. ASSUME venue # "EtherDelta" \/ o.pay < TenTo(PREC - 1)
        PROVE  RemainingSell(o) \in 0 .. o.pay
    BY <2>2, <2>4, <2>6, SellSideIsSane
  <2>7. ASSUME venue # "EtherDelta", RemainingBuy(o) = 0 PROVE RemainingSell(o) = 0
    <3>1. Unavailable(o) = o.buy
      BY <2>3, <2>4, <2>7
    <3>2. RemainingSell(o) = SellWithGuard(o, o.buy)
      BY <2>4, <2>7, <3>1
    <3> QED BY <2>3, <3>2 DEF SellWithGuard
  <2>8. ASSUME Entry(HashFields(o)).cancelled > 0 PROVE RemainingBuy(o) = 0
    <3>1. PICK h \in Hash : h = HashFields(o)
      BY <2>2, HashType
    <3>2. Booked(h, Entry(h)) /\ h.buy \in Nat
      BY <2>1, BuysAreAmounts DEF OffChainInv, LedgerOK, Hash
    <3>3. Available(h) = 0
      BY <2>8, <3>1, <3>2 DEF Booked, Available
    <3> QED BY <2>3, <3>1, <3>3
  <2> QED BY <2>5, <2>6, <2>7, <2>8
<1> QED
  BY <1>1, <1>2, <1>3, PTL DEF OffChainSpec

(* No fill, cancellation or expiration makes any of what is to be bought   *)
(* or sold come back, however the shares are rounded (zrxv2.py:494-517).   *)
THEOREM RemainsShrink == OffChainSpec => RemainingShrinks
<1>1. OffChainInit => OffChainInv
  BY OffChainStarts
<1>2. OffChainInv /\ [OffChainNext]_offChainVars => OffChainInv'
  BY OffChainStep
<1>3. OffChainInv /\ [OffChainNext]_offChainVars
          => [ledger' # ledger \/ now' # now =>
                 \A i \in DOMAIN orders :
                     /\ RemainingBuy(orders[i])' <= RemainingBuy(orders[i])
                     /\ RemainingSell(orders[i])' <= RemainingSell(orders[i])]_offChainVars
  <2>1. SUFFICES ASSUME OffChainInv, [OffChainNext]_offChainVars, ledger' # ledger \/ now' # now,
                        NEW i \in DOMAIN orders
                 PROVE  /\ RemainingBuy(orders[i])' <= RemainingBuy(orders[i])
                        /\ RemainingSell(orders[i])' <= RemainingSell(orders[i])
    OBVIOUS
  <2>2. /\ OffChainInv' /\ orders' = orders /\ venue' = venue /\ now' \in Nat /\ now' >= now
        /\ \A h \in Hash : Available(h)' <= Available(h) /\ Entry(h)'.filled >= Entry(h).filled
    BY <2>1, OffChainStep DEF Ebbs
  <2>3. orders[i] \in SignedOrder /\ venue # "none" /\ now \in Nat
    BY <2>1, OrderIsChosen DEF OffChainInv, OffChainTypeOK
  <2>4. PICK o \in SignedOrder : o = orders[i] /\ o = orders'[i]
    BY <2>2, <2>3
  <2>5. PICK h \in Hash : h = HashFields(o) /\ h.expiration \in Nat
    BY HashType DEF Hash
  <2>6. /\ RemainingBuy(o) = IF venue = "ZrxExchangeV2" /\ Expired(h) THEN 0 ELSE Available(h)
        /\ Available(h) \in 0 .. o.buy /\ o.buy \in Nat
    BY <2>1, <2>3, <2>5, WhatRemains
  <2>7. /\ Unavailable(o) = IF venue # "ZrxExchangeV2" THEN o.buy - Available(h)
                            ELSE IF Expired(h) \/ Available(h) = 0 THEN o.buy
                            ELSE Entry(h).filled
        /\ Unavailable(o) \in 0 .. o.buy /\ Entry(h).filled \in 0 .. o.buy
        /\ RemainingSell(o) = IF venue = "EtherDelta" THEN o.pay - SellShare(o, Unavailable(o))
                              ELSE SellWithGuard(o, Unavailable(o))
    BY <2>1, <2>3, <2>5, WhatIsLeft DEF WhatIsLeftToSell
  <2>8. (OffChainInv /\ o \in SignedOrder /\ venue # "none")'
    BY <2>2, <2>3
  <2>9. (HashFields(o) = h)'
    BY <2>5
  <2>10. /\ RemainingBuy(o)' = IF venue = "ZrxExchangeV2" /\ Expired(h)' THEN 0 ELSE Available(h)'
         /\ Available(h)' \in 0 .. o.buy
    <3>1. (/\ RemainingBuy(o) = IF venue = "ZrxExchangeV2" /\ Expired(HashFields(o)) THEN 0
                                ELSE Available(HashFields(o))
           /\ Available(HashFields(o)) \in 0 .. o.buy)'
      BY <2>8, WhatRemainsThroughout DEF WhatRemainsIs
    <3> QED BY <2>2, <2>9, <3>1
  <2>11. /\ Unavailable(o)' = IF venue # "ZrxExchangeV2" THEN o.buy - Available(h)'
                              ELSE IF Expired(h)' \/ Available(h)' = 0 THEN o.buy
                              ELSE Entry(h)'.filled
         /\ Unavailable(o)' \in 0 .. o.buy /\ Entry(h)'.filled \in 0 .. o.buy
         /\ RemainingSell(o)' = IF venue = "EtherDelta" THEN o.pay - SellShare(o, Unavailable(o)')
                                ELSE SellWithGuard(o, Unavailable(o)')
    <3>1. (/\ Unavailable(o) =
                  IF venue # "ZrxExchangeV2" THEN o.buy - Available(HashFields(o))
                  ELSE IF Expired(HashFields(o)) \/ Available(HashFields(o)) = 0 THEN o.buy
                  ELSE Entry(HashFields(o)).filled
           /\ Unavailable(o) \in 0 .. o.buy
           /\ Entry(HashFields(o)).filled \in 0 .. o.buy
           /\ RemainingSell(o) = IF venue = "EtherDelta" THEN o.pay - SellShare(o, Unavailable(o))
                                 ELSE SellWithGuard(o, Unavailable(o)))'
      BY <2>8, WhatIsLeftThroughout DEF WhatIsLeftToSell
    <3> QED BY <2>2, <2>9, <3>1
  <2>12. Expired(h) => Expired(h)'
    BY <2>2, <2>3, <2>5 DEF Expired, Second
  <2>13. Available(h)' <= Available(h) /\ Entry(h)'.filled >= Entry(h).filled
    BY <2>2
  <2>14. RemainingBuy(o)' <= RemainingBuy(o)
    BY <2>6, <2>10, <2>12, <2>13
  <2>15. PICK u \in Nat : u = Unavailable(o)
    BY <2>6, <2>7
  <2>16. PICK w \in Nat : w = Unavailable(o)'
    BY <2>6, <2>11
  <2>17. u <= w
    <3>1. CASE venue # "ZrxExchangeV2"
      BY <2>6, <2>7, <2>10, <2>11, <2>13, <2>15, <2>16, <3>1
    <3>2. CASE venue = "ZrxExchangeV2"
      <4>1. Available(h) = 0 => Available(h)' = 0
        BY <2>6, <2>10, <2>13
      <4> QED BY <2>6, <2>7, <2>11, <2>12, <2>13, <2>15, <2>16, <3>2, <4>1
    <3> QED BY <3>1, <3>2
  <2>18. RemainingSell(o)' <= RemainingSell(o)
    <3>1. CASE venue = "EtherDelta"
      <4>1. SellShare(o, u) <= SellShare(o, w) /\ SellShare(o, u) \in Nat /\ SellShare(o, w) \in Nat
            /\ o.pay \in Nat
        BY <2>17, OrderAmountsAre, SellShareRises, SellShareIsNat
      <4> QED BY <2>7, <2>11, <2>15, <2>16, <3>1, <4>1
    <3>2. CASE venue # "EtherDelta"
      BY <2>7, <2>11, <2>15, <2>16, <2>17, <3>2, SellWithGuardIs
    <3> QED BY <3>1, <3>2
  <2>19. /\ RemainingBuy(orders[i])' = RemainingBuy(o)' /\ RemainingBuy(orders[i]) = RemainingBuy(o)
         /\ RemainingSell(orders[i])' = RemainingSell(o)'
         /\ RemainingSell(orders[i]) = RemainingSell(o)
    BY <2>4
  <2> QED BY <2>14, <2>18, <2>19
<1> QED
  BY <1>1, <1>2, <1>3, PTL DEF OffChainSpec, RemainingShrinks

-----------------------------------------------------------------------------
(* Takes of what a Clipper sells. *)

Auction == [guy : {"nobody", "kicker", "bidder", "urn"}, bid : Nat, lot : Nat, tab : Nat,
            tic : Nat, end : Nat, top : Nat]

TakerTypeOK ==
    /\ clock \in Nat /\ auctions \in Seq(Auction) /\ balance \in Int
    /\ taker \in [state : {"idle", "status read", "answered"}, id : Nat, amt : Nat, max : Nat,
                  done : BOOLEAN, price : Nat, lot : Nat, tab : Nat, dai : Int,
                  verdict : {"none", "valid", "invalid"}]

(* The answer is that of the conditions on what was read.                  *)
AnswerIsOfWhatWasRead ==
    /\ taker.state = "status read" => ~ taker.done /\ taker.price <= taker.max
    /\ taker.state = "answered" =>
           (taker.verdict = "valid" <=> /\ ~ taker.done /\ taker.price <= taker.max
                                        /\ OweOf(taker).can /\ taker.dai >= OweOf(taker).owe)

TakerInv ==
    /\ TakerTypeOK /\ AnswerIsOfWhatWasRead
    /\ taker.state # "idle" => taker.id \in DOMAIN auctions
    /\ taker.state = "idle" => taker.verdict = "none"

LEMMA TakerTypes ==
    ASSUME TakerInv
    PROVE  /\ clock \in Nat /\ auctions \in Seq(Auction) /\ balance \in Int
           /\ Len(auctions) \in Nat /\ DOMAIN auctions = 1 .. Len(auctions)
           /\ \A id \in DOMAIN auctions : auctions[id] \in Auction /\ id \in Nat
<1>1. clock \in Nat /\ auctions \in Seq(Auction) /\ balance \in Int
  BY DEF TakerInv, TakerTypeOK
<1> QED
  BY <1>1

LEMMA OweOfSame ==
    ASSUME NEW s, NEW t, s.amt = t.amt, s.lot = t.lot, s.price = t.price, s.tab = t.tab
    PROVE  OweOf(s) = OweOf(t)
  BY DEF OweOf, ProductOwed, SliceOf

LEMMA AuctionsChange ==
    ASSUME TakerInv, auctions' \in Seq(Auction), Len(auctions') >= Len(auctions),
           UNCHANGED <<balance, taker>>, clock' \in Nat
    PROVE  TakerInv'
<1>1. OweOf(taker)' = OweOf(taker)
  BY DEF OweOf, ProductOwed, SliceOf
<1>2. DOMAIN auctions \subseteq DOMAIN auctions'
  BY TakerTypes
<1> QED
  BY <1>1, <1>2 DEF TakerInv, TakerTypeOK, AnswerIsOfWhatWasRead

LEMMA ReplacesAuction ==
    ASSUME TakerInv, NEW id \in DOMAIN auctions, NEW a \in Auction, Replaces(id, a)
    PROVE  TakerInv'
<1>1. auctions' = [auctions EXCEPT ![id] = a] /\ UNCHANGED <<balance, taker, clock>>
  BY DEF Replaces
<1>2. auctions' \in Seq(Auction) /\ Len(auctions') = Len(auctions)
  BY <1>1, TakerTypes
<1>3. Len(auctions') >= Len(auctions) /\ clock' \in Nat
  BY <1>1, <1>2, TakerTypes
<1> QED
  BY <1>1, <1>2, <1>3, AuctionsChange

LEMMA KicksAuction ==
    ASSUME TakerInv, NEW a \in Auction, Kick(a)
    PROVE  TakerInv'
<1>1. auctions' = Append(auctions, a) /\ UNCHANGED <<balance, taker, clock>>
  BY DEF Kick
<1>2. auctions' \in Seq(Auction) /\ Len(auctions') = Len(auctions) + 1
  BY <1>1, TakerTypes
<1>3. Len(auctions') >= Len(auctions) /\ clock' \in Nat
  BY <1>1, <1>2, TakerTypes
<1> QED
  BY <1>1, <1>2, <1>3, AuctionsChange

LEMMA PriceIs ==
    ASSUME NEW a \in Auction, clock \in Nat
    PROVE  PriceOf(a) \in Nat
<1>1. PICK fifth \in Nat : fifth = a.top \div 5
  BY DEF Auction
<1>2. PICK fallen \in Int : fallen = fifth * (clock - a.tic)
  BY DEF Auction
<1>3. PICK top \in Nat : top = a.top
  BY DEF Auction
<1>4. PriceOf(a) = IF fallen < top THEN top - fallen ELSE 0
  BY <1>1, <1>2, <1>3 DEF PriceOf
<1> QED
  BY <1>4

(* A take leaves neither debt nor collateral below nothing.                *)
LEMMA TakeLeaves ==
    ASSUME NEW a \in Auction, clock \in Nat, NEW amt \in Nat, PriceOf(a) # 0,
           Purchase(a, amt).can
    PROVE  /\ Purchase(a, amt).owe \in 0 .. a.tab /\ Purchase(a, amt).slice \in 0 .. a.lot
           /\ AfterTake(a, amt) \in Auction
<1>1. PICK price \in Nat \ {0} : price = PriceOf(a)
  BY PriceIs
<1>2. PICK lot \in Nat : lot = a.lot
  BY DEF Auction
<1>3. PICK tab \in Nat : tab = a.tab
  BY DEF Auction
<1>4. PICK asked \in Nat : asked = (IF amt < lot THEN amt ELSE lot) /\ asked <= lot
  OBVIOUS
<1>5. PICK owe \in Nat : owe = asked * price
  OBVIOUS
<1>6. CHOST \in Nat
  BY AuctionsAssumption
<1>7. ASSUME NEW n \in Nat, n < owe PROVE n \div price \in 0 .. lot
  <2>1. PICK q \in Nat : q = n \div price /\ price * q <= n
    BY <1>7, QuotientBounds
  <2>2. q <= asked
    <3>1. SUFFICES ASSUME asked + 1 <= q PROVE FALSE
      OBVIOUS
    <3>2. price * (asked + 1) <= price * q /\ price * (asked + 1) = owe + price
      BY <1>5, <3>1
    <3>3. PICK u \in Nat : u = price * q
      OBVIOUS
    <3> QED BY <1>7, <2>1, <3>2, <3>3
  <2> QED BY <1>4, <2>1, <2>2
<1>8. Purchase(a, amt) =
          IF owe > tab THEN [can |-> TRUE, owe |-> tab, slice |-> tab \div price]
          ELSE IF owe < tab /\ asked < lot /\ tab - owe < CHOST
               THEN [can |-> tab > CHOST, owe |-> tab - CHOST, slice |-> (tab - CHOST) \div price]
          ELSE [can |-> TRUE, owe |-> owe, slice |-> asked]
  BY <1>1, <1>2, <1>3, <1>4, <1>5 DEF Purchase
<1>9. Purchase(a, amt).owe \in 0 .. tab /\ Purchase(a, amt).slice \in 0 .. lot
  <2>1. CASE owe > tab
    BY <1>7, <1>8, <2>1
  <2>2. CASE ~(owe > tab) /\ owe < tab /\ asked < lot /\ tab - owe < CHOST
    <3>1. Purchase(a, amt) = [can |-> tab > CHOST, owe |-> tab - CHOST,
                              slice |-> (tab - CHOST) \div price]
      BY <1>8, <2>2
    <3>5. tab > CHOST
      <4>1. SUFFICES ASSUME ~(tab > CHOST) PROVE FALSE
        OBVIOUS
      <4>2. PICK left : left = tab - CHOST
        OBVIOUS
      <4>3. PICK slice : slice = (tab - CHOST) \div price
        OBVIOUS
      <4>4. Purchase(a, amt) = [can |-> FALSE, owe |-> left, slice |-> slice]
        <5>1. (tab > CHOST) = FALSE
          BY <4>1
        <5> QED BY <3>1, <4>2, <4>3, <5>1, Zenon
      <4>5. Purchase(a, amt).can = FALSE
        BY <4>4
      <4> QED BY <4>5
    <3>2. PICK left \in Nat : left = tab - CHOST /\ left < owe
      BY <1>6, <2>2, <3>5
    <3>3. left \div price \in 0 .. lot
      BY <1>7, <3>2
    <3> QED BY <1>6, <3>1, <3>2, <3>3
  <2>3. CASE ~(owe > tab) /\ ~(owe < tab /\ asked < lot /\ tab - owe < CHOST)
    BY <1>4, <1>8, <2>3
  <2> QED BY <2>1, <2>2, <2>3
<1>10. AfterTake(a, amt) \in Auction
  <2>1. Deleted \in Auction
    BY DEF Deleted, Auction
  <2>2. PICK o \in 0 .. tab : o = Purchase(a, amt).owe
    BY <1>9
  <2>3. PICK s \in 0 .. lot : s = Purchase(a, amt).slice
    BY <1>9
  <2>4. tab - o \in Nat /\ lot - s \in Nat
    OBVIOUS
  <2>5. [a EXCEPT !.tab = tab - o, !.lot = lot - s] \in Auction
    BY <2>4 DEF Auction
  <2>6. AfterTake(a, amt) \in {Deleted, [a EXCEPT !.tab = tab - o, !.lot = lot - s]}
    BY <1>2, <1>3, <2>2, <2>3 DEF AfterTake
  <2> QED BY <2>1, <2>5, <2>6
<1> QED
  BY <1>2, <1>3, <1>9, <1>10

LEMMA ReadStatusKeeps ==
    ASSUME TakerInv, NEW id \in DOMAIN auctions, NEW amt \in Nat, NEW max \in Nat,
           ReadStatus(id, amt, max)
    PROVE  TakerInv'
<1>1. PICK a \in Auction : a = auctions[id]
  BY TakerTypes
<1>2. PICK price \in Nat : price = PriceOf(a)
  BY <1>1, PriceIs, TakerTypes
<1>3. PICK done \in BOOLEAN : done = (a.guy # "nobody" /\ IsDone(a))
  OBVIOUS
<1>4. id \in Nat /\ a.lot \in Nat /\ a.tab \in Nat /\ balance \in Int
  BY TakerTypes DEF Auction
<1>5. /\ taker' = [state |-> IF done \/ max < price THEN "answered" ELSE "status read",
                   id |-> id, amt |-> amt, max |-> max, done |-> done,
                   price |-> price, lot |-> a.lot, tab |-> a.tab, dai |-> balance,
                   verdict |-> IF done \/ max < price THEN "invalid" ELSE "none"]
      /\ UNCHANGED <<clock, auctions, balance>>
  BY <1>1, <1>2, <1>3, Zenon DEF ReadStatus
<1>6. TakerTypeOK'
  <2>1. taker' \in [state : {"idle", "status read", "answered"}, id : Nat, amt : Nat, max : Nat,
                    done : BOOLEAN, price : Nat, lot : Nat, tab : Nat, dai : Int,
                    verdict : {"none", "valid", "invalid"}]
    BY <1>4, <1>5
  <2> QED BY <1>5, <2>1, TakerTypes DEF TakerTypeOK
<1>7. AnswerIsOfWhatWasRead'
  <2>1. taker'.done = done /\ taker'.price = price /\ taker'.max = max
        /\ taker'.state = (IF done \/ max < price THEN "answered" ELSE "status read")
        /\ taker'.verdict = (IF done \/ max < price THEN "invalid" ELSE "none")
    BY <1>5
  <2>2. CASE done \/ max < price
    <3>2. taker'.state = "answered" /\ taker'.verdict = "invalid"
      BY <2>1, <2>2
    <3>3. ~(~ done /\ price <= max)
      BY <2>2
    <3>1. taker'.state = "answered" /\ taker'.verdict = "invalid"
          /\ ~(~ taker'.done /\ taker'.price <= taker'.max)
      BY <2>1, <3>2, <3>3
    <3> QED BY <3>1 DEF AnswerIsOfWhatWasRead
  <2>3. CASE ~(done \/ max < price)
    <3>2. taker'.state = "status read"
      BY <2>1, <2>3
    <3>3. ~ done /\ price <= max
      BY <2>3
    <3>1. taker'.state = "status read" /\ ~ taker'.done /\ taker'.price <= taker'.max
      BY <2>1, <3>2, <3>3
    <3> QED BY <3>1 DEF AnswerIsOfWhatWasRead
  <2> QED BY <2>2, <2>3
<1>8. taker'.id \in DOMAIN auctions' /\ taker'.state # "idle"
  BY <1>5
<1> QED
  BY <1>6, <1>7, <1>8 DEF TakerInv

LEMMA ReadDaiKeeps == ASSUME TakerInv, ReadDaiAnswers PROVE TakerInv'
<1>1. PICK verdict \in {"valid", "invalid"} :
          verdict = IF OweOf(taker).can /\ balance >= OweOf(taker).owe THEN "valid" ELSE "invalid"
  OBVIOUS
<1>2. /\ taker.state = "status read" /\ UNCHANGED <<clock, auctions, balance>>
      /\ taker' = [taker EXCEPT !.state = "answered", !.dai = balance, !.verdict = verdict]
  BY <1>1 DEF ReadDaiAnswers
<1>3. /\ taker'.amt = taker.amt /\ taker'.lot = taker.lot /\ taker'.price = taker.price
      /\ taker'.tab = taker.tab /\ taker'.max = taker.max /\ taker'.done = taker.done
      /\ taker'.id = taker.id /\ taker'.dai = balance /\ taker'.verdict = verdict
      /\ taker'.state = "answered"
  BY <1>2 DEF TakerInv, TakerTypeOK
<1>4. TakerTypeOK'
  BY <1>2 DEF TakerInv, TakerTypeOK
<1>5. OweOf(taker)' = OweOf(taker)
  <2>1. OweOf(taker') = OweOf(taker)
    BY <1>3, OweOfSame
  <2>2. OweOf(taker)' = OweOf(taker')
    BY DEF OweOf, ProductOwed, SliceOf
  <2> QED BY <2>1, <2>2
<1>6. ~ taker.done /\ taker.price <= taker.max /\ taker.id \in DOMAIN auctions
  BY <1>2 DEF TakerInv, AnswerIsOfWhatWasRead
<1>7. AnswerIsOfWhatWasRead'
  <2>1. verdict = "valid" <=> OweOf(taker).can /\ balance >= OweOf(taker).owe
    BY <1>1
  <2> QED BY <1>3, <1>5, <1>6, <2>1 DEF AnswerIsOfWhatWasRead
<1> QED
  BY <1>2, <1>3, <1>4, <1>6, <1>7 DEF TakerInv

LEMMA TakeKeeps == ASSUME TakerInv, Take PROVE TakerInv'
<1>1. taker.id \in DOMAIN auctions /\ taker.amt \in Nat /\ clock \in Nat /\ balance \in Int
      /\ auctions \in Seq(Auction)
  BY DEF TakerInv, TakerTypeOK, Take
<1>2. PICK a \in Auction : a = auctions[taker.id]
  BY <1>1
<1>3. /\ PriceOf(a) # 0 /\ Purchase(a, taker.amt).can
      /\ auctions' = [auctions EXCEPT ![taker.id] = AfterTake(a, taker.amt)]
      /\ balance' = balance - Purchase(a, taker.amt).owe
      /\ taker' = NoTaker /\ clock' = clock
  BY <1>2 DEF Take, TakeSucceeds, IsDone
<1>4. AfterTake(a, taker.amt) \in Auction /\ Purchase(a, taker.amt).owe \in Int
  <2>1. a.tab \in Nat
    BY <1>2 DEF Auction
  <2> QED BY <1>1, <1>2, <1>3, <2>1, TakeLeaves
<1>5. auctions' \in Seq(Auction) /\ balance' \in Int
  BY <1>1, <1>3, <1>4
<1>6. NoTaker \in [state : {"idle", "status read", "answered"}, id : Nat, amt : Nat, max : Nat,
                    done : BOOLEAN, price : Nat, lot : Nat, tab : Nat, dai : Int,
                    verdict : {"none", "valid", "invalid"}]
      /\ NoTaker.state = "idle" /\ NoTaker.verdict = "none"
  BY DEF NoTaker
<1>7. TakerTypeOK'
  BY <1>1, <1>3, <1>5, <1>6 DEF TakerTypeOK
<1> QED
  BY <1>3, <1>6, <1>7 DEF TakerInv, AnswerIsOfWhatWasRead

LEMMA TakerStep == TakerInv /\ [AuctionsNext]_auctionsVars => TakerInv'
<1> SUFFICES ASSUME TakerInv, [AuctionsNext]_auctionsVars PROVE TakerInv'
  OBVIOUS
<1>0. /\ clock \in Nat /\ auctions \in Seq(Auction) /\ Amounts \subseteq Nat /\ MaxPrices \subseteq Nat
      /\ TAU \in Nat /\ TTL \in Nat /\ FullLot \in Nat /\ Len(auctions) \in Nat
  BY AuctionsAssumption, TakerTypes
<1>1. CASE UNCHANGED auctionsVars
  BY <1>0, <1>1, AuctionsChange DEF auctionsVars
<1>2. CASE ClockTicks
  <2>1. clock' \in Nat /\ UNCHANGED <<auctions, balance, taker>>
    BY <1>0, <1>2 DEF ClockTicks
  <2> QED BY <1>0, <2>1, AuctionsChange
<1>3. CASE KickDealable
  <2>1. clock + TAU \in Nat
    BY <1>0
  <2>2. [Deleted EXCEPT !.guy = "kicker", !.lot = FullLot, !.end = clock + TAU] \in Auction
    BY <1>0, <2>1 DEF Deleted, Auction
  <2> QED BY <1>3, <2>2, KicksAuction DEF KickDealable
<1>4. CASE KickClipper
  <2>1. PICK s \in Sales : Kick([Deleted EXCEPT !.guy = "urn", !.tab = s.tab, !.lot = s.lot,
                                                !.top = s.top, !.tic = clock])
    BY <1>4 DEF KickClipper
  <2>2. s.tab \in Nat /\ s.lot \in Nat /\ s.top \in Nat
    BY AuctionsAssumption
  <2>3. [Deleted EXCEPT !.guy = "urn", !.tab = s.tab, !.lot = s.lot,
                        !.top = s.top, !.tic = clock] \in Auction
    BY <1>0, <2>2 DEF Deleted, Auction
  <2> QED BY <2>1, <2>3, KicksAuction
<1>5. ASSUME NEW id \in DOMAIN auctions,
             Tend(id) \/ Dent(id) \/ Deal(id) \/ Tick(id) \/ YankAuction(id) \/ Redo(id)
      PROVE  TakerInv'
  <2>1. PICK a \in Auction : a = auctions[id]
    BY <1>0
  <2>7. clock + TAU \in Nat /\ clock + TTL \in Nat /\ a.bid + 1 \in Nat /\ clock \in Nat
    <3>1. a.bid \in Nat
      BY DEF Auction
    <3> QED BY <1>0, <3>1
  <2>2. Deleted \in Auction /\ [a EXCEPT !.end = clock + TAU] \in Auction
        /\ [a EXCEPT !.tic = clock] \in Auction
    BY <2>7 DEF Deleted, Auction
  <2>3. CASE Tend(id)
    <3>1. [a EXCEPT !.guy = "bidder", !.bid = @ + 1, !.tic = clock + TTL] \in Auction
      BY <2>7 DEF Auction
    <3> QED BY <2>1, <2>3, <3>1, ReplacesAuction DEF Tend
  <2>4. CASE Dent(id)
    <3>1. a.lot - 1 \in Nat
      BY <2>1, <2>4 DEF Dent, Auction
    <3>2. [a EXCEPT !.guy = "bidder", !.lot = @ - 1, !.tic = clock + TTL] \in Auction
      BY <2>7, <3>1 DEF Auction
    <3> QED BY <2>1, <2>4, <3>2, ReplacesAuction DEF Dent
  <2>5. CASE Deal(id) \/ YankAuction(id)
    BY <2>2, <2>5, ReplacesAuction DEF Deal, YankAuction
  <2>6. CASE Tick(id) \/ Redo(id)
    BY <2>1, <2>2, <2>6, ReplacesAuction DEF Tick, Redo
  <2> QED BY <1>5, <2>3, <2>4, <2>5, <2>6
<1>6. ASSUME NEW id \in DOMAIN auctions, NEW amt \in Amounts, TakeByOthers(id, amt)
      PROVE  TakerInv'
  <2>1. PICK a \in Auction : a = auctions[id]
    BY <1>0
  <2>2. PriceOf(a) # 0 /\ Purchase(a, amt).can /\ Replaces(id, AfterTake(a, amt)) /\ amt \in Nat
    BY <1>0, <1>6, <2>1 DEF TakeByOthers, IsDone
  <2>3. AfterTake(a, amt) \in Auction
    BY <1>0, <2>2, TakeLeaves
  <2> QED BY <2>2, <2>3, ReplacesAuction
<1>7. ASSUME NEW id \in DOMAIN auctions, NEW amt \in Amounts, NEW max \in MaxPrices,
             ReadStatus(id, amt, max)
      PROVE  TakerInv'
  <2>1. amt \in Nat /\ max \in Nat
    BY <1>0
  <2> QED BY <1>7, <2>1, ReadStatusKeeps
<1>8. CASE ReadKicks \/ ReadAuction \/ JudgeAuction \/ ReturnActive
  <2>1. UNCHANGED <<clock, auctions, balance, taker>>
    BY <1>8 DEF ReadKicks, ReadAuction, JudgeAuction, ReturnActive
  <2> QED BY <1>0, <2>1, AuctionsChange
<1> QED
  BY <1>1, <1>2, <1>3, <1>4, <1>5, <1>6, <1>7, <1>8, ReadDaiKeeps, TakeKeeps DEF AuctionsNext

LEMMA TakerStarts == AuctionsInit => TakerInv
<1> SUFFICES ASSUME AuctionsInit PROVE TakerInv
  OBVIOUS
<1>1. balance \in Int
  BY AuctionsAssumption DEF AuctionsInit
<1>2. auctions \in Seq(Auction)
  BY DEF AuctionsInit
<1> QED
  BY <1>1, <1>2 DEF AuctionsInit, TakerInv, TakerTypeOK, AnswerIsOfWhatWasRead, NoTaker

-----------------------------------------------------------------------------
(* Lists of the auctions that stand. *)

ListerTypeOK ==
    lister \in [state : {"idle", "listing", "read", "returned"}, count : Nat, index : Nat,
                read : Auction, active : SUBSET Nat]

(* What has stood throughout is found up to the auction that is read next, *)
(* or was renewed; none is beyond the number that was read first, as       *)
(* auctions keep theirs.                                                   *)
FoundSoFar ==
    /\ \A id \in watched.throughout :
           /\ id \in 1 .. lister.count
           /\ id < lister.index => id \in lister.active \cup watched.renewed
    /\ lister.active \subseteq watched.sometime

(* An auction that would be judged to stand stood when it was read; unless *)
(* it was renewed it is still as it was read.                              *)
ReadIsJudged ==
    /\ lister.index <= lister.count
    /\ IsActive(lister.read) => lister.index \in watched.sometime
    /\ lister.index \in watched.renewed \/ auctions[lister.index] = lister.read

ListerInv ==
    /\ ListerTypeOK
    /\ lister.state # "idle" => FoundSoFar
    /\ lister.state \in {"listing", "read"} =>
           /\ lister.count <= Len(auctions) /\ lister.index >= 1
           /\ watched.throughout \subseteq Standing /\ Standing \subseteq watched.sometime
    /\ lister.state = "read" => ReadIsJudged
    /\ lister.state = "returned" => lister.index > lister.count

(* The client's conditions are those of the contract. *)
LEMMA ActiveIsStanding ==
    ASSUME NEW id \in DOMAIN auctions
    PROVE  IsActive(auctions[id]) <=> id \in Standing
  BY DEF IsActive, ActiveClipper, ActiveDealable, Standing, TakesBids

(* Time makes no auction active. *)
LEMMA ActiveEarlier ==
    ASSUME clock \in Nat, clock' \in Nat, clock <= clock',
           NEW a \in Auction, a.guy # "nobody",
           house # "Clipper" => (a.tic = 0 \/ clock' < a.tic) /\ clock' < a.end
    PROVE  IsActive(a)
<1>1. a.tic \in Nat /\ a.end \in Nat
  BY DEF Auction
<1> QED
  BY <1>1 DEF IsActive, ActiveClipper, ActiveDealable

(* What the contracts, the clock and validate_take do. *)
LEMMA ListingStays ==
    ASSUME TakerInv, TakerInv', ListerInv, Watches, lister' = lister, house' = house,
           clock <= clock', Len(auctions') >= Len(auctions)
    PROVE  ListerInv'
<1>1. /\ Len(auctions) \in Nat /\ Len(auctions') \in Nat /\ DOMAIN auctions' = 1 .. Len(auctions')
      /\ lister.count \in Nat /\ lister.index \in Nat /\ lister.read \in Auction
  <2>1. auctions \in Seq(Auction) /\ auctions' \in Seq(Auction)
    BY DEF TakerInv, TakerTypeOK
  <2>2. lister.count \in Nat /\ lister.index \in Nat /\ lister.read \in Auction
    BY DEF ListerInv, ListerTypeOK
  <2> QED BY <2>1, <2>2
<1>2. ListerTypeOK'
  BY DEF ListerInv, ListerTypeOK
<1>3. CASE lister.state \in {"listing", "read"}
  <2>1. watched' = [throughout |-> watched.throughout \cap Standing',
                    sometime |-> watched.sometime \cup Standing',
                    renewed |-> watched.renewed \cup Renewed']
    BY <1>3 DEF Watches
  <2>2. FoundSoFar'
    BY <1>3, <2>1 DEF ListerInv, FoundSoFar
  <2>3. lister'.count <= Len(auctions') /\ lister'.index >= 1
    BY <1>1, <1>3 DEF ListerInv
  <2>4. lister.state = "read" => ReadIsJudged'
    <3>1. SUFFICES ASSUME lister.state = "read" PROVE ReadIsJudged'
      OBVIOUS
    <3>2. ReadIsJudged /\ lister.index \in DOMAIN auctions'
      BY <1>1, <1>3, <2>3, <3>1 DEF ListerInv, ReadIsJudged
    <3>3. IsActive(lister.read)' => IsActive(lister.read)
      <4>1. clock \in Nat /\ clock' \in Nat
        BY DEF TakerInv, TakerTypeOK
      <4>2. IsActive(lister.read)' =>
                /\ lister.read.guy # "nobody"
                /\ house # "Clipper" => /\ lister.read.tic = 0 \/ clock' < lister.read.tic
                                        /\ clock' < lister.read.end
        BY DEF IsActive, ActiveClipper, ActiveDealable
      <4> QED BY <1>1, <4>1, <4>2, ActiveEarlier
    <3>4. lister.index \in watched'.renewed \/ auctions'[lister.index] = lister.read
      BY <2>1, <3>1, <3>2 DEF Renewed
    <3> QED BY <2>1, <3>2, <3>3, <3>4 DEF ReadIsJudged
  <2> QED BY <1>2, <1>3, <2>1, <2>2, <2>3, <2>4 DEF ListerInv
<1>4. CASE lister.state \notin {"listing", "read"}
  <2>1. watched' = watched
    BY <1>4 DEF Watches
  <2> QED BY <1>2, <1>4, <2>1 DEF ListerInv, FoundSoFar
<1> QED
  BY <1>3, <1>4

(* Every step but those of active_auctions. *)
LEMMA ListerRests ==
    ASSUME TakerInv, TakerInv', ListerInv, AuctionsNext,
           ~ReadKicks, ~ReadAuction, ~JudgeAuction, ~ReturnActive
    PROVE  ListerInv'
<1>1. auctions \in Seq(Auction) /\ Len(auctions) \in Nat /\ clock \in Nat
  BY TakerTypes
<1>2. lister' = lister /\ Watches /\ house' = house
  BY DEF AuctionsNext, ClockTicks, KickDealable, KickClipper, Kick, Tend, Dent, Deal, Tick,
         YankAuction, Redo, Replaces, ReadStatus, TakeByOthers, ReadDaiAnswers, Take
<1>3. clock' = clock \/ clock' = clock + 1
  BY DEF AuctionsNext, ClockTicks, KickDealable, KickClipper, Kick, Tend, Dent, Deal, Tick,
         YankAuction, Redo, Replaces, ReadStatus, TakeByOthers, ReadDaiAnswers, Take
<1>4. \/ auctions' = auctions
      \/ \E a : auctions' = Append(auctions, a)
      \/ \E id, a : auctions' = [auctions EXCEPT ![id] = a]
  <2>1. CASE KickDealable \/ KickClipper
    BY <2>1 DEF KickDealable, KickClipper, Kick
  <2>2. ASSUME NEW id \in DOMAIN auctions,
               \/ Tend(id) \/ Dent(id) \/ Deal(id) \/ Tick(id) \/ YankAuction(id) \/ Redo(id)
               \/ \E amt \in Amounts : TakeByOthers(id, amt)
        PROVE  \E a : auctions' = [auctions EXCEPT ![id] = a]
    BY <2>2 DEF Tend, Dent, Deal, Tick, YankAuction, Redo, TakeByOthers, Replaces
  <2>3. CASE Take
    BY <2>3 DEF Take
  <2>4. CASE ClockTicks \/ ReadDaiAnswers
    BY <2>4 DEF ClockTicks, ReadDaiAnswers
  <2>5. ASSUME NEW id \in DOMAIN auctions, NEW amt \in Amounts, NEW max \in MaxPrices,
               ReadStatus(id, amt, max)
        PROVE  auctions' = auctions
    BY <2>5 DEF ReadStatus
  <2> QED BY <2>1, <2>2, <2>3, <2>4, <2>5 DEF AuctionsNext
<1>5. Len(auctions') >= Len(auctions)
  <2>1. ASSUME NEW a, auctions' = Append(auctions, a) PROVE Len(auctions') = Len(auctions) + 1
    BY <1>1, <2>1
  <2>2. ASSUME NEW id, NEW a, auctions' = [auctions EXCEPT ![id] = a]
        PROVE  Len(auctions') = Len(auctions)
    BY <1>1, <2>2
  <2> QED BY <1>1, <1>4, <2>1, <2>2
<1>6. clock <= clock'
  BY <1>1, <1>3
<1> QED
  BY <1>2, <1>5, <1>6, ListingStays

LEMMA ListerStep ==
    ASSUME TakerInv, ListerInv, ReadKicks \/ ReadAuction \/ JudgeAuction \/ ReturnActive
    PROVE  ListerInv'
<1>1. /\ auctions' = auctions /\ Standing' = Standing /\ Standing \subseteq 1 .. Len(auctions)
      /\ lister \in [state : {"idle", "listing", "read", "returned"}, count : Nat, index : Nat,
                     read : Auction, active : SUBSET Nat]
      /\ Len(auctions) \in Nat /\ Watches
  BY TakerTypes DEF ListerInv, ListerTypeOK, ReadKicks, ReadAuction, JudgeAuction, ReturnActive,
                    Standing, TakesBids
<1>2. \A a : IsActive(a)' <=> IsActive(a)
  BY DEF IsActive, ActiveClipper, ActiveDealable, ReadKicks, ReadAuction, JudgeAuction, ReturnActive
<1>3. lister.state \in {"listing", "read"} =>
          watched' = [throughout |-> watched.throughout \cap Standing,
                      sometime |-> watched.sometime \cup Standing,
                      renewed |-> watched.renewed \cup Renewed']
  BY <1>1 DEF Watches
<1>4. CASE ReadKicks
  <2>1. /\ lister' = [state |-> "listing", count |-> Len(auctions), index |-> 1,
                      read |-> Deleted, active |-> {}]
        /\ lister.state = "idle"
    BY <1>4 DEF ReadKicks, NoLister
  <2>2. watched' = [throughout |-> Standing, sometime |-> Standing, renewed |-> {}]
    BY <1>1, <2>1 DEF Watches
  <2>3. Deleted \in Auction
    BY DEF Deleted, Auction
  <2> QED BY <1>1, <2>1, <2>2, <2>3 DEF ListerInv, ListerTypeOK, FoundSoFar
<1>5. CASE ReadAuction
  <2>1. PICK i \in Nat : i = lister.index
    BY <1>1
  <2>2. /\ lister.state = "listing" /\ i <= lister.count
        /\ lister' = [lister EXCEPT !.state = "read", !.read = auctions[i]]
    BY <1>5, <2>1 DEF ReadAuction
  <2>3. i \in DOMAIN auctions /\ auctions[i] \in Auction
    BY <1>1, <2>1, <2>2, TakerTypes DEF ListerInv
  <2>4. /\ lister' \in [state : {"idle", "listing", "read", "returned"}, count : Nat, index : Nat,
                        read : Auction, active : SUBSET Nat]
        /\ lister'.state = "read" /\ lister'.read = auctions[i] /\ lister'.index = i
        /\ lister'.count = lister.count /\ lister'.active = lister.active
    BY <1>1, <2>1, <2>2, <2>3
  <2>5. IsActive(auctions[i]) => i \in watched'.sometime
    BY <1>3, <2>2, <2>3, ActiveIsStanding
  <2>6. FoundSoFar'
    BY <1>3, <2>1, <2>2, <2>4 DEF ListerInv, FoundSoFar
  <2>7. ReadIsJudged'
    BY <1>1, <1>2, <2>2, <2>4, <2>5 DEF ReadIsJudged
  <2> QED BY <1>1, <1>3, <2>1, <2>2, <2>4, <2>6, <2>7 DEF ListerInv, ListerTypeOK
<1>6. CASE JudgeAuction
  <2>1. PICK i \in Nat : i = lister.index
    BY <1>1
  <2>2. PICK found : found = IF IsActive(lister.read) THEN lister.active \cup {i} ELSE lister.active
    OBVIOUS
  <2>3. /\ lister.state = "read"
        /\ lister' = [lister EXCEPT !.state = "listing", !.index = i + 1, !.read = Deleted,
                                    !.active = found]
    BY <1>6, <2>1, <2>2 DEF JudgeAuction
  <2>4. found \in SUBSET Nat /\ Deleted \in Auction
    BY <1>1, <2>1, <2>2 DEF Deleted, Auction
  <2>5. /\ lister' \in [state : {"idle", "listing", "read", "returned"}, count : Nat, index : Nat,
                        read : Auction, active : SUBSET Nat]
        /\ lister'.state = "listing" /\ lister'.index = i + 1
        /\ lister'.count = lister.count /\ lister'.active = found
    <3>1. PICK count \in Nat : count = lister.count
      BY <1>1
    <3>2. PICK next \in Nat : next = i + 1
      OBVIOUS
    <3>3. lister' = [state |-> "listing", count |-> count, index |-> next, read |-> Deleted,
                     active |-> found]
      BY <1>1, <2>3, <3>1, <3>2
    <3> QED BY <2>4, <3>1, <3>2, <3>3
  <2>6. ReadIsJudged /\ FoundSoFar /\ i <= lister.count /\ i \in DOMAIN auctions
    <3>1. /\ ReadIsJudged /\ FoundSoFar /\ i <= lister.count
          /\ lister.count <= Len(auctions) /\ i >= 1
      BY <2>1, <2>3 DEF ListerInv, ReadIsJudged
    <3>2. DOMAIN auctions = 1 .. Len(auctions)
      BY TakerTypes
    <3> QED BY <1>1, <2>1, <3>1, <3>2
  <2>7. i \in watched.throughout \cap Standing => i \in found \cup watched.renewed
    BY <2>1, <2>2, <2>6, ActiveIsStanding DEF ReadIsJudged
  <2>8. found \subseteq watched'.sometime
    BY <1>3, <2>1, <2>2, <2>3, <2>6 DEF ReadIsJudged, FoundSoFar
  <2>9. FoundSoFar'
    <3>1. ASSUME NEW id \in watched'.throughout
          PROVE  id \in 1 .. lister.count /\ (id < i + 1 => id \in found \cup watched'.renewed)
      <4>1. id \in watched.throughout \cap Standing /\ watched.renewed \subseteq watched'.renewed
        BY <1>3, <2>3, <3>1
      <4>2. id \in 1 .. lister.count /\ (id < i => id \in lister.active \cup watched.renewed)
        BY <2>1, <2>6, <4>1 DEF FoundSoFar
      <4>3. id < i + 1 => id < i \/ id = i
        BY <4>2
      <4> QED BY <2>2, <2>7, <4>1, <4>2, <4>3
    <3> QED BY <2>5, <2>8, <3>1 DEF FoundSoFar
  <2> QED BY <1>1, <1>3, <2>1, <2>3, <2>5, <2>9 DEF ListerInv, ListerTypeOK
<1>7. CASE ReturnActive
  <2>1. /\ lister.state = "listing" /\ lister.index > lister.count
        /\ lister' = [lister EXCEPT !.state = "returned"]
    BY <1>7 DEF ReturnActive
  <2> QED BY <1>1, <1>3, <2>1 DEF ListerInv, ListerTypeOK, FoundSoFar
<1> QED
  BY <1>4, <1>5, <1>6, <1>7

(* active_auctions returns what stood throughout, but for what changed     *)
(* between the call that read it and the clock, and nothing that never     *)
(* stood, for any number of auctions of any of the houses, any times and   *)
(* any interleaving with bids.                                             *)
THEOREM ActiveIsComplete == AuctionsSpec => []StandingAreListed
<1>1. AuctionsInit => TakerInv /\ ListerInv
  <2>1. Deleted \in Auction
    BY DEF Deleted, Auction
  <2>2. AuctionsInit => ListerInv
    BY <2>1 DEF AuctionsInit, ListerInv, ListerTypeOK, NoLister
  <2> QED BY <2>2, TakerStarts
<1>2. TakerInv /\ ListerInv /\ [AuctionsNext]_auctionsVars => TakerInv' /\ ListerInv'
  <2> SUFFICES ASSUME TakerInv, TakerInv', ListerInv, [AuctionsNext]_auctionsVars
               PROVE  ListerInv'
    BY TakerStep
  <2>1. CASE UNCHANGED auctionsVars
    BY <2>1 DEF auctionsVars, ListerInv, ListerTypeOK, FoundSoFar, ReadIsJudged, Standing, TakesBids,
                IsActive, ActiveClipper, ActiveDealable
  <2> QED BY <2>1, ListerRests, ListerStep
<1>3. ListerInv => StandingAreListed
  BY DEF ListerInv, ListerTypeOK, FoundSoFar, StandingAreListed
<1> QED
  BY <1>1, <1>2, <1>3, PTL DEF AuctionsSpec

-----------------------------------------------------------------------------
(* Roundings of products. *)

(* A number of as many digits as are kept is this many units of its last   *)
(* digit, or more.                                                         *)
LastDigit == TenTo(PREC - 1)

LEMMA LastDigitIs == LastDigit \in Nat /\ LastDigit >= 1000
<1>1. PREC - 1 \in Nat /\ 3 <= PREC - 1
  BY FixedPointAssumption
<1>2. TenTo(3) <= TenTo(PREC - 1) /\ TenTo(PREC - 1) \in Nat
  BY <1>1, TenToIs, TenToRises
<1>3. TenTo(3) >= 1000
  <2>1. PICK ten \in Nat : ten = TEN /\ ten >= 10
    BY FixedPointAssumption
  <2>2. PICK d \in Nat : ten = d + 10
    <3>1. ten - 10 \in Nat /\ ten = (ten - 10) + 10
      BY <2>1
    <3> QED BY <3>1
  <2>3. TenTo(1) = ten * 1 /\ TenTo(2) = ten * TenTo(1) /\ TenTo(3) = ten * TenTo(2)
    BY <2>1, TenToIs, 0 + 1 = 1, 1 + 1 = 2, 2 + 1 = 3
  <2>4. PICK s \in Nat : s = ten * ten
    OBVIOUS
  <2>5. s >= 100
    <3>1. ten * ten = d * d + 20 * d + 100 /\ d * d \in Nat
      BY <2>2
    <3> QED BY <2>4, <3>1
  <2>6. ten * s = d * s + 10 * s /\ d * s \in Nat
    BY <2>2
  <2> QED BY <2>3, <2>4, <2>5, <2>6
<1>4. TenTo(3) \in Nat
  BY TenToIs
<1> QED
  BY <1>2, <1>3, <1>4 DEF LastDigit

(* What is lost is half of the last digit at most.                         *)
LEMMA LessThanADigit ==
    ASSUME NEW n \in Nat, NEW cut \in Nat, 2 * (n - cut) <= Lost(n), 2 * (cut - n) <= Lost(n)
    PROVE  2 * LastDigit * (n - cut) <= n /\ 2 * LastDigit * (cut - n) <= n
<1>1. PICK l \in Nat \ {0} : l = Lost(n)
  BY LostIs
<1>2. PICK t \in Nat : t = LastDigit
  BY LastDigitIs
<1>3. CASE Excess[n] = 0
  <2>1. l = 1
    BY <1>1, <1>3, TenToIs DEF Lost
  <2>2. cut = n
    BY <1>1, <2>1
  <2> QED BY <1>2, <2>2
<1>4. CASE Excess[n] # 0
  <2>1. l * t <= n
    BY <1>1, <1>2, <1>4, FirstDigits DEF LastDigit
  <2>2. ASSUME NEW d \in Nat, 2 * d <= l PROVE 2 * t * d <= n
    <3>1. PICK r \in Nat : l = 2 * d + r
      <4>1. l - 2 * d \in Nat /\ l = 2 * d + (l - 2 * d)
        BY <2>2
      <4> QED BY <4>1
    <3>2. l * t = 2 * t * d + r * t /\ r * t \in Nat
      BY <3>1
    <3>3. PICK u \in Nat : u = 2 * t * d
      OBVIOUS
    <3> QED BY <2>1, <3>2, <3>3
  <2>3. CASE cut <= n
    <3>1. PICK d \in Nat : d = n - cut
      BY <2>3
    <3>2. 2 * t * d <= n /\ cut - n = -d
      BY <1>1, <2>2, <3>1
    <3>3. PICK u \in Nat : u = 2 * t * d
      OBVIOUS
    <3>4. 2 * t * (-d) = -u
      BY <3>3
    <3> QED BY <1>2, <3>1, <3>2, <3>3, <3>4
  <2>4. CASE n <= cut
    <3>1. PICK d \in Nat : d = cut - n
      BY <2>4
    <3>2. 2 * t * d <= n /\ n - cut = -d
      BY <1>1, <2>2, <3>1
    <3>3. PICK u \in Nat : u = 2 * t * d
      OBVIOUS
    <3>4. 2 * t * (-d) = -u
      BY <3>3
    <3> QED BY <1>2, <3>1, <3>2, <3>3, <3>4
  <2> QED BY <2>3, <2>4
<1> QED
  BY <1>3, <1>4, LostIs, ExcessBounds

(* A product of rounded numbers, rounded again.                            *)
LEMMA ErrorsAddUp ==
    ASSUME NEW D \in Nat, D >= 16,
           NEW x \in Nat, NEW a \in Nat, D * (x - a) <= x, D * (a - x) <= x,
           NEW y \in Nat, NEW b \in Nat, D * (y - b) <= y, D * (b - y) <= y,
           NEW c \in Nat, D * (a * b - c) <= a * b, D * (c - a * b) <= a * b
    PROVE  D * (x * y - c) <= 4 * (x * y) /\ D * (c - x * y) <= 4 * (x * y)
<1>1. PICK n \in Nat : n = x * y
  OBVIOUS
<1>2. PICK s \in Nat : s = x * b
  OBVIOUS
<1>3. PICK p \in Nat : p = a * b
  OBVIOUS
<1>4. ASSUME NEW u \in Int, NEW v \in Int, u <= v, NEW k \in Nat PROVE k * u <= k * v
  <2>1. PICK d \in Nat : d = v - u
    BY <1>4
  <2>2. v = u + d /\ k * (u + d) = k * u + k * d /\ k * d \in Nat
    BY <2>1
  <2> QED BY <2>2
<1>5. D * (s - n) <= n /\ D * (n - s) <= n
  <2>1. x * (D * (b - y)) <= x * y /\ x * (D * (y - b)) <= x * y
    BY <1>4
  <2>2. x * (D * (b - y)) = D * (x * b - x * y) /\ x * (D * (y - b)) = D * (x * y - x * b)
    OBVIOUS
  <2> QED BY <1>1, <1>2, <2>1, <2>2
<1>6. D * (p - s) <= s /\ D * (s - p) <= s
  <2>1. b * (D * (a - x)) <= b * x /\ b * (D * (x - a)) <= b * x
    BY <1>4
  <2>2. b * (D * (a - x)) = D * (a * b - x * b) /\ b * (D * (x - a)) = D * (x * b - a * b)
        /\ b * x = x * b
    OBVIOUS
  <2> QED BY <1>2, <1>3, <2>1, <2>2
<1>7. ASSUME NEW u \in Nat, NEW v \in Nat, D * (v - u) <= u PROVE 16 * v <= 17 * u
  <2>1. CASE v <= u
    BY <2>1
  <2>2. CASE u <= v
    <3>1. PICK d \in Nat : d = v - u
      BY <2>2
    <3>2. PICK e \in Nat : D = e + 16
      <4>1. D - 16 \in Nat /\ D = (D - 16) + 16
        OBVIOUS
      <4> QED BY <4>1
    <3>3. D * d = e * d + 16 * d /\ e * d \in Nat
      BY <3>2
    <3>4. PICK w \in Nat : w = D * d
      OBVIOUS
    <3> QED BY <1>7, <3>1, <3>3, <3>4
  <2> QED BY <2>1, <2>2
<1>8. 16 * s <= 17 * n /\ 16 * p <= 17 * s
  BY <1>5, <1>6, <1>7
<1>9. D * (p - c) <= p /\ D * (c - p) <= p
  BY <1>3
<1>10. PICK Dn \in Nat : Dn = D * n
  OBVIOUS
<1>11. PICK Ds \in Nat : Ds = D * s
  OBVIOUS
<1>12. PICK Dp \in Nat : Dp = D * p
  OBVIOUS
<1>13. PICK Dc \in Nat : Dc = D * c
  OBVIOUS
<1>14. /\ D * (s - n) = Ds - Dn /\ D * (n - s) = Dn - Ds
       /\ D * (p - s) = Dp - Ds /\ D * (s - p) = Ds - Dp
       /\ D * (c - p) = Dc - Dp /\ D * (p - c) = Dp - Dc
       /\ D * (n - c) = Dn - Dc /\ D * (c - n) = Dc - Dn
  BY <1>10, <1>11, <1>12, <1>13
<1>15. Dn - Dc <= n + s + p /\ Dc - Dn <= n + s + p
  BY <1>5, <1>6, <1>9, <1>14
<1>16. n + s + p <= 4 * n
  BY <1>8
<1> QED
  BY <1>1, <1>14, <1>15, <1>16

LEMMA ProductOwedIsClose ==
    ASSUME NEW x \in Nat, NEW y \in Nat, NEW owe,
           owe = RadMul(RadOf(x, WAD), RadOf(y, RAY), RAD)
    PROVE  /\ owe \in Nat
           /\ LastDigit * (x * y - owe) <= 2 * (x * y) /\ LastDigit * (owe - x * y) <= 2 * (x * y)
<1>1. PICK t3 \in Nat \ {0} : t3 = TenTo(3)
  BY ShiftsAre
<1>2. PICK t2 \in Nat \ {0} : t2 = TenTo(2)
  BY ShiftsAre
<1>3. PICK a \in Nat : Kept[x * t3] = a * t3 /\ 2 * (x - a) <= Lost(x) /\ 2 * (a - x) <= Lost(x)
  BY <1>1, KeptTimes
<1>4. PICK b \in Nat : Kept[y * t2] = b * t2 /\ 2 * (y - b) <= Lost(y) /\ 2 * (b - y) <= Lost(y)
  BY <1>2, KeptTimes
<1>5. PICK p \in Nat : p = a * b
  OBVIOUS
<1>6. PICK c \in Nat : /\ c = Truncated(Kept[p * TenTo(5)], TenTo(5))
                       /\ 2 * (p - c) <= Lost(p) /\ 2 * (c - p) <= Lost(p)
  BY KeptTimes
<1>7. owe = c
  <2>1. RadOf(x, WAD) = a * t3 /\ RadOf(y, RAY) = b * t2
    BY <1>1, <1>2, <1>3, <1>4, ShiftsAre DEF RadOf, Significant
  <2>2. (a * t3) * (b * t2) = (a * b) * (t3 * t2)
    OBVIOUS
  <2>3. RAD = TenTo(5) /\ TenTo(5) = t3 * t2
    BY <1>1, <1>2, ShiftsAre DEF RAD
  <2> QED BY <1>5, <1>6, <2>1, <2>2, <2>3 DEF RadMul, Product, Significant
<1>8. PICK t \in Nat : t = LastDigit /\ t >= 8
  BY LastDigitIs
<1>9. PICK D \in Nat : D = 2 * t /\ D >= 16
  BY <1>8
<1>10. /\ D * (x - a) <= x /\ D * (a - x) <= x
       /\ D * (y - b) <= y /\ D * (b - y) <= y
       /\ D * (p - c) <= p /\ D * (c - p) <= p
  BY <1>3, <1>4, <1>6, <1>8, <1>9, LessThanADigit
<1>11. D * (x * y - c) <= 4 * (x * y) /\ D * (c - x * y) <= 4 * (x * y)
  BY <1>5, <1>9, <1>10, ErrorsAddUp
<1>12. PICK n \in Nat : n = x * y
  OBVIOUS
<1>13. D * (n - c) = 2 * (t * (n - c)) /\ D * (c - n) = 2 * (t * (c - n))
  BY <1>9
<1>14. PICK u \in Int : u = t * (n - c)
  OBVIOUS
<1>15. PICK v \in Int : v = t * (c - n)
  OBVIOUS
<1>16. u <= 2 * n /\ v <= 2 * n
  BY <1>11, <1>12, <1>13, <1>14, <1>15
<1> QED
  BY <1>7, <1>8, <1>12, <1>14, <1>15, <1>16

(* Off the edge, all the comparisons with what is owed go as with the      *)
(* exact product.                                                          *)
LEMMA WithinTheMargin ==
    ASSUME NEW n \in Nat, NEW owe \in Nat,
           LastDigit * (n - owe) <= 2 * n, LastDigit * (owe - n) <= 2 * n
    PROVE  LET margin == (2 * n) \div LastDigit
           IN  margin \in Nat /\ n - owe <= margin /\ owe - n <= margin
<1>1. PICK t \in Nat \ {0} : t = LastDigit
  BY LastDigitIs
<1>2. PICK m \in Nat : m = (2 * n) \div t /\ 2 * n < t * m + t
  BY <1>1, QuotientBounds
<1>3. ASSUME NEW d \in Int, t * d <= 2 * n PROVE d <= m
  <2>1. SUFFICES ASSUME m + 1 <= d PROVE FALSE
    OBVIOUS
  <2>2. PICK e \in Nat : d = m + 1 + e
    <3>1. d - m - 1 \in Nat /\ d = m + 1 + (d - m - 1)
      BY <2>1
    <3> QED BY <3>1
  <2>3. t * d = t * m + t + t * e /\ t * e \in Nat
    BY <2>2
  <2>4. PICK u \in Nat : u = t * m
    OBVIOUS
  <2> QED BY <1>2, <1>3, <2>3, <2>4
<1>4. n - owe <= m /\ owe - n <= m
  BY <1>1, <1>3
<1> QED
  BY <1>1, <1>2, <1>4

(* validate_take agrees with take, for any auction, price and balance off  *)
(* the edge.                                                               *)
LEMMA BillIsRight ==
    ASSUME TakerInv, NEW a \in Auction, NEW amt \in Nat, NEW t,
           t.amt = amt, t.lot = a.lot, t.price = PriceOf(a), t.tab = a.tab, OffTheEdge(a, amt)
    PROVE  OweOf(t).can /\ balance >= OweOf(t).owe
               <=> Purchase(a, amt).can /\ Purchase(a, amt).owe <= balance
<1>1. PICK price \in Nat : price = PriceOf(a)
  BY PriceIs, TakerTypes
<1>2. PICK lot \in Nat : lot = a.lot
  BY DEF Auction
<1>3. PICK tab \in Nat : tab = a.tab
  BY DEF Auction
<1>4. PICK asked \in Nat : asked = (IF amt < lot THEN amt ELSE lot) /\ asked <= lot
  OBVIOUS
<1>5. PICK n \in Nat : n = asked * price
  OBVIOUS
<1>6. PICK owe \in Nat : /\ owe = RadMul(RadOf(asked, WAD), RadOf(price, RAY), RAD)
                         /\ LastDigit * (n - owe) <= 2 * n /\ LastDigit * (owe - n) <= 2 * n
  BY <1>5, ProductOwedIsClose
<1>7. PICK margin \in Nat : /\ margin = (2 * n) \div LastDigit
                            /\ n - owe <= margin /\ owe - n <= margin
  BY <1>6, WithinTheMargin
<1>8. CHOST \in Nat /\ balance \in Int
  BY AuctionsAssumption, TakerTypes
<1>9. PICK o : o = Purchase(a, amt).owe
  OBVIOUS
<1>10. /\ AbsValue(n - tab) > margin /\ AbsValue(tab - n - CHOST) > margin
       /\ AbsValue(o - balance) > margin
  BY <1>1, <1>2, <1>3, <1>4, <1>5, <1>7, <1>9 DEF OffTheEdge, LastDigit
<1>11. OweOf(t) = IF owe > tab THEN [can |-> TRUE, owe |-> tab]
                  ELSE IF owe < tab /\ asked < lot /\ tab - owe < CHOST
                       THEN [can |-> tab > CHOST, owe |-> tab - CHOST]
                  ELSE [can |-> TRUE, owe |-> owe]
  <2>1. SliceOf(t) = asked
    BY <1>2, <1>4 DEF SliceOf
  <2>2. ProductOwed(t) = owe
    BY <1>1, <1>6, <2>1 DEF ProductOwed
  <2> QED BY <1>2, <1>3, <2>1, <2>2 DEF OweOf
<1>12. Purchase(a, amt) =
           IF n > tab THEN [can |-> TRUE, owe |-> tab, slice |-> tab \div price]
           ELSE IF n < tab /\ asked < lot /\ tab - n < CHOST
                THEN [can |-> tab > CHOST, owe |-> tab - CHOST, slice |-> (tab - CHOST) \div price]
           ELSE [can |-> TRUE, owe |-> n, slice |-> asked]
  BY <1>1, <1>2, <1>3, <1>4, <1>5 DEF Purchase
<1>13. /\ owe > tab <=> n > tab
       /\ owe < tab <=> n < tab
       /\ tab - owe < CHOST <=> tab - n < CHOST
  BY <1>7, <1>8, <1>10 DEF AbsValue
<1>14. CASE n > tab
  BY <1>11, <1>12, <1>13, <1>14
<1>15. CASE ~(n > tab) /\ n < tab /\ asked < lot /\ tab - n < CHOST
  <2>1. PICK left : left = tab - CHOST
    OBVIOUS
  <2>2. PICK slice : slice = (tab - CHOST) \div price
    OBVIOUS
  <2>3. OweOf(t) = [can |-> tab > CHOST, owe |-> left]
    BY <1>11, <1>13, <1>15, <2>1
  <2>4. Purchase(a, amt) = [can |-> tab > CHOST, owe |-> left, slice |-> slice]
    BY <1>12, <1>15, <2>1, <2>2
  <2>5. OweOf(t).can = Purchase(a, amt).can /\ OweOf(t).owe = Purchase(a, amt).owe
    BY <2>3, <2>4
  <2>6. Purchase(a, amt).owe = left /\ left \in Int
    BY <1>8, <2>1, <2>4
  <2> QED BY <1>8, <2>5, <2>6
<1>16. CASE ~(n > tab) /\ ~(n < tab /\ asked < lot /\ tab - n < CHOST)
  <2>1. OweOf(t).can = TRUE /\ OweOf(t).owe = owe
    BY <1>11, <1>13, <1>16
  <2>2. Purchase(a, amt).can = TRUE /\ Purchase(a, amt).owe = n
    BY <1>12, <1>16
  <2>3. balance >= owe <=> n <= balance
    BY <1>7, <1>8, <1>9, <1>10, <2>2 DEF AbsValue
  <2> QED BY <2>1, <2>2, <2>3
<1> QED
  BY <1>14, <1>15, <1>16

(* While nothing moves that was read, validate_take says of every take, in *)
(* any state of the auction, whether it succeeds.                          *)
THEOREM TakesAreJudged == AuctionsSpec => []TakeIsJudged
<1>1. AuctionsInit => TakerInv
  BY TakerStarts
<1>2. TakerInv /\ [AuctionsNext]_auctionsVars => TakerInv'
  BY TakerStep
<1>3. TakerInv => TakeIsJudged
  <2>1. SUFFICES ASSUME TakerInv, NEW a, a = auctions[taker.id],
                        taker.state = "answered", a.guy # "nobody", OffTheEdge(a, taker.amt),
                        taker.done = IsDone(a), taker.price = PriceOf(a), taker.lot = a.lot,
                        taker.tab = a.tab, taker.dai = balance
                 PROVE  (taker.verdict = "valid") = TakeSucceeds(a, taker.amt, taker.max, balance)
    BY DEF TakeIsJudged
  <2>2. taker.id \in DOMAIN auctions /\ taker.amt \in Nat /\ taker.dai \in Int
    BY <2>1 DEF TakerInv, TakerTypeOK
  <2>3. a \in Auction
    BY <2>1, <2>2, TakerTypes
  <2>4. OweOf(taker).can /\ balance >= OweOf(taker).owe
            <=> Purchase(a, taker.amt).can /\ Purchase(a, taker.amt).owe <= balance
    BY <2>1, <2>2, <2>3, BillIsRight
  <2>5. taker.verdict = "valid" <=> /\ ~ taker.done /\ taker.price <= taker.max
                                    /\ OweOf(taker).can /\ taker.dai >= OweOf(taker).owe
    BY <2>1 DEF TakerInv, AnswerIsOfWhatWasRead
  <2>6. taker.verdict = "valid" <=> TakeSucceeds(a, taker.amt, taker.max, balance)
    BY <2>1, <2>4, <2>5 DEF TakeSucceeds
  <2> QED BY <2>6 DEF TakeSucceeds
<1> QED
  BY <1>1, <1>2, <1>3, PTL DEF AuctionsSpec

-----------------------------------------------------------------------------
(* Calls that judge a vault. *)

VaultOps == {"validate_frob", "get_wipe_all_dart", "can_bite"}

GettersOf(op) == Len(Getters[op])

(* What a call has read of each getter that it has come by, and what it    *)
(* answers.                                                                *)
CallInv ==
    vaultCall.op # "none" =>
        /\ vaultCall.step \in 1 .. GettersOf(vaultCall.op) + 2
        /\ \A k \in 1 .. GettersOf(vaultCall.op) :
               k < vaultCall.step => Getters[vaultCall.op][k] \subseteq DOMAIN vaultCall.read
        /\ vaultCall.step <= GettersOf(vaultCall.op) + 1 => vaultCall.verdict = "none"

AnswersInv ==
    /\ vaultCall.op = "validate_frob" /\ vaultCall.verdict # "none" =>
           vaultCall.verdict = IF ValidateFrob(vaultCall.read, vaultCall.dink, vaultCall.dart)
                               THEN "valid" ELSE "invalid"
    /\ vaultCall.op = "can_bite" /\ vaultCall.verdict # "none" =>
           vaultCall.verdict = CanBite(vaultCall.read)

VerdictInv ==
    /\ VaultCallOK /\ system \in [VatFields -> Nat]
    /\ vaultCall.op \in VaultOps \cup {"none"} /\ vaultCall.dink \in Int /\ vaultCall.dart \in Int
    /\ CallInv /\ AnswersInv

LEMMA GettersAre ==
    /\ Getters["validate_frob"] = FrobGetters /\ GettersOf("validate_frob") = 5
    /\ Getters["get_wipe_all_dart"] = WipeAllGetters /\ GettersOf("get_wipe_all_dart") = 2
    /\ Getters["can_bite"] = BiteGetters /\ GettersOf("can_bite") = 6
    /\ \A op \in VaultOps : GettersOf(op) \in Nat /\ DOMAIN Getters[op] = 1 .. GettersOf(op)
<1>1. /\ Getters["validate_frob"] = FrobGetters /\ Getters["get_wipe_all_dart"] = WipeAllGetters
      /\ Getters["can_bite"] = BiteGetters
  BY DEF Getters
<1>2. Len(FrobGetters) = 5 /\ DOMAIN FrobGetters = 1 .. 5
  BY DEF FrobGetters
<1>3. Len(WipeAllGetters) = 2 /\ DOMAIN WipeAllGetters = 1 .. 2
  BY DEF WipeAllGetters
<1>4. Len(BiteGetters) = 6 /\ DOMAIN BiteGetters = 1 .. 6
  BY DEF BiteGetters
<1> QED
  BY <1>1, <1>2, <1>3, <1>4 DEF GettersOf, VaultOps

LEMMA CallsVat ==
    ASSUME VerdictInv, NEW op \in VaultOps, NEW dink \in Int, NEW dart \in Int,
           CallVat(op, dink, dart)
    PROVE  VerdictInv'
<1>1. vaultCall' = [op |-> op, step |-> 1, dink |-> dink, dart |-> dart, read |-> NothingRead,
                    verdict |-> "none", amount |-> 0] /\ system' = system
  BY DEF CallVat, NoVaultCall
<1>2. PICK n \in Nat : n = GettersOf(op)
  BY GettersAre
<1>3. op # "none" /\ 1 \in 1 .. n + 2
  BY DEF VaultOps
<1>4. vaultCall'.op = op /\ vaultCall'.step = 1 /\ vaultCall'.verdict = "none"
      /\ vaultCall'.dink = dink /\ vaultCall'.dart = dart
  BY <1>1
<1>5. GettersOf(vaultCall'.op) = n
  BY <1>2, <1>4
<1>6. CallInv'
  <2>1. GettersOf(vaultCall.op)' = GettersOf(vaultCall'.op)
    BY DEF GettersOf
  <2> QED BY <1>3, <1>4, <1>5, <2>1 DEF CallInv
<1>7. AnswersInv'
  BY <1>4 DEF AnswersInv
<1>8. VaultCallOK'
  BY <1>1 DEF VaultCallOK
<1> QED
  BY <1>1, <1>4, <1>6, <1>7, <1>8 DEF VerdictInv

LEMMA ReadsGetter == ASSUME VerdictInv, ReadGetter PROVE VerdictInv'
<1>1. PICK op \in VaultOps : op = vaultCall.op /\ op # "none"
  BY DEF ReadGetter, VerdictInv
<1>2. PICK n \in Nat : n = GettersOf(op) /\ DOMAIN Getters[op] = 1 .. n
  BY GettersAre
<1>3. PICK s \in 1 .. n : s = vaultCall.step
  BY <1>1, <1>2 DEF ReadGetter
<1>4. PICK read : read = Read(Getters[op][s])
  OBVIOUS
<1>5. vaultCall' = [vaultCall EXCEPT !.step = s + 1, !.read = read] /\ system' = system
  BY <1>1, <1>3, <1>4 DEF ReadGetter
<1>6. /\ vaultCall'.op = op /\ vaultCall'.step = s + 1 /\ vaultCall'.read = read
      /\ vaultCall'.verdict = vaultCall.verdict /\ vaultCall'.dink = vaultCall.dink
      /\ vaultCall'.dart = vaultCall.dart /\ VaultCallOK'
  BY <1>1, <1>5 DEF VerdictInv, VaultCallOK
<1>7. DOMAIN read = DOMAIN vaultCall.read \cup Getters[op][s]
  BY <1>4 DEF Read
<1>8. /\ \A k \in 1 .. n : k < s => Getters[op][k] \subseteq DOMAIN vaultCall.read
      /\ vaultCall.verdict = "none"
  <2>1. s <= n + 1
    BY <1>3
  <2> QED BY <1>1, <1>2, <1>3, <2>1 DEF VerdictInv, CallInv
<1>9. \A k \in 1 .. n : k < s + 1 => Getters[op][k] \subseteq DOMAIN read
  <2>1. SUFFICES ASSUME NEW k \in 1 .. n, k < s + 1 PROVE Getters[op][k] \subseteq DOMAIN read
    OBVIOUS
  <2>2. k < s \/ k = s
    BY <2>1
  <2> QED BY <1>7, <1>8, <2>2
<1>10. CallInv'
  <2>1. GettersOf(vaultCall.op)' = n
    BY <1>2, <1>6 DEF GettersOf
  <2>2. s + 1 \in 1 .. n + 2
    BY <1>3
  <2>3. Getters[vaultCall.op]' = Getters[op]
    BY <1>6 DEF Getters, FrobGetters, WipeAllGetters, BiteGetters
  <2> QED BY <1>6, <1>8, <1>9, <2>1, <2>2, <2>3 DEF CallInv
<1>11. AnswersInv'
  BY <1>6, <1>8 DEF AnswersInv
<1> QED
  BY <1>1, <1>5, <1>6, <1>10, <1>11 DEF VerdictInv

LEMMA AnswersCall ==
    ASSUME VerdictInv, NEW op \in VaultOps, AllRead(op), NEW verdict, NEW amount,
           Answers(verdict, amount), verdict # "none",
           op = "validate_frob" =>
               verdict = IF ValidateFrob(vaultCall.read, vaultCall.dink, vaultCall.dart)
                         THEN "valid" ELSE "invalid",
           op = "can_bite" => verdict = CanBite(vaultCall.read)
    PROVE  VerdictInv'
<1>1. PICK n \in Nat : n = GettersOf(op)
  BY GettersAre
<1>2. vaultCall.op = op /\ vaultCall.step = n + 1 /\ op # "none"
  BY <1>1 DEF AllRead, GettersOf, VaultOps
<1>3. vaultCall' = [vaultCall EXCEPT !.step = n + 2, !.verdict = verdict, !.amount = amount]
      /\ system' = system
  <2>1. vaultCall.step + 1 = n + 2
    BY <1>2
  <2> QED BY <2>1 DEF Answers
<1>4. /\ vaultCall'.op = op /\ vaultCall'.step = n + 2 /\ vaultCall'.read = vaultCall.read
      /\ vaultCall'.verdict = verdict /\ vaultCall'.dink = vaultCall.dink
      /\ vaultCall'.dart = vaultCall.dart /\ VaultCallOK'
  BY <1>2, <1>3 DEF VerdictInv, VaultCallOK
<1>5. \A k \in 1 .. n : Getters[op][k] \subseteq DOMAIN vaultCall.read
  <2>1. \A k \in 1 .. n : k < n + 1
    OBVIOUS
  <2> QED BY <1>1, <1>2, <2>1 DEF VerdictInv, CallInv
<1>6. CallInv'
  <2>1. GettersOf(vaultCall.op)' = n
    BY <1>1, <1>4 DEF GettersOf
  <2>2. n + 2 \in 1 .. n + 2 /\ ~(n + 2 <= n + 1)
    OBVIOUS
  <2>3. Getters[vaultCall.op]' = Getters[op]
    BY <1>4 DEF Getters, FrobGetters, WipeAllGetters, BiteGetters
  <2> QED BY <1>4, <1>5, <2>1, <2>2, <2>3 DEF CallInv
<1>7. AnswersInv'
  <2>1. ValidateFrob(vaultCall.read, vaultCall.dink, vaultCall.dart)'
            <=> ValidateFrob(vaultCall.read, vaultCall.dink, vaultCall.dart)
    BY <1>4 DEF ValidateFrob, Calm, CollateralDebt, Safe, Neat, FrobTab
  <2>2. CanBite(vaultCall.read)' = CanBite(vaultCall.read)
    BY <1>4 DEF CanBite, UrnIsSafe, RoomInBox, NotNull, BiteDart, BiteDink
  <2> QED BY <1>4, <2>1, <2>2 DEF AnswersInv
<1> QED
  BY <1>2, <1>3, <1>4, <1>6, <1>7 DEF VerdictInv

LEMMA VerdictStep == VerdictInv /\ [VaultsNext]_vaultVars => VerdictInv'
<1> SUFFICES ASSUME VerdictInv, [VaultsNext]_vaultVars PROVE VerdictInv'
  OBVIOUS
<1>1. ASSUME UNCHANGED vaultCall, system' \in [VatFields -> Nat] PROVE VerdictInv'
  <2>1. AnswersInv'
    <3>1. ValidateFrob(vaultCall.read, vaultCall.dink, vaultCall.dart)'
              <=> ValidateFrob(vaultCall.read, vaultCall.dink, vaultCall.dart)
      BY <1>1 DEF ValidateFrob, Calm, CollateralDebt, Safe, Neat, FrobTab
    <3>2. CanBite(vaultCall.read)' = CanBite(vaultCall.read)
      BY <1>1 DEF CanBite, UrnIsSafe, RoomInBox, NotNull, BiteDart, BiteDink
    <3> QED BY <1>1, <3>1, <3>2 DEF AnswersInv, VerdictInv
  <2>2. CallInv'
    BY <1>1 DEF VerdictInv, CallInv, GettersOf, Getters, FrobGetters, WipeAllGetters, BiteGetters
  <2> QED BY <1>1, <2>1, <2>2 DEF VerdictInv, VaultCallOK
<1>2. CASE UNCHANGED vaultVars
  BY <1>1, <1>2 DEF vaultVars, VerdictInv
<1>3. CASE OthersTransact
  BY <1>1, <1>3 DEF OthersTransact
<1>4. ASSUME NEW dink \in Dinks, NEW dart \in Darts, CallVat("validate_frob", dink, dart)
      PROVE  VerdictInv'
  <2>1. dink \in Int /\ dart \in Int /\ "validate_frob" \in VaultOps
    BY VaultsAssumption DEF VaultOps
  <2> QED BY <1>4, <2>1, CallsVat
<1>5. ASSUME NEW op \in {"get_wipe_all_dart", "can_bite"}, CallVat(op, 0, 0) PROVE VerdictInv'
  <2>1. op \in VaultOps
    BY DEF VaultOps
  <2> QED BY <1>5, <2>1, CallsVat
<1>6. CASE ValidateFrobAnswers
  <2>1. PICK verdict : verdict = IF ValidateFrob(vaultCall.read, vaultCall.dink, vaultCall.dart)
                                 THEN "valid" ELSE "invalid"
    OBVIOUS
  <2>2. AllRead("validate_frob") /\ Answers(verdict, 0)
    BY <1>6, <2>1 DEF ValidateFrobAnswers
  <2>3. verdict # "none" /\ "validate_frob" \in VaultOps
    BY <2>1 DEF VaultOps
  <2> HIDE <1>6
  <2> QED BY <2>1, <2>2, <2>3, AnswersCall
<1>7. CASE WipeAllAnswers
  <2>1. AllRead("get_wipe_all_dart") /\ "get_wipe_all_dart" \in VaultOps
    BY <1>7 DEF WipeAllAnswers, VaultOps
  <2>2. Answers("raised", 0) \/ Answers("amount", GetWipeAllDart(vaultCall.read))
    BY <1>7 DEF WipeAllAnswers
  <2> HIDE <1>7
  <2>3. CASE Answers("raised", 0)
    BY <2>1, <2>3, AnswersCall
  <2>4. CASE Answers("amount", GetWipeAllDart(vaultCall.read))
    BY <2>1, <2>4, AnswersCall
  <2> QED BY <2>2, <2>3, <2>4
<1>8. CASE CanBiteAnswers
  <2>1. AllRead("can_bite") /\ Answers(CanBite(vaultCall.read), 0)
    BY <1>8 DEF CanBiteAnswers
  <2>2. "can_bite" \in VaultOps /\ CanBite(vaultCall.read) # "none"
    BY DEF VaultOps, CanBite
  <2> QED BY <2>1, <2>2, AnswersCall
<1> QED
  BY <1>2, <1>3, <1>4, <1>5, <1>6, <1>7, <1>8, ReadsGetter DEF VaultsNext

LEMMA VerdictStarts == VaultsInit => VerdictInv
<1> SUFFICES ASSUME VaultsInit PROVE VerdictInv
  OBVIOUS
<1>1. system \in [VatFields -> Nat]
  BY VaultsAssumption DEF VaultsInit
<1> QED
  BY <1>1 DEF VaultsInit, VerdictInv, NoVaultCall, VaultCallOK, CallInv, AnswersInv

(* What was read and is still true is what the system is.                  *)
LEMMA AllIsRead ==
    ASSUME VerdictInv, NEW op \in VaultOps, StillTrue(op), NEW k \in 1 .. GettersOf(op),
           NEW f \in Getters[op][k]
    PROVE  vaultCall.read[f] = system[f]
<1>1. PICK n \in Nat : n = GettersOf(op)
  BY GettersAre
<1>2. vaultCall.op = op /\ vaultCall.verdict # "none" /\ op # "none"
  BY DEF StillTrue, VaultOps
<1>3. vaultCall.step \in 1 .. n + 2 /\ ~(vaultCall.step <= n + 1)
  BY <1>1, <1>2 DEF VerdictInv, CallInv
<1>4. k < vaultCall.step
  BY <1>1, <1>3
<1>5. f \in DOMAIN vaultCall.read
  BY <1>2, <1>4 DEF VerdictInv, CallInv
<1> QED
  BY <1>5 DEF StillTrue

LEMMA FrobIsOfTheSystem ==
    ASSUME VerdictInv, StillTrue("validate_frob")
    PROVE  vaultCall.verdict = "valid" <=> ValidateFrob(system, vaultCall.dink, vaultCall.dart)
<1>1. PICK read : read = vaultCall.read
  OBVIOUS
<1>2. /\ read["live"] = system["live"] /\ read["ink"] = system["ink"]
      /\ read["art"] = system["art"] /\ read["Art"] = system["Art"]
      /\ read["rate"] = system["rate"] /\ read["spot"] = system["spot"]
      /\ read["line"] = system["line"] /\ read["dust"] = system["dust"]
      /\ read["debt"] = system["debt"] /\ read["Line"] = system["Line"]
  <2>1. \A k \in 1 .. 5 : \A f \in FrobGetters[k] : read[f] = system[f]
    <3>1. "validate_frob" \in VaultOps
      BY DEF VaultOps
    <3> QED BY <1>1, <3>1, GettersAre, AllIsRead
  <2>2. /\ FrobGetters[1] = {"live"} /\ FrobGetters[2] = {"ink", "art"}
        /\ FrobGetters[3] = {"Art", "rate", "spot", "line", "dust"}
        /\ FrobGetters[4] = {"debt"} /\ FrobGetters[5] = {"Line"}
    BY DEF FrobGetters
  <2>3. 1 \in 1 .. 5 /\ 2 \in 1 .. 5 /\ 3 \in 1 .. 5 /\ 4 \in 1 .. 5 /\ 5 \in 1 .. 5
    OBVIOUS
  <2> QED BY <2>1, <2>2, <2>3
<1>3. ValidateFrob(read, vaultCall.dink, vaultCall.dart)
          <=> ValidateFrob(system, vaultCall.dink, vaultCall.dart)
  BY <1>2 DEF ValidateFrob, Calm, CollateralDebt, Safe, Neat, FrobTab
<1>4. vaultCall.verdict = IF ValidateFrob(read, vaultCall.dink, vaultCall.dart)
                          THEN "valid" ELSE "invalid"
  BY <1>1 DEF VerdictInv, AnswersInv, StillTrue
<1> QED
  BY <1>3, <1>4

LEMMA BiteIsOfTheSystem ==
    ASSUME VerdictInv, StillTrue("can_bite")
    PROVE  vaultCall.verdict = CanBite(system)
<1>1. PICK read : read = vaultCall.read
  OBVIOUS
<1>2. /\ read["rate"] = system["rate"] /\ read["spot"] = system["spot"]
      /\ read["dust"] = system["dust"] /\ read["ink"] = system["ink"]
      /\ read["art"] = system["art"] /\ read["box"] = system["box"]
      /\ read["litter"] = system["litter"] /\ read["chop"] = system["chop"]
      /\ read["dunk"] = system["dunk"]
  <2>1. \A k \in 1 .. 6 : \A f \in BiteGetters[k] : read[f] = system[f]
    <3>1. "can_bite" \in VaultOps
      BY DEF VaultOps
    <3> QED BY <1>1, <3>1, GettersAre, AllIsRead
  <2>2. /\ BiteGetters[1] = {"rate", "spot", "dust"} /\ BiteGetters[2] = {"ink", "art"}
        /\ BiteGetters[3] = {"box"} /\ BiteGetters[4] = {"litter"}
        /\ BiteGetters[5] = {"chop"} /\ BiteGetters[6] = {"dunk"}
    BY DEF BiteGetters
  <2>3. 1 \in 1 .. 6 /\ 2 \in 1 .. 6 /\ 3 \in 1 .. 6 /\ 4 \in 1 .. 6 /\ 5 \in 1 .. 6 /\ 6 \in 1 .. 6
    OBVIOUS
  <2> QED BY <2>1, <2>2, <2>3
<1>3. CanBite(read) = CanBite(system)
  BY <1>2 DEF CanBite, UrnIsSafe, RoomInBox, NotNull, BiteDart, BiteDink
<1>4. vaultCall.verdict = CanBite(read)
  BY <1>1 DEF VerdictInv, AnswersInv, StillTrue
<1> QED
  BY <1>3, <1>4

-----------------------------------------------------------------------------
(* How far rounded values are from exact ones. *)

LEMMA ExcessAtMost ==
    ASSUME NEW n \in Nat, NEW k \in Nat, n < TenTo(PREC + k)
    PROVE  Excess[n] <= k
<1>1. PICK e \in Nat : e = Excess[n]
  BY ExcessBounds
<1>2. SUFFICES ASSUME k + 1 <= e PROVE FALSE
  BY <1>1
<1>3. PREC + k \in Nat /\ PREC + e - 1 \in Nat /\ PREC + k <= PREC + e - 1
  BY <1>2, FixedPointAssumption
<1>4. PICK a \in Nat : a = TenTo(PREC + k)
  BY <1>3, TenToIs
<1>5. PICK b \in Nat : b = TenTo(PREC + e - 1)
  BY <1>3, TenToIs
<1>6. a <= b
  BY <1>3, <1>4, <1>5, TenToRises
<1>7. n >= b
  BY <1>1, <1>2, <1>5, ExcessBounds
<1> QED
  BY <1>4, <1>6, <1>7

(* The last digit of the first ones that are kept. *)
LEMMA LastPlaceIs ==
    ASSUME NEW n \in Nat
    PROVE  /\ n < LastDigit * (TEN * Lost(n)) /\ TEN * Lost(n) \in Nat \ {0}
           /\ \A m \in Nat : m <= LastDigit * (TEN * Lost(n)) + 2 * (TEN * Lost(n))
                             => Lost(m) <= TEN * Lost(n)
<1>1. PICK e \in Nat : e = Excess[n]
  BY ExcessBounds
<1>2. PICK l \in Nat \ {0} : l = Lost(n)
  BY LostIs
<1>3. PICK t \in Nat : t = LastDigit /\ t >= 8
  BY LastDigitIs
<1>4. PICK ten \in Nat : ten = TEN /\ ten >= 10
  BY FixedPointAssumption
<1>5. TenTo(PREC) = ten * t
  <2>1. PICK j \in Nat : j = PREC - 1 /\ j + 1 = PREC
    BY FixedPointAssumption
  <2> QED BY <1>3, <1>4, <2>1, TenToIs DEF LastDigit
<1>6. PICK b \in Nat : b = ten * t
  OBVIOUS
<1>7. TenTo(PREC + e) = b * l
  <2>1. TenTo(PREC + e) = TenTo(PREC) * TenTo(e)
    BY TenToAdds, FixedPointAssumption
  <2>2. TenTo(PREC) = b /\ TenTo(e) = l
    BY <1>1, <1>2, <1>5, <1>6 DEF Lost
  <2> QED BY <2>1, <2>2
<1>8. n < b * l
  BY <1>1, <1>7, ExcessBounds
<1>9. b * l = t * (ten * l)
  BY <1>6
<1>10. PICK q \in Nat \ {0} : q = ten * l
  BY <1>4
<1>11. ASSUME NEW m \in Nat, m <= t * q + 2 * q
       PROVE  Lost(m) <= q
  <2>1. TenTo(e + 1) = q
    BY <1>1, <1>2, <1>4, <1>10, TenToIs DEF Lost
  <2>2. TenTo(PREC + (e + 1)) = b * q
    BY <1>5, <1>6, <2>1, TenToAdds, FixedPointAssumption
  <2>3. PICK c \in Nat : c = t * q
    OBVIOUS
  <2>4. b * q = ten * c
    BY <1>6, <2>3
  <2>5. 8 * q <= c
    <3>1. PICK d \in Nat : t = d + 8
      <4>1. t - 8 \in Nat /\ t = (t - 8) + 8
        BY <1>3
      <4> QED BY <4>1
    <3>2. c = d * q + 8 * q /\ d * q \in Nat
      BY <2>3, <3>1
    <3> QED BY <3>2
  <2>6. 10 * c <= ten * c
    <3>1. PICK d \in Nat : ten = d + 10
      <4>1. ten - 10 \in Nat /\ ten = (ten - 10) + 10
        BY <1>4
      <4> QED BY <4>1
    <3>2. ten * c = d * c + 10 * c /\ d * c \in Nat
      BY <3>1
    <3> QED BY <3>2
  <2>7. PICK u \in Nat : u = ten * c
    OBVIOUS
  <2>8. m < u
    BY <1>11, <2>3, <2>5, <2>6, <2>7
  <2>9. Excess[m] <= e + 1 /\ Excess[m] \in Nat
    BY <1>1, <2>2, <2>4, <2>7, <2>8, ExcessAtMost, ExcessBounds
  <2> QED BY <2>1, <2>9, TenToRises DEF Lost
<1>12. n < t * q
  BY <1>6, <1>8, <1>9, <1>10
<1>13. LastDigit = t /\ TEN * Lost(n) = q
  BY <1>2, <1>3, <1>4, <1>10
<1>14. SUFFICES ASSUME NEW m \in Nat, m <= LastDigit * (TEN * Lost(n)) + 2 * (TEN * Lost(n))
                PROVE  Lost(m) <= TEN * Lost(n)
  BY <1>12, <1>13, Zenon
<1>15. m <= t * q + 2 * q
  BY <1>13, <1>14
<1> QED
  BY <1>11, <1>13, <1>15

(* An error of at most two last digits of a number.                        *)
LEMMA ErrorOf ==
    ASSUME NEW t \in Nat, t >= 8, NEW q \in Nat \ {0}, NEW n \in Nat, n <= t * q,
           NEW e \in Int, t * e <= 2 * n
    PROVE  e <= 2 * q
<1>1. SUFFICES ASSUME e > 2 * q PROVE FALSE
  OBVIOUS
<1>2. PICK d \in Nat \ {0} : e = 2 * q + d
  <2>1. e - 2 * q \in Nat \ {0} /\ e = 2 * q + (e - 2 * q)
    BY <1>1
  <2> QED BY <2>1
<1>3. PICK u \in Nat : u = t * q
  OBVIOUS
<1>4. t * e = 2 * u + t * d
  BY <1>2, <1>3
<1>5. PICK v \in Nat : v = t * d
  OBVIOUS
<1>6. v > 0
  BY <1>2, <1>5
<1> QED
  BY <1>3, <1>4, <1>5, <1>6

(* The product of a Wad and a Ray as Ray computes it, of n in the contracts. *)
RayProduct(x, y) == RayMul(RayOfWad(x), y, RAY)

LEMMA RayProductIs ==
    ASSUME NEW x \in Nat, NEW y \in Nat
    PROVE  LET w == RayProduct(x, y)
           IN  /\ w \in Nat
               /\ LastDigit * (TenTo(2) * w - x * y) <= 2 * (x * y)
               /\ LastDigit * (x * y - TenTo(2) * w - TenTo(2)) <= 2 * (x * y)
<1>1. PICK t \in Nat : t = LastDigit /\ t >= 8
  BY LastDigitIs
<1>2. PICK D \in Nat : D = 2 * t /\ D >= 16
  BY <1>1
<1>3. PICK ten \in Nat : ten = TEN /\ ten >= 10
  BY FixedPointAssumption
<1>4. PICK h \in Nat \ {0} : h = TenTo(2)
  BY TenToIs
<1>5. RAY = ten * h /\ RAY \div WAD = ten
  <2>1. TenTo(3) = ten * h
    BY <1>3, <1>4, TenToIs, 2 + 1 = 3
  <2>2. (ten * h) \div h = ten
    BY <1>3, <1>4, DividesOut
  <2> QED BY <1>4, <2>1, <2>2 DEF RAY, WAD
<1>6. PICK z \in Nat : z = x * ten
  OBVIOUS
<1>7. PICK a \in Nat : a = Kept[z]
  BY KeptIs
<1>8. RayOfWad(x) = a
  BY <1>5, <1>6, <1>7 DEF RayOfWad, Significant
<1>9. PICK p \in Nat : p = a * y
  OBVIOUS
<1>10. PICK k \in Nat : k = Kept[p]
  BY KeptIs
<1>11. PICK one \in Nat \ {0} : one = ten * h
  BY <1>3
<1>12. PICK w \in Nat : w = Truncated(k, one)
  BY TruncatedIs
<1>13. RayProduct(x, y) = w
  BY <1>5, <1>8, <1>9, <1>10, <1>11, <1>12 DEF RayProduct, RayMul, Product, Significant
<1>14. one * w <= k /\ k < one * w + one
  BY <1>12, TruncatedIs
<1>15. D * (z - a) <= z /\ D * (a - z) <= z
  <2>1. 2 * (z - a) <= Lost(z) /\ 2 * (a - z) <= Lost(z)
    BY <1>7, KeptIs
  <2> QED BY <1>1, <1>2, <2>1, LessThanADigit
<1>16. D * (p - k) <= p /\ D * (k - p) <= p
  <2>1. 2 * (p - k) <= Lost(p) /\ 2 * (k - p) <= Lost(p)
    BY <1>10, KeptIs
  <2> QED BY <1>1, <1>2, <2>1, LessThanADigit
<1>17. D * (y - y) <= y
  BY <1>2
<1>18. D * (z * y - k) <= 4 * (z * y) /\ D * (k - z * y) <= 4 * (z * y)
  BY <1>2, <1>9, <1>15, <1>16, <1>17, ErrorsAddUp
<1>19. PICK n \in Nat : n = x * y
  OBVIOUS
<1>20. PICK hw \in Nat : hw = h * w
  OBVIOUS
<1>21. z * y = ten * n /\ one * w = ten * hw
  BY <1>6, <1>11, <1>19, <1>20
<1>22. ASSUME NEW e \in Int, NEW f \in Int, D * f <= 4 * (ten * n), ten * e <= f
       PROVE  t * e <= 2 * n
  <2>1. PICK g \in Nat : f = ten * e + g
    <3>1. ten * e \in Int
      OBVIOUS
    <3>2. f - ten * e \in Nat /\ f = ten * e + (f - ten * e)
      BY <1>22, <3>1
    <3> QED BY <3>2
  <2>2. D * f = 2 * (ten * (t * e)) + D * g /\ D * g \in Nat
    BY <1>2, <2>1
  <2>3. SUFFICES ASSUME t * e > 2 * n PROVE FALSE
    OBVIOUS
  <2>4. t * e \in Int
    OBVIOUS
  <2>5. PICK i \in Nat : i = t * e - 2 * n /\ i > 0
    BY <2>3, <2>4
  <2>6. t * e = 2 * n + i
    BY <2>4, <2>5
  <2>7. ten * (t * e) = 2 * (ten * n) + ten * i
    BY <2>6
  <2>8. ten * i \in Nat /\ ten * i > 0
    BY <1>3, <2>5
  <2>9. ten * n \in Nat /\ ten * (t * e) \in Int /\ D * f \in Int
    BY <2>4
  <2> QED BY <1>22, <2>2, <2>7, <2>8, <2>9
<1>23. t * (hw - n) <= 2 * n
  <2>1. ten * (hw - n) <= k - ten * n
    BY <1>14, <1>21
  <2>2. D * (k - ten * n) <= 4 * (ten * n)
    BY <1>18, <1>21
  <2>3. hw - n \in Int /\ k - ten * n \in Int
    OBVIOUS
  <2> QED BY <1>22, <2>1, <2>2, <2>3
<1>24. t * (n - hw - h) <= 2 * n
  <2>1. ten * (n - hw - h) <= ten * n - k
    BY <1>11, <1>14, <1>21
  <2>2. D * (ten * n - k) <= 4 * (ten * n)
    BY <1>18, <1>21
  <2>3. n - hw - h \in Int /\ ten * n - k \in Int
    OBVIOUS
  <2> QED BY <1>22, <2>1, <2>2, <2>3
<1> QED
  BY <1>1, <1>4, <1>13, <1>19, <1>20, <1>23, <1>24

(* What is made a Rad of is close to what the contracts compute. *)
LEMMA RadIsClose ==
    ASSUME NEW x \in Nat, NEW y \in Nat, NEW n, n = x * y, NEW r, r = RadOf(RayProduct(x, y), RAY)
    PROVE  /\ r \in Nat
           /\ r - n <= 3 * (TEN * Lost(n)) /\ n - r <= 3 * (TEN * Lost(n)) + TenTo(2)
<1>1. PICK t \in Nat : t = LastDigit /\ t >= 8
  BY LastDigitIs
<1>2. PICK h \in Nat \ {0} : h = TenTo(2)
  BY TenToIs
<1>3. n \in Nat
  OBVIOUS
<1>4. PICK q \in Nat \ {0} : q = TEN * Lost(n)
  BY <1>3, LastPlaceIs
<1>5. PICK w \in Nat : /\ w = RayProduct(x, y)
                       /\ t * (h * w - n) <= 2 * n /\ t * (n - h * w - h) <= 2 * n
  BY <1>1, <1>2, RayProductIs
<1>6. PICK hw \in Nat : hw = h * w
  OBVIOUS
<1>7. n < t * q
  BY <1>1, <1>3, <1>4, LastPlaceIs
<1>8. hw - n <= 2 * q /\ n - hw - h <= 2 * q
  <2>1. hw - n \in Int /\ n - hw - h \in Int
    BY <1>3
  <2>2. t * (hw - n) <= 2 * n /\ t * (n - hw - h) <= 2 * n
    BY <1>5, <1>6
  <2>3. n <= t * q
    BY <1>3, <1>7
  <2> QED BY <1>1, <1>3, <2>1, <2>2, <2>3, ErrorOf
<1>9. r = Kept[hw]
  <2>1. w * h = hw
    BY <1>6
  <2> QED BY <1>2, <1>5, <2>1, ShiftsAre DEF RadOf, Significant
<1>10. Lost(hw) <= q /\ Lost(hw) \in Nat
  <2>1. PICK u \in Nat : u = t * q
    OBVIOUS
  <2>2. hw <= t * q + 2 * q
    BY <1>3, <1>7, <1>8, <2>1
  <2> QED BY <1>1, <1>3, <1>4, <2>2, LastPlaceIs, LostIs
<1>11. r \in Nat /\ 2 * (hw - r) <= Lost(hw) /\ 2 * (r - hw) <= Lost(hw)
  BY <1>9, KeptIs
<1>12. PICK l \in Nat : l = Lost(hw) /\ l <= q
  BY <1>10
<1>13. r \in Nat /\ r - n <= 3 * q /\ n - r <= 3 * q + h
  BY <1>3, <1>8, <1>11, <1>12
<1> QED
  BY <1>2, <1>4, <1>13

(* The margin exceeds ten last digits. *)
LEMMA MarginIs ==
    ASSUME NEW n \in Nat
    PROVE  RoundingMargin(n) \in Nat /\ RoundingMargin(n) >= TenTo(2) + 10 * (TEN * Lost(n))
<1>1. PICK l \in Nat \ {0} : l = Lost(n)
  BY LostIs
<1>2. PICK ten \in Nat : ten = TEN /\ ten >= 10
  BY FixedPointAssumption
<1>3. TenTo(2) = ten * ten
  <2>1. TenTo(1) = ten * 1 /\ TenTo(2) = ten * TenTo(1)
    BY <1>2, TenToIs, 0 + 1 = 1, 1 + 1 = 2
  <2> QED BY <2>1
<1>4. RoundingMargin(n) = ten * ten + l * (ten * ten)
  BY <1>1, <1>3, SizesAre, ShiftsAre DEF RoundingMargin, Lost
<1>5. PICK q \in Nat : q = ten * l
  OBVIOUS
<1>6. l * (ten * ten) = ten * q
  BY <1>5
<1>7. 10 * q <= ten * q
  <2>1. PICK d \in Nat : ten = d + 10
    <3>1. ten - 10 \in Nat /\ ten = (ten - 10) + 10
      BY <1>2
    <3> QED BY <3>1
  <2>2. ten * q = d * q + 10 * q /\ d * q \in Nat
    BY <2>1
  <2> QED BY <2>2
<1>8. PICK h \in Nat : h = ten * ten
  OBVIOUS
<1>9. PICK u \in Nat : u = ten * q
  OBVIOUS
<1>10. RoundingMargin(n) = h + u /\ 10 * q <= u
  BY <1>4, <1>6, <1>7, <1>8, <1>9
<1>11. TenTo(2) = h /\ TEN * Lost(n) = q
  BY <1>1, <1>2, <1>3, <1>5, <1>8
<1> QED
  BY <1>10, <1>11

(* The debts that are held against the ceilings: a part's margin is no more *)
(* than the whole's.                                                       *)
LEMMA DebtsAreClose ==
    ASSUME NEW rate \in Nat, NEW all \in Nat, NEW dart \in Nat, dart <= all
    PROVE  LET M == RoundingMargin(rate * all)
               total == RadOf(RayProduct(all, rate), RAY)
               dtab == RadOf(RayProduct(dart, rate), RAY)
           IN  /\ M \in Nat /\ total \in Nat /\ dtab \in Nat
               /\ total - rate * all <= M /\ rate * all - total <= M
               /\ dtab - rate * dart < M /\ rate * dart - dtab <= M
<1> DEFINE M == RoundingMargin(rate * all)
           total == RadOf(RayProduct(all, rate), RAY)
           dtab == RadOf(RayProduct(dart, rate), RAY)
<1> HIDE DEF M, total, dtab
<1>1. PICK n \in Nat : n = rate * all
  OBVIOUS
<1>2. PICK m \in Nat : m = rate * dart
  OBVIOUS
<1>3. m <= n
  <2>1. CASE rate = 0
    BY <1>1, <1>2, <2>1
  <2>2. CASE rate > 0
    <3>1. dart * rate <= all * rate
      BY <2>2, TimesLess
    <3> QED BY <1>1, <1>2, <3>1
  <2> QED BY <2>1, <2>2
<1>4. PICK q \in Nat \ {0} : q = TEN * Lost(n)
  BY LastPlaceIs
<1>5. PICK k \in Nat \ {0} : k = TEN * Lost(m)
  BY LastPlaceIs
<1>6. k <= q
  <2>1. Lost(m) <= Lost(n)
    BY <1>3, LostRises
  <2>2. PICK a \in Nat : a = Lost(m)
    BY LostIs
  <2>3. PICK b \in Nat : b = Lost(n)
    BY LostIs
  <2>4. PICK ten \in Nat \ {0} : ten = TEN
    BY TenToIs
  <2>5. a * ten <= b * ten
    BY <2>1, <2>2, <2>3, <2>4, TimesLess
  <2> QED BY <1>4, <1>5, <2>2, <2>3, <2>4, <2>5
<1>7. PICK h \in Nat \ {0} : h = TenTo(2)
  BY TenToIs
<1>8. total \in Nat /\ total - n <= 3 * q /\ n - total <= 3 * q + h
  <2>1. n = all * rate
    BY <1>1
  <2> QED BY <1>4, <1>7, <2>1, RadIsClose DEF total
<1>9. dtab \in Nat /\ dtab - m <= 3 * k /\ m - dtab <= 3 * k + h
  <2>1. m = dart * rate
    BY <1>2
  <2> QED BY <1>5, <1>7, <2>1, RadIsClose DEF dtab
<1>10. M \in Nat /\ M >= h + 10 * q
  BY <1>1, <1>4, <1>7, MarginIs DEF M
<1>11. /\ total - n <= M /\ n - total <= M
       /\ dtab - m < M /\ m - dtab <= M
  BY <1>6, <1>8, <1>9, <1>10
<1>12. /\ M \in Nat /\ total \in Nat /\ dtab \in Nat
       /\ total - rate * all <= M /\ rate * all - total <= M
       /\ dtab - rate * dart < M /\ rate * dart - dtab <= M
  BY <1>1, <1>2, <1>8, <1>9, <1>10, <1>11
<1> QED
  BY <1>12 DEF M, total, dtab

(* The debt of the urn. *)
LEMMA TabIsClose ==
    ASSUME NEW n \in Nat, NEW f, f = Truncated(Kept[n], WAD)
    PROVE  /\ f \in Nat
           /\ TenTo(2) * f - n <= TEN * Lost(n) /\ n - TenTo(2) * f <= TEN * Lost(n) + TenTo(2)
           /\ RadOf(f, RAY) \in Nat
           /\ RadOf(f, RAY) - n <= 2 * (TEN * Lost(n))
           /\ n - RadOf(f, RAY) <= 2 * (TEN * Lost(n)) + TenTo(2)
<1>1. PICK t \in Nat : t = LastDigit /\ t >= 8
  BY LastDigitIs
<1>2. PICK h \in Nat \ {0} : h = TenTo(2) /\ h = WAD
  BY TenToIs DEF WAD
<1>3. PICK l \in Nat \ {0} : l = Lost(n)
  BY LostIs
<1>4. PICK ten \in Nat : ten = TEN /\ ten >= 10
  BY FixedPointAssumption
<1>5. PICK q \in Nat : q = ten * l
  OBVIOUS
<1>6. 10 * l <= q
  <2>1. PICK d \in Nat : ten = d + 10
    <3>1. ten - 10 \in Nat /\ ten = (ten - 10) + 10
      BY <1>4
    <3> QED BY <3>1
  <2>2. q = d * l + 10 * l /\ d * l \in Nat
    BY <1>5, <2>1
  <2> QED BY <2>2
<1>7. PICK k \in Nat : k = Kept[n] /\ 2 * (n - k) <= l /\ 2 * (k - n) <= l
  BY <1>3, KeptIs
<1>8. f \in Nat /\ h * f <= k /\ k < h * f + h
  BY <1>2, <1>7, TruncatedIs
<1>9. PICK hf \in Nat : hf = h * f
  BY <1>8
<1>10. hf - n <= q /\ n - hf <= q + h
  BY <1>6, <1>7, <1>8, <1>9
<1>11. TEN * Lost(n) = q /\ LastDigit = t
  BY <1>1, <1>3, <1>4, <1>5
<1>12. PICK r \in Nat : r = Kept[hf] /\ 2 * (hf - r) <= Lost(hf) /\ 2 * (r - hf) <= Lost(hf)
  BY KeptIs
<1>13. RadOf(f, RAY) = r
  <2>1. f * h = hf
    BY <1>8, <1>9
  <2> QED BY <1>2, <1>12, <2>1, ShiftsAre DEF RadOf, Significant
<1>14. Lost(hf) <= q /\ Lost(hf) \in Nat
  <2>1. PICK u \in Nat : u = t * q
    OBVIOUS
  <2>2. n < t * q
    BY <1>11, LastPlaceIs
  <2>3. hf <= t * q + 2 * q
    BY <1>10, <2>1, <2>2
  <2>4. hf <= LastDigit * (TEN * Lost(n)) + 2 * (TEN * Lost(n))
    BY <1>11, <2>3
  <2>5. Lost(hf) <= TEN * Lost(n)
    BY <2>4, LastPlaceIs
  <2> QED BY <1>11, <2>5, LostIs
<1>15. PICK j \in Nat : j = Lost(hf) /\ j <= q
  BY <1>14
<1>16. 2 * (r - n) <= 4 * q /\ 2 * (n - r) <= 4 * q + 2 * h
  BY <1>6, <1>7, <1>8, <1>9, <1>12, <1>15
<1>17. r - n <= 2 * q /\ n - r <= 2 * q + h
  BY <1>16
<1> QED
  BY <1>2, <1>8, <1>9, <1>10, <1>11, <1>12, <1>13, <1>17

(* The collateral is worth the debt. *)
LEMMA WorthIsClose ==
    ASSUME NEW n \in Nat, NEW f, f = Truncated(Kept[n], WAD),
           NEW x \in Nat, NEW y \in Nat, NEW w, w = RayProduct(x, y),
           NEW M, M = RoundingMargin(n)
    PROVE  /\ f <= w => n <= x * y + M
           /\ n + M <= x * y => f <= w
<1>1. PICK t \in Nat : t = LastDigit /\ t >= 8
  BY LastDigitIs
<1>2. PICK h \in Nat \ {0} : h = TenTo(2)
  BY TenToIs
<1>3. PICK l \in Nat \ {0} : l = Lost(n)
  BY LostIs
<1>4. PICK q \in Nat \ {0} : q = TEN * Lost(n)
  BY LastPlaceIs
<1>5. PICK worth \in Nat : worth = x * y
  OBVIOUS
<1>6. f \in Nat /\ h * f - n <= q /\ n - h * f <= q + h
  BY <1>2, <1>4, TabIsClose
<1>7. PICK hf \in Nat : hf = h * f
  BY <1>6
<1>8. /\ w \in Nat /\ t * (h * w - worth) <= 2 * worth
      /\ t * (worth - h * w - h) <= 2 * worth
  BY <1>1, <1>2, <1>5, RayProductIs
<1>9. PICK hw \in Nat : hw = h * w
  BY <1>8
<1>10. n < t * q
  BY <1>1, <1>4, LastPlaceIs
<1>11. M \in Nat /\ M >= h + 10 * q
  BY <1>2, <1>4, MarginIs
<1>12. PICK u \in Nat : u = t * q
  OBVIOUS
<1>13. ASSUME f <= w PROVE n <= worth + M
  <2>1. SUFFICES ASSUME worth + M < n PROVE FALSE
    BY <1>11
  <2>2. worth <= t * q
    BY <1>10, <1>11, <1>12, <2>1
  <2>3. hw - worth <= 2 * q
    <3>1. hw - worth \in Int /\ t * (hw - worth) <= 2 * worth
      BY <1>8, <1>9
    <3> QED BY <1>1, <2>2, <3>1, ErrorOf
  <2>4. hf <= hw
    <3>1. f * h <= w * h
      BY <1>6, <1>8, <1>13, TimesLess
    <3>2. hf = f * h /\ hw = w * h
      BY <1>6, <1>7, <1>8, <1>9
    <3> QED BY <3>1, <3>2
  <2>5. n - hf <= q + h
    BY <1>6, <1>7
  <2> QED BY <1>11, <2>1, <2>3, <2>4, <2>5
<1>14. ASSUME n + M <= worth PROVE f <= w
  <2>1. SUFFICES ASSUME w + 1 <= f PROVE FALSE
    BY <1>6, <1>8
  <2>2. hw + h <= hf
    <3>1. (w + 1) * h <= f * h
      BY <1>6, <1>8, <2>1, TimesLess
    <3>2. hf = f * h /\ hw + h = (w + 1) * h
      BY <1>6, <1>7, <1>8, <1>9
    <3> QED BY <3>1, <3>2
  <2>3. hf - n <= q
    BY <1>6, <1>7
  <2>4. PICK e \in Nat : e = worth - hw - h /\ e >= 9 * q
    <3>1. worth - hw - h \in Nat /\ worth - hw - h >= 9 * q
      BY <1>11, <1>14, <2>2, <2>3
    <3> QED BY <3>1
  <2>5. t * e <= 2 * worth
    BY <1>8, <1>9, <2>4
  <2>6. worth <= n + q + e
    BY <2>2, <2>3, <2>4
  <2>7. t * e <= 2 * u + 2 * q + 2 * e
    <3>1. PICK v \in Nat : v = t * e
      OBVIOUS
    <3> QED BY <1>10, <1>12, <2>5, <2>6, <3>1
  <2>8. PICK a \in Nat : t = a + 8
    <3>1. t - 8 \in Nat /\ t = (t - 8) + 8
      BY <1>1
    <3> QED BY <3>1
  <2>9. PICK b \in Nat : e = b + 9 * q
    <3>1. e - 9 * q \in Nat /\ e = (e - 9 * q) + 9 * q
      BY <2>4
    <3> QED BY <3>1
  <2>10. PICK c \in Nat : c = a * q
    OBVIOUS
  <2>11. PICK d \in Nat : d = a * b
    OBVIOUS
  <2>12. t * e = d + 9 * c + 8 * b + 72 * q
    BY <2>8, <2>9, <2>10, <2>11
  <2>13. u = c + 8 * q
    BY <1>12, <2>8, <2>10
  <2>14. d + 9 * c + 8 * b + 72 * q <= 2 * c + 16 * q + 2 * q + 2 * b + 18 * q
    BY <2>7, <2>9, <2>12, <2>13
  <2> QED BY <2>14
<1> QED
  BY <1>5, <1>13, <1>14

-----------------------------------------------------------------------------
(* Frobs. *)

(* A negative number stays one. *)
LEMMA NegativesAre ==
    ASSUME NEW n \in Nat, NEW k \in Nat, n >= TenTo(k)
    PROVE  /\ \E j \in Nat : j >= TenTo(k) /\ Kept[-n] = -j
           /\ \E j \in Nat \ {0} : Truncated(Kept[-n], TenTo(k)) = -j
<1>1. PICK t \in Nat \ {0} : t = TenTo(k)
  BY TenToIs
<1>2. PICK j \in Nat : j = Kept[n]
  BY KeptIs
<1>3. Kept[t] = t
  <2>1. 1 < TenTo(PREC)
    <3>1. TEN * TenTo(0) <= TenTo(PREC) /\ TEN \in Nat /\ TEN >= 10 /\ TenTo(0) = 1
      BY TenToIs, TenToRises, FixedPointAssumption
    <3>2. TenTo(PREC) \in Nat
      BY TenToIs, FixedPointAssumption
    <3> QED BY <3>1, <3>2
  <2>2. Kept[1 * t] = 1 * t
    BY <1>1, <2>1, KeptShifted
  <2> QED BY <1>1, <2>2
<1>4. t <= j
  BY <1>1, <1>2, <1>3, KeptRises
<1>5. Kept[-n] = -j
  BY <1>1, <1>2, KeptIs
<1>6. PICK i \in Nat : i = Truncated(j, t)
  BY <1>1, TruncatedIs
<1>7. i # 0
  <2>1. Truncated(1 * t, t) = 1
    BY TruncatedExact
  <2>2. Truncated(t, t) = 1
    BY <2>1
  <2> QED BY <1>4, <1>6, <2>2, TruncatedRises
<1>8. Truncated(-j, t) = -i
  BY <1>1, <1>4, <1>6, TruncatedIs
<1> QED
  BY <1>1, <1>4, <1>5, <1>7, <1>8

(* A debt below zero counts as dust. *)
LEMMA NoNegativeDebt ==
    ASSUME NEW rate \in Nat, rate >= WAD, NEW k \in Nat \ {0}, NEW dust \in Nat
    PROVE  ~(RadOf(Truncated(Kept[rate * (-k)], WAD), RAY) >= dust)
<1>1. PICK h \in Nat \ {0} : h = TenTo(2) /\ h = WAD
  BY TenToIs DEF WAD
<1>2. PICK n \in Nat : n = rate * k
  OBVIOUS
<1>3. n >= h
  <2>1. PICK d \in Nat : k = d + 1
    <3>1. k - 1 \in Nat /\ k = (k - 1) + 1
      OBVIOUS
    <3> QED BY <3>1
  <2>2. n = rate * d + rate /\ rate * d \in Nat
    BY <1>2, <2>1
  <2> QED BY <1>1, <2>2
<1>4. rate * (-k) = -n
  BY <1>2
<1>5. PICK j \in Nat \ {0} : Truncated(Kept[-n], h) = -j
  BY <1>1, <1>3, NegativesAre
<1>6. PICK m \in Nat : m = j * h
  OBVIOUS
<1>7. m >= h
  <2>1. 1 * h <= j * h
    BY <1>1, <1>5, TimesLess
  <2> QED BY <1>6, <2>1
<1>8. (-j) * h = -m
  BY <1>6
<1>9. PICK i \in Nat : i >= h /\ Kept[-m] = -i
  BY <1>1, <1>7, NegativesAre
<1>10. RadOf(-j, RAY) = -i
  BY <1>1, <1>8, <1>9, ShiftsAre DEF RadOf, Significant
<1>11. Truncated(Kept[rate * (-k)], WAD) = -j
  BY <1>1, <1>4, <1>5
<1> QED
  BY <1>1, <1>9, <1>10, <1>11

(* A collateral below zero is worth less than any debt. *)
LEMMA NoNegativeWorth ==
    ASSUME NEW spot \in Nat, spot >= WAD, NEW k \in Nat \ {0}, NEW f \in Nat
    PROVE  ~(f <= RayMul(RayOfWad(-k), spot, RAY))
<1>1. PICK h \in Nat \ {0} : h = TenTo(2) /\ h = WAD
  BY TenToIs DEF WAD
<1>2. PICK ten \in Nat \ {0} : ten = TEN
  BY TenToIs
<1>3. TenTo(3) = ten * h /\ RAY \div WAD = ten /\ RAY = TenTo(3)
  <2>1. TenTo(3) = ten * h
    BY <1>1, <1>2, TenToIs, 2 + 1 = 3
  <2>2. (ten * h) \div h = ten
    BY DividesOut
  <2> QED BY <1>1, <2>1, <2>2 DEF RAY
<1>4. PICK m \in Nat : m = k * ten
  OBVIOUS
<1>5. m >= ten
  <2>1. 1 * ten <= k * ten
    BY TimesLess
  <2> QED BY <1>4, <2>1
<1>6. TenTo(1) = ten
  BY <1>2, TenToIs, 0 + 1 = 1
<1>7. PICK j \in Nat : j >= ten /\ Kept[-m] = -j
  BY <1>5, <1>6, NegativesAre
<1>8. (-k) * ten = -m
  BY <1>4
<1>9. RayOfWad(-k) = -j
  BY <1>3, <1>7, <1>8 DEF RayOfWad, Significant
<1>10. PICK n \in Nat : n = j * spot
  OBVIOUS
<1>11. n >= TenTo(3)
  <2>1. h <= spot
    BY <1>1
  <2>2. h * ten <= spot * ten
    BY <2>1, TimesLess
  <2>3. spot > 0
    BY <1>1
  <2>4. ten * spot <= j * spot
    BY <1>7, <2>3, TimesLess
  <2>5. PICK u \in Nat : u = spot * ten
    OBVIOUS
  <2> QED BY <1>3, <1>10, <2>2, <2>4, <2>5
<1>12. (-j) * spot = -n
  BY <1>10
<1>13. PICK i \in Nat \ {0} : Truncated(Kept[-n], TenTo(3)) = -i
  BY <1>11, NegativesAre
<1>14. RayMul(RayOfWad(-k), spot, RAY) = -i
  BY <1>3, <1>9, <1>12, <1>13 DEF RayMul, Product, Significant
<1> QED
  BY <1>14

(* validate_frob, in the terms above. *)
LEMMA ValidateFrobIs ==
    ASSUME NEW s \in [VatFields -> Nat], NEW dink \in Int, NEW dart \in Int
    PROVE  LET f == Truncated(Kept[s.rate * (s.art + dart)], WAD)
           IN  ValidateFrob(s, dink, dart) <=>
               /\ s.live = 1 /\ s.rate # 0
               /\ dart > 0 => /\ RadOf(RayProduct(s.Art + dart, s.rate), RAY) <= s.line
                              /\ s.debt + RadOf(RayProduct(dart, s.rate), RAY) < s.Line
               /\ \/ dart <= 0 /\ dink >= 0
                  \/ f <= RayMul(RayOfWad(s.ink + dink), s.spot, RAY)
               /\ s.art + dart = 0 \/ RadOf(f, RAY) >= s.dust
<1>1. s.rate \in Nat /\ s.art \in Nat /\ s.Art \in Nat
  BY DEF VatFields
<1>2. FrobTab(s, dart) = Truncated(Kept[s.rate * (s.art + dart)], WAD)
  BY DEF FrobTab, RayMul, Product, Significant
<1>3. CollateralDebt(s, dart) = s.Art + dart
  BY DEF CollateralDebt
<1>4. ASSUME dart > 0
      PROVE  RayMul(s.rate, RayOfWad(dart), RAY) = RayProduct(dart, s.rate)
  <2>1. PICK d \in Nat : d = dart
    BY <1>4
  <2>2. PICK one \in Nat : one = TEN
    BY TenToIs
  <2>3. RAY \div WAD = one
    <3>1. TenTo(3) = TEN * TenTo(2) /\ TenTo(2) \in Nat \ {0}
      BY TenToIs, 2 + 1 = 3
    <3>2. (one * TenTo(2)) \div TenTo(2) = one
      BY <3>1, DividesOut
    <3> QED BY <2>2, <3>1, <3>2 DEF RAY, WAD
  <2>4. PICK a \in Nat : a = RayOfWad(d)
    <3>1. d * one \in Nat
      OBVIOUS
    <3> QED BY <2>3, <3>1, KeptIs DEF RayOfWad, Significant
  <2>5. s.rate * a = a * s.rate
    BY <1>1
  <2> QED BY <2>1, <2>4, <2>5 DEF RayProduct, RayMul, Product
<1>5. Calm(s, dart) <=>
          (dart > 0 => /\ RadOf(RayProduct(s.Art + dart, s.rate), RAY) <= s.line
                       /\ s.debt + RadOf(RayProduct(dart, s.rate), RAY) < s.Line)
  <2>1. CASE dart > 0
    <3>1. ~(dart <= 0)
      BY <2>1
    <3> QED BY <1>3, <1>4, <2>1, <3>1 DEF Calm, RayProduct
  <2>2. CASE ~(dart > 0)
    <3>1. dart <= 0
      BY <2>2
    <3> QED BY <2>2, <3>1 DEF Calm
  <2> QED BY <2>1, <2>2
<1> QED
  BY <1>2, <1>5, Zenon DEF ValidateFrob, Safe, Neat

(* A frob of collateral and debt that there is. *)
LEMMA ConditionsAgree ==
    ASSUME NEW s \in [VatFields -> Nat], NEW dink \in Int, NEW dart \in Int,
           s.ink + dink >= 0, s.art + dart >= 0
    PROVE  /\ ValidateFrob(s, dink, dart) => FrobSucceeds(s, dink, dart, 1)
           /\ FrobSucceeds(s, dink, dart, -1) => ValidateFrob(s, dink, dart)
<1>1. /\ s.rate \in Nat /\ s.art \in Nat /\ s.Art \in Nat /\ s.spot \in Nat /\ s.ink \in Nat
      /\ s.dust \in Nat /\ s.line \in Nat /\ s.Line \in Nat /\ s.debt \in Nat
  BY DEF VatFields
<1>2. PICK x \in Nat : x = s.ink + dink
  BY <1>1
<1>3. PICK a \in Nat : a = s.art + dart
  BY <1>1
<1>4. PICK n \in Nat : n = s.rate * a
  BY <1>1
<1>5. PICK total \in Int : total = s.rate * (s.Art + dart)
  BY <1>1
<1>6. PICK M : M = RoundingMargin(n)
  OBVIOUS
<1>7. PICK N : N = RoundingMargin(total)
  OBVIOUS
<1>8. PICK f : f = Truncated(Kept[n], WAD)
  OBVIOUS
<1>9. ASSUME NEW shift
       PROVE  FrobSucceeds(s, dink, dart, shift) <=>
              /\ s.live = 1 /\ s.rate # 0
              /\ dart <= 0 \/ (total <= s.line + shift * N
                               /\ s.debt + s.rate * dart <= s.Line + shift * N)
              /\ (dart <= 0 /\ dink >= 0) \/ n <= x * s.spot + shift * M
              /\ a = 0 \/ n >= s.dust - shift * M
  BY <1>2, <1>3, <1>4, <1>5, <1>6, <1>7, Zenon DEF FrobSucceeds
<1>10. PICK worth \in Nat : worth = x * s.spot
  BY <1>1
<1>11. PICK w : w = RayProduct(x, s.spot)
  OBVIOUS
<1>12. RayMul(RayOfWad(s.ink + dink), s.spot, RAY) = w
  BY <1>2, <1>11 DEF RayProduct
<1>13. PICK h \in Nat \ {0} : h = TenTo(2)
  BY TenToIs
<1>14. PICK q \in Nat : q = TEN * Lost(n)
  BY <1>4, LastPlaceIs
<1>15. M \in Nat /\ M >= h + 10 * q
  BY <1>6, <1>13, <1>14, MarginIs
<1>16. PICK g \in Nat : g = RadOf(f, RAY) /\ g - n <= 2 * q /\ n - g <= 2 * q + h
  BY <1>8, <1>13, <1>14, TabIsClose
<1>17. (g >= s.dust => n >= s.dust - M) /\ (n >= s.dust + M => g >= s.dust)
  BY <1>1, <1>4, <1>15, <1>16
<1>18. (f <= w => n <= worth + M) /\ (n <= worth - M => f <= w)
  <2>1. (f <= w => n <= worth + M) /\ (n + M <= worth => f <= w)
    BY <1>1, <1>6, <1>8, <1>10, <1>11, WorthIsClose
  <2> QED BY <1>4, <1>15, <2>1
<1>19. PICK p : p = RadOf(RayProduct(s.Art + dart, s.rate), RAY)
  OBVIOUS
<1>20. PICK d : d = RadOf(RayProduct(dart, s.rate), RAY)
  OBVIOUS
<1>21. ASSUME dart > 0
       PROVE  /\ p <= s.line /\ s.debt + d < s.Line =>
                     total <= s.line + N /\ s.debt + s.rate * dart <= s.Line + N
              /\ total <= s.line - N /\ s.debt + s.rate * dart <= s.Line - N =>
                     p <= s.line /\ s.debt + d < s.Line
  <2>1. PICK all \in Nat : all = s.Art + dart /\ dart <= all
    BY <1>1, <1>21
  <2>2. dart \in Nat
    BY <1>21
  <2>3. PICK rate \in Nat, line \in Nat, debt \in Nat, Line \in Nat :
            rate = s.rate /\ line = s.line /\ debt = s.debt /\ Line = s.Line
    BY <1>1
  <2>4. total = rate * all /\ N = RoundingMargin(rate * all)
    BY <1>5, <1>7, <2>1, <2>3
  <2>5. /\ p = RadOf(RayProduct(all, rate), RAY) /\ d = RadOf(RayProduct(dart, rate), RAY)
    BY <1>19, <1>20, <2>1, <2>3
  <2>6. PICK n1 \in Nat, m1 \in Nat : n1 = rate * all /\ m1 = rate * dart
    BY <2>2
  <2>7. /\ N \in Nat /\ p \in Nat /\ d \in Nat
        /\ p - n1 <= N /\ n1 - p <= N /\ d - m1 < N /\ m1 - d <= N
    BY <2>1, <2>2, <2>4, <2>5, <2>6, DebtsAreClose
  <2>8. total = n1 /\ s.rate * dart = m1
    BY <2>3, <2>4, <2>6
  <2> QED BY <1>1, <2>7, <2>8
<1>22. ValidateFrob(s, dink, dart) <=>
           /\ s.live = 1 /\ s.rate # 0
           /\ dart > 0 => (p <= s.line /\ s.debt + d < s.Line)
           /\ (dart <= 0 /\ dink >= 0) \/ f <= w
           /\ a = 0 \/ g >= s.dust
  BY <1>3, <1>4, <1>8, <1>12, <1>16, <1>19, <1>20, ValidateFrobIs
<1>23. dart <= 0 <=> ~(dart > 0)
  OBVIOUS
<1>24. ASSUME ~(dart <= 0) PROVE N \in Nat
  <2>1. s.Art + dart \in Nat
    BY <1>1, <1>24
  <2>2. total \in Nat
    BY <1>1, <1>5, <2>1
  <2> QED BY <1>7, <2>2, MarginIs
<1>25. FrobSucceeds(s, dink, dart, 1) <=>
              /\ s.live = 1 /\ s.rate # 0
              /\ dart <= 0 \/ (total <= s.line + N /\ s.debt + s.rate * dart <= s.Line + N)
              /\ (dart <= 0 /\ dink >= 0) \/ n <= x * s.spot + M
              /\ a = 0 \/ n >= s.dust - M
  <2>1. 1 * M = M /\ (~(dart <= 0) => 1 * N = N)
    BY <1>15, <1>24
  <2> QED BY <1>9, <2>1, Zenon
<1>26. FrobSucceeds(s, dink, dart, -1) <=>
              /\ s.live = 1 /\ s.rate # 0
              /\ dart <= 0 \/ (total <= s.line - N /\ s.debt + s.rate * dart <= s.Line - N)
              /\ (dart <= 0 /\ dink >= 0) \/ n <= x * s.spot - M
              /\ a = 0 \/ n >= s.dust + M
  <2>1. /\ x * s.spot + (-1) * M = x * s.spot - M /\ s.dust - (-1) * M = s.dust + M
        /\ ~(dart <= 0) => /\ s.line + (-1) * N = s.line - N
                           /\ s.Line + (-1) * N = s.Line - N
    <3>1. s.dust \in Nat /\ s.line \in Nat /\ s.Line \in Nat
      BY DEF VatFields
    <3>2. x * s.spot \in Nat
      BY <1>1
    <3> QED BY <1>15, <1>24, <3>1, <3>2
  <2> QED BY <1>9, <2>1, Zenon
<1> QED
  BY <1>10, <1>17, <1>18, <1>21, <1>22, <1>23, <1>25, <1>26, Zenon

(* What validates is covered by collateral and debt that there is. *)
LEMMA ValidIsPossible ==
    ASSUME NEW s \in [VatFields -> Nat], NEW dink \in Int, NEW dart \in Int,
           s.rate = 0 \/ s.rate >= WAD, s.spot >= WAD \/ s.ink + dink >= 0,
           ValidateFrob(s, dink, dart)
    PROVE  s.ink + dink >= 0 /\ s.art + dart >= 0
<1>1. /\ s.rate \in Nat /\ s.art \in Nat /\ s.Art \in Nat /\ s.spot \in Nat /\ s.ink \in Nat
      /\ s.dust \in Nat
  BY DEF VatFields
<1>2. PICK f : f = Truncated(Kept[s.rate * (s.art + dart)], WAD)
  OBVIOUS
<1>3. /\ s.rate # 0
      /\ \/ dart <= 0 /\ dink >= 0
         \/ f <= RayMul(RayOfWad(s.ink + dink), s.spot, RAY)
      /\ s.art + dart = 0 \/ RadOf(f, RAY) >= s.dust
  BY <1>2, ValidateFrobIs
<1>4. ASSUME s.art + dart < 0 PROVE FALSE
  <2>1. PICK k \in Nat \ {0} : s.art + dart = -k
    <3>1. -(s.art + dart) \in Nat \ {0} /\ s.art + dart = -(-(s.art + dart))
      BY <1>1, <1>4
    <3> QED BY <3>1
  <2>2. f = Truncated(Kept[s.rate * (-k)], WAD)
    BY <1>2, <2>1
  <2>3. RadOf(f, RAY) >= s.dust
    BY <1>3, <2>1
  <2>4. s.rate >= WAD
    BY <1>3
  <2> QED BY <1>1, <2>2, <2>3, <2>4, NoNegativeDebt
<1>5. ASSUME s.ink + dink < 0 PROVE FALSE
  <2>1. PICK k \in Nat \ {0} : s.ink + dink = -k
    <3>1. -(s.ink + dink) \in Nat \ {0} /\ s.ink + dink = -(-(s.ink + dink))
      BY <1>1, <1>5
    <3> QED BY <3>1
  <2>2. ~(dink >= 0) /\ ~(s.ink + dink >= 0)
    BY <1>1, <1>5
  <2>3. s.spot >= WAD
    BY <2>2
  <2>4. f \in Nat
    <3>1. s.art + dart \in Nat
      BY <1>1, <1>4
    <3>2. s.rate * (s.art + dart) \in Nat
      BY <1>1, <3>1
    <3> QED BY <1>2, <3>2, TabIsClose
  <2>5. f <= RayMul(RayOfWad(-k), s.spot, RAY)
    BY <1>3, <2>1, <2>2
  <2> QED BY <1>1, <2>3, <2>4, <2>5, NoNegativeWorth
<1> QED
  BY <1>1, <1>4, <1>5

LEMMA FrobIsRight ==
    ASSUME NEW s \in [VatFields -> Nat], NEW dink \in Int, NEW dart \in Int,
           s.rate = 0 \/ s.rate >= WAD, s.spot >= WAD \/ s.ink + dink >= 0
    PROVE  /\ ValidateFrob(s, dink, dart) => FrobSucceeds(s, dink, dart, 1)
           /\ FrobSucceeds(s, dink, dart, -1) => ValidateFrob(s, dink, dart)
  BY ConditionsAgree, ValidIsPossible DEF FrobSucceeds

(* For any system, whatever happens between its getters, validate_frob     *)
(* says of every frob whether Vat accepts it, within what Ray rounds off.  *)
THEOREM FrobsAreJudged == VaultsSpec => []FrobIsJudged
<1>1. VerdictInv => FrobIsJudged
  <2>1. SUFFICES ASSUME VerdictInv, StillTrue("validate_frob"),
                        system.rate = 0 \/ system.rate >= WAD,
                        system.spot >= WAD \/ system.ink + vaultCall.dink >= 0
                 PROVE  IF vaultCall.verdict = "valid"
                        THEN FrobSucceeds(system, vaultCall.dink, vaultCall.dart, 1)
                        ELSE ~ FrobSucceeds(system, vaultCall.dink, vaultCall.dart, -1)
    BY DEF FrobIsJudged
  <2>2. vaultCall.verdict = "valid" <=> ValidateFrob(system, vaultCall.dink, vaultCall.dart)
    BY <2>1, FrobIsOfTheSystem
  <2>3. system \in [VatFields -> Nat] /\ vaultCall.dink \in Int /\ vaultCall.dart \in Int
    BY <2>1 DEF VerdictInv
  <2>4. PICK dink \in Int : dink = vaultCall.dink
    BY <2>3
  <2>5. PICK dart \in Int : dart = vaultCall.dart
    BY <2>3
  <2>6. PICK s \in [VatFields -> Nat] : s = system
    BY <2>3
  <2>7. /\ ValidateFrob(s, dink, dart) => FrobSucceeds(s, dink, dart, 1)
        /\ FrobSucceeds(s, dink, dart, -1) => ValidateFrob(s, dink, dart)
    BY <2>1, <2>4, <2>6, FrobIsRight
  <2> QED BY <2>2, <2>4, <2>5, <2>6, <2>7
<1> QED
  BY <1>1, VerdictStarts, VerdictStep, PTL DEF VaultsSpec

-----------------------------------------------------------------------------
(* Bites. *)

(* What is kept of a number is not far from it. *)
LEMMA KeptIsNear ==
    ASSUME NEW n \in Nat
    PROVE  /\ Kept[n] \in Nat
           /\ 16 * (n - Kept[n]) <= n /\ 16 * (Kept[n] - n) <= n
<1>1. PICK t \in Nat : t = LastDigit /\ t >= 8
  BY LastDigitIs
<1>2. PICK k \in Nat : k = Kept[n] /\ 2 * (n - k) <= Lost(n) /\ 2 * (k - n) <= Lost(n)
  BY KeptIs
<1>3. 2 * t * (n - k) <= n /\ 2 * t * (k - n) <= n
  BY <1>1, <1>2, LessThanADigit
<1>4. ASSUME NEW d \in Int, 2 * t * d <= n PROVE 16 * d <= n
  <2>1. CASE d <= 0
    BY <2>1
  <2>2. CASE d > 0
    <3>1. PICK a \in Nat : t = a + 8
      <4>1. t - 8 \in Nat /\ t = (t - 8) + 8
        BY <1>1
      <4> QED BY <4>1
    <3>2. PICK e \in Nat : e = d
      BY <2>2
    <3>3. 2 * t * d = 2 * (a * e) + 16 * e /\ a * e \in Nat
      BY <3>1, <3>2
    <3> QED BY <1>4, <3>2, <3>3
  <2> QED BY <2>1, <2>2
<1>5. n - k \in Int /\ k - n \in Int
  OBVIOUS
<1>6. 16 * (n - k) <= n /\ 16 * (k - n) <= n
  BY <1>3, <1>4, <1>5
<1> QED
  BY <1>2, <1>6

(* A quotient is not much less than the numbers', unless it is small. *)
LEMMA QuotientIsNear ==
    ASSUME NEW n \in Nat, NEW d \in Nat \ {0}
    PROVE  LET s == SignificantQuotient(n, d)
           IN  s \in Nat /\ 16 * (d * (s + 1)) > 15 * n /\ (d <= n => s >= 1)
<1>1. PICK t \in Nat : t = LastDigit /\ t >= 8
  BY LastDigitIs
<1>2. PICK q \in Nat : q = n \div d
  BY QuotientBounds
<1>3. d * q <= n /\ n < d * q + d
  BY <1>2, QuotientBounds
<1>4. PICK s \in Nat : s = SignificantQuotient(n, d)
  BY SignificantQuotientIsNat
<1>5. PICK p \in Nat : p = d * q
  OBVIOUS
<1>6. d <= n => q >= 1
  <2>1. SUFFICES ASSUME d <= n, q = 0 PROVE FALSE
    OBVIOUS
  <2>2. d * q = 0
    BY <2>1
  <2> QED BY <1>3, <2>1, <2>2
<1>7. CASE ~(q >= LastDigit)
  <2>1. s = q \/ s = q + 1
    BY <1>2, <1>4, <1>7, SmallQuotient DEF LastDigit
  <2>2. d * (s + 1) = p + d \/ d * (s + 1) = p + d + d
    BY <1>5, <2>1
  <2>3. PICK v \in Nat : v = d * (s + 1)
    OBVIOUS
  <2>4. v > n
    BY <1>3, <1>5, <2>2, <2>3
  <2> QED BY <1>4, <1>6, <2>1, <2>3, <2>4
<1>8. CASE q >= LastDigit
  <2>1. PICK l \in Nat \ {0} : l = Lost(q)
    BY LostIs
  <2>2. l * t <= q
    <3>1. CASE Excess[q] = 0
      <4>1. l = 1
        BY <2>1, <3>1, TenToIs DEF Lost
      <4> QED BY <1>1, <1>8, <4>1
    <3>2. CASE Excess[q] # 0
      BY <1>1, <2>1, <3>2, FirstDigits DEF LastDigit
    <3> QED BY <3>1, <3>2
  <2>3. 8 * l <= q
    <3>1. PICK a \in Nat : t = a + 8
      <4>1. t - 8 \in Nat /\ t = (t - 8) + 8
        BY <1>1
      <4> QED BY <4>1
    <3>2. l * t = l * a + 8 * l /\ l * a \in Nat
      BY <3>1
    <3> QED BY <2>2, <3>2
  <2>4. PICK c \in Nat \ {0} : c = d * l
    OBVIOUS
  <2>5. 8 * c <= p
    <3>1. PICK a \in Nat : q = 8 * l + a
      <4>1. q - 8 * l \in Nat /\ q = 8 * l + (q - 8 * l)
        BY <2>3
      <4> QED BY <4>1
    <3>2. d * q = 8 * c + d * a /\ d * a \in Nat
      BY <2>4, <3>1
    <3> QED BY <1>5, <3>2
  <2>6. PICK e \in Nat : e = HalfEven(n, c) /\ 2 * (n - c * e) <= c
    BY HalfEvenIs
  <2>7. s = l * e
    <3>1. s = Lost(q) * HalfEven(n, d * Lost(q))
      BY <1>2, <1>4, <1>8, LargeQuotient DEF LastDigit
    <3>2. HalfEven(n, d * Lost(q)) = e
      BY <2>1, <2>4, <2>6
    <3> QED BY <2>1, <3>1, <3>2
  <2>8. PICK v \in Nat : v = c * e
    OBVIOUS
  <2>9. d * (s + 1) = v + d
    BY <2>4, <2>7, <2>8
  <2>10. 16 * (v + d) > 15 * n
    BY <1>3, <1>5, <2>5, <2>6, <2>8
  <2>11. s >= 1
    <3>1. l * t <= s
      BY <1>1, <1>2, <1>4, <1>8, <2>1, LargeQuotient DEF LastDigit
    <3>2. PICK u \in Nat : u = l * t
      OBVIOUS
    <3>3. u >= 1
      BY <1>1, <3>2
    <3> QED BY <3>1, <3>2, <3>3
  <2> QED BY <1>4, <2>9, <2>10, <2>11
<1> QED
  BY <1>4, <1>7, <1>8

(* One division of the two that dart takes. *)
LEMMA DivisionIsNear ==
    ASSUME NEW x \in Nat, NEW y \in Nat \ {0}, NEW k \in Nat \ {0}, NEW s, s = RadDiv(x, Kept[y * k])
    PROVE  s \in Nat /\ 272 * ((y * k) * (s + 1)) > 225 * (x * RAD)
<1>1. PICK one \in Nat \ {0} : one = RAD
  BY UnitsAre
<1>2. PICK z \in Nat \ {0} : z = y * k
  OBVIOUS
<1>3. PICK b \in Nat : b = Kept[z] /\ 16 * (z - b) <= z /\ 16 * (b - z) <= z
  BY KeptIsNear
<1>4. b # 0
  BY <1>2, <1>3
<1>5. PICK n \in Nat : n = x * one
  OBVIOUS
<1>6. PICK a \in Nat : a = Kept[n] /\ 16 * (n - a) <= n
  BY KeptIsNear
<1>7. s = SignificantQuotient(a, b)
  <2>1. AbsValue(x) = x /\ Sign(x) = 1 /\ AbsValue(b) = b /\ Sign(b) = 1
    BY SizesAre
  <2>2. s = 1 * 1 * SignificantQuotient(a, b)
    BY <1>1, <1>2, <1>3, <1>5, <1>6, <2>1 DEF RadDiv, Quotient, Significant
  <2>3. SignificantQuotient(a, b) \in Nat
    BY <1>4, SignificantQuotientIsNat
  <2> QED BY <2>2, <2>3
<1>8. s \in Nat /\ 16 * (b * (s + 1)) > 15 * a
  BY <1>4, <1>7, QuotientIsNear
<1>9. PICK r \in Nat : r = s + 1
  BY <1>8
<1>10. PICK u \in Nat : u = b * r
  OBVIOUS
<1>11. PICK v \in Nat : v = z * r
  OBVIOUS
<1>12. 16 * u <= 17 * v
  <2>1. PICK d \in Nat : 17 * z = 16 * b + d
    <3>1. 17 * z - 16 * b \in Nat /\ 17 * z = 16 * b + (17 * z - 16 * b)
      BY <1>3
    <3> QED BY <3>1
  <2>2. (17 * z) * r = 17 * v /\ (16 * b + d) * r = 16 * u + d * r /\ d * r \in Nat
    BY <1>10, <1>11
  <2> QED BY <2>1, <2>2
<1>13. 272 * v > 225 * n
  BY <1>6, <1>8, <1>9, <1>10, <1>12
<1> QED
  BY <1>1, <1>2, <1>5, <1>8, <1>9, <1>11, <1>13

(* The debt that a bite covers.                                            *)
LEMMA DartIsNear ==
    ASSUME NEW m \in Nat, NEW rate \in Nat \ {0}, NEW chop \in Nat \ {0},
           NEW D \in Nat, D >= 2, D * (chop * rate) <= m * WAD,
           NEW c, c = WadOf(RadDiv(RadDiv(m, RadOf(rate, RAY)), RadOf(chop, WAD)), RAD)
    PROVE  c \in Nat /\ c >= 1 /\ 3 * c >= D
<1>1. PICK h \in Nat \ {0} : h = TenTo(2) /\ h = WAD
  BY TenToIs DEF WAD
<1>2. PICK g \in Nat \ {0} : g = TenTo(3)
  BY TenToIs
<1>3. PICK ten \in Nat \ {0} : ten = TEN /\ ten >= 10
  BY FixedPointAssumption
<1>4. g = ten * h
  BY <1>1, <1>2, <1>3, TenToIs, 2 + 1 = 3
<1>5. PICK rad \in Nat \ {0} : rad = RAD
  BY UnitsAre
<1>6. rad = g * h
  BY <1>1, <1>2, <1>5, ShiftsAre DEF RAD
<1>7. PICK s : s = RadDiv(m, Kept[rate * h])
  OBVIOUS
<1>8. s \in Nat /\ 272 * ((rate * h) * (s + 1)) > 225 * (m * rad)
  BY <1>5, <1>7, DivisionIsNear
<1>9. PICK s2 : s2 = RadDiv(s, Kept[chop * g])
  OBVIOUS
<1>10. s2 \in Nat /\ 272 * ((chop * g) * (s2 + 1)) > 225 * (s * rad)
  BY <1>5, <1>8, <1>9, DivisionIsNear
<1>11. c = Truncated(s2, g)
  <2>1. RadOf(rate, RAY) = Kept[rate * h] /\ RadOf(chop, WAD) = Kept[chop * g]
    BY <1>1, <1>2, ShiftsAre DEF RadOf, Significant
  <2> QED BY <1>2, <1>7, <1>9, <2>1, ShiftsAre DEF WadOf
<1>12. c \in Nat /\ s2 < g * c + g
  BY <1>10, <1>11, TruncatedIs
<1>13. PICK e \in Nat : e = chop * ten
  OBVIOUS
<1>14. PICK b \in Nat : b = D * e
  OBVIOUS
<1>15. 272 * (s + 1) > 225 * b
  <2>1. PICK r \in Nat : r = s + 1
    BY <1>8
  <2>2. PICK u \in Nat : u = rate * r
    OBVIOUS
  <2>3. PICK v \in Nat : v = m * g
    OBVIOUS
  <2>4. (rate * h) * (s + 1) = u * h /\ m * rad = v * h
    BY <1>6, <2>1, <2>2, <2>3
  <2>5. (225 * v) * h < (272 * u) * h
    BY <1>8, <2>4
  <2>6. 225 * v < 272 * u
    BY <2>5, TimesLess
  <2>7. PICK w \in Nat : w = D * (chop * rate)
    OBVIOUS
  <2>8. PICK mh \in Nat : mh = m * h
    OBVIOUS
  <2>9. w * ten <= mh * ten
    BY <1>1, <2>7, <2>8, TimesLess
  <2>10. mh * ten = v
    BY <1>4, <2>3, <2>8
  <2>11. w * ten = b * rate
    BY <1>13, <1>14, <2>7
  <2>12. PICK y \in Nat : y = b * rate
    OBVIOUS
  <2>13. 225 * y < 272 * u
    BY <2>6, <2>9, <2>10, <2>11, <2>12
  <2>14. (225 * b) * rate = 225 * y /\ (272 * r) * rate = 272 * u
    BY <2>2, <2>12
  <2>15. (225 * b) * rate < (272 * r) * rate
    BY <2>13, <2>14
  <2>16. 225 * b < 272 * r
    BY <2>15, TimesLess
  <2> QED BY <2>1, <2>16
<1>16. 272 * s > 211 * b
  <2>1. PICK d \in Nat : D = d + 2
    <3>1. D - 2 \in Nat /\ D = (D - 2) + 2
      OBVIOUS
    <3> QED BY <3>1
  <2>2. e >= ten
    <3>1. 1 * ten <= chop * ten
      BY TimesLess
    <3> QED BY <1>13, <3>1
  <2>3. b = d * e + 2 * e /\ d * e \in Nat
    BY <1>14, <2>1
  <2>4. b >= 20
    BY <1>3, <2>2, <2>3
  <2> QED BY <1>8, <1>15, <2>4
<1>17. 272 * (e * (c + 1)) > 225 * s
  <2>1. PICK r \in Nat : r = s2 + 1
    BY <1>10
  <2>2. PICK k \in Nat : k = c + 1
    BY <1>12
  <2>3. r <= g * k
    <3>1. g * k = g * c + g /\ g * c \in Nat
      BY <1>12, <2>2
    <3> QED BY <1>10, <1>12, <2>1, <3>1
  <2>4. PICK u \in Nat : u = chop * r
    OBVIOUS
  <2>5. PICK v \in Nat : v = s * h
    BY <1>8
  <2>6. (chop * g) * (s2 + 1) = u * g /\ s * rad = v * g
    BY <1>6, <1>8, <2>1, <2>4, <2>5
  <2>7. (225 * v) * g < (272 * u) * g
    BY <1>10, <2>6
  <2>8. 225 * v < 272 * u
    BY <2>7, TimesLess
  <2>9. PICK w \in Nat : w = e * k
    OBVIOUS
  <2>10. u <= w * h
    <3>1. PICK gk \in Nat : gk = g * k
      OBVIOUS
    <3>2. r * chop <= gk * chop
      BY <2>3, <3>1, TimesLess
    <3>3. gk * chop = w * h /\ r * chop = u
      BY <1>4, <1>13, <2>4, <2>9, <3>1
    <3> QED BY <3>2, <3>3
  <2>11. PICK wh \in Nat : wh = w * h
    OBVIOUS
  <2>12. (225 * s) * h = 225 * v /\ (272 * w) * h = 272 * wh
    BY <1>8, <2>5, <2>11
  <2>13. (225 * s) * h < (272 * w) * h
    BY <2>8, <2>10, <2>11, <2>12
  <2>14. 225 * s < 272 * w
    <3>1. 225 * s \in Nat /\ 272 * w \in Nat
      BY <1>8
    <3> QED BY <2>13, <3>1, TimesLess
  <2> QED BY <2>2, <2>9, <2>14
<1>18. 272 * 272 * (c + 1) > 225 * 211 * D
  <2>1. PICK k \in Nat : k = c + 1
    BY <1>12
  <2>2. PICK w \in Nat : w = e * k
    OBVIOUS
  <2>3. 272 * w > 225 * s
    BY <1>17, <2>1, <2>2
  <2>4. 73984 * w > 47475 * b
    BY <1>8, <1>16, <2>3
  <2>5. (47475 * D) * e = 47475 * b /\ (73984 * k) * e = 73984 * w
    BY <1>14, <2>2
  <2>6. (47475 * D) * e < (73984 * k) * e
    BY <2>4, <2>5
  <2>7. e > 0
    BY <1>13
  <2>8. 47475 * D < 73984 * k
    BY <2>6, <2>7, TimesLess
  <2> QED BY <2>1, <2>8
<1>19. 16 * (c + 1) > 10 * D
  BY <1>12, <1>18
<1>20. c >= 1
  BY <1>12, <1>19
<1>21. 3 * c >= D
  BY <1>12, <1>19, <1>20
<1> QED
  BY <1>12, <1>20, <1>21

(* The collateral that a bite takes.                                       *)
LEMMA DinkIsNear ==
    ASSUME NEW ink \in Nat, NEW art \in Nat \ {0}, NEW D \in Nat, NEW c \in Nat, 3 * c >= D,
           (ink * D) \div art > 4 * (WAD \div art + 2)
    PROVE  WadDiv(WadMul(ink, c, WAD), art) > 0 /\ ink > 0
<1>1. PICK h \in Nat \ {0} : h = TenTo(2) /\ h = WAD
  BY TenToIs DEF WAD
<1>2. PICK n \in Nat : n = ink * D
  OBVIOUS
<1>3. PICK q \in Nat : q = n \div art
  BY QuotientBounds
<1>4. PICK p \in Nat : p = h \div art
  BY QuotientBounds
<1>5. art * q <= n /\ h < art * p + art
  BY <1>3, <1>4, QuotientBounds
<1>6. q >= 4 * p + 9
  <2>1. (ink * D) \div art = q /\ WAD \div art = p
    BY <1>1, <1>2, <1>3, <1>4
  <2> QED BY <2>1
<1>7. n > 4 * h + 5 * art
  <2>1. PICK d \in Nat : q = 4 * p + 9 + d
    <3>1. q - (4 * p + 9) \in Nat /\ q = 4 * p + 9 + (q - (4 * p + 9))
      BY <1>6
    <3> QED BY <3>1
  <2>2. PICK u \in Nat : u = art * p
    OBVIOUS
  <2>3. art * q = 4 * u + 9 * art + art * d /\ art * d \in Nat
    BY <2>1, <2>2
  <2> QED BY <1>5, <2>2, <2>3
<1>8. PICK m \in Nat : m = ink * c
  OBVIOUS
<1>9. n <= 3 * m
  <2>1. PICK d \in Nat : 3 * c = D + d
    <3>1. 3 * c - D \in Nat /\ 3 * c = D + (3 * c - D)
      OBVIOUS
    <3> QED BY <3>1
  <2>2. ink * (3 * c) = 3 * m /\ ink * (D + d) = n + ink * d /\ ink * d \in Nat
    BY <1>2, <1>8
  <2> QED BY <2>1, <2>2
<1>10. PICK k \in Nat : k = Kept[m] /\ 16 * (m - k) <= m
  BY KeptIsNear
<1>11. PICK z \in Nat : z = Truncated(k, h)
  BY TruncatedIs
<1>12. PICK y \in Nat : y = z * h
  OBVIOUS
<1>13. k < y + h
  <2>1. k < h * z + h
    BY <1>11, TruncatedIs
  <2>2. h * z = y
    BY <1>12
  <2> QED BY <2>1, <2>2
<1>14. WadMul(ink, c, WAD) = z
  BY <1>1, <1>8, <1>10, <1>11 DEF WadMul, Product, Significant
<1>15. PICK a \in Nat : a = Kept[y] /\ 16 * (y - a) <= y
  BY KeptIsNear
<1>16. art <= a
  BY <1>7, <1>9, <1>10, <1>13, <1>15
<1>17. WadDiv(z, art) = SignificantQuotient(a, art)
  <2>1. AbsValue(z) = z /\ Sign(z) = 1 /\ AbsValue(art) = art /\ Sign(art) = 1
    BY SizesAre
  <2>2. WadDiv(z, art) = 1 * 1 * SignificantQuotient(a, art)
    BY <1>1, <1>12, <1>15, <2>1 DEF WadDiv, Quotient, Significant
  <2> QED BY <2>2, SignificantQuotientIsNat
<1>18. SignificantQuotient(a, art) >= 1 /\ SignificantQuotient(a, art) \in Nat
  BY <1>16, QuotientIsNear
<1>19. ink > 0
  <2>1. ink = 0 => n = 0
    BY <1>2
  <2> QED BY <1>7, <2>1
<1> QED
  BY <1>14, <1>17, <1>18, <1>19

(* Whether the collateral is worth the debt. *)
LEMMA SafetyIsClose ==
    ASSUME NEW ink \in Nat, NEW spot \in Nat, NEW art \in Nat, NEW rate \in Nat
    PROVE  LET w == RayProduct(ink, spot)
               v == RayProduct(art, rate)
               M == RoundingMargin(art * rate)
           IN  /\ w \in Nat /\ v \in Nat /\ M \in Nat
               /\ ~(w >= v) => ink * spot < art * rate + M
               /\ ink * spot < art * rate - M => ~(w >= v)
<1> DEFINE w == RayProduct(ink, spot)
           v == RayProduct(art, rate)
           M == RoundingMargin(art * rate)
<1> HIDE DEF w, v, M
<1>1. PICK t \in Nat : t = LastDigit /\ t >= 8
  BY LastDigitIs
<1>2. PICK h \in Nat \ {0} : h = TenTo(2)
  BY TenToIs
<1>3. PICK n \in Nat, worth \in Nat : n = art * rate /\ worth = ink * spot
  OBVIOUS
<1>4. PICK q \in Nat \ {0} : q = TEN * Lost(n)
  BY <1>3, LastPlaceIs
<1>5. /\ w \in Nat /\ t * (h * w - worth) <= 2 * worth /\ t * (worth - h * w - h) <= 2 * worth
  BY <1>1, <1>2, <1>3, RayProductIs DEF w
<1>6. /\ v \in Nat /\ t * (h * v - n) <= 2 * n /\ t * (n - h * v - h) <= 2 * n
  BY <1>1, <1>2, <1>3, RayProductIs DEF v
<1>7. PICK hw \in Nat : hw = h * w
  BY <1>5
<1>8. PICK hv \in Nat : hv = h * v
  BY <1>6
<1>9. M \in Nat /\ M >= h + 10 * q
  BY <1>2, <1>3, <1>4, MarginIs DEF M
<1>10. n < t * q
  BY <1>1, <1>3, <1>4, LastPlaceIs
<1>11. PICK u \in Nat : u = t * q
  OBVIOUS
<1>12. hv - n <= 2 * q /\ n - hv - h <= 2 * q
  <2>1. hv - n \in Int /\ n - hv - h \in Int
    BY <1>3
  <2>2. t * (hv - n) <= 2 * n /\ t * (n - hv - h) <= 2 * n
    BY <1>6, <1>8
  <2>3. n <= t * q
    BY <1>3, <1>10
  <2> QED BY <1>1, <1>3, <2>1, <2>2, <2>3, ErrorOf
<1>13. ASSUME worth < n - M PROVE ~(w >= v)
  <2>1. SUFFICES ASSUME v <= w PROVE FALSE
    BY <1>5, <1>6
  <2>2. worth <= t * q
    BY <1>3, <1>9, <1>10, <1>11, <1>13
  <2>3. hw - worth <= 2 * q
    <3>1. hw - worth \in Int /\ t * (hw - worth) <= 2 * worth
      BY <1>3, <1>5, <1>7
    <3> QED BY <1>1, <1>3, <2>2, <3>1, ErrorOf
  <2>4. hv <= hw
    <3>1. v * h <= w * h
      BY <1>5, <1>6, <2>1, TimesLess
    <3>2. hv = v * h /\ hw = w * h
      BY <1>5, <1>6, <1>7, <1>8
    <3> QED BY <3>1, <3>2
  <2> QED BY <1>3, <1>9, <1>12, <1>13, <2>3, <2>4
<1>14. ASSUME ~(w >= v) PROVE worth < n + M
  <2>1. SUFFICES ASSUME n + M <= worth PROVE FALSE
    BY <1>3, <1>9
  <2>2. hw + h <= hv
    <3>1. w + 1 <= v
      BY <1>5, <1>6, <1>14
    <3>2. (w + 1) * h <= v * h
      BY <1>5, <1>6, <3>1, TimesLess
    <3>3. hv = v * h /\ hw + h = (w + 1) * h
      BY <1>5, <1>6, <1>7, <1>8
    <3> QED BY <3>2, <3>3
  <2>3. PICK e \in Nat : e = worth - hw - h /\ e >= 8 * q
    <3>1. worth - hw - h \in Nat /\ worth - hw - h >= 8 * q
      BY <1>3, <1>9, <1>12, <2>1, <2>2
    <3> QED BY <3>1
  <2>4. t * e <= 2 * worth
    BY <1>5, <1>7, <2>3
  <2>5. worth <= n + 2 * q + e
    BY <1>3, <1>12, <2>2, <2>3
  <2>6. t * e <= 2 * u + 4 * q + 2 * e
    <3>1. PICK v1 \in Nat : v1 = t * e
      OBVIOUS
    <3> QED BY <1>3, <1>10, <1>11, <2>4, <2>5, <3>1
  <2>7. PICK a \in Nat : t = a + 8
    <3>1. t - 8 \in Nat /\ t = (t - 8) + 8
      BY <1>1
    <3> QED BY <3>1
  <2>8. PICK b \in Nat : e = b + 8 * q
    <3>1. e - 8 * q \in Nat /\ e = (e - 8 * q) + 8 * q
      BY <2>3
    <3> QED BY <3>1
  <2>9. PICK c \in Nat : c = a * q
    OBVIOUS
  <2>10. PICK d \in Nat : d = a * b
    OBVIOUS
  <2>11. t * e = d + 8 * c + 8 * b + 64 * q
    BY <2>7, <2>8, <2>9, <2>10
  <2>12. u = c + 8 * q
    BY <1>11, <2>7, <2>9
  <2>13. d + 8 * c + 8 * b + 64 * q <= 2 * c + 16 * q + 4 * q + 2 * b + 16 * q
    BY <2>6, <2>8, <2>11, <2>12
  <2> QED BY <2>13
<1>15. /\ w \in Nat /\ v \in Nat /\ M \in Nat
       /\ ~(w >= v) => ink * spot < art * rate + M
       /\ ink * spot < art * rate - M => ~(w >= v)
  BY <1>3, <1>5, <1>6, <1>9, <1>13, <1>14
<1> QED
  BY <1>15 DEF w, v, M

(* How much more than the exact results is computed, counted in units of   *)
(* twice the last digit that is kept.                                      *)
LEMMA ErrorsGrow ==
    ASSUME NEW t \in Nat \ {0}, NEW x \in Nat, NEW y \in Nat, NEW z \in Nat, NEW i \in Nat, NEW j \in Nat,
           i * j <= t, t * x <= (t + j) * y, t * y <= (t + i) * z
    PROVE  t * x <= (t + (i + j + 1)) * z
<1>1. PICK u \in Nat, v \in Nat : u = (t + j) * y /\ v = t * y
  OBVIOUS
<1>2. PICK a \in Nat, b \in Nat : a = (t + i) * z /\ b = t * z
  OBVIOUS
<1>3. PICK iz \in Nat, jz \in Nat : iz = i * z /\ jz = j * z
  OBVIOUS
<1>4. (i * j) * z <= t * z
  BY TimesLess
<1>5. t * u = (t + j) * v
  BY <1>1
<1>6. (t + j) * v <= (t + j) * a
  <2>1. v * (t + j) <= a * (t + j)
    BY <1>1, <1>2, TimesLess
  <2> QED BY <2>1
<1>7. (t + j) * a = t * b + i * b + j * b + (i * j) * z
  BY <1>2
<1>8. PICK w \in Nat : w = (t + (i + j + 1)) * z
  OBVIOUS
<1>9. t * w = t * b + i * b + j * b + t * z
  BY <1>2, <1>8
<1>10. PICK p \in Nat, q \in Nat, r \in Nat : p = t * b + i * b + j * b /\ q = (i * j) * z /\ r = t * z
  OBVIOUS
<1>11. t * u <= t * w
  <2>1. t * u \in Nat /\ t * w \in Nat /\ (t + j) * v \in Nat /\ (t + j) * a \in Nat
    BY <1>1, <1>2, <1>8
  <2>2. (t + j) * a = p + q /\ t * w = p + r
    BY <1>7, <1>9, <1>10
  <2>3. q <= r
    BY <1>4, <1>10
  <2> QED BY <1>5, <1>6, <1>10, <2>1, <2>2, <2>3
<1>12. u <= w
  <2>1. u * t <= w * t
    BY <1>11
  <2> QED BY <2>1, TimesLess
<1>13. t * x <= u
  BY <1>1
<1>14. t * x \in Nat
  OBVIOUS
<1> QED
  BY <1>8, <1>12, <1>13, <1>14

LEMMA KeptGrows ==
    ASSUME NEW n \in Nat, NEW t \in Nat, t = 2 * LastDigit
    PROVE  Kept[n] \in Nat /\ t * Kept[n] <= (t + 1) * n /\ t * n <= (t + 2) * Kept[n]
<1>1. PICK k \in Nat : k = Kept[n] /\ 2 * (n - k) <= Lost(n) /\ 2 * (k - n) <= Lost(n)
  BY KeptIs
<1>2. t * (n - k) <= n /\ t * (k - n) <= n
  BY <1>1, LessThanADigit
<1>3. PICK a \in Nat, b \in Nat : a = t * n /\ b = t * k
  OBVIOUS
<1>4. t * (n - k) = a - b /\ t * (k - n) = b - a
  BY <1>3
<1>5. b <= a + n /\ a <= b + n
  BY <1>2, <1>3, <1>4
<1>6. (t + 1) * n = a + n /\ (t + 2) * k = b + 2 * k
  BY <1>3
<1>7. n <= 2 * k
  <2>1. PICK d \in Nat : t = d + 2
    <3>1. t - 2 \in Nat /\ t = (t - 2) + 2
      BY LastDigitIs
    <3> QED BY <3>1
  <2>2. SUFFICES ASSUME 2 * k + 1 <= n PROVE FALSE
    OBVIOUS
  <2>3. n - k \in Nat /\ 2 * (n - k) >= n + 1
    BY <2>2
  <2>4. PICK e \in Nat : e = n - k /\ 2 * e >= n + 1
    BY <2>3
  <2>5. t * e = d * e + 2 * e /\ d * e \in Nat
    BY <2>1
  <2> QED BY <1>2, <2>4, <2>5
<1> QED
  BY <1>1, <1>3, <1>5, <1>6, <1>7

LEMMA QuotientGrows ==
    ASSUME NEW n \in Nat, NEW d \in Nat \ {0}, NEW s, s = SignificantQuotient(n, d),
           NEW t \in Nat, t = 2 * LastDigit
    PROVE  s \in Nat /\ t * (d * s) <= (t + 1) * n
<1>1. PICK a \in Nat \ {0} : a = LastDigit /\ t = 2 * a
  BY LastDigitIs
<1>2. PICK q \in Nat : q = n \div d /\ d * q <= n
  BY QuotientBounds
<1>3. s \in Nat
  BY SignificantQuotientIsNat
<1>4. PICK p \in Nat : p = d * q
  OBVIOUS
<1>5. SUFFICES t * (d * s) <= t * n + n
  <2>1. (t + 1) * n = t * n + n
    OBVIOUS
  <2> QED BY <1>3, <2>1
<1>6. CASE q >= LastDigit
  <2>1. PICK l \in Nat \ {0} : l = Lost(q)
    BY LostIs
  <2>2. l * a <= q
    <3>1. CASE Excess[q] = 0
      <4>1. l = 1
        BY <2>1, <3>1, TenToIs DEF Lost
      <4> QED BY <1>1, <1>6, <4>1
    <3>2. CASE Excess[q] # 0
      BY <1>1, <2>1, <3>2, FirstDigits DEF LastDigit
    <3> QED BY <3>1, <3>2
  <2>3. PICK c \in Nat \ {0} : c = d * l
    OBVIOUS
  <2>4. PICK e \in Nat : e = HalfEven(n, c) /\ 2 * (c * e - n) <= c
    BY HalfEvenIs
  <2>5. s = l * e
    <3>1. s = Lost(q) * HalfEven(n, d * Lost(q))
      BY <1>2, <1>6, LargeQuotient DEF LastDigit
    <3> QED BY <2>1, <2>3, <2>4, <3>1
  <2>6. PICK v \in Nat : v = c * e
    OBVIOUS
  <2>7. d * s = v
    BY <2>3, <2>5, <2>6
  <2>8. c * a <= p
    <3>1. (l * a) * d <= q * d
      BY <2>2, TimesLess
    <3> QED BY <1>4, <2>3, <3>1
  <2>9. 2 * v <= 2 * n + c
    BY <2>4, <2>6
  <2>10. (2 * v) * a <= (2 * n + c) * a
    BY <1>1, <2>9, TimesLess
  <2>11. (2 * v) * a = t * v /\ (2 * n + c) * a = t * n + c * a
    BY <1>1
  <2>12. c * a \in Nat /\ t * v \in Nat /\ t * n \in Nat
    OBVIOUS
  <2>13. t * v <= t * n + c * a
    BY <2>10, <2>11
  <2>14. t * v <= t * n + n
    BY <1>2, <1>4, <2>8, <2>12, <2>13
  <2> QED BY <2>7, <2>14
<1>7. CASE ~(q >= LastDigit)
  <2>1. PICK r \in Nat : r = n % d /\ n = p + r /\ r < d
    BY <1>2, <1>4
  <2>2. PICK e \in Nat : e = d - r
    BY <2>1
  <2>3. PICK m \in Nat : m = TenTo(Places[q])
    BY <1>7, SmallQuotient DEF LastDigit
  <2>4. s = IF 2 * m * e <= d THEN q + 1 ELSE q
    BY <1>2, <1>7, <2>1, <2>2, <2>3, SmallQuotient DEF LastDigit
  <2>5. CASE ~(2 * m * e <= d)
    <3>1. d * s <= n
      BY <1>2, <2>4, <2>5
    <3>2. (d * s) * t <= n * t
      BY <1>3, <3>1, <1>1, TimesLess
    <3> QED BY <1>3, <3>2
  <2>6. CASE 2 * m * e <= d
    <3>1. d * s = n + e
      <4>1. d * (q + 1) = p + d
        BY <1>4
      <4>2. s = q + 1
        BY <2>4, <2>6
      <4>3. d * s = p + d
        BY <4>1, <4>2
      <4> QED BY <2>1, <2>2, <4>3
    <3>2. t * e <= n
      <4>1. PICK f \in Nat : f = m * e /\ 2 * f <= d
        BY <2>6
      <4>2. q < TenTo(PREC - 1)
        BY <1>1, <1>7 DEF LastDigit
      <4>3. CASE q # 0
        <5>1. a <= m * q
          BY <1>1, <2>3, <4>2, <4>3, PlacesOfSmall DEF LastDigit
        <5>2. PICK g \in Nat : g = m * q
          OBVIOUS
        <5>3. PICK x \in Nat, y \in Nat, z \in Nat : x = a * e /\ y = g * e /\ z = f * q
          BY <4>1
        <5>4. x <= y
          <6>1. CASE e = 0
            BY <5>3, <6>1
          <6>2. CASE e # 0
            BY <5>1, <5>2, <5>3, <6>2, TimesLess
          <6> QED BY <6>1, <6>2
        <5>5. y = z
          BY <4>1, <5>2, <5>3
        <5>6. (2 * f) * q <= d * q
          BY <4>1, <4>3, TimesLess
        <5>7. 2 * z <= p
          BY <1>4, <5>3, <5>6
        <5>8. t * e = 2 * x
          BY <1>1, <5>3
        <5> QED BY <1>2, <1>4, <5>4, <5>5, <5>7, <5>8
      <4>4. CASE q = 0
        <5>1. m = TenTo(PREC)
          BY <2>3, <4>2, <4>4, PlacesOfSmall
        <5>2. PICK ten \in Nat : ten = TEN /\ ten >= 10
          BY FixedPointAssumption
        <5>3. m = ten * a
          <6>1. PREC - 1 \in Nat /\ (PREC - 1) + 1 = PREC
            BY FixedPointAssumption
          <6> QED BY <1>1, <5>1, <5>2, <6>1, TenToIs DEF LastDigit
        <5>4. PICK i \in Nat : ten = i + 10
          <6>1. ten - 10 \in Nat /\ ten = (ten - 10) + 10
            BY <5>2
          <6> QED BY <6>1
        <5>5. PICK x \in Nat : x = a * e
          OBVIOUS
        <5>6. f = i * x + 10 * x /\ i * x \in Nat
          BY <4>1, <5>3, <5>4, <5>5
        <5>7. 20 * x <= d
          BY <4>1, <5>6
        <5>8. e <= x
          <6>1. PICK b \in Nat : a = b + 1
            <7>1. a - 1 \in Nat /\ a = (a - 1) + 1
              OBVIOUS
            <7> QED BY <7>1
          <6>2. x = b * e + e /\ b * e \in Nat
            BY <5>5, <6>1
          <6> QED BY <6>2
        <5>9. t * e = 2 * x
          BY <1>1, <5>5
        <5>10. p = 0
          BY <1>4, <4>4
        <5> QED BY <2>1, <2>2, <5>7, <5>8, <5>9, <5>10
      <4> QED BY <4>3, <4>4
    <3>3. t * (n + e) = t * n + t * e
      OBVIOUS
    <3>4. t * n \in Nat /\ t * e \in Nat
      OBVIOUS
    <3> QED BY <3>1, <3>2, <3>3, <3>4
  <2> QED BY <2>5, <2>6
<1> QED
  BY <1>3, <1>6, <1>7

(* One division of the two that dart takes. *)
LEMMA DivisionGrows ==
    ASSUME NEW x \in Nat, NEW y \in Nat \ {0}, NEW k \in Nat \ {0}, NEW s, s = RadDiv(x, Kept[y * k]),
           NEW t \in Nat, t = 2 * LastDigit
    PROVE  s \in Nat /\ t * ((y * k) * s) <= (t + 6) * (x * RAD)
<1>1. PICK one \in Nat \ {0} : one = RAD
  BY UnitsAre
<1>2. PICK z \in Nat \ {0} : z = y * k
  OBVIOUS
<1>3. PICK n \in Nat : n = x * one
  OBVIOUS
<1>4. PICK b \in Nat : b = Kept[z] /\ t * z <= (t + 2) * b
  BY KeptGrows
<1>5. PICK a \in Nat : a = Kept[n] /\ t * a <= (t + 1) * n
  BY KeptGrows
<1>6. t >= 1000
  BY LastDigitIs
<1>7. b # 0
  <2>1. SUFFICES ASSUME b = 0 PROVE FALSE
    OBVIOUS
  <2>2. t * z <= 0 /\ t * z >= z
    <3>1. 1 * z <= t * z
      BY <1>6, TimesLess
    <3> QED BY <1>4, <2>1, <3>1
  <2> QED BY <2>2
<1>8. s = SignificantQuotient(a, b)
  <2>1. AbsValue(x) = x /\ Sign(x) = 1 /\ AbsValue(b) = b /\ Sign(b) = 1
    BY SizesAre
  <2>2. s = 1 * 1 * SignificantQuotient(a, b)
    BY <1>1, <1>2, <1>3, <1>4, <1>5, <2>1 DEF RadDiv, Quotient, Significant
  <2>3. SignificantQuotient(a, b) \in Nat
    BY <1>7, SignificantQuotientIsNat
  <2> QED BY <2>2, <2>3
<1>9. s \in Nat /\ t * (b * s) <= (t + 1) * a
  BY <1>7, <1>8, QuotientGrows
<1>10. PICK u \in Nat, v \in Nat : u = b * s /\ v = z * s
  BY <1>9
<1>11. t * u <= (t + (1 + 1 + 1)) * n
  <2>1. t \in Nat \ {0} /\ 1 * 1 <= t
    BY <1>6
  <2>2. t * u <= (t + 1) * a
    BY <1>9, <1>10
  <2> QED BY ONLY <1>3, <1>5, <1>10, <2>1, <2>2, ErrorsGrow
<1>12. t * v <= (t + 2) * u
  <2>1. CASE s = 0
    BY <1>10, <2>1
  <2>2. CASE s # 0
    <3>1. t * z \in Nat /\ (t + 2) * b \in Nat
      OBVIOUS
    <3>2. (t * z) * s <= ((t + 2) * b) * s
      BY <1>4, <1>9, <2>2, <3>1, TimesLess
    <3>3. (t * z) * s = t * v /\ ((t + 2) * b) * s = (t + 2) * u
      BY <1>9, <1>10
    <3> QED BY <3>2, <3>3
  <2> QED BY <2>1, <2>2
<1>13. t * v <= (t + (3 + 2 + 1)) * n
  <2>1. t \in Nat \ {0} /\ 3 * 2 <= t /\ 1 + 1 + 1 = 3
    BY <1>6
  <2>2. t * u <= (t + 3) * n
    BY <1>11
  <2> QED BY ONLY <1>3, <1>10, <1>12, <2>1, <2>2, ErrorsGrow
<1>14. t * v <= (t + 6) * n
  BY <1>13
<1> QED
  BY <1>1, <1>2, <1>3, <1>9, <1>10, <1>14

(* The debt that a bite covers is not much more than what Cat covers.      *)
LEMMA DartIsAtMost ==
    ASSUME NEW m \in Nat, NEW rate \in Nat \ {0}, NEW chop \in Nat \ {0},
           NEW c, c = WadOf(RadDiv(RadDiv(m, RadOf(rate, RAY)), RadOf(chop, WAD)), RAD)
    PROVE  /\ c \in Nat
           /\ c <= ((LastDigit + 7) * (m * WAD)) \div (LastDigit * (rate * chop))
<1>1. PICK h \in Nat \ {0} : h = TenTo(2) /\ h = WAD
  BY TenToIs DEF WAD
<1>2. PICK g \in Nat \ {0} : g = TenTo(3)
  BY TenToIs
<1>3. PICK a \in Nat \ {0} : a = LastDigit /\ a >= 1000
  BY LastDigitIs
<1>4. PICK t \in Nat \ {0} : t = 2 * a
  OBVIOUS
<1>5. PICK rad \in Nat \ {0} : rad = RAD
  BY UnitsAre
<1>6. rad = g * h
  BY <1>1, <1>2, <1>5, ShiftsAre DEF RAD
<1>7. PICK s : s = RadDiv(m, Kept[rate * h])
  OBVIOUS
<1>8. s \in Nat /\ t * ((rate * h) * s) <= (t + 6) * (m * rad)
  BY <1>3, <1>4, <1>5, <1>7, DivisionGrows
<1>9. PICK s2 : s2 = RadDiv(s, Kept[chop * g])
  OBVIOUS
<1>10. s2 \in Nat /\ t * ((chop * g) * s2) <= (t + 6) * (s * rad)
  BY <1>3, <1>4, <1>5, <1>8, <1>9, DivisionGrows
<1>11. c = Truncated(s2, g)
  <2>1. RadOf(rate, RAY) = Kept[rate * h] /\ RadOf(chop, WAD) = Kept[chop * g]
    BY <1>1, <1>2, ShiftsAre DEF RadOf, Significant
  <2> QED BY <1>2, <1>7, <1>9, <2>1, ShiftsAre DEF WadOf
<1>12. c \in Nat /\ g * c <= s2
  BY <1>10, <1>11, TruncatedIs
<1>13. PICK x \in Nat, y \in Nat, z \in Nat :
           x = (chop * (g * c)) * rate /\ y = (s * h) * rate /\ z = (m * h) * g
  BY <1>8, <1>12
<1>14. t * x <= (t + 6) * y
  <2>1. PICK gc \in Nat, cg \in Nat : gc = g * c /\ cg = chop * gc
    BY <1>12
  <2>2. PICK cs \in Nat, sh \in Nat : cs = chop * s2 /\ sh = s * h
    BY <1>8, <1>10
  <2>3. gc * chop <= s2 * chop
    BY <1>10, <1>12, <2>1, TimesLess
  <2>4. cg <= cs
    BY <1>10, <2>1, <2>2, <2>3
  <2>5. (t * cs) * g <= ((t + 6) * sh) * g
    <3>1. (chop * g) * s2 = cs * g /\ s * rad = sh * g
      BY <1>6, <1>8, <1>10, <2>2
    <3>2. t * (cs * g) <= (t + 6) * (sh * g)
      BY <1>10, <3>1
    <3> QED BY <3>2
  <2>6. t * cs <= (t + 6) * sh
    <3>1. t * cs \in Nat /\ (t + 6) * sh \in Nat
      OBVIOUS
    <3> QED BY <2>5, <3>1, TimesLess
  <2>7. cg * t <= cs * t
    BY <2>4, TimesLess
  <2>8. t * cg <= (t + 6) * sh
    <3>1. PICK u \in Nat, v \in Nat : u = t * cg /\ v = t * cs
      OBVIOUS
    <3> QED BY <2>6, <2>7, <3>1
  <2>9. (t * cg) * rate <= ((t + 6) * sh) * rate
    <3>1. t * cg \in Nat /\ (t + 6) * sh \in Nat
      OBVIOUS
    <3> QED BY <2>8, <3>1, TimesLess
  <2>10. (t * cg) * rate = t * x /\ ((t + 6) * sh) * rate = (t + 6) * y
    BY <1>13, <2>1, <2>2
  <2> QED BY <2>9, <2>10
<1>15. t * y <= (t + 6) * z
  <2>1. (rate * h) * s = y /\ m * rad = z
    BY <1>6, <1>8, <1>13
  <2> QED BY <1>8, <2>1
<1>16. t * x <= (t + (6 + 6 + 1)) * z
  <2>1. 6 * 6 <= t
    BY <1>3, <1>4
  <2> QED BY ONLY <1>13, <1>14, <1>15, <2>1, ErrorsGrow
<1>17. PICK w \in Nat, p \in Nat, b \in Nat : w = c * b /\ p = m * h /\ b = rate * chop
  BY <1>12
<1>18. a * w <= (a + 7) * p
  <2>1. x = w * g /\ z = p * g
    BY <1>12, <1>13, <1>17
  <2>2. (t * w) * g <= ((t + 13) * p) * g
    BY <1>16, <2>1
  <2>3. t * w <= (t + 13) * p
    <3>1. t * w \in Nat /\ (t + 13) * p \in Nat
      OBVIOUS
    <3> QED BY <2>2, <3>1, TimesLess
  <2>4. PICK u \in Nat, v \in Nat : u = a * w /\ v = a * p
    OBVIOUS
  <2>5. t * w = 2 * u /\ (t + 13) * p = 2 * v + 13 * p /\ (a + 7) * p = v + 7 * p
    BY <1>4, <2>4
  <2> QED BY <2>3, <2>4, <2>5
<1>19. PICK n \in Nat, d \in Nat \ {0} : n = (a + 7) * p /\ d = a * b
  BY <1>17
<1>20. PICK q \in Nat : q = n \div d /\ n < d * q + d
  BY QuotientBounds
<1>21. c <= q
  <2>1. SUFFICES ASSUME q + 1 <= c PROVE FALSE
    BY <1>12
  <2>2. (q + 1) * d <= c * d
    BY <1>12, <2>1, TimesLess
  <2>3. c * d = a * w
    BY <1>12, <1>17, <1>19
  <2>4. (q + 1) * d = d * q + d
    OBVIOUS
  <2>5. d * q \in Nat /\ a * w \in Nat
    OBVIOUS
  <2> QED BY <1>18, <1>19, <1>20, <2>2, <2>3, <2>4, <2>5
<1> QED
  BY <1>1, <1>3, <1>12, <1>17, <1>19, <1>20, <1>21

(* The collateral that it takes is worth it.                               *)
LEMMA DinkIsAtMost ==
    ASSUME NEW ink \in Nat, NEW art \in Nat \ {0}, NEW c \in Nat,
           NEW dink, dink = WadDiv(WadMul(ink, c, WAD), art)
    PROVE  /\ dink \in Nat
           /\ dink > 0 => LastDigit * art <= (LastDigit + 3) * (ink * c)
<1>1. PICK h \in Nat \ {0} : h = TenTo(2) /\ h = WAD
  BY TenToIs DEF WAD
<1>2. PICK b \in Nat \ {0} : b = LastDigit /\ b >= 1000
  BY LastDigitIs
<1>3. PICK t \in Nat \ {0} : t = 2 * b /\ t >= 1000
  BY <1>2
<1>4. PICK m \in Nat : m = ink * c
  OBVIOUS
<1>5. PICK k \in Nat : k = Kept[m] /\ t * k <= (t + 1) * m
  BY <1>2, <1>3, KeptGrows
<1>6. PICK z \in Nat : z = Truncated(k, h) /\ h * z <= k
  BY TruncatedIs
<1>7. PICK y \in Nat : y = z * h /\ y <= k
  BY <1>6
<1>8. PICK a \in Nat : a = Kept[y] /\ t * a <= (t + 1) * y
  BY <1>2, <1>3, KeptGrows
<1>9. WadMul(ink, c, WAD) = z
  BY <1>1, <1>4, <1>5, <1>6 DEF WadMul, Product, Significant
<1>10. PICK s \in Nat : s = SignificantQuotient(a, art)
  BY SignificantQuotientIsNat
<1>11. WadDiv(z, art) = s
  <2>1. AbsValue(z) = z /\ Sign(z) = 1 /\ AbsValue(art) = art /\ Sign(art) = 1
    BY SizesAre
  <2>2. WadDiv(z, art) = 1 * 1 * s
    BY <1>1, <1>7, <1>8, <1>10, <2>1 DEF WadDiv, Quotient, Significant
  <2> QED BY <2>2
<1>12. PICK x \in Nat : x = art * s
  OBVIOUS
<1>13. t * x <= (t + 1) * a
  BY <1>2, <1>3, <1>10, <1>12, QuotientGrows
<1>14. t * x <= (t + 3) * k
  <2>1. t * x <= (t + (1 + 1 + 1)) * y
    <3>1. 1 * 1 <= t
      BY <1>3
    <3> QED BY ONLY <1>3, <1>7, <1>8, <1>12, <1>13, <3>1, ErrorsGrow
  <2>2. y * (t + 3) <= k * (t + 3)
    BY <1>7, TimesLess
  <2>3. t * x \in Nat /\ y * (t + 3) \in Nat /\ k * (t + 3) \in Nat
    OBVIOUS
  <2> QED BY <2>1, <2>2, <2>3
<1>15. t * x <= (t + (3 + 1 + 1)) * m
  <2>1. 1 * 3 <= t
    BY <1>3
  <2>2. t * x <= (t + (1 + 3 + 1)) * m
    BY ONLY <1>3, <1>4, <1>5, <1>12, <1>14, <2>1, ErrorsGrow
  <2> QED BY <2>2
<1>16. ASSUME dink > 0 PROVE art <= x
  <2>1. s >= 1
    BY <1>9, <1>11, <1>16
  <2>2. 1 * art <= s * art
    BY <2>1, TimesLess
  <2> QED BY <1>12, <2>2
<1>17. dink > 0 => art * b <= x * b
  BY <1>16, TimesLess
<1>18. PICK u \in Nat, v \in Nat, w \in Nat : u = b * art /\ v = b * x /\ w = b * m
  OBVIOUS
<1>19. t * x = 2 * v /\ (t + 5) * m = 2 * w + 5 * m /\ (b + 3) * m = w + 3 * m
  BY <1>3, <1>18
<1>20. dink > 0 => u <= w + 3 * m
  BY <1>15, <1>17, <1>18, <1>19
<1> QED
  BY <1>2, <1>4, <1>9, <1>11, <1>18, <1>19, <1>20

(* What Cat covers, and what can_bite says that it covers. *)
LEMMA CatDartIs ==
    ASSUME NEW s \in [VatFields -> Nat], s.rate > 0, s.chop > 0, RoomInBox(s), NEW units \in Nat,
           NEW most, most = LessOf(s.dunk, s.box - s.litter)
    PROVE  LET q == ((LastDigit + units) * (most * WAD)) \div (LastDigit * (s.rate * s.chop))
           IN  /\ most \in Nat /\ q \in Nat /\ CatDart(s, units) = LessOf(s.art, q)
               /\ LastDigit * (s.rate * s.chop) \in Nat \ {0}
               /\ (LastDigit + units) * (most * WAD) \in Nat
<1>1. /\ s.dunk \in Nat /\ s.box \in Nat /\ s.litter \in Nat
      /\ s.rate \in Nat \ {0} /\ s.chop \in Nat \ {0}
  BY DEF VatFields
<1>2. most \in Nat
  BY <1>1 DEF LessOf, RoomInBox
<1>3. PICK a \in Nat \ {0}, wad \in Nat : a = LastDigit /\ wad = WAD
  BY LastDigitIs, UnitsAre
<1>4. PICK d \in Nat \ {0} : d = LastDigit * (s.rate * s.chop)
  BY <1>1, <1>3
<1>5. PICK n \in Nat : n = (LastDigit + units) * (most * WAD)
  BY <1>2, <1>3
<1>6. n \div d \in Nat
  BY QuotientBounds
<1> QED
  BY <1>2, <1>4, <1>5, <1>6 DEF CatDart, LastDigit

(* A bite that can_bite lets through may succeed. *)
LEMMA BiteTakesNoMore ==
    ASSUME NEW s \in [VatFields -> Nat], s.art > 0, s.chop > 0, s.rate > 0, RoomInBox(s), NotNull(s)
    PROVE  /\ s.ink > 0 /\ CatDart(s, 7) > 0
           /\ LastDigit * s.art <= (LastDigit + 3) * (s.ink * CatDart(s, 7))
<1>1. PICK rate \in Nat \ {0}, chop \in Nat \ {0}, art \in Nat \ {0}, ink \in Nat :
          rate = s.rate /\ chop = s.chop /\ art = s.art /\ ink = s.ink
  BY DEF VatFields
<1>2. PICK most : most = LessOf(s.dunk, s.box - s.litter)
  OBVIOUS
<1>3. PICK q : q = ((LastDigit + 7) * (most * WAD)) \div (LastDigit * (rate * chop))
  OBVIOUS
<1>4. most \in Nat /\ q \in Nat /\ CatDart(s, 7) = LessOf(art, q)
  BY <1>1, <1>2, <1>3, CatDartIs
<1>5. PICK c : c = WadOf(RadDiv(RadDiv(most, RadOf(rate, RAY)), RadOf(chop, WAD)), RAD)
  OBVIOUS
<1>6. c \in Nat /\ c <= q
  BY <1>3, <1>4, <1>5, DartIsAtMost
<1>7. PICK f \in Nat : f = LessOf(art, c)
  BY <1>6 DEF LessOf
<1>8. BiteDart(s) = f
  BY <1>1, <1>2, <1>5, <1>7 DEF BiteDart
<1>9. PICK g \in Nat : g = CatDart(s, 7) /\ f <= g
  BY <1>4, <1>6, <1>7 DEF LessOf
<1>10. PICK z \in Nat : z = WadDiv(WadMul(ink, f, WAD), art)
  BY DinkIsAtMost
<1>11. BiteDink(s) = LessOf(ink, z)
  BY <1>1, <1>8, <1>10 DEF BiteDink
<1>12. f > 0 /\ LessOf(ink, z) > 0
  BY <1>8, <1>11 DEF NotNull
<1>13. ink > 0 /\ z > 0
  BY <1>12 DEF LessOf
<1>14. LastDigit * art <= (LastDigit + 3) * (ink * f)
  BY <1>10, <1>13, DinkIsAtMost
<1>15. PICK a \in Nat, b \in Nat : a = LastDigit /\ b = (a + 3) * ink /\ b > 0
  BY <1>13, LastDigitIs
<1>16. b * f <= b * g
  <2>1. f * b <= g * b
    BY <1>9, <1>15, TimesLess
  <2> QED BY <2>1
<1>17. (a + 3) * (ink * f) = b * f /\ (a + 3) * (ink * g) = b * g
  BY <1>15
<1>18. a * art \in Nat /\ b * f \in Nat /\ b * g \in Nat
  OBVIOUS
<1>19. a * art <= (a + 3) * (ink * g)
  BY <1>14, <1>15, <1>16, <1>17, <1>18
<1> QED
  BY <1>1, <1>9, <1>12, <1>13, <1>15, <1>19

(* A bite that is possible with the margin to spare is not refused. *)
LEMMA BiteTakesSome ==
    ASSUME NEW s \in [VatFields -> Nat], s.art > 0, s.chop > 0, s.rate > 0, RoomInBox(s),
           NEW D, D = CatDart(s, 0), D > 1,
           (s.ink * D) \div s.art > 4 * (WAD \div s.art + 2)
    PROVE  NotNull(s)
<1>1. PICK rate \in Nat \ {0}, chop \in Nat \ {0}, art \in Nat \ {0}, ink \in Nat :
          rate = s.rate /\ chop = s.chop /\ art = s.art /\ ink = s.ink
  BY DEF VatFields
<1>2. PICK most : most = LessOf(s.dunk, s.box - s.litter)
  OBVIOUS
<1>3. PICK a \in Nat \ {0}, p \in Nat, b \in Nat \ {0} :
          a = LastDigit /\ p = most * WAD /\ b = rate * chop
  <2>1. most \in Nat
    BY <1>2, CatDartIs, 0 \in Nat
  <2> QED BY <2>1, LastDigitIs, UnitsAre
<1>4. PICK n \in Nat, d \in Nat \ {0} : n = a * p /\ d = a * b
  OBVIOUS
<1>5. PICK q \in Nat : q = n \div d /\ d * q <= n
  BY QuotientBounds
<1>6. most \in Nat /\ D = LessOf(art, q)
  <2>1. /\ most \in Nat
        /\ D = LessOf(s.art, ((LastDigit + 0) * (most * WAD)) \div (LastDigit * (s.rate * s.chop)))
    BY <1>2, CatDartIs, 0 \in Nat
  <2>2. (LastDigit + 0) * (most * WAD) = n /\ LastDigit * (s.rate * s.chop) = d
    BY <1>1, <1>3, <1>4
  <2> QED BY <1>1, <1>5, <2>1, <2>2
<1>7. D \in Nat /\ D >= 2 /\ D <= art /\ D <= q
  BY <1>6 DEF LessOf
<1>8. D * (chop * rate) <= most * WAD
  <2>1. D * d <= q * d
    BY <1>7, TimesLess
  <2>2. PICK w \in Nat : w = D * b
    BY <1>7
  <2>3. w * a <= p * a
    <3>1. w * a = D * d /\ p * a = n /\ q * d = d * q
      BY <1>4, <1>7, <2>2
    <3>2. D * d \in Nat /\ d * q \in Nat
      BY <1>7
    <3> QED BY <1>5, <2>1, <3>1, <3>2
  <2>4. w <= p
    BY <2>3, TimesLess
  <2>5. D * (chop * rate) = w
    BY <1>3, <1>7, <2>2
  <2> QED BY <1>3, <2>4, <2>5
<1>9. PICK c : c = WadOf(RadDiv(RadDiv(most, RadOf(rate, RAY)), RadOf(chop, WAD)), RAD)
  OBVIOUS
<1>10. c \in Nat /\ c >= 1 /\ 3 * c >= D
  BY <1>6, <1>7, <1>8, <1>9, DartIsNear
<1>11. BiteDart(s) = LessOf(art, c)
  BY <1>1, <1>2, <1>9 DEF BiteDart
<1>12. PICK f \in Nat : f = LessOf(art, c) /\ f >= 1 /\ 3 * f >= D
  BY <1>7, <1>10 DEF LessOf
<1>13. WadDiv(WadMul(ink, f, WAD), art) > 0 /\ ink > 0
  BY <1>1, <1>7, <1>12, DinkIsNear
<1>14. BiteDink(s) = LessOf(ink, WadDiv(WadMul(ink, f, WAD), art))
  BY <1>1, <1>11, <1>12 DEF BiteDink
<1>15. BiteDink(s) > 0
  BY <1>13, <1>14 DEF LessOf
<1> QED
  BY <1>11, <1>12, <1>15 DEF NotNull

LEMMA BiteIsRight ==
    ASSUME NEW s \in [VatFields -> Nat], s.art > 0, s.chop > 0, s.spot > 0
    PROVE  /\ CanBite(s) = "yes" => BiteMaySucceed(s)
           /\ BiteMustSucceed(s) => CanBite(s) = "yes"
<1>1. PICK rate \in Nat, chop \in Nat \ {0}, art \in Nat \ {0}, ink \in Nat, spot \in Nat :
          rate = s.rate /\ chop = s.chop /\ art = s.art /\ ink = s.ink /\ spot = s.spot
  BY DEF VatFields
<1>2. PICK worth \in Nat : worth = ink * spot
  OBVIOUS
<1>3. PICK n \in Nat : n = art * rate
  OBVIOUS
<1>4. PICK M : M = RoundingMargin(n)
  OBVIOUS
<1>5. PICK w : w = RayProduct(ink, spot)
  OBVIOUS
<1>6. PICK v : v = RayProduct(art, rate)
  OBVIOUS
<1>7. /\ w \in Nat /\ v \in Nat /\ M \in Nat
      /\ ~(w >= v) => worth < n + M
      /\ worth < n - M => ~(w >= v)
  <2>1. /\ w \in Nat /\ v \in Nat /\ M \in Nat
        /\ ~(w >= v) => ink * spot < art * rate + M
        /\ ink * spot < art * rate - M => ~(w >= v)
    BY <1>3, <1>4, <1>5, <1>6, SafetyIsClose
  <2> QED BY <1>2, <1>3, <2>1
<1>8. UrnIsSafe(s) <=> w >= v
  BY <1>1, <1>5, <1>6 DEF UrnIsSafe, RayProduct
<1>9. ASSUME ~(w >= v) PROVE rate > 0
  <2>1. SUFFICES ASSUME rate = 0 PROVE FALSE
    OBVIOUS
  <2>2. n = 0
    BY <1>3, <2>1
  <2>3. LastDigit * (TenTo(2) * v - n) <= 2 * n
    BY <1>3, <1>6, RayProductIs
  <2>4. PICK t \in Nat \ {0} : t = LastDigit
    BY LastDigitIs
  <2>5. PICK h \in Nat \ {0} : h = TenTo(2)
    BY TenToIs
  <2>6. v >= 1
    BY <1>7, <1>9
  <2>7. t * (h * v) > 0
    <3>1. PICK u \in Nat : u = h * v
      BY <1>7
    <3>2. u >= 1
      <4>1. 1 * h <= v * h
        BY <1>7, <2>6, TimesLess
      <4> QED BY <1>7, <3>1, <4>1
    <3>3. 1 * t <= u * t
      BY <3>2, TimesLess
    <3> QED BY <3>1, <3>2, <3>3
  <2>8. t * (h * v - 0) <= 2 * 0
    BY <2>2, <2>3, <2>4, <2>5
  <2>9. h * v \in Nat
    BY <1>7
  <2> QED BY <2>7, <2>8, <2>9
<1>10. s.ink * s.spot = worth /\ s.art * s.rate = n
  BY <1>1, <1>2, <1>3
<1>11. ASSUME CanBite(s) = "yes" PROVE BiteMaySucceed(s)
  <2>1. ~(w >= v) /\ RoomInBox(s) /\ NotNull(s)
    BY <1>8, <1>11 DEF CanBite
  <2>2. s.rate > 0
    BY <1>1, <1>9, <2>1
  <2>3. worth < n + M
    BY <1>7, <2>1
  <2>4. /\ s.ink > 0 /\ CatDart(s, 7) > 0
        /\ LastDigit * s.art <= (LastDigit + 3) * (s.ink * CatDart(s, 7))
    BY <2>1, <2>2, BiteTakesNoMore
  <2> QED BY <1>4, <1>10, <2>1, <2>3, <2>4, Zenon DEF BiteMaySucceed, RoomInBox, LastDigit
<1>12. ASSUME BiteMustSucceed(s) PROVE CanBite(s) = "yes"
  <2>1. PICK D : D = CatDart(s, 0)
    OBVIOUS
  <2>2. /\ worth < n - M /\ RoomInBox(s) /\ D > 1
        /\ (s.ink * D) \div s.art > 4 * (WAD \div s.art + 2)
    BY <1>4, <1>10, <1>12, <2>1, Zenon DEF BiteMustSucceed, RoomInBox
  <2>3. ~(w >= v)
    BY <1>7, <2>2
  <2>4. s.rate > 0
    BY <1>1, <1>9, <2>3
  <2>5. NotNull(s)
    BY <2>1, <2>2, <2>4, BiteTakesSome
  <2>6. s.chop # 0
    BY <1>1
  <2> QED BY <1>8, <2>2, <2>3, <2>5, <2>6 DEF CanBite
<1> QED
  BY <1>11, <1>12

(* For any system, whatever happens between its getters, can_bite says of  *)
(* every urn whether Cat bites it, and would start an auction of some of   *)
(* the collateral for some of the debt, within what Ray, Rad and the       *)
(* divisions round off.                                                    *)
THEOREM BitesAreJudged == VaultsSpec => []BiteIsJudged
<1>1. VerdictInv => BiteIsJudged
  <2>1. SUFFICES ASSUME VerdictInv, StillTrue("can_bite"), vaultCall.verdict # "raised",
                        system.art > 0, system.chop > 0, system.spot > 0
                 PROVE  IF vaultCall.verdict = "yes"
                        THEN BiteMaySucceed(system)
                        ELSE ~ BiteMustSucceed(system)
    BY DEF BiteIsJudged
  <2>2. vaultCall.verdict = CanBite(system)
    BY <2>1, BiteIsOfTheSystem
  <2>3. system \in [VatFields -> Nat]
    BY <2>1 DEF VerdictInv
  <2> QED BY <2>1, <2>2, <2>3, BiteIsRight
<1> QED
  BY <1>1, VerdictStarts, VerdictStep, PTL DEF VaultsSpec

-----------------------------------------------------------------------------
(* The position of a new order. *)

(* Amounts are positive; the position is an order's; nothing but what      *)
(* unrest names changes what stands.                                       *)
AmountsOK == \A i \in 1 .. Len(offers) : offers[i].pay \in Nat \ {0} /\ offers[i].buy \in Nat \ {0}

AskedOK == /\ listing.pos \in 0 .. Len(offers)
           /\ listing.op \in {"walk", "worse", "pages", "next page", "done walk", "done pages"} =>
                  listing.pay \in Nat \ {0} /\ listing.buy \in Nat \ {0}
           /\ listing.pos # 0 => listing.op \in {"done walk", "done pages"}

StandingIsLive == unrest = {} /\ listing.op # "none" => standing = Live

ScaleOK == market.scale \in Nat \ {0}

PositionInv == AmountsOK /\ AskedOK /\ StandingIsLive /\ ScaleOK /\ PositionRight

OrderPrices == [pay : Nat, buy : Nat \ {0}]

(* A ratio that fits is less than one unit and a half off: half a unit by  *)
(* what is kept of the product, one by the quotient.                       *)
LEMMA RatioIsNear ==
    ASSUME NEW pay \in Nat, NEW buy \in Nat \ {0}, NEW n, n = pay * WAD, NEW r, r = Ratio(pay, buy)
    PROVE  /\ r \in Nat
           /\ ~AtLeast(n, buy, TenTo(PREC - 1), 1) =>
                  2 * (n - r * buy) < 3 * buy /\ 2 * (r * buy - n) < 3 * buy
<1>1. PICK one \in Nat \ {0} : one = WAD
  BY UnitsAre
<1>2. n \in Nat
  BY <1>1
<1>3. PICK k \in Nat : k = Kept[n] /\ 2 * (n - k) <= Lost(n) /\ 2 * (k - n) <= Lost(n)
  BY <1>2, KeptIs
<1>4. r = SignificantQuotient(k, buy) /\ r \in Nat
  <2>1. AbsValue(pay) = pay /\ Sign(pay) = 1 /\ AbsValue(buy) = buy /\ Sign(buy) = 1
    BY SizesAre
  <2>2. r = 1 * 1 * SignificantQuotient(k, buy)
    BY <1>3, <2>1 DEF Ratio, WadDiv, Quotient, Significant
  <2>3. SignificantQuotient(k, buy) \in Nat
    BY SignificantQuotientIsNat
  <2> QED BY <2>2, <2>3
<1>5. ASSUME ~AtLeast(n, buy, TenTo(PREC - 1), 1)
      PROVE  2 * (n - r * buy) < 3 * buy /\ 2 * (r * buy - n) < 3 * buy
  <2>1. PICK t \in Nat : t = LastDigit /\ t >= 1000
    BY LastDigitIs
  <2>2. PICK m \in Nat : m = t * buy
    OBVIOUS
  <2>3. n < m
    BY <1>2, <1>5, <2>1, <2>2 DEF AtLeast, LastDigit
  <2>4. 2 * t * (n - k) <= n /\ 2 * t * (k - n) <= n
    BY <1>2, <1>3, <2>1, LessThanADigit
  <2>5. ASSUME NEW d \in Int, 2 * t * d <= n PROVE 2 * d <= buy
    <3>1. SUFFICES ASSUME 2 * d > buy PROVE FALSE
      OBVIOUS
    <3>2. PICK c \in Nat : c = 2 * d
      BY <3>1
    <3>3. buy * t <= c * t
      BY <2>1, <3>1, <3>2, TimesLess
    <3>4. 2 * t * d = c * t /\ m = buy * t /\ c * t \in Nat
      BY <2>2, <3>2
    <3> QED BY <1>2, <2>3, <2>5, <3>3, <3>4
  <2>6. 2 * (n - k) <= buy /\ 2 * (k - n) <= buy
    BY <1>2, <2>4, <2>5
  <2>7. k < TenTo(PREC) * buy
    <3>1. PICK ten \in Nat : ten = TEN /\ ten >= 10
      BY FixedPointAssumption
    <3>2. TenTo(PREC) = ten * t
      <4>1. PREC - 1 \in Nat /\ (PREC - 1) + 1 = PREC
        BY FixedPointAssumption
      <4> QED BY <2>1, <3>1, <4>1, TenToIs DEF LastDigit
    <3>3. TenTo(PREC) * buy = ten * m
      BY <2>2, <3>2
    <3>4. m * 10 <= ten * m /\ buy <= m
      <4>1. PICK x \in Nat : ten = x + 10
        <5>1. ten - 10 \in Nat /\ ten = (ten - 10) + 10
          BY <3>1
        <5> QED BY <5>1
      <4>2. PICK y \in Nat : t = y + 1
        <5>1. t - 1 \in Nat /\ t = (t - 1) + 1
          BY <2>1
        <5> QED BY <5>1
      <4>3. ten * m = x * m + 10 * m /\ m = y * buy + buy /\ x * m \in Nat /\ y * buy \in Nat
        BY <2>2, <4>1, <4>2
      <4> QED BY <4>3
    <3>5. 2 * k <= 2 * n + buy
      BY <1>2, <2>6
    <3> QED BY <1>2, <2>3, <3>3, <3>4, <3>5
  <2>8. k - buy * r < buy /\ buy * r - k < buy
    BY <1>4, <2>7, QuotientIs
  <2>9. PICK v \in Nat : v = r * buy /\ v = buy * r
    BY <1>4
  <2> QED BY <1>2, <2>6, <2>8, <2>9
<1> QED
  BY <1>4, <1>5

(* The ratios of two prices that fit tell them apart, but for three units. *)
LEMMA LowerTells ==
    ASSUME NEW P \in OrderPrices, NEW Q \in OrderPrices, NEW u \in Nat,
           ~AtLeast(P.pay * WAD, P.buy, TenTo(PREC - 1), 1),
           ~AtLeast(Q.pay * WAD, Q.buy, TenTo(PREC - 1), 1),
           AtLeast(Q.pay * WAD, Q.buy, P.pay * WAD + u * P.buy, P.buy)
    PROVE  Ratio(P.pay, P.buy) + u < Ratio(Q.pay, Q.buy) + 3
<1>1. PICK b \in Nat \ {0} : b = P.buy
  BY DEF OrderPrices
<1>2. PICK c \in Nat \ {0} : c = Q.buy
  BY DEF OrderPrices
<1>3. P.pay \in Nat /\ Q.pay \in Nat
  BY DEF OrderPrices
<1>4. PICK n \in Nat : n = P.pay * WAD
  BY <1>3, UnitsAre
<1>5. PICK m \in Nat : m = Q.pay * WAD
  BY <1>3, UnitsAre
<1>6. PICK r \in Nat : r = Ratio(P.pay, P.buy) /\ 2 * (r * b - n) < 3 * b
  BY <1>1, <1>3, <1>4, RatioIsNear
<1>7. PICK s \in Nat : s = Ratio(Q.pay, Q.buy) /\ 2 * (m - s * c) < 3 * c
  <2>1. PICK q \in Nat : q = Q.pay
    BY <1>3
  <2>2. m = q * WAD /\ ~AtLeast(m, c, TenTo(PREC - 1), 1)
    BY <1>2, <1>5, <2>1
  <2>3. Ratio(q, c) \in Nat /\ 2 * (m - Ratio(q, c) * c) < 3 * c
    BY ONLY <2>2, c \in Nat \ {0}, q \in Nat, RatioIsNear
  <2> QED BY <1>2, <2>1, <2>3
<1>8. PICK e \in Nat : e = b * c /\ e > 0
  BY <1>1, <1>2
<1>9. PICK x \in Nat : x = n * c
  OBVIOUS
<1>10. PICK y \in Nat : y = m * b
  OBVIOUS
<1>11. y >= x + u * e
  <2>1. (n + u * b) * c = x + u * e
    BY <1>8, <1>9
  <2> QED BY <1>1, <1>2, <1>4, <1>5, <1>10, <2>1 DEF AtLeast
<1>12. 2 * y < (2 * s + 3) * e
  <2>1. 2 * m < (2 * s + 3) * c
    BY <1>7
  <2>2. (2 * m) * b < ((2 * s + 3) * c) * b
    BY <2>1, TimesLess
  <2>3. (2 * m) * b = 2 * y /\ ((2 * s + 3) * c) * b = (2 * s + 3) * e
    BY <1>8, <1>10
  <2> QED BY <2>2, <2>3
<1>13. 2 * (r * e) < 2 * x + 3 * e
  <2>1. PICK v \in Nat : v = r * b
    OBVIOUS
  <2>2. 2 * v < 2 * n + 3 * b
    BY <1>6, <2>1
  <2>3. (2 * v) * c < (2 * n + 3 * b) * c
    BY <2>2, TimesLess
  <2>4. (2 * v) * c = 2 * (r * e) /\ (2 * n + 3 * b) * c = 2 * x + 3 * e
    BY <1>8, <1>9, <2>1
  <2> QED BY <2>3, <2>4
<1>14. SUFFICES ASSUME s + 3 <= r + u PROVE FALSE
  BY <1>6, <1>7
<1>15. (s + 3) * e <= (r + u) * e
  BY <1>8, <1>14, TimesLess
<1>16. PICK se \in Nat : se = s * e
  OBVIOUS
<1>17. PICK re \in Nat : re = r * e
  OBVIOUS
<1>18. PICK ue \in Nat : ue = u * e
  OBVIOUS
<1>19. se + 3 * e <= re + ue
  BY <1>15, <1>16, <1>17, <1>18
<1>20. 2 * y < 2 * se + 3 * e
  BY <1>12, <1>16
<1> QED BY <1>11, <1>13, <1>17, <1>18, <1>19, <1>20

(* Taking a part of an order leaves its price, and what it compares to.    *)
LEMMA SamePrice ==
    ASSUME NEW p \in Nat, NEW b \in Nat \ {0}, NEW q \in Nat, NEW c \in Nat \ {0},
           p * c = q * b, NEW x \in Nat, NEW y \in Nat
    PROVE  /\ AtLeast(p, b, x, y) <=> AtLeast(q, c, x, y)
           /\ AtLeast(x, y, p, b) <=> AtLeast(x, y, q, c)
<1>1. PICK u \in Nat : u = p * y
  OBVIOUS
<1>2. PICK v \in Nat : v = x * b
  OBVIOUS
<1>3. PICK w \in Nat : w = q * y
  OBVIOUS
<1>4. PICK z \in Nat : z = x * c
  OBVIOUS
<1>5. u * c = w * b
  BY <1>1, <1>3
<1>6. v * c = z * b
  BY <1>2, <1>4
<1>7. v <= u <=> v * c <= u * c
  BY TimesLess
<1>8. z <= w <=> z * b <= w * b
  BY TimesLess
<1>9. u <= v <=> u * c <= v * c
  BY TimesLess
<1>10. w <= z <=> w * b <= z * b
  BY TimesLess
<1>11. (v <= u <=> z <= w) /\ (u <= v <=> w <= z)
  BY <1>5, <1>6, <1>7, <1>8, <1>9, <1>10
<1> QED BY <1>1, <1>2, <1>3, <1>4, <1>11 DEF AtLeast

LEMMA PricesCompare ==
    ASSUME NEW P \in OrderPrices, NEW S \in OrderPrices, P.pay * S.buy = S.pay * P.buy,
           NEW Q \in OrderPrices, NEW T \in OrderPrices, Q.pay * T.buy = T.pay * Q.buy, NEW u \in Nat
    PROVE  /\ AtLeast(Q.pay * WAD, Q.buy, P.pay * WAD + u * P.buy, P.buy)
                  <=> AtLeast(T.pay * WAD, T.buy, S.pay * WAD + u * S.buy, S.buy)
           /\ AtLeast(P.pay * WAD, P.buy, TenTo(PREC - 1), 1)
                  <=> AtLeast(S.pay * WAD, S.buy, TenTo(PREC - 1), 1)
<1>1. PICK w \in Nat : w = WAD
  BY UnitsAre
<1>2. PICK b \in Nat \ {0} : b = P.buy
  BY DEF OrderPrices
<1>3. PICK c \in Nat \ {0} : c = S.buy
  BY DEF OrderPrices
<1>4. PICK d \in Nat \ {0} : d = Q.buy
  BY DEF OrderPrices
<1>5. PICK e \in Nat \ {0} : e = T.buy
  BY DEF OrderPrices
<1>6. PICK p \in Nat : p = P.pay
  BY DEF OrderPrices
<1>7. PICK s \in Nat : s = S.pay
  BY DEF OrderPrices
<1>8. PICK q \in Nat : q = Q.pay
  BY DEF OrderPrices
<1>9. PICK t \in Nat : t = T.pay
  BY DEF OrderPrices
<1>10. p * c = s * b /\ q * e = t * d
  BY <1>2, <1>3, <1>4, <1>5, <1>6, <1>7, <1>8, <1>9
<1>11. (p * w) * c = (s * w) * b /\ (q * w) * e = (t * w) * d
  <2>1. (p * w) * c = (p * c) * w /\ (s * w) * b = (s * b) * w
    OBVIOUS
  <2>2. (q * w) * e = (q * e) * w /\ (t * w) * d = (t * d) * w
    OBVIOUS
  <2> QED BY <1>10, <2>1, <2>2
<1>12. PICK pw \in Nat : pw = p * w
  OBVIOUS
<1>13. PICK sw \in Nat : sw = s * w
  OBVIOUS
<1>14. PICK qw \in Nat : qw = q * w
  OBVIOUS
<1>15. PICK tw \in Nat : tw = t * w
  OBVIOUS
<1>16. PICK x \in Nat : x = pw + u * b
  OBVIOUS
<1>17. PICK y \in Nat : y = sw + u * c
  OBVIOUS
<1>18. pw * c = sw * b /\ qw * e = tw * d
  BY <1>11, <1>12, <1>13, <1>14, <1>15
<1>19. x * c = y * b
  <2>1. x * c = pw * c + u * b * c /\ y * b = sw * b + u * b * c
    BY <1>16, <1>17
  <2> QED BY <1>18, <2>1
<1>20. AtLeast(qw, d, x, b) <=> AtLeast(tw, e, x, b)
  BY <1>18, SamePrice
<1>21. AtLeast(tw, e, x, b) <=> AtLeast(tw, e, y, c)
  BY <1>19, SamePrice
<1>22. AtLeast(pw, b, TenTo(PREC - 1), 1) <=> AtLeast(sw, c, TenTo(PREC - 1), 1)
  BY <1>18, LastDigitIs, SamePrice DEF LastDigit
<1> QED
  BY <1>1, <1>2, <1>3, <1>4, <1>5, <1>6, <1>7, <1>8, <1>9, <1>12, <1>13, <1>14, <1>15, <1>16, <1>17,
     <1>20, <1>21, <1>22

-----------------------------------------------------------------------------
(* i goes before j when the position is looked for: its ratio is lower, or *)
(* it is as high and i is older.                                           *)
Precedes(i, j) ==
    OrderRatio(i) < OrderRatio(j) \/ (OrderRatio(i) = OrderRatio(j) /\ i < j)

LEMMA RatioIsNat ==
    ASSUME NEW pay \in Nat, NEW buy \in Nat \ {0}
    PROVE  Ratio(pay, buy) \in Nat
<1>1. PICK n : n = pay * WAD
  OBVIOUS
<1> QED
  BY <1>1, RatioIsNear

(* Of any orders there is one that precedes all the others.                *)
LEMMA FirstExists ==
    ASSUME NEW C, C \subseteq Nat, C # {}, \A i \in C : OrderRatio(i) \in Nat
    PROVE  \E i \in C : \A j \in C \ {i} : Precedes(i, j)
<1>1. PICK T : T = {OrderRatio(i) : i \in C}
  OBVIOUS
<1>2. PICK r \in T : \A y \in T : r <= y
  <2>1. T \subseteq Nat /\ T # {}
    BY <1>1
  <2> QED BY <2>1, LeastOf
<1>3. PICK D : D = {i \in C : OrderRatio(i) = r}
  OBVIOUS
<1>4. PICK i \in D : \A j \in D : i <= j
  <2>1. D \subseteq Nat /\ D # {}
    BY <1>1, <1>2, <1>3
  <2> QED BY <2>1, LeastOf
<1>5. ASSUME NEW j \in C \ {i} PROVE Precedes(i, j)
  <2>1. OrderRatio(i) = r /\ r <= OrderRatio(j) /\ r \in Nat /\ OrderRatio(j) \in Nat
    BY <1>1, <1>2, <1>3, <1>4
  <2>2. CASE OrderRatio(j) = r
    <3>1. i <= j /\ i # j /\ i \in Nat /\ j \in Nat
      BY <1>3, <1>4, <2>2
    <3> QED BY <2>1, <2>2, <3>1 DEF Precedes
  <2>3. CASE OrderRatio(j) # r
    BY <2>1, <2>3 DEF Precedes
  <2> QED BY <2>2, <2>3
<1> QED
  BY <1>3, <1>4, <1>5

(* What is compared is the price: normalized, or of tokens of 18 decimals. *)
LEMMA RatioIsOfThePrice ==
    ASSUME OasisInv, AmountsOK, ScaleOK, market.kind = "support" \/ market.scale = 1,
           NEW i \in 1 .. Len(offers)
    PROVE  /\ OrderPrice(i) \in OrderPrices
           /\ OrderRatio(i) = Ratio(OrderPrice(i).pay, OrderPrice(i).buy)
<1>1. offers[i].pay \in Nat /\ offers[i].buy \in Nat \ {0} /\ market.scale \in Nat /\ i # 0
  <2>1. PICK n \in Nat : n = Len(offers)
    BY ListingFacts
  <2> QED BY <2>1 DEF AmountsOK, ScaleOK
<1>2. OrderPrice(i).pay = offers[i].pay * market.scale /\ OrderPrice(i).buy = offers[i].buy
  BY <1>1 DEF OrderPrice
<1>3. ListedPay(i) = offers[i].pay * market.scale
  BY <1>1 DEF ListedPay
<1>4. OrderPrice(i) \in OrderPrices
  BY <1>1 DEF OrderPrice, OrderPrices
<1> QED
  BY <1>2, <1>3, <1>4 DEF OrderRatio

LEMMA AskedIsAPrice ==
    ASSUME ScaleOK, listing.pay \in Nat \ {0}, listing.buy \in Nat \ {0}
    PROVE  /\ OrderPrice(0) \in OrderPrices
           /\ Ratio(NormalizedPay(listing.pay), listing.buy) = Ratio(OrderPrice(0).pay, OrderPrice(0).buy)
  BY DEF OrderPrice, OrderPrices, NormalizedPay, ScaleOK

(* The position is an order that is good enough, and precedes all others.  *)
LEMMA PositionIsFirst ==
    ASSUME OasisInv, PositionInv, NEW p, p = Position(listing.pay, listing.buy), p # 0,
           NEW asked, asked = Ratio(NormalizedPay(listing.pay), listing.buy)
    PROVE  /\ p \in listing.found /\ OrderRatio(p) >= asked
           /\ \A j \in listing.found \ {p} : OrderRatio(j) >= asked => Precedes(p, j)
<1>1. PICK C : C = {i \in listing.found : OrderRatio(i) >= asked}
  OBVIOUS
<1>2. C \subseteq 1 .. Len(offers) /\ Len(offers) \in Nat
  BY <1>1, ListingFacts
<1>3. C # {} /\ p = CHOOSE i \in C : \A j \in C \ {i} : Precedes(i, j)
  BY <1>1 DEF Position, Precedes
<1>4. \A i \in C : OrderRatio(i) \in Nat
  <2>1. ASSUME NEW i \in C PROVE ListedPay(i) \in Nat /\ offers[i].buy \in Nat \ {0}
    <3>1. offers[i].pay \in Nat /\ offers[i].buy \in Nat \ {0} /\ market.scale \in Nat
      BY <1>2 DEF PositionInv, AmountsOK, ScaleOK
    <3> QED BY <3>1 DEF ListedPay
  <2> QED BY <2>1, RatioIsNat DEF OrderRatio
<1>5. \E i \in C : \A j \in C \ {i} : Precedes(i, j)
  <2>1. C \subseteq Nat
    BY <1>2
  <2> QED BY <1>3, <1>4, <2>1, FirstExists
<1>6. p \in C /\ \A j \in C \ {p} : Precedes(p, j)
  BY <1>3, <1>5
<1> QED
  BY <1>1, <1>6

(* What the ratios say of the order that is given, and of those that stand.*)
LEMMA GivenIsRight ==
    ASSUME OasisInv, PositionInv, GivePosition, unrest = {}, market.kind = "support" \/ market.scale = 1,
           NEW p, p = Position(listing.pay, listing.buy), PriceFits(0), PriceFits(p)
    PROVE  /\ ~LowerBy(3, p, 0)
           /\ \A i \in Live : PriceFits(i) /\ LowerBy(3, i, p) => ~LowerBy(2, 0, i)
<1>1. p # 0 /\ listing.op \in {"done walk", "done pages"}
  BY DEF GivePosition
<1>2. listing.pay \in Nat \ {0} /\ listing.buy \in Nat \ {0} /\ AmountsOK /\ ScaleOK
  BY <1>1 DEF PositionInv, AskedOK
<1>3. PICK asked \in Nat : asked = Ratio(NormalizedPay(listing.pay), listing.buy)
  BY <1>2, RatioIsNat DEF NormalizedPay, ScaleOK
<1>4. /\ p \in listing.found /\ OrderRatio(p) >= asked
      /\ \A j \in listing.found \ {p} : OrderRatio(j) >= asked => Precedes(p, j)
  BY <1>1, <1>3, PositionIsFirst
<1>5. p \in 1 .. Len(offers)
  BY <1>4, ListingFacts
<1>6. OrderPrice(0) \in OrderPrices /\ asked = Ratio(OrderPrice(0).pay, OrderPrice(0).buy)
  BY <1>2, <1>3, AskedIsAPrice
<1>7. ASSUME NEW i \in 1 .. Len(offers)
      PROVE  /\ OrderPrice(i) \in OrderPrices /\ OrderRatio(i) \in Nat
             /\ OrderRatio(i) = Ratio(OrderPrice(i).pay, OrderPrice(i).buy)
  <2>1. OrderPrice(i) \in OrderPrices /\ OrderRatio(i) = Ratio(OrderPrice(i).pay, OrderPrice(i).buy)
    BY <1>2, RatioIsOfThePrice
  <2>2. OrderPrice(i).pay \in Nat /\ OrderPrice(i).buy \in Nat \ {0}
    BY <2>1 DEF OrderPrices
  <2> QED BY <2>1, <2>2, RatioIsNat
<1>8. PICK mine \in Nat : mine = OrderRatio(p) /\ mine >= asked
  BY <1>4, <1>5, <1>7
<1>9. OrderPrice(p) \in OrderPrices /\ mine = Ratio(OrderPrice(p).pay, OrderPrice(p).buy)
  BY <1>5, <1>7, <1>8
<1>10. ~LowerBy(3, p, 0)
  <2>1. SUFFICES ASSUME LowerBy(3, p, 0) PROVE FALSE
    OBVIOUS
  <2>2. mine + 3 < asked + 3
    BY <1>6, <1>9, <2>1, LowerTells DEF LowerBy, PriceFits
  <2> QED BY <1>8, <2>2
<1>11. ASSUME NEW i \in Live, PriceFits(i), LowerBy(3, i, p), LowerBy(2, 0, i)
       PROVE  FALSE
  <2>1. i \in listing.found /\ i \in 1 .. Len(offers)
    <3>1. standing = Live
      BY <1>1 DEF PositionInv, StandingIsLive
    <3>2. standing \subseteq listing.found
      BY <1>1 DEF OasisInv, StandingFound
    <3> QED BY <3>1, <3>2, ListingFacts
  <2>2. PICK his \in Nat : his = OrderRatio(i)
    BY <1>7, <2>1
  <2>3. OrderPrice(i) \in OrderPrices /\ his = Ratio(OrderPrice(i).pay, OrderPrice(i).buy)
    BY <1>7, <2>1, <2>2
  <2>4. his + 3 < mine + 3
    BY <1>9, <1>11, <2>3, LowerTells DEF LowerBy, PriceFits
  <2>5. asked + 2 < his + 3
    BY <1>6, <1>11, <2>3, LowerTells DEF LowerBy, PriceFits
  <2>6. i # p
    BY <1>8, <2>2, <2>4
  <2>7. mine < his \/ mine = his
    BY <1>4, <1>8, <2>1, <2>2, <2>5, <2>6 DEF Precedes
  <2> QED BY <2>4, <2>7
<1> QED
  BY <1>10, <1>11

LEMMA GiveRight ==
    ASSUME OasisInv, PositionInv, GivePosition
    PROVE  PositionInv'
<1>1. PICK p : p = Position(listing.pay, listing.buy)
  OBVIOUS
<1>2. /\ p # 0 /\ listing.op \in {"done walk", "done pages"} /\ listing.pos = 0
      /\ listing' = [listing EXCEPT !.pos = p]
      /\ UNCHANGED <<market, offers, book, stale, standing, unrest>>
  BY <1>1 DEF GivePosition
<1>3. listing.pay \in Nat \ {0} /\ listing.buy \in Nat \ {0}
  BY <1>2 DEF PositionInv, AskedOK
<1>4. p \in 1 .. Len(offers)
  <2>1. PICK asked : asked = Ratio(NormalizedPay(listing.pay), listing.buy)
    OBVIOUS
  <2>2. p \in listing.found
    BY <1>1, <1>2, <2>1, PositionIsFirst
  <2> QED BY <2>2, ListingFacts
<1>5. /\ listing'.pos = p /\ listing'.op = listing.op /\ listing'.pay = listing.pay
      /\ listing'.buy = listing.buy
  BY <1>2, ListingFacts DEF ListingOK
<1>6. AmountsOK' /\ ScaleOK' /\ StandingIsLive'
  BY <1>2, <1>5 DEF PositionInv, AmountsOK, ScaleOK, StandingIsLive, Live, Ids
<1>7. AskedOK'
  <2>1. p \in 0 .. Len(offers) /\ Len(offers)' = Len(offers)
    <3>1. PICK n \in Nat : n = Len(offers)
      BY ListingFacts
    <3>2. p \in 1 .. n
      BY ONLY <1>4, <3>1
    <3>3. p \in 0 .. n
      BY ONLY <3>1, <3>2
    <3> QED BY <1>2, <3>1, <3>3
  <2>2. listing'.pay \in Nat \ {0} /\ listing'.buy \in Nat \ {0}
    BY <1>3, <1>5
  <2> QED BY ONLY <1>2, <1>5, <2>1, <2>2 DEF AskedOK
<1>8. PositionRight'
  <2>1. \A i \in Live \cup {0, p} : OrderPrice(i)' = OrderPrice(i)
    BY <1>2, <1>5 DEF OrderPrice
  <2>2. Live' = Live
    BY <1>2 DEF Live, Ids
  <2>3. SUFFICES ASSUME PositionIsFresh', PriceFits(0)', (PriceFits(listing.pos))'
                 PROVE  /\ ~LowerBy(3, p, 0)'
                        /\ \A i \in Live : PriceFits(i)' /\ LowerBy(3, i, p)' => ~LowerBy(2, 0, i)'
    BY <1>5, <2>2 DEF PositionRight
  <2>4. unrest = {} /\ (market.kind = "support" \/ market.scale = 1)
    BY <1>2, <2>3 DEF PositionIsFresh
  <2>5. PriceFits(0) /\ PriceFits(p)
    BY <1>5, <2>1, <2>3 DEF PriceFits
  <2>6. ~LowerBy(3, p, 0) /\ \A i \in Live : PriceFits(i) /\ LowerBy(3, i, p) => ~LowerBy(2, 0, i)
    BY <1>1, <2>4, <2>5, GivenIsRight
  <2>7. \A i \in Live : /\ PriceFits(i)' <=> PriceFits(i)
                        /\ LowerBy(3, i, p)' <=> LowerBy(3, i, p)
                        /\ LowerBy(2, 0, i)' <=> LowerBy(2, 0, i)
    BY <2>1 DEF PriceFits, LowerBy
  <2>8. LowerBy(3, p, 0)' <=> LowerBy(3, p, 0)
    BY <2>1 DEF LowerBy
  <2> QED BY <2>6, <2>7, <2>8
<1> QED
  BY <1>6, <1>7, <1>8 DEF PositionInv

(* A step that neither trades nor gives a position. *)
AskedBy(l) ==
    /\ l.op \in {"walk", "worse", "pages", "next page", "done walk", "done pages"} =>
           l.pay \in Nat \ {0} /\ l.buy \in Nat \ {0}
    /\ l.pos = 0

LEMMA NoPositionGiven ==
    ASSUME OasisInv, PositionInv, UNCHANGED <<market, offers>>, AskedBy(listing'),
           \/ standing' = Live
           \/ UNCHANGED <<standing, unrest>> /\ (listing.op # "none" \/ listing'.op = "none")
    PROVE  PositionInv'
<1>1. AmountsOK' /\ ScaleOK' /\ Live' = Live
  BY DEF PositionInv, AmountsOK, ScaleOK, Live, Ids
<1>2. AskedOK'
  <2>1. Len(offers)' = Len(offers) /\ 0 \in 0 .. Len(offers)
    BY ListingFacts
  <2> QED BY <2>1 DEF AskedOK, AskedBy
<1>3. StandingIsLive'
  BY <1>1 DEF PositionInv, StandingIsLive
<1>4. PositionRight'
  BY DEF PositionRight, PositionIsFresh, AskedBy
<1> QED
  BY <1>1, <1>2, <1>3, <1>4 DEF PositionInv

LEMMA BeginsRight ==
    ASSUME OasisInv, PositionInv,
           GetOrders \/ GetOrdersByMaker \/ \E o \in NewOrders : PairOrders(o.pay, o.buy)
    PROVE  PositionInv'
<1>1. CASE GetOrders \/ GetOrdersByMaker
  <2>1. listing'.op \in {"ids", "maker"} /\ listing'.pos = 0
    BY <1>1 DEF GetOrders, GetOrdersByMaker, NoListing
  <2>2. AskedBy(listing')
    BY <2>1 DEF AskedBy
  <2> QED BY <1>1, <2>2, NoPositionGiven DEF GetOrders, GetOrdersByMaker, BeginsListing
<1>2. CASE \E o \in NewOrders : PairOrders(o.pay, o.buy)
  <2>1. PICK o \in NewOrders : PairOrders(o.pay, o.buy)
    BY <1>2
  <2>2. o.pay \in Nat \ {0} /\ o.buy \in Nat \ {0}
    BY OasisAssumption
  <2>3. listing'.pay = o.pay /\ listing'.buy = o.buy /\ listing'.pos = 0
    BY <2>1 DEF PairOrders, NoListing
  <2>4. AskedBy(listing')
    BY <2>2, <2>3 DEF AskedBy
  <2> QED BY <2>1, <2>4, NoPositionGiven DEF PairOrders, BeginsListing
<1> QED
  BY <1>1, <1>2

LEMMA TurnsRight ==
    ASSUME OasisInv, PositionInv, ScanId \/ WalkOrder \/ WalkWorse \/ ReadPage \/ NextPage \/ Forget
    PROVE  PositionInv'
<1>1. /\ UNCHANGED <<market, offers, standing, unrest>> /\ listing.op # "none"
  BY DEF ScanId, WalkOrder, WalkWorse, ReadPage, NextPage, Forget
<1>2. AskedBy(listing')
  <2>1. CASE Forget
    BY <2>1 DEF Forget, NoListing, AskedBy
  <2>2. CASE ScanId
    <3>1. listing'.op \in {"ids", "maker", "done ids", "done maker"} /\ listing'.pos = listing.pos
      BY <2>2, ListingFacts DEF ScanId, ListingOK
    <3>2. listing.pos = 0
      BY <2>2 DEF ScanId, PositionInv, AskedOK
    <3> QED BY <3>1, <3>2 DEF AskedBy
  <2>3. CASE WalkOrder \/ WalkWorse \/ ReadPage \/ NextPage
    <3>1. /\ listing.op \in {"walk", "worse", "pages", "next page"}
      BY <2>3 DEF WalkOrder, WalkWorse, ReadPage, NextPage
    <3>2. listing'.pay = listing.pay /\ listing'.buy = listing.buy /\ listing'.pos = listing.pos
      BY <2>3, ListingFacts DEF WalkOrder, WalkWorse, ReadPage, NextPage, ListingOK
    <3>3. listing.pos = 0 /\ listing.pay \in Nat \ {0} /\ listing.buy \in Nat \ {0}
      BY <3>1 DEF PositionInv, AskedOK
    <3> QED BY <3>2, <3>3 DEF AskedBy
  <2> QED BY <2>1, <2>2, <2>3
<1> QED
  BY <1>1, <1>2, NoPositionGiven

LEMMA OpenRight ==
    ASSUME OasisInv, PositionInv, OpenMarket
    PROVE  PositionInv'
<1>1. /\ market.kind = "none" /\ offers = <<>> /\ market' \in Markets
      /\ UNCHANGED <<offers, book, stale, listing, standing, unrest>>
  BY ListingFacts DEF OpenMarket, BookIsLive
<1>2. ScaleOK'
  BY <1>1, OasisAssumption DEF ScaleOK
<1>3. listing.pos = 0
  <2>1. listing.pos \in 0 .. Len(offers) /\ Len(offers) = 0
    BY <1>1 DEF PositionInv, AskedOK
  <2> QED BY <2>1
<1>4. AmountsOK' /\ AskedOK' /\ StandingIsLive'
  BY <1>1 DEF PositionInv, AmountsOK, AskedOK, StandingIsLive, Live, Ids
<1>5. PositionRight'
  BY <1>1, <1>3 DEF PositionRight, PositionIsFresh
<1> QED
  BY <1>2, <1>4, <1>5 DEF PositionInv

(* What is noted as having happened excuses the position. *)
LEMMA UnrestRight ==
    ASSUME OasisInv, PositionInv, AmountsOK', UNCHANGED <<market, listing>>, unrest' # {},
           Len(offers') \in Nat, Len(offers') >= Len(offers)
    PROVE  PositionInv'
<1>1. AskedOK'
  <2>1. PICK n \in Nat : n = Len(offers)
    BY ListingFacts
  <2>2. PICK m \in Nat : m = Len(offers')
    OBVIOUS
  <2>3. listing.pos \in 0 .. n
    BY <2>1 DEF PositionInv, AskedOK
  <2>4. n <= m
    BY <2>1, <2>2
  <2>5. listing.pos \in 0 .. m
    BY ONLY <2>1, <2>2, <2>3, <2>4
  <2> QED BY <2>2, <2>5 DEF PositionInv, AskedOK
<1>2. ScaleOK' /\ StandingIsLive' /\ PositionRight'
  BY DEF PositionInv, ScaleOK, StandingIsLive, PositionRight, PositionIsFresh
<1> QED
  BY <1>1, <1>2 DEF PositionInv

LEMMA OffersRight ==
    ASSUME OasisInv, PositionInv, NEW o \in NewOrders, Offers(o)
    PROVE  PositionInv'
<1>1. PICK n \in Nat : n = Len(offers)
  BY ListingFacts
<1>2. PICK new : new = [maker |-> o.maker, pay |-> o.pay, buy |-> o.buy, timestamp |-> 1]
  OBVIOUS
<1>3. offers \in Seq(Offer) /\ new \in Offer
  BY <1>2, ListingFacts, OasisAssumption DEF OasisTypeOK, Offer, Makers
<1>4. offers' = Append(offers, new) /\ unrest' # {} /\ UNCHANGED <<market, listing>>
  BY <1>2 DEF Offers
<1>5. /\ Len(offers') = n + 1 /\ offers'[n + 1] = new
      /\ \A i \in 1 .. n : offers'[i] = offers[i]
  BY <1>1, <1>3, <1>4
<1>6. AmountsOK'
  <2>1. new.pay \in Nat \ {0} /\ new.buy \in Nat \ {0}
    BY <1>2, OasisAssumption
  <2> QED BY <1>1, <1>5, <2>1 DEF PositionInv, AmountsOK
<1> QED
  BY <1>1, <1>4, <1>5, <1>6, UnrestRight

LEMMA LeavesRight ==
    ASSUME OasisInv, PositionInv, NEW e \in Live, Leaves(e), UNCHANGED <<market, listing>>
    PROVE  PositionInv'
<1>1. PICK n \in Nat : n = Len(offers)
  BY ListingFacts
<1>2. PICK new : new = [offers[e] EXCEPT !.timestamp = 0]
  OBVIOUS
<1>3. offers \in Seq(Offer) /\ e \in 1 .. n
  BY <1>1, ListingFacts DEF OasisTypeOK
<1>4. new.pay = offers[e].pay /\ new.buy = offers[e].buy
  <2>1. offers[e] \in Offer
    BY <1>1, <1>3
  <2> QED BY <1>2, <2>1 DEF Offer
<1>5. offers' = [offers EXCEPT ![e] = new] /\ unrest' # {}
  BY <1>1, <1>2, <1>3 DEF Leaves
<1>6. Len(offers') = n /\ offers'[e] = new /\ \A i \in 1 .. n : i # e => offers'[i] = offers[i]
  BY <1>1, <1>3, <1>5
<1>7. AmountsOK'
  BY <1>1, <1>3, <1>4, <1>6 DEF PositionInv, AmountsOK
<1> QED
  BY <1>1, <1>5, <1>6, <1>7, UnrestRight

(* Of an order of which a part is taken, a part at the same price remains. *)
LEMMA PartRemains ==
    ASSUME NEW p \in Nat, NEW b \in Nat, NEW q \in 1 .. p, NEW s \in Int,
           p > 0, b > 0, q # p, s > 0, s * p = q * b
    PROVE  /\ p - q \in Nat /\ p - q > 0 /\ b - s \in Nat /\ b - s > 0
           /\ p * (b - s) = (p - q) * b
<1>1. q \in Nat /\ s \in Nat /\ q < p /\ p - q \in Nat /\ p - q > 0
  OBVIOUS
<1>2. q * b < p * b
  BY ONLY <1>1, p \in Nat, b \in Nat, b > 0, TimesLess
<1>3. s * p < b * p
  BY <1>2
<1>4. s < b
  BY ONLY <1>1, <1>3, p \in Nat, b \in Nat, p > 0, TimesLess
<1>5. p * (b - s) = p * b - p * s /\ (p - q) * b = p * b - q * b /\ p * s = s * p
  BY <1>1
<1> QED
  BY <1>1, <1>4, <1>5

LEMMA TakePartRight ==
    ASSUME OasisInv, PositionInv, NEW e \in Live, NEW quantity, TakeOffer(e, quantity),
           quantity # offers[e].pay
    PROVE  PositionInv'
<1>1. PICK n \in Nat : n = Len(offers)
  BY ListingFacts
<1>2. PICK spend : spend = (quantity * offers[e].buy) \div offers[e].pay
  OBVIOUS
<1>3. PICK new : new = [offers[e] EXCEPT !.pay = @ - quantity, !.buy = @ - spend]
  OBVIOUS
<1>4. offers \in Seq(Offer) /\ e \in 1 .. n
  BY <1>1, ListingFacts DEF OasisTypeOK
<1>5. offers[e] \in Offer
  <2>1. e \in 1 .. Len(offers)
    BY <1>1, <1>4
  <2> QED BY ONLY <1>4, <2>1
<1>6. /\ offers[e].pay \in Nat \ {0} /\ offers[e].buy \in Nat \ {0}
      /\ quantity \in 1 .. offers[e].pay
  BY <1>1, <1>4 DEF PositionInv, AmountsOK, TakeOffer
<1>7. spend \in Int /\ spend > 0 /\ spend * offers[e].pay = quantity * offers[e].buy
  BY <1>2, <1>6 DEF TakeOffer
<1>8. /\ new.pay = offers[e].pay - quantity /\ new.buy = offers[e].buy - spend
      /\ new.timestamp = offers[e].timestamp /\ new.maker = offers[e].maker
  BY <1>3, <1>5 DEF Offer
<1>9. /\ new.pay \in Nat \ {0} /\ new.buy \in Nat \ {0}
      /\ offers[e].pay * new.buy = new.pay * offers[e].buy
  <2>1. PICK p \in Nat : p = offers[e].pay /\ p > 0
    BY <1>6
  <2>2. PICK b \in Nat : b = offers[e].buy /\ b > 0
    BY <1>6
  <2>3. /\ p - quantity \in Nat /\ p - quantity > 0 /\ b - spend \in Nat /\ b - spend > 0
        /\ p * (b - spend) = (p - quantity) * b
    <3>1. quantity \in 1 .. p /\ quantity # p
      BY <1>6, <2>1
    <3>2. spend \in Int /\ spend > 0 /\ spend * p = quantity * b
      BY <1>7, <2>1, <2>2
    <3>3. p > 0 /\ b > 0
      BY <2>1, <2>2
    <3> QED BY ONLY <3>1, <3>2, <3>3, p \in Nat, b \in Nat, PartRemains
  <2>4. new.pay = p - quantity /\ new.buy = b - spend
    BY <1>8, <2>1, <2>2
  <2> QED BY ONLY <2>1, <2>2, <2>3, <2>4
<1>10. /\ offers' = [offers EXCEPT ![e] = new]
       /\ UNCHANGED <<market, listing, book, stale, standing, unrest>>
  BY <1>2, <1>3, <1>4 DEF TakeOffer
<1>11. Len(offers') = n /\ offers'[e] = new /\ \A i \in 1 .. n : i # e => offers'[i] = offers[i]
  <2>1. Len(offers) = n /\ e \in 1 .. n
    BY <1>1, <1>4
  <2> QED BY ONLY <1>4, <1>10, <2>1
<1>12. Live' = Live
  <2>1. new \in Offer /\ new.timestamp # 0
    <3>1. new \in Offer
      <4>1. new.buy \in Int
        BY <1>9
      <4>2. new = [[offers[e] EXCEPT !.pay = new.pay] EXCEPT !.buy = new.buy]
        BY ONLY <1>3, <1>5, <1>8 DEF Offer
      <4> QED BY <1>5, <1>9, <4>1, <4>2 DEF Offer
    <3> QED BY <1>8, <3>1 DEF Live
  <2>2. e \in 1 .. Len(offers) /\ OasisTypeOK
    BY <1>1, <1>4, ListingFacts
  <2> QED BY <1>8, <1>10, <2>1, <2>2, ChangedEffect
<1>13. AmountsOK' /\ AskedOK' /\ StandingIsLive' /\ ScaleOK'
  <2>1. AmountsOK'
    BY <1>1, <1>4, <1>9, <1>11 DEF PositionInv, AmountsOK
  <2>2. AskedOK' /\ StandingIsLive' /\ ScaleOK'
    BY <1>1, <1>10, <1>11, <1>12 DEF PositionInv, AskedOK, StandingIsLive, ScaleOK
  <2> QED BY <2>1, <2>2
<1>14. PositionRight'
  <2>1. PICK p : p = listing.pos
    OBVIOUS
  <2>2. SUFFICES ASSUME PositionIsFresh', PriceFits(0)', PriceFits(p)'
                 PROVE  /\ ~LowerBy(3, p, 0)'
                        /\ \A i \in Live : PriceFits(i)' /\ LowerBy(3, i, p)' => ~LowerBy(2, 0, i)'
    BY <1>10, <1>12, <2>1 DEF PositionRight
  <2>3. PositionIsFresh /\ p # 0 /\ p \in 1 .. n
    <3>1. PositionIsFresh /\ p # 0
      BY <1>10, <2>1, <2>2 DEF PositionIsFresh
    <3>2. p \in 0 .. n
      BY <1>1, <2>1 DEF PositionInv, AskedOK
    <3> QED BY ONLY <3>1, <3>2, n \in Nat
  <2>4. market.scale \in Nat /\ listing.pay \in Nat /\ listing.buy \in Nat \ {0}
    BY <2>1, <2>3 DEF PositionInv, AskedOK, ScaleOK
  <2>5. ASSUME NEW i \in 0 .. n
        PROVE  /\ OrderPrice(i) \in OrderPrices /\ OrderPrice(i)' \in OrderPrices
               /\ OrderPrice(i).pay * OrderPrice(i)'.buy = OrderPrice(i)'.pay * OrderPrice(i).buy
    <3>1. CASE i = 0
      BY <1>10, <2>4, <3>1 DEF OrderPrice, OrderPrices
    <3>2. CASE i # 0
      <4>1. i \in 1 .. n
        BY ONLY <3>2, i \in 0 .. n, n \in Nat
      <4>2. PICK p1 \in Nat : p1 = offers[i].pay
        BY <1>1, <4>1 DEF PositionInv, AmountsOK
      <4>3. PICK b1 \in Nat \ {0} : b1 = offers[i].buy
        BY <1>1, <4>1 DEF PositionInv, AmountsOK
      <4>4. PICK p2 \in Nat : p2 = offers'[i].pay
        BY <1>11, <1>13, <4>1 DEF AmountsOK
      <4>5. PICK b2 \in Nat \ {0} : b2 = offers'[i].buy
        BY <1>11, <1>13, <4>1 DEF AmountsOK
      <4>6. p1 * b2 = p2 * b1
        <5>1. CASE i = e
          BY <1>9, <1>11, <4>2, <4>3, <4>4, <4>5, <5>1
        <5>2. CASE i # e
          BY <1>11, <4>1, <4>2, <4>3, <4>4, <4>5, <5>2
        <5> QED BY <5>1, <5>2
      <4>7. PICK k \in Nat : k = market.scale
        BY <2>4
      <4>8. /\ OrderPrice(i) = [pay |-> p1 * k, buy |-> b1]
            /\ OrderPrice(i)' = [pay |-> p2 * k, buy |-> b2]
        BY <1>10, <3>2, <4>2, <4>3, <4>4, <4>5, <4>7 DEF OrderPrice
      <4>9. (p1 * k) * b2 = (p2 * k) * b1
        <5>1. (p1 * k) * b2 = (p1 * b2) * k /\ (p2 * k) * b1 = (p2 * b1) * k
          OBVIOUS
        <5> QED BY <4>6, <5>1
      <4> QED BY <4>8, <4>9 DEF OrderPrices
    <3> QED BY <3>1, <3>2
  <2>6. ASSUME NEW u \in Nat, NEW i \in 0 .. n, NEW j \in 0 .. n
        PROVE  (LowerBy(u, i, j)' <=> LowerBy(u, i, j)) /\ (PriceFits(i)' <=> PriceFits(i))
    <3>1. PICK P \in OrderPrices : P = OrderPrice(i)
      BY <2>5
    <3>2. PICK S \in OrderPrices : S = OrderPrice(i)'
      BY <2>5
    <3>3. PICK Q \in OrderPrices : Q = OrderPrice(j)
      BY <2>5
    <3>4. PICK T \in OrderPrices : T = OrderPrice(j)'
      BY <2>5
    <3>5. P.pay * S.buy = S.pay * P.buy /\ Q.pay * T.buy = T.pay * Q.buy
      BY <2>5, <3>1, <3>2, <3>3, <3>4
    <3>6. /\ AtLeast(Q.pay * WAD, Q.buy, P.pay * WAD + u * P.buy, P.buy)
                <=> AtLeast(T.pay * WAD, T.buy, S.pay * WAD + u * S.buy, S.buy)
          /\ AtLeast(P.pay * WAD, P.buy, TenTo(PREC - 1), 1)
                <=> AtLeast(S.pay * WAD, S.buy, TenTo(PREC - 1), 1)
      BY ONLY <3>5, P \in OrderPrices, S \in OrderPrices, Q \in OrderPrices, T \in OrderPrices, u \in Nat, PricesCompare
    <3> QED BY <3>1, <3>2, <3>3, <3>4, <3>6 DEF LowerBy, PriceFits
  <2>7. 0 \in 0 .. n /\ p \in 0 .. n /\ Live \subseteq 0 .. n
    <3>1. Live \subseteq 1 .. n
      BY <1>1, ListingFacts
    <3>2. 1 .. n \subseteq 0 .. n /\ 0 \in 0 .. n
      OBVIOUS
    <3> QED BY <2>3, <3>1, <3>2
  <2>8. PriceFits(0) /\ PriceFits(p)
    BY <2>2, <2>6, <2>7
  <2>9. ~LowerBy(3, p, 0) /\ \A i \in Live : PriceFits(i) /\ LowerBy(3, i, p) => ~LowerBy(2, 0, i)
    BY <2>1, <2>3, <2>8 DEF PositionInv, PositionRight
  <2>10. ~LowerBy(3, p, 0)'
    BY <2>6, <2>7, <2>9
  <2>11. ASSUME NEW i \in Live, PriceFits(i)', LowerBy(3, i, p)' PROVE ~LowerBy(2, 0, i)'
    <3>1. i \in 0 .. n /\ 2 \in Nat /\ 3 \in Nat
      BY <2>7
    <3>2. PriceFits(i) /\ LowerBy(3, i, p)
      BY <2>6, <2>7, <2>11, <3>1
    <3>3. ~LowerBy(2, 0, i)
      BY <2>9, <3>2
    <3> QED BY <2>6, <2>7, <3>1, <3>3
  <2> QED BY <2>10, <2>11
<1> QED
  BY <1>13, <1>14 DEF PositionInv

(* In a market with a support contract, or with tokens of 18 decimals, the *)
(* position of a new order (oasis.py:693) is that of an order as good as   *)
(* it or better, and no other belongs between the two, but for what the    *)
(* division of the amounts loses: less than three units of a Wad.  For any *)
(* orders, amounts and scale, any base and number of digits, whatever      *)
(* parts of the orders are taken meanwhile.                                *)
THEOREM PositionIsRight == OasisSpec => []PositionRight
<1>1. OasisInit => OasisInv /\ PositionInv
  <2>1. SUFFICES ASSUME OasisInit PROVE OasisInv /\ PositionInv
    OBVIOUS
  <2>2. /\ offers = <<>> /\ Len(offers) = 0 /\ listing.op = "none" /\ listing.pos = 0
        /\ market.scale = 1
    BY <2>1 DEF OasisInit, NoListing
  <2>3. OasisInv
    BY <2>1, StandingInit
  <2>4. PositionInv
    BY <2>2 DEF PositionInv, AmountsOK, AskedOK, StandingIsLive, ScaleOK, PositionRight, PositionIsFresh
  <2> QED BY <2>3, <2>4
<1>2. OasisInv /\ PositionInv /\ [OasisNext]_oasisVars => OasisInv' /\ PositionInv'
  <2>1. SUFFICES ASSUME OasisInv, PositionInv, [OasisNext]_oasisVars
                 PROVE  PositionInv'
    BY OasisStep
  <2>2. CASE OpenMarket
    BY <2>1, <2>2, OpenRight
  <2>3. CASE market.kind # "none" /\ Trade
    <3>1. CASE \E o \in NewOrders : MakeSimple(o) \/ MakeMatching(o)
      BY <2>1, <3>1, OffersRight DEF MakeSimple, MakeMatching
    <3>2. CASE \E i \in Ids : \E quantity \in 1 .. offers[i].pay : TakeOffer(i, quantity)
      <4>0. PICK i : \E quantity \in 1 .. offers[i].pay : TakeOffer(i, quantity)
        BY <3>2
      <4>1. PICK quantity : i \in Live /\ TakeOffer(i, quantity)
        BY <4>0 DEF TakeOffer
      <4>2. CASE quantity = offers[i].pay
        BY <2>1, <4>1, <4>2, LeavesRight DEF TakeOffer
      <4>3. CASE quantity # offers[i].pay
        BY <2>1, <4>1, <4>3, TakePartRight
      <4> QED BY <4>2, <4>3
    <3>3. CASE \E i \in Ids : \E o \in NewOrders : Kill(o.maker, i)
      <4>1. PICK i \in Live : Leaves(i) /\ UNCHANGED <<market, listing>>
        BY <3>3 DEF Kill
      <4> QED BY <2>1, <4>1, LeavesRight
    <3> QED BY <2>3, <3>1, <3>2, <3>3 DEF Trade
  <2>4. CASE GetOrders \/ GetOrdersByMaker \/ \E o \in NewOrders : PairOrders(o.pay, o.buy)
    BY <2>1, <2>4, BeginsRight
  <2>5. CASE ScanId \/ WalkOrder \/ WalkWorse \/ ReadPage \/ NextPage \/ Forget
    BY <2>1, <2>5, TurnsRight
  <2>6. CASE GivePosition
    BY <2>1, <2>6, GiveRight
  <2>7. CASE UNCHANGED oasisVars
    BY <2>1, <2>7 DEF oasisVars, PositionInv, AmountsOK, AskedOK, StandingIsLive, ScaleOK,
       PositionRight, PositionIsFresh, PriceFits, LowerBy, OrderPrice, Live, Ids
  <2> QED BY <2>1, <2>2, <2>3, <2>4, <2>5, <2>6, <2>7 DEF OasisNext
<1>3. PositionInv => PositionRight
  BY DEF PositionInv
<1> QED
  BY <1>1, <1>2, <1>3, PTL DEF OasisSpec
=============================================================================
