----------------------------- MODULE Arithmetic -----------------------------
(***************************************************************************)
(* Lemmas on natural numbers that other proofs share.  Induction is stated *)
(* about sets, not about formulas: a set that contains zero and, with any  *)
(* number, the next one, contains them all.                                *)
(***************************************************************************)
EXTENDS Powers, WellFoundedInduction, TLAPS

(* The least-number principle, as a fact about sets. *)
LEMMA LeastOf ==
    ASSUME NEW T, T \subseteq Nat, T # {}
    PROVE  \E x \in T : \A y \in T : x <= y
<1>1. PICK R : R = OpToRel(<, Nat)
  OBVIOUS
<1>2. IsWellFoundedOn(R, Nat)
  BY <1>1, NatLessThanWellFounded
<1>3. \A x, y \in Nat : x < y => <<x, y>> \in R
  BY <1>1 DEF OpToRel
<1>4. PICK x \in T : \A y \in T : ~(<<y, x>> \in R)
  BY <1>2, WFMin
<1>5. ASSUME NEW y \in T PROVE x <= y
  <2>1. x \in Nat /\ y \in Nat
    OBVIOUS
  <2>2. ~(y < x)
    BY <1>3, <1>4, <2>1
  <2> QED BY ONLY <2>1, <2>2
<1> QED
  BY <1>5

(* Induction, as a fact about sets. *)
LEMMA SetInduction ==
    ASSUME NEW S, 0 \in S, \A n \in Nat : n \in S => n + 1 \in S
    PROVE  Nat \subseteq S
<1>1. SUFFICES ASSUME Nat \ S # {} PROVE FALSE
  OBVIOUS
<1>2. PICK x \in Nat \ S : \A y \in Nat \ S : x <= y
  BY <1>1, LeastOf
<1>3. x - 1 \in Nat /\ ~(x <= x - 1) /\ (x - 1) + 1 = x
  BY <1>2
<1>4. x - 1 \in S
  BY <1>2, <1>3
<1>5. (x - 1) + 1 \in S
  BY <1>3, <1>4
<1> QED
  BY <1>2, <1>3, <1>5

LEMMA StrongInduction ==
    ASSUME NEW S, \A n \in Nat : (\A k \in Nat : k < n => k \in S) => n \in S
    PROVE  Nat \subseteq S
<1>1. SUFFICES ASSUME Nat \ S # {} PROVE FALSE
  OBVIOUS
<1>2. PICK x \in Nat \ S : \A y \in Nat \ S : x <= y
  BY <1>1, LeastOf
<1>3. ASSUME NEW k \in Nat, k < x PROVE k \in S
  <2>1. ~(x <= k)
    BY <1>3
  <2> QED BY <1>2, <2>1
<1> QED
  BY <1>2, <1>3

(* Products of positive numbers. *)
LEMMA TimesLess ==
    ASSUME NEW x \in Nat, NEW y \in Nat, NEW z \in Nat, z > 0
    PROVE  /\ x < y <=> x * z < y * z
           /\ x <= y <=> x * z <= y * z
<1>1. ASSUME x <= y PROVE x * z <= y * z
  <2>1. PICK d \in Nat : y = x + d
    BY <1>1
  <2>2. y * z = x * z + d * z /\ d * z \in Nat /\ x * z \in Nat
    BY <2>1
  <2> QED BY ONLY <2>2, y * z \in Nat
<1>2. ASSUME x < y PROVE x * z < y * z
  <2>1. PICK d \in Nat : y = (x + 1) + d
    BY <1>2
  <2>2. y * z = x * z + z + d * z /\ d * z \in Nat /\ x * z \in Nat
    BY <2>1
  <2> QED BY ONLY <2>2, z \in Nat, z > 0
<1>3. ASSUME y <= x PROVE y * z <= x * z
  <2>1. PICK d \in Nat : x = y + d
    BY <1>3
  <2>2. x * z = y * z + d * z /\ d * z \in Nat /\ y * z \in Nat
    BY <2>1
  <2> QED BY ONLY <2>2, x * z \in Nat
<1>4. ASSUME y < x PROVE y * z < x * z
  <2>1. PICK d \in Nat : x = (y + 1) + d
    BY <1>4
  <2>2. x * z = y * z + z + d * z /\ d * z \in Nat /\ y * z \in Nat
    BY <2>1
  <2> QED BY ONLY <2>2, z \in Nat, z > 0
<1>5. x * z \in Nat /\ y * z \in Nat
  OBVIOUS
<1>6. PICK u \in Nat : u = x * z
  BY <1>5
<1>7. PICK v \in Nat : v = y * z
  BY <1>5
<1> QED BY ONLY <1>1, <1>2, <1>3, <1>4, <1>6, <1>7, x \in Nat, y \in Nat

(* The quotient with which TLA+ divides. *)
LEMMA QuotientBounds ==
    ASSUME NEW a \in Nat, NEW d \in Nat \ {0}
    PROVE  a \div d \in Nat /\ d * (a \div d) <= a /\ a < d * (a \div d) + d
  OBVIOUS

LEMMA QuotientRises ==
    ASSUME NEW a \in Nat, NEW b \in Nat, a <= b, NEW d \in Nat \ {0}
    PROVE  a \div d <= b \div d
<1>1. PICK p \in Nat : p = a \div d
  BY QuotientBounds
<1>2. PICK q \in Nat : q = b \div d
  BY QuotientBounds
<1>3. d * p <= a /\ b < d * q + d
  BY <1>1, <1>2, QuotientBounds
<1>4. SUFFICES ASSUME p > q PROVE FALSE
  BY <1>1, <1>2
<1>5. d * p >= d * (q + 1)
  BY <1>4
<1>6. d * (q + 1) = d * q + d
  OBVIOUS
<1> QED
  BY <1>3, <1>5, <1>6

-----------------------------------------------------------------------------
(* Powers are what their recursive definition says, since functions that   *)
(* do so up to any exponent exist and agree.                               *)

Turns(b, m, g) == g = [n \in 0 .. m |-> IF n = 0 THEN 1 ELSE b * g[n - 1]]

LEMMA TurnsAgree ==
    ASSUME NEW b, NEW m \in Nat, NEW k \in Nat, NEW g, NEW h, Turns(b, m, g), Turns(b, k, h),
           NEW n \in Nat, n <= m, n <= k
    PROVE  g[n] = h[n]
<1> DEFINE S == {i \in Nat : i <= m /\ i <= k => g[i] = h[i]}
<1>1. 0 \in S
  BY DEF Turns
<1>2. ASSUME NEW i \in Nat, i \in S PROVE i + 1 \in S
  <2>1. SUFFICES ASSUME i + 1 <= m, i + 1 <= k PROVE g[i + 1] = h[i + 1]
    OBVIOUS
  <2>2. g[i + 1] = b * g[i] /\ h[i + 1] = b * h[i]
    <3>1. i + 1 \in 0 .. m /\ i + 1 \in 0 .. k /\ i + 1 # 0 /\ (i + 1) - 1 = i
      BY <2>1
    <3> QED BY <3>1 DEF Turns
  <2>3. g[i] = h[i]
    BY <1>2, <2>1
  <2> QED BY <2>2, <2>3
<1> HIDE DEF S
<1>3. n \in S
  BY <1>1, <1>2, SetInduction
<1> QED
  BY <1>3 DEF S

LEMMA TurnsExist ==
    ASSUME NEW b, NEW m \in Nat
    PROVE  \E g : Turns(b, m, g)
<1> DEFINE S == {i \in Nat : \E g : Turns(b, i, g)}
<1>1. 0 \in S
  <2>1. Turns(b, 0, [n \in 0 .. 0 |-> 1])
    BY DEF Turns
  <2> QED BY <2>1
<1>2. ASSUME NEW i \in Nat, i \in S PROVE i + 1 \in S
  <2>1. PICK g : Turns(b, i, g)
    BY <1>2
  <2>2. PICK h : h = [n \in 0 .. i + 1 |-> IF n = i + 1 THEN b * g[i] ELSE g[n]]
    OBVIOUS
  <2>3. \A n \in 0 .. i : h[n] = g[n]
    BY <2>2
  <2>4. ASSUME NEW n \in 0 .. i + 1 PROVE h[n] = IF n = 0 THEN 1 ELSE b * h[n - 1]
    <3>1. CASE n = i + 1
      BY <2>2, <2>3, <3>1
    <3>2. CASE n \in 0 .. i /\ n # 0
      <4>1. n - 1 \in 0 .. i
        BY <3>2
      <4>2. g[n] = b * g[n - 1]
        BY <2>1, <3>2 DEF Turns
      <4> QED BY <2>3, <3>2, <4>1, <4>2
    <3>3. CASE n = 0
      <4>1. g[0] = 1
        BY <2>1 DEF Turns
      <4> QED BY <2>3, <3>3, <4>1
    <3> QED BY <3>1, <3>2, <3>3
  <2>5. Turns(b, i + 1, h)
    <3>1. h = [n \in 0 .. i + 1 |-> h[n]]
      BY <2>2
    <3>2. h = [n \in 0 .. i + 1 |-> IF n = 0 THEN 1 ELSE b * h[n - 1]]
      BY <2>4, <3>1
    <3> QED BY <3>2 DEF Turns
  <2> QED BY <2>5
<1> HIDE DEF S
<1>3. m \in S
  BY <1>1, <1>2, SetInduction
<1> QED
  BY <1>3 DEF S

LEMMA PowersExist ==
    ASSUME NEW b
    PROVE  Powers(b) = [n \in Nat |-> IF n = 0 THEN 1 ELSE b * Powers(b)[n - 1]]
<1>1. PICK f : f = [n \in Nat |-> (CHOOSE g : Turns(b, n, g))[n]]
  OBVIOUS
<1>2. ASSUME NEW n \in Nat PROVE f[n] = IF n = 0 THEN 1 ELSE b * f[n - 1]
  <2>1. PICK g : g = CHOOSE h : Turns(b, n, h)
    OBVIOUS
  <2>2. Turns(b, n, g) /\ f[n] = g[n]
    BY <1>1, <2>1, TurnsExist
  <2>3. g[n] = IF n = 0 THEN 1 ELSE b * g[n - 1]
    BY <2>2 DEF Turns
  <2>4. ASSUME n # 0 PROVE g[n - 1] = f[n - 1]
    <3>1. n - 1 \in Nat /\ n - 1 <= n
      BY <2>4
    <3>2. PICK h : h = CHOOSE k : Turns(b, n - 1, k)
      OBVIOUS
    <3>3. Turns(b, n - 1, h) /\ f[n - 1] = h[n - 1]
      BY <1>1, <3>1, <3>2, TurnsExist
    <3> QED BY <2>2, <3>1, <3>3, TurnsAgree
  <2> QED BY <2>2, <2>3, <2>4
<1>3. f = [n \in Nat |-> IF n = 0 THEN 1 ELSE b * f[n - 1]]
  BY <1>1, <1>2
<1> QED
  BY <1>3 DEF Powers

LEMMA PowersAre ==
    ASSUME NEW b
    PROVE  Powers(b)[0] = 1 /\ \A n \in Nat : Powers(b)[n + 1] = b * Powers(b)[n]
<1>1. PICK f : f = Powers(b)
  OBVIOUS
<1>2. f = [n \in Nat |-> IF n = 0 THEN 1 ELSE b * f[n - 1]]
  BY <1>1, PowersExist
<1>3. ASSUME NEW n \in Nat PROVE f[n + 1] = b * f[n]
  <2>1. n + 1 \in Nat /\ n + 1 # 0 /\ (n + 1) - 1 = n
    OBVIOUS
  <2> QED BY <1>2, <2>1
<1> QED
  BY <1>1, <1>2, <1>3

LEMMA PowersArePositive ==
    ASSUME NEW b \in Nat \ {0}, NEW n \in Nat
    PROVE  Powers(b)[n] \in Nat \ {0}
<1> DEFINE S == {i \in Nat : Powers(b)[i] \in Nat \ {0}}
<1>1. 0 \in S
  BY PowersAre
<1>2. ASSUME NEW i \in Nat, i \in S PROVE i + 1 \in S
  <2>1. Powers(b)[i + 1] = b * Powers(b)[i]
    BY PowersAre
  <2> QED BY <1>2, <2>1
<1> HIDE DEF S
<1>3. n \in S
  BY <1>1, <1>2, SetInduction
<1> QED
  BY <1>3 DEF S

(* The higher of two ratios rises faster: u^n / d^n does not fall.         *)
LEMMA PowersRise ==
    ASSUME NEW u \in Nat \ {0}, NEW d \in Nat \ {0}, d <= u, NEW n \in Nat, NEW m \in Nat, n <= m
    PROVE  Powers(u)[n] * Powers(d)[m] <= Powers(u)[m] * Powers(d)[n]
<1> DEFINE S == {i \in Nat : Powers(u)[n] * Powers(d)[n + i] <= Powers(u)[n + i] * Powers(d)[n]}
<1>1. 0 \in S
  <2>1. Powers(u)[n] \in Nat /\ Powers(d)[n] \in Nat
    BY PowersArePositive
  <2> QED BY <2>1
<1>2. ASSUME NEW i \in Nat, i \in S PROVE i + 1 \in S
  <2>1. PICK x \in Nat : x = Powers(u)[n]
    BY PowersArePositive
  <2>2. PICK y \in Nat : y = Powers(d)[n]
    BY PowersArePositive
  <2>3. PICK v \in Nat : v = Powers(u)[n + i]
    BY PowersArePositive
  <2>4. PICK w \in Nat : w = Powers(d)[n + i]
    BY PowersArePositive
  <2>5. /\ Powers(u)[n + (i + 1)] = u * v /\ Powers(d)[n + (i + 1)] = d * w
    <3>1. n + i \in Nat /\ n + (i + 1) = (n + i) + 1
      OBVIOUS
    <3> QED BY <2>3, <2>4, <3>1, PowersAre
  <2>6. x * w <= v * y
    BY <1>2, <2>1, <2>2, <2>3, <2>4
  <2>7. d * (x * w) <= d * (v * y)
    BY <2>6
  <2>8. d * (v * y) <= u * (v * y)
    <3>1. PICK z \in Nat : z = v * y
      OBVIOUS
    <3> QED BY <3>1
  <2>9. x * (d * w) = d * (x * w) /\ (u * v) * y = u * (v * y)
    OBVIOUS
  <2>10. x * (d * w) <= (u * v) * y
    BY <2>7, <2>8, <2>9
  <2> QED BY <2>1, <2>2, <2>5, <2>10
<1> HIDE DEF S
<1>3. PICK i \in Nat : m = n + i
  BY m - n \in Nat
<1>4. i \in S
  BY <1>1, <1>2, SetInduction
<1> QED
  BY <1>3, <1>4 DEF S

LEMMA PowersAdd ==
    ASSUME NEW b \in Nat \ {0}, NEW n \in Nat, NEW m \in Nat
    PROVE  Powers(b)[n + m] = Powers(b)[n] * Powers(b)[m]
<1> DEFINE S == {i \in Nat : Powers(b)[n + i] = Powers(b)[n] * Powers(b)[i]}
<1>1. PICK x \in Nat : x = Powers(b)[n]
  BY PowersArePositive
<1>2. 0 \in S
  BY <1>1, PowersAre
<1>3. ASSUME NEW i \in Nat, i \in S PROVE i + 1 \in S
  <2>1. PICK y \in Nat : y = Powers(b)[i]
    BY PowersArePositive
  <2>2. Powers(b)[i + 1] = b * y /\ Powers(b)[n + (i + 1)] = b * (x * y)
    <3>1. n + i \in Nat /\ n + (i + 1) = (n + i) + 1
      OBVIOUS
    <3> QED BY <1>1, <1>3, <2>1, <3>1, PowersAre
  <2> QED BY <1>1, <2>2
<1> HIDE DEF S
<1>4. m \in S
  BY <1>2, <1>3, SetInduction
<1> QED
  BY <1>4 DEF S

=============================================================================
