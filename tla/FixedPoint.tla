----------------------------- MODULE FixedPoint -----------------------------
(***************************************************************************)
(* Wad, Ray and Rad of src/pymaker/numeric.py: an unbounded integer whose  *)
(* last 18, 27 or 45 digits are decimal places.  Products and quotients    *)
(* are computed with Decimal's default context, which keeps 28 significant *)
(* digits and rounds half to even; the module's own context (1000 digits,  *)
(* rounding down) applies only to the quantize that follows.               *)
(*                                                                         *)
(* The model counts in groups of nine digits: a Wad has 2 decimal places,  *)
(* a Ray 3, a Rad 5, and PREC is 4, so that, as in the code, a Ray of one  *)
(* is the smallest number with all the digits that Decimal keeps.          *)
(***************************************************************************)
EXTENDS Powers

CONSTANTS
    TEN,        \* the base: 10
    PREC        \* significant digits kept by a product or a quotient

(* The base is decimal, and a Ray of one can be kept. *)
ASSUME FixedPointAssumption == TEN \in Nat \ (0 .. 9) /\ PREC \in Nat \ (0 .. 3)

TenTo(k) == Powers(TEN)[k]

WAD == TenTo(2)
RAY == TenTo(3)
RAD == TenTo(5)

AbsValue(n) == IF n < 0 THEN -n ELSE n

Sign(n) == IF n < 0 THEN -1 ELSE 1

(* int() and quantize with ROUND_DOWN: towards zero. *)
Truncated(n, d) == Sign(n) * (AbsValue(n) \div d)

(* ROUND_HALF_EVEN of n / d. *)
HalfEven(n, d) ==
    LET q == n \div d
        twice == 2 * (n % d)
    IN  IF twice > d \/ (twice = d /\ q % 2 = 1) THEN q + 1 ELSE q

(* The digits that a number has beyond those that Decimal keeps. *)
Excess[n \in Nat] == IF n < TenTo(PREC) THEN 0 ELSE Excess[n \div TEN] + 1

(* The places that remain to a quotient with the integer part q. *)
Places[q \in Nat] == CHOOSE k \in 0 .. PREC :
    q < TenTo(PREC - k) /\ (k = PREC \/ q >= TenTo(PREC - k - 1))

(* A mutant: the digits that are not kept are cut off. *)
Chopped(n) ==
    LET lost == TenTo(Excess[AbsValue(n)])
    IN  Sign(n) * lost * (AbsValue(n) \div lost)

Kept[n \in Int] ==
    LET lost == TenTo(Excess[AbsValue(n)])
    IN  Sign(n) * lost * HalfEven(AbsValue(n), lost)

(* A product as Decimal's default context keeps it. *)
Significant(n) == Kept[n]

(* The integer part of the quotient that is kept: a large one loses digits *)
(* and one just below an integer becomes that integer.                     *)
SignificantQuotient(n, d) ==
    LET q == n \div d
        lost == TenTo(Excess[q])
    IN  IF q >= TenTo(PREC - 1)
        THEN lost * HalfEven(n, d * lost)
        ELSE IF 2 * TenTo(Places[q]) * (d - (n % d)) <= d THEN q + 1 ELSE q

-----------------------------------------------------------------------------
(* The operators.  The product has the type of the left operand; what it   *)
(* is divided by depends on the right one only.                            *)

(* __mul__ by a Wad, a Ray or a Rad, whose one is given. *)
Product(x, y, one) == Truncated(Significant(x * y), one)

WadMul(x, y, one) == Product(x, y, one)

RayMul(x, y, one) == Product(x, y, one)

RadMul(x, y, one) == Product(x, y, one)

(* __truediv__ of two numbers of one type. *)
Quotient(x, y, one) ==
    Sign(x) * Sign(y)
        * SignificantQuotient(Significant(AbsValue(x) * one), AbsValue(y))

WadDiv(x, y) == Quotient(x, y, WAD)

RayDiv(x, y) == Quotient(x, y, RAY)

RadDiv(x, y) == Quotient(x, y, RAD)

(* Wad(x) of a Ray or a Rad whose one is given: the integer division //,   *)
(* which raises if the result has more digits than are kept.               *)
WadOf(x, one) == Truncated(x, one \div WAD)

WadFits(x, one) == AbsValue(WadOf(x, one)) < TenTo(PREC)

(* Ray(x) of a Wad; Ray(x) of a Rad. *)
RayOfWad(x) == Significant(x * (RAY \div WAD))

RayOfRad(x) ==
    Sign(x) * SignificantQuotient(AbsValue(x), RAD \div RAY)

(* Rad(x) of a Wad or a Ray whose one is given. *)
RadOf(x, one) == Significant(x * (RAD \div one))
=============================================================================
