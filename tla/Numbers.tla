------------------------------- MODULE Numbers -------------------------------
(***************************************************************************)
(* A calculator on the operators of FixedPoint: one operator of one of the *)
(* three types is applied to any two numbers.                              *)
(***************************************************************************)
EXTENDS FixedPoint

CONSTANT Number     \* the internal values tried

ASSUME NumberAssumption == Number \subseteq Int

VARIABLE calculated     \* the last operation, its operands and its result

One == [Wad |-> WAD, Ray |-> RAY, Rad |-> RAD]

UnitType == DOMAIN One

NumbersInit == calculated = [op |-> "none", type |-> "Wad", other |-> "Wad",
                             x |-> 0, y |-> 0, result |-> 0]

Calculates(op, type, other, x, y, result) ==
    calculated' = [op |-> op, type |-> type, other |-> other,
                      x |-> x, y |-> y, result |-> result]

(* The operators of one type only are defined on two numbers of that type; *)
(* with anything else they raise.                                          *)
Add(type, x, y) == Calculates("add", type, type, x, y, x + y)

Subtract(type, x, y) == Calculates("sub", type, type, x, y, x - y)

(* Python's remainder has the sign of the divisor. *)
Modulo(type, x, y) ==
    /\ y > 0
    /\ Calculates("mod", type, type, x, y, x % y)

Multiply(type, other, x, y) ==
    Calculates("mul", type, other, x, y,
               CASE type = "Wad" -> WadMul(x, y, One[other])
                 [] type = "Ray" -> RayMul(x, y, One[other])
                 [] type = "Rad" -> RadMul(x, y, One[other]))

Divide(type, x, y) ==
    /\ y # 0
    /\ Calculates("div", type, type, x, y,
                  CASE type = "Wad" -> WadDiv(x, y)
                    [] type = "Ray" -> RayDiv(x, y)
                    [] type = "Rad" -> RadDiv(x, y))

(* Conversions; a Wad that would need too many digits is not made. *)
ToWad(other, x) ==
    /\ other # "Wad" /\ WadFits(x, One[other])
    /\ Calculates("convert", "Wad", other, x, 0, WadOf(x, One[other]))

ToRay(other, x) ==
    /\ other # "Ray"
    /\ Calculates("convert", "Ray", other, x, 0,
                  IF other = "Wad" THEN RayOfWad(x) ELSE RayOfRad(x))

ToRad(other, x) ==
    /\ other # "Rad"
    /\ Calculates("convert", "Rad", other, x, 0, RadOf(x, One[other]))

NumbersNext ==
    /\ calculated.op = "none"
    /\ \E x, y \in Number, type, other \in UnitType :
        \/ Add(type, x, y) \/ Subtract(type, x, y) \/ Modulo(type, x, y)
        \/ Multiply(type, other, x, y) \/ Divide(type, x, y)
        \/ ToWad(other, x) \/ ToRay(other, x) \/ ToRad(other, x)

NumbersSpec == NumbersInit /\ [][NumbersNext]_calculated

-----------------------------------------------------------------------------

(* As long as a product has no more digits than are kept, multiplication   *)
(* gives the exact product, cut towards zero.  A longer product is off by  *)
(* no more than one unit and half of the last digit kept, a quotient by    *)
(* less than one unit (numeric.py:98, 112).                                *)
ErrorIsBounded ==
    LET one == One[calculated.other]
        exact == calculated.x * calculated.y
        result == calculated.result
        shifted == AbsValue(calculated.x * One[calculated.type])
    IN  /\ calculated.op = "mul" =>
               2 * AbsValue(exact - result * one) < 2 * one + TenTo(Excess[AbsValue(exact)])
        /\ calculated.op = "mul" /\ AbsValue(exact) < TenTo(PREC) =>
               /\ AbsValue(result) * one <= AbsValue(exact)
               /\ AbsValue(exact) < (AbsValue(result) + 1) * one
               /\ result # 0 => Sign(result) = Sign(exact)
        /\ calculated.op = "div" /\ shifted < TenTo(PREC) =>
               AbsValue(AbsValue(result * calculated.y) - shifted) < AbsValue(calculated.y)

(* The contracts' product of Wads, by the comment of __mul__:              *)
(* "z = cast((uint256(x) * y + WAD / 2) / WAD)" (numeric.py:94).  The code *)
(* does not round like that.                                               *)
ProductAsCommented ==
    calculated.op = "mul" /\ calculated.type = "Wad" /\ calculated.other = "Wad"
    /\ calculated.x >= 0 /\ calculated.y >= 0 /\ calculated.x * calculated.y < TenTo(PREC) =>
        calculated.result = (calculated.x * calculated.y + WAD \div 2) \div WAD

(* "Rad is a new unit that exists to prevent precision loss"               *)
(* (numeric.py:294): a Ray that becomes a Rad keeps all its digits.        *)
RadPreventsLoss ==
    calculated.op = "convert" /\ calculated.type = "Rad" =>
        calculated.result = calculated.x * (RAD \div One[calculated.other])
=============================================================================
