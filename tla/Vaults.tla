------------------------------- MODULE Vaults -------------------------------
(***************************************************************************)
(* The clients of Vat and Cat in src/pymaker/dss.py: validate_frob,        *)
(* get_wipe_all_dart and can_bite, which repeat the conditions of the      *)
(* contracts in the fixed-point numbers of FixedPoint.  Every getter is a  *)
(* call of its own, between any two of which the system may change.        *)
(*                                                                         *)
(* The contracts compute exactly: a Wad times a Ray is a Rad.  They are    *)
(* external, and so are balances and permissions.                          *)
(***************************************************************************)
EXTENDS FixedPoint, Sequences

CONSTANTS
    VatStates,      \* the states that Vat and Cat are found in
    VatChanges(_),  \* the states that transactions of others lead to
    MaxVatChanges,  \* bound: such transactions
    Dinks, Darts    \* what is tried with frob

VARIABLES
    system,         \* Vat and Cat
    systemChanges,  \* how many transactions of others there were
    vaultCall       \* the call in progress: what it was given and has read

vaultVars == <<system, systemChanges, vaultCall>>

VatFields ==
    {"live", "ink", "art", "Art", "rate", "spot", "line", "dust",
     "debt", "Line", "box", "litter", "dunk", "chop"}

ASSUME VaultsAssumption ==
    /\ VatStates \subseteq [VatFields -> Nat]
    /\ MaxVatChanges \in Nat /\ Dinks \subseteq Int /\ Darts \subseteq Int

NothingRead == [f \in {} |-> 0]

NoVaultCall == [op |-> "none", step |-> 0, dink |-> 0, dart |-> 0,
                read |-> NothingRead, verdict |-> "none", amount |-> 0]

VaultsInit ==
    /\ system \in VatStates /\ systemChanges = 0 /\ vaultCall = NoVaultCall

(* Fees, prices, ceilings, other frobs and bites, the end of the system.   *)
OthersTransact ==
    /\ systemChanges < MaxVatChanges
    /\ system' \in VatChanges(system) /\ system' \in [VatFields -> Nat]
    /\ systemChanges' = systemChanges + 1
    /\ UNCHANGED vaultCall

(* The getters that each call uses, in order, with the fields each reads.  *)
FrobGetters ==
    <<{"live"}, {"ink", "art"}, {"Art", "rate", "spot", "line", "dust"}, {"debt"}, {"Line"}>>

WipeAllGetters == <<{"rate"}, {"art"}>>

BiteGetters ==
    <<{"rate", "spot", "dust"}, {"ink", "art"}, {"box"}, {"litter"}, {"chop"}, {"dunk"}>>

Getters == [validate_frob |-> FrobGetters, get_wipe_all_dart |-> WipeAllGetters,
            can_bite |-> BiteGetters]

CallVat(op, dink, dart) ==
    /\ vaultCall.op = "none"
    /\ vaultCall' = [NoVaultCall EXCEPT !.op = op, !.step = 1, !.dink = dink, !.dart = dart]
    /\ UNCHANGED <<system, systemChanges>>

Read(fields) ==
    [f \in DOMAIN vaultCall.read \cup fields |->
        IF f \in fields THEN system[f] ELSE vaultCall.read[f]]

ReadGetter ==
    /\ vaultCall.op # "none" /\ vaultCall.step \in DOMAIN Getters[vaultCall.op]
    /\ vaultCall' = [vaultCall EXCEPT !.step = @ + 1,
                                      !.read = Read(Getters[vaultCall.op][vaultCall.step])]
    /\ UNCHANGED <<system, systemChanges>>

AllRead(op) ==
    vaultCall.op = op /\ vaultCall.step = Len(Getters[op]) + 1

Answers(verdict, amount) ==
    /\ vaultCall' = [vaultCall EXCEPT !.step = @ + 1, !.verdict = verdict, !.amount = amount]
    /\ UNCHANGED <<system, systemChanges>>

-----------------------------------------------------------------------------
(* validate_frob *)

(* A mutant: the new debt of the urn in place of all of the collateral's.  *)
UrnOnly(s, dart) == s.art + dart

CollateralDebt(s, dart) == s.Art + dart

(* Either debt has decreased, or debt ceilings are not exceeded.           *)
Calm(s, dart) ==
    LET dtab == RadOf(RayMul(s.rate, RayOfWad(dart), RAY), RAY)
        total == RadOf(RayMul(RayOfWad(CollateralDebt(s, dart)), s.rate, RAY), RAY)
    IN  dart <= 0 \/ (total <= s.line /\ s.debt + dtab < s.Line)

FrobTab(s, dart) == RayMul(s.rate, s.art + dart, WAD)

(* The urn is less risky than before, or safe. *)
Safe(s, dink, dart) ==
    \/ dart <= 0 /\ dink >= 0
    \/ FrobTab(s, dart) <= RayMul(RayOfWad(s.ink + dink), s.spot, RAY)

(* The urn has no debt, or a non-dusty amount. *)
Neat(s, dart) == s.art + dart = 0 \/ RadOf(FrobTab(s, dart), RAY) >= s.dust

ValidateFrob(s, dink, dart) ==
    /\ s.live = 1 /\ s.rate # 0
    /\ Calm(s, dart) /\ Safe(s, dink, dart) /\ Neat(s, dart)

ValidateFrobAnswers ==
    /\ AllRead("validate_frob")
    /\ Answers(IF ValidateFrob(vaultCall.read, vaultCall.dink, vaultCall.dart)
               THEN "valid" ELSE "invalid", 0)

-----------------------------------------------------------------------------
(* get_wipe_all_dart *)

(* A mutant: the fraction is cut. *)
CutWad(rad) == WadOf(rad, RAD)

RoundedUpWad(rad) ==
    LET wad == WadOf(rad, RAD)
    IN  IF RadOf(wad, WAD) < rad THEN wad + 1 ELSE wad

GetWipeAllDart(s) == RoundedUpWad(RadMul(RadOf(s.art, WAD), RadOf(s.rate, RAY), RAD))

(* It is asserted that the rate is no less than one. *)
WipeAllAnswers ==
    /\ AllRead("get_wipe_all_dart")
    /\ IF vaultCall.read.rate < RAY
       THEN Answers("raised", 0)
       ELSE Answers("amount", GetWipeAllDart(vaultCall.read))

-----------------------------------------------------------------------------
(* can_bite *)

LessOf(a, b) == IF a < b THEN a ELSE b

UrnIsSafe(s) == RayMul(RayOfWad(s.ink), s.spot, RAY) >= RayMul(RayOfWad(s.art), s.rate, RAY)

(* A mutant: what is left of the box may be dust. *)
AnyRoomInBox(s) == s.litter < s.box

RoomInBox(s) == s.litter < s.box /\ s.box - s.litter >= s.dust

BiteDart(s) ==
    LET most == LessOf(s.dunk, s.box - s.litter)
        perRate == RadDiv(most, RadOf(s.rate, RAY))
    IN  LessOf(s.art, WadOf(RadDiv(perRate, RadOf(s.chop, WAD)), RAD))

BiteDink(s) == LessOf(s.ink, WadDiv(WadMul(s.ink, BiteDart(s), WAD), s.art))

(* A mutant: null auctions are not prevented. *)
AnyAuction(s) == TRUE

NotNull(s) == BiteDart(s) > 0 /\ BiteDink(s) > 0

(* A chop of zero, which clipper has, raises.  *)
CanBite(s) ==
    IF UrnIsSafe(s) \/ ~ RoomInBox(s) THEN "no"
    ELSE IF s.chop = 0 THEN "raised"
    ELSE IF NotNull(s) THEN "yes" ELSE "no"

CanBiteAnswers ==
    /\ AllRead("can_bite")
    /\ Answers(CanBite(vaultCall.read), 0)

-----------------------------------------------------------------------------

VaultsNext ==
    \/ OthersTransact
    \/ \E dink \in Dinks, dart \in Darts : CallVat("validate_frob", dink, dart)
    \/ \E op \in {"get_wipe_all_dart", "can_bite"} : CallVat(op, 0, 0)
    \/ ReadGetter
    \/ ValidateFrobAnswers \/ WipeAllAnswers \/ CanBiteAnswers

VaultsSpec == VaultsInit /\ [][VaultsNext]_vaultVars

-----------------------------------------------------------------------------
(* The contracts. *)

(* What a Ray may lose of a Rad: its last place, and half of the last digit *)
(* that is kept.                                                           *)
RoundingMargin(rad) == RAD \div RAY + TenTo(Excess[AbsValue(rad)]) * (RAD \div RAY)

(* frob succeeds, with every inequality shifted by some of the margin.     *)
FrobSucceeds(s, dink, dart, shift) ==
    LET tab == s.rate * (s.art + dart)
        worth == (s.ink + dink) * s.spot
        total == s.rate * (s.Art + dart)
    IN  /\ s.live = 1 /\ s.rate # 0 /\ s.ink + dink >= 0 /\ s.art + dart >= 0
        /\ \/ dart <= 0
           \/ /\ total <= s.line + shift * RoundingMargin(total)
              /\ s.debt + s.rate * dart <= s.Line + shift * RoundingMargin(total)
        /\ \/ dart <= 0 /\ dink >= 0
           \/ tab <= worth + shift * RoundingMargin(tab)
        /\ s.art + dart = 0 \/ tab >= s.dust - shift * RoundingMargin(tab)

(* What the call has read is the state of the system. *)
StillTrue(op) ==
    /\ vaultCall.op = op /\ vaultCall.verdict # "none"
    /\ \A f \in DOMAIN vaultCall.read : vaultCall.read[f] = system[f]

(* A frob that validates goes through, and one that does not is rejected,  *)
(* if the system is as it was read and no condition holds or fails by less *)
(* than what Ray rounds off (dss.py:309, 344).  A rate is a Ray of one at  *)
(* first.  validate_frob never looks at the sign of the collateral: with a *)
(* price of almost nothing, more than there is seems to be free to go.     *)
FrobIsJudged ==
    StillTrue("validate_frob")
    /\ (system.rate = 0 \/ system.rate >= WAD)
    /\ (system.spot >= WAD \/ system.ink + vaultCall.dink >= 0) =>
        IF vaultCall.verdict = "valid"
        THEN FrobSucceeds(system, vaultCall.dink, vaultCall.dart, 1)
        ELSE ~ FrobSucceeds(system, vaultCall.dink, vaultCall.dart, -1)

(* get_wipe_all_dart covers the debt up to half of the last digit kept,    *)
(* and exceeds it by no more than that and one unit, as long as neither    *)
(* the debt of the urn nor the rate has more digits than are kept          *)
(* (dss.py:298).                                                           *)
WipeAllIsClose ==
    StillTrue("get_wipe_all_dart") /\ vaultCall.verdict = "amount"
    /\ {system.art, system.rate} \subseteq 0 .. TenTo(PREC) - 1 =>
        LET debt == system.art * system.rate
            paid == vaultCall.amount * (RAD \div WAD)
            lost == TenTo(Excess[debt])
        IN  2 * (debt - paid) <= lost /\ 2 * (paid - debt) < 2 * (RAD \div WAD) + lost

(* "The amount of Dai required to wipe an urn without leaving any dust"    *)
(* (dss.py:298): no less than the debt.                                    *)
WipeAllIsEnough ==
    StillTrue("get_wipe_all_dart") /\ vaultCall.verdict = "amount" =>
        vaultCall.amount * (RAD \div WAD) >= system.art * system.rate

(* The debt that bite of Cat covers, with some more units of the last      *)
(* digit kept.                                                             *)
CatDart(s, units) ==
    LET most == LessOf(s.dunk, s.box - s.litter)
        last == TenTo(PREC - 1)
    IN  LessOf(s.art, ((last + units) * (most * WAD)) \div (last * (s.rate * s.chop)))

(* No condition of bite fails by more than the margin, and the auction is  *)
(* not null by more than seven units of the last digit that the divisions  *)
(* keep of the debt, and three that are kept of the collateral.            *)
BiteMaySucceed(s) ==
    LET debt == s.art * s.rate
        last == TenTo(PREC - 1)
    IN  /\ s.spot > 0 /\ s.ink * s.spot < debt + RoundingMargin(debt)
        /\ s.litter < s.box /\ s.box - s.litter >= s.dust
        /\ s.ink > 0 /\ CatDart(s, 7) > 0
        /\ last * s.art <= (last + 3) * (s.ink * CatDart(s, 7))

(* No condition of bite holds by less than the margin.  A dart of one may  *)
(* be lost; what the product of two Wads loses, the division by a small    *)
(* debt magnifies.                                                         *)
BiteMustSucceed(s) ==
    LET debt == s.art * s.rate
        dart == CatDart(s, 0)
    IN  /\ s.spot > 0 /\ s.ink * s.spot < debt - RoundingMargin(debt)
        /\ s.litter < s.box /\ s.box - s.litter >= s.dust
        /\ dart > 1 /\ (s.ink * dart) \div s.art > 4 * (WAD \div s.art + 2)

(* can_bite says that an urn can be bitten if and only if it can, and so   *)
(* prevents null auctions (dss.py:714), if the system is as it was read,   *)
(* with these margins.  It never looks whether there is a price at all.    *)
BiteIsJudged ==
    StillTrue("can_bite") /\ vaultCall.verdict # "raised"
    /\ system.art > 0 /\ system.chop > 0 /\ system.spot > 0 =>
        IF vaultCall.verdict = "yes"
        THEN BiteMaySucceed(system)
        ELSE ~ BiteMustSucceed(system)
=============================================================================
