------------------------------ MODULE Conversion ------------------------------
(***************************************************************************)
(* What an accepted amount becomes in another currency.                    *)
(*                                                                         *)
(* The exchanger's prices are decimals, read as float64; it sends either   *)
(* the prices or their quotient as float32; the wallet multiplies the      *)
(* amount as a float64 and rounds to an int64 (convertMinor).  An exchange *)
(* credits the result (internal/usecase/exchange.go), and the event of an  *)
(* operation reports it as its worth (internal/usecase/notifications.go).  *)
(*                                                                         *)
(* A float is m * 2^e with m of Single or Double bits, rounded to nearest, *)
(* ties to even.  Exponents have no limit: a price or a quotient beyond    *)
(* float32's range, of which isValidRate finds some, is left out.          *)
(***************************************************************************)
EXTENDS Amounts

CONSTANTS
    Single,         \* bits of a float32's significand: 24
    Double,         \* bits of a float64's significand: 53
    Decimal,        \* what units_per_usd is counted in: 1/10000
    Prices          \* values of units_per_usd, in those

ASSUME ConversionAssumption ==
    /\ Single \in Nat \ {0} /\ Double \in Nat /\ Single <= Double
    /\ Decimal \in Nat \ {0}
    /\ Prices \subseteq Nat \ {0}

(* Amounts and prices have no more bits than two doubles, and there are    *)
(* enough bits for rounding errors to add up: in the program 24 and 53     *)
(* bits, amounts of 64, Decimal 10^4, and prices below 10^24 (NUMERIC(24,  *)
(* 4) in the exchanger's migration).                                       *)
ASSUME PrecisionAssumption ==
    /\ Single >= 4 /\ Double >= 6
    /\ Width <= 2 * Double + 1
    /\ Decimal < 2^(2 * Double + 1)
    /\ \A p \in Prices : p < 2^(2 * Double + 1)

VARIABLES
    used,           \* the rate, and the two prices it stands for
    converted,      \* the amount in the other currency
    outcome         \* what was done with it, "" before

conversionVars == <<used, converted, outcome>>
systemVars == <<vars, conversionVars>>

NoRate == [from |-> 0, to |-> 0]

(* The integer nearest to n / d, the even one of two. *)
Nearest(n, d) ==
    LET q == n \div d
        r == n % d
    IN  IF 2 * r < d \/ (2 * r = d /\ q % 2 = 0) THEN q ELSE q + 1

Up(n, e) == IF e > 0 THEN n * 2^e ELSE n

Bits(n) == CHOOSE k \in 1..(2 * Double + 1) : 2^(k - 1) <= n /\ n < 2^k

(* The float of p bits nearest to n / d, times 2^e. *)
Float(n, d, e, p) ==
    LET s == CHOOSE i \in {Bits(n) - Bits(d) - p, Bits(n) - Bits(d) - p + 1} :
                /\ 2^(p - 1) * Up(d, i) <= Up(n, -i)
                /\ Up(n, -i) < 2^p * Up(d, i)
    IN  [m |-> Nearest(Up(n, -s), Up(d, s)), e |-> e + s]

Float32(x) == Float(x.m, 1, x.e, Single)
Quotient(x, y) == Float(x.m, y.m, x.e - y.e, Double)
Product(x, y) == Float(x.m * y.m, 1, x.e + y.e, Double)
Price(n) == Float(n, Decimal, 0, Double)

(* The quotient of two cached prices, each sent as a float32. *)
CachedRate(from, to) == Quotient(Float32(Price(to)), Float32(Price(from)))

(* The quotient the exchanger computes, sent as a float32. *)
GetRate(from, to) == Float32(Quotient(Price(to), Price(from)))

(* The rates the wallet may get for two prices, cached or asked for. *)
Quotes ==
    {[from |-> p, to |-> q, rate |-> CachedRate(p, q)] : p, q \in Prices} \cup
    {[from |-> p, to |-> q, rate |-> GetRate(p, q)] : p, q \in Prices}

(* math.Round of a positive float: the nearest integer, half is up. *)
MathRound(x) ==
    IF x.e >= 0 THEN x.m * 2^x.e
    ELSE (x.m + 2^(-x.e - 1)) \div 2^(-x.e)

(* A defect: the fraction is cut off instead of rounded. *)
ConvertMinorTruncated(amount, r) ==
    LET x == Product(Float(amount, 1, 0, Double), r)
    IN  {IF x.e >= 0 THEN x.m * 2^x.e ELSE x.m \div 2^(-x.e)}

(* What int64() gives for a float out of its range is up to the platform:  *)
(* the smallest integer on amd64, which the image is built for, and the    *)
(* largest on arm64.                                                       *)
ConvertMinor(amount, r) ==
    LET n == MathRound(Product(Float(amount, 1, 0, Double), r))
    IN  IF n > MaxInt THEN {-MaxInt - 1, MaxInt} ELSE {n}

SystemInit ==
    /\ Init
    /\ used = NoRate
    /\ converted = 0
    /\ outcome = ""

Exchange(u) ==
    /\ err = "nil" /\ outcome = ""
    /\ used' = u
    /\ \E c \in ConvertMinor(minor, u.rate) :
         \/ c > 0 /\ converted' = c /\ outcome' = "credited"
         \/ /\ c <= 0
            /\ outcome' = "ErrConvertedAmountTooSmall"
            /\ UNCHANGED converted
    /\ UNCHANGED vars

(* amountRubMinor: the worth that is reported is not checked. *)
Report(u) ==
    /\ err = "nil" /\ outcome = ""
    /\ used' = u
    /\ converted' \in ConvertMinor(minor, u.rate)
    /\ outcome' = "reported"
    /\ UNCHANGED vars

SystemNext ==
    \/ Next /\ UNCHANGED conversionVars
    \/ \E u \in Quotes : Exchange(u) \/ Report(u)

SystemSpec == SystemInit /\ [][SystemNext]_systemVars

(***************************************************************************)
(* Properties.                                                             *)
(***************************************************************************)
(* The relative error of a conversion, in units of 2^-Double: each price   *)
(* or the quotient is rounded to a float32, and five values to a float64   *)
(* on the way; two more for the products of these errors.                  *)
RelativeError == 2 * 2^(Double - Single) + 7

(* How far c may be from the exact worth minor * to / from: half a minor   *)
(* unit, and the relative error.  All sides are times 2 * from * 2^Double. *)
Exactly == 2 * minor * used.to * 2^Double
Margin == used.from * 2^Double + 2 * minor * used.to * RelativeError
Units(c) == 2 * c * used.from * 2^Double

NotTooMuch(c) == Units(c) <= Exactly + Margin
NotTooLittle(c) == Units(c) >= Exactly - Margin
InRange == ~ NotTooMuch(MaxInt)

(* An exchange never credits more than the amount is worth at the          *)
(* exchanger's prices but for the rounding, whichever way the rate was got *)
(* and however large the product is; it credits no less and refuses        *)
(* nothing as too small unless it is, as long as the worth is an int64;    *)
(* and so far the worth that an event reports is as close.                 *)
ConversionsAreClose ==
    /\ outcome = "credited" => NotTooMuch(converted)
    /\ outcome = "reported" /\ InRange => NotTooMuch(converted)
    /\ outcome # "" /\ InRange => NotTooLittle(converted)
=============================================================================
