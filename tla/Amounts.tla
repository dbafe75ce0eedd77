------------------------------- MODULE Amounts -------------------------------
(***************************************************************************)
(* The amount of a money operation: amountToMinor in                       *)
(* internal/transport/http/handler.go turns the JSON number of a request   *)
(* into minor units, an int64.                                             *)
(*                                                                         *)
(* A number is a sign, its digits before the point as one natural number   *)
(* (JSON allows no leading zeros), and its digits after the point.  The    *)
(* exponent form is always refused and left out.  The integers have Width  *)
(* bits and wrap around, as Go's do.                                       *)
(***************************************************************************)
EXTENDS Integers, Sequences, FiniteSets

CONSTANTS
    Width,          \* bits of the integer type
    Wholes,         \* numbers a client may write before the point
    Fractions       \* sequences of digits a client may write after it

ASSUME AmountsAssumption ==
    /\ Width \in Nat \ {0}
    /\ Wholes \subseteq Nat
    /\ Fractions \subseteq Seq(0..9)

VARIABLES
    number,         \* the number of the request
    minor,          \* the amount it is converted to
    err             \* the error returned, "nil" for none, "" before

vars == <<number, minor, err>>

MaxInt == 2^(Width - 1) - 1

(* The value an addition or a multiplication leaves in the integer type. *)
Wrap(n) == ((n + 2^(Width - 1)) % 2^Width) - 2^(Width - 1)

Numbers == [negative : BOOLEAN, whole : Wholes, fraction : Fractions]

(* A defect: the fraction is padded in front, 0.5 becomes 5 minor units. *)
CentsPaddedInFront(fraction) ==
    CASE Len(fraction) = 0 -> 0
      [] Len(fraction) = 1 -> fraction[1]
      [] Len(fraction) = 2 -> 10 * fraction[1] + fraction[2]

(* The fraction is padded with zeros to two digits. *)
Cents(fraction) ==
    CASE Len(fraction) = 0 -> 0
      [] Len(fraction) = 1 -> 10 * fraction[1]
      [] Len(fraction) = 2 -> 10 * fraction[1] + fraction[2]

(* What is parsed: no sign, a whole part ParseInt accepts, two decimals. *)
WellFormed(n) ==
    /\ ~ n.negative
    /\ n.whole <= MaxInt
    /\ Len(n.fraction) <= 2

Minor(n) == Wrap(Wrap(n.whole * 100) + Cents(n.fraction))

Init ==
    /\ number \in Numbers
    /\ minor = 0
    /\ err = ""

(* A defect: the sum is not checked. *)
AcceptAnySum ==
    /\ err = "" /\ WellFormed(number)
    /\ minor' = Minor(number)
    /\ err' = "nil"
    /\ UNCHANGED number

Accept ==
    /\ err = "" /\ WellFormed(number) /\ Minor(number) > 0
    /\ minor' = Minor(number)
    /\ err' = "nil"
    /\ UNCHANGED number

Refuse ==
    /\ err = "" /\ ~ (WellFormed(number) /\ Minor(number) > 0)
    /\ err' = "ErrInvalidAmount"
    /\ UNCHANGED <<number, minor>>

Next == Accept \/ Refuse

Spec == Init /\ [][Next]_vars

(***************************************************************************)
(* Properties.                                                             *)
(***************************************************************************)
(* Every variable keeps its type; an accepted amount is positive. *)
TypeOK ==
    /\ number \in Numbers
    /\ minor \in 0..MaxInt
    /\ err \in {"", "nil", "ErrInvalidAmount"}
    /\ err = "nil" <=> minor > 0

(* The digits of a number as if it had no point: its value is              *)
(* Digits(n) / 10^k, where k is the length of its fraction.                *)
Digits(n) ==
    LET f == n.fraction
        AsNumber[i \in 0..Len(f)] == IF i = 0 THEN n.whole ELSE 10 * AsNumber[i - 1] + f[i]
    IN  AsNumber[Len(f)]

(* An integer of minor units equals the number of the request. *)
Exact(m, n) == m * 10^Len(n.fraction) = Digits(n) * 100

(* Which numbers are amounts the integer type can hold. *)
Representable(n) ==
    /\ ~ n.negative
    /\ LET m == (Digits(n) * 100) \div 10^Len(n.fraction)
       IN  m \in 1..MaxInt /\ Exact(m, n)

(* An amount that the integer type can hold is converted exactly when it   *)
(* is written with at most two decimals, and refused otherwise; a number   *)
(* that is no amount, because of its sign or because it is zero, is        *)
(* refused.                                                                *)
ConvertsAmounts ==
    err # "" =>
        /\ Representable(number) =>
             IF Len(number.fraction) <= 2 THEN err = "nil" /\ Exact(minor, number)
             ELSE err = "ErrInvalidAmount"
        /\ number.negative \/ Digits(number) = 0 => err = "ErrInvalidAmount"

(* Whatever is not refused is the amount of the request. *)
AcceptedAmountsAreExact ==
    err = "nil" => Exact(minor, number)
=============================================================================
