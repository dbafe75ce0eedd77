------------------------------ MODULE MCAmounts ------------------------------
(***************************************************************************)
(* Model checking of Amounts and Conversion: integers of 12 bits, the      *)
(* largest of which is 2047, and every number around the places where      *)
(* something changes: zero, the largest amount 20.47, the sums that wrap   *)
(* around to a negative and to a positive number, and the largest whole    *)
(* part ParseInt accepts.  A float64 of 10 bits is, as in the program,     *)
(* too short for the largest amounts.                                      *)
(***************************************************************************)
EXTENDS Conversion

WholesAroundLimits == 0..62 \cup 2040..2050

FractionsUpToThree ==
    {<<>>} \cup UNION {[1..n -> {0, 1, 4, 7, 8, 9}] : n \in 1..3}
=============================================================================
