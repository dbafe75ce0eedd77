------------------------------ MODULE MCAccounts ------------------------------
(* Model checking of Accounts, and of Registration within it. *)
EXTENDS Accounts, TLC

CONSTANTS i1, i2

TwoPasswords == (i1 :> "p1") @@ (i2 :> "p2")
=============================================================================
