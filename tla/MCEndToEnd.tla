------------------------------ MODULE MCEndToEnd ------------------------------
(* Model checking of EndToEnd, with the requests of MCWalletService. *)
EXTENDS EndToEnd, MCWalletService
=============================================================================
