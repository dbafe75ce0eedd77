------------------------------- MODULE MCRates -------------------------------
(* Model checking of Rates inside the process of the exchanger.  Clients,   *)
(* currencies and prices are only ever compared.                            *)
EXTENDS ExchangerServer, TLC

Swaps == Permutations(Clients) \cup Permutations(Currencies) \cup Permutations(Prices)
=============================================================================
