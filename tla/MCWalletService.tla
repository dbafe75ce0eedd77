--------------------------- MODULE MCWalletService ---------------------------
(* Model checking of WalletService: euros (1) and roubles (2). *)
EXTENDS WalletService, TLC

CONSTANTS u1

Swaps == Permutations(Callers)

Ask(kind, from, to, amount) ==
    [kind |-> kind, user |-> u1, from |-> from, to |-> to, amount |-> amount]

(* A deposit that is large at some rates, an exchange that converts to      *)
(* nothing at others, a withdrawal that competes with it, and an exchange   *)
(* that Validate rejects.                                                   *)
MoneyRequests ==
    {Ask("deposit", 1, 1, 1), Ask("exchange", 1, 2, 1), Ask("withdraw", 1, 1, 1),
     Ask("exchange", 1, 1, 1)}

(* With a deposit that is large at any rate. *)
AllRequests == MoneyRequests \cup {Ask("deposit", 2, 2, 3)}

(* A deposit whose worth in roubles takes a rate. *)
EuroDeposit == {Ask("deposit", 1, 1, 1)}

(* Every operation the storage can be asked for. *)
StoreOps ==
    {[kind |-> q.kind, user |-> q.user, from |-> q.from, to |-> q.to,
      debit |-> IF q.kind = "deposit" THEN 0 ELSE q.amount,
      credit |-> IF q.kind = "withdraw" THEN 0
                 ELSE IF q.kind = "deposit" THEN q.amount ELSE c] :
        q \in Requests, c \in {1, 3}}
=============================================================================
