---------------------------- MODULE MCWalletStore ----------------------------
(* Small instances of WalletStore for TLC. *)
EXTENDS WalletStore, TLC

CONSTANTS u1, u2

Deposits(users, amts) ==
    {[kind |-> "deposit", user |-> u, from |-> c, to |-> c,
      debit |-> 0, credit |-> a] : u \in users, c \in Currencies, a \in amts}

Withdrawals(users, amts) ==
    {[kind |-> "withdraw", user |-> u, from |-> c, to |-> c,
      debit |-> a, credit |-> 0] : u \in users, c \in Currencies, a \in amts}

Exchanges(users, amts) ==
    {[kind |-> "exchange", user |-> u, from |-> p[1], to |-> p[2],
      debit |-> a, credit |-> 1] :
        u \in users, p \in Currencies \X Currencies, a \in amts}

Queries(users) ==
    {[kind |-> "balances", user |-> u, from |-> 1, to |-> 1,
      debit |-> 0, credit |-> 0] : u \in users}

(* Only what changes the money of one user.  A withdrawal of either row *)
(* meets the same rivals.                                               *)
MoneyOps ==
    Deposits({u1}, {1}) \cup {o \in Withdrawals({u1}, {1}) : o.from = 1}
        \cup {o \in Exchanges({u1}, {1}) : o.from # o.to}

(* Every branch: zero stands for every amount that is not positive, and u2 *)
(* has a token but no balances.                                            *)
AllOps ==
    MoneyOps \cup Queries({u1, u2})
        \cup {o \in Deposits({u1}, {0}) \cup Deposits({u2}, {1}) \cup Exchanges({u1}, {1}) :
                o.from = 1 /\ o.to = 1}

(* Enough to fill both rows, empty them, and cross two exchanges. *)
LiveOps ==
    Deposits({u1}, {1}) \cup {o \in Exchanges({u1}, {1}) : o.from # o.to}

Swaps == Permutations(Callers) \cup Permutations(Sessions)
=============================================================================
