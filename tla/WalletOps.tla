------------------------------ MODULE WalletOps ------------------------------
(***************************************************************************)
(* The money operations of gw-currency-wallet, as the storage layer        *)
(* receives them (internal/storages, interface PgRepository): who asks,    *)
(* which balance rows are debited and credited, by how much.  A balance    *)
(* row is the pair <<user, currency>> that is its primary key.             *)
(*                                                                         *)
(* A currency is its position in the alphabetical order of the codes (EUR  *)
(* 1, RUB 2, USD 3), because the only thing the store does with a code is  *)
(* to compare it and to sort by it.  MaxBalance stands for the largest     *)
(* BIGINT; amounts are in minor units.                                     *)
(***************************************************************************)
EXTENDS Integers

CONSTANTS
    Users,          \* user ids a token may carry
    Registered,     \* those that have balance rows
    NumCurrencies,  \* how many currencies are supported
    MaxBalance,     \* the largest amount a row can hold
    Ops             \* the operations callers may ask for

Currencies == 1..NumCurrencies

Kinds == {"deposit", "withdraw", "exchange", "balances"}

(* A call of Deposit, Withdraw, Exchange or GetBalances with its arguments. *)
OpType == [kind : Kinds, user : Users, from : Currencies, to : Currencies,
           debit : Int, credit : Int]

(* A deposit debits nothing, a withdrawal credits nothing, and both name   *)
(* one currency.                                                           *)
WellFormed(o) ==
    /\ o.kind \in {"deposit", "withdraw", "balances"} => o.from = o.to
    /\ o.kind \in {"deposit", "balances"} => o.debit = 0
    /\ o.kind \in {"withdraw", "balances"} => o.credit = 0

ASSUME OpsAssumption ==
    /\ Registered \subseteq Users
    /\ NumCurrencies \in Nat \ {0}
    /\ MaxBalance \in Nat
    /\ Ops \subseteq {o \in OpType : WellFormed(o)}
    /\ Ops # {}

(***************************************************************************)
(* Balance rows.                                                           *)
(***************************************************************************)
Rows == Registered \X Currencies

Amounts == 0..MaxBalance

Code(r) == r[2]

FromRow(o) == <<o.user, o.from>>
ToRow(o)   == <<o.user, o.to>>

(* The rows an operation locks and changes. *)
RowsOf(o) == {FromRow(o), ToRow(o)}

(* By how much an operation changes each row. *)
Delta(o) ==
    [r \in Rows |-> (IF r = ToRow(o) THEN o.credit ELSE 0)
                  - (IF r = FromRow(o) THEN o.debit ELSE 0)]

NoDelta == [r \in Rows |-> 0]

(* The argument checks a storage method makes before it opens a transaction. *)
ArgumentError(o) ==
    IF \/ o.kind = "deposit" /\ o.credit <= 0
       \/ o.kind = "withdraw" /\ o.debit <= 0
       \/ o.kind = "exchange" /\ (o.debit <= 0 \/ o.credit <= 0)
      THEN "ErrInvalidAmount"
    ELSE IF o.kind = "exchange" /\ o.from = o.to
      THEN "ErrSameCurrency"
      ELSE "none"

Outcomes == {"none", "ok", "error", "ErrInvalidAmount", "ErrSameCurrency",
             "ErrUserNotFound", "ErrInsufficientFunds"}
=============================================================================
