-------------------------------- MODULE Rates --------------------------------
(***************************************************************************)
(* Where the wallet gets its exchange rates from: the rates cache of the   *)
(* wallet's Service (internal/usecase/helpers.go, exchange.go), its gRPC   *)
(* client, and gw-exchanger, which answers from its table exchange_rates.  *)
(*                                                                         *)
(* A lookup is a goroutine that needs the rate of one currency in another: *)
(* a request to exchange, or the background check of an operation's amount *)
(* in roubles.  A rate is the pair of the two table entries whose quotient *)
(* the code computes.  Time is discrete, and the module assumes what the   *)
(* code assumes of timers: a call answers or fails within its timeout.     *)
(***************************************************************************)
EXTENDS Integers

CONSTANTS
    Clients,        \* goroutines that may ask for rates at the same time
    Currencies,     \* the supported currencies
    Prices,         \* values an entry of the table may have
    NoPrice,        \* the table has no row for a currency
    TTL,            \* ratesCacheTTL
    Timeout,        \* EXCHANGER_GRPC_REQUEST_TIMEOUT_MS
    MaxTime,        \* bound: the last instant
    MaxChanges      \* bound: how often an operator edits the table

ASSUME RatesAssumption ==
    /\ NoPrice \notin Prices
    /\ TTL \in Nat \ {0}
    /\ Timeout \in Nat
    /\ MaxTime \in Nat
    /\ MaxChanges \in Nat

VARIABLES
    now,            \* the time
    table,          \* exchange_rates: the price of each currency
    changes,        \* how often the table was edited
    past,           \* the tables in force so far, each with an instant
    ratesCache,     \* the rates the wallet caches, all NoPrice when it has none
    ratesCachedAt,  \* when it stored them
    call,           \* the gRPC call each client is in
    used            \* the last rate a client got

vars == <<now, table, changes, past, ratesCache, ratesCachedAt, call, used>>

Tables == [Currencies -> Prices \cup {NoPrice}]

NoRates == [c \in Currencies |-> NoPrice]

(* A lookup always has two different currencies: Validate rejects an       *)
(* exchange between equal ones, and roubles need no rate to roubles.       *)
Pairs == {p \in Currencies \X Currencies : p[1] # p[2]}

NoCall == [method |-> "none"]

(* answer: the table entries the exchanger read, or NoRates before it did. *)
GetRatesCall(since, answer) ==
    [method |-> "GetRates", since |-> since, answer |-> answer]

GetRateCall(p, since, answer) ==
    [method |-> "GetRate", pair |-> p, since |-> since, answer |-> answer]

NoRate == [at |-> -1]

(* The rate of pair p in rates s, got at time t. *)
Rate(p, s, t) == [pair |-> p, from |-> s[p[1]], to |-> s[p[2]], at |-> t]

Init ==
    /\ now = 0
    /\ table \in [Currencies -> Prices]
    /\ changes = 0
    /\ past = {<<0, table>>}
    /\ ratesCache = NoRates
    /\ ratesCachedAt = 0
    /\ call = [g \in Clients |-> NoCall]
    /\ used = NoRate

(***************************************************************************)
(* gw-exchanger.                                                           *)
(***************************************************************************)
(* Only an operator edits the table, any of its rows in one transaction;   *)
(* the exchanger never writes it.                                          *)
EditTable(s) ==
    /\ changes < MaxChanges
    /\ table' = s
    /\ changes' = changes + 1
    /\ past' = past \cup {<<now, table'>>}
    /\ UNCHANGED <<now, ratesCache, ratesCachedAt, call, used>>

(* The currencies an answer must have a row for. *)
Wanted(g) ==
    IF call[g].method = "GetRates" THEN Currencies
                                   ELSE {call[g].pair[1], call[g].pair[2]}

(* A defect: a missing row is not noticed. *)
AnswerIncomplete(g) ==
    /\ call[g] # NoCall
    /\ call[g].answer = NoRates
    /\ call' = [call EXCEPT ![g].answer = table]
    /\ UNCHANGED <<now, table, changes, past, ratesCache, ratesCachedAt, used>>

(* One SELECT reads all the entries of an answer, whichever the method.    *)
Answer(g) ==
    /\ call[g] # NoCall
    /\ call[g].answer = NoRates
    /\ \A c \in Wanted(g) : table[c] # NoPrice
    /\ call' = [call EXCEPT ![g].answer = table]
    /\ UNCHANGED <<now, table, changes, past, ratesCache, ratesCachedAt, used>>

(***************************************************************************)
(* The wallet's cache.                                                     *)
(***************************************************************************)
(* A defect: the age of the cached rates is not looked at. *)
CachedRateOfAnyAge(p) == ratesCache[p[1]] # NoPrice /\ ratesCache[p[2]] # NoPrice

CachedRate(p) ==
    /\ now - ratesCachedAt <= TTL
    /\ ratesCache[p[1]] # NoPrice
    /\ ratesCache[p[2]] # NoPrice

(* A defect: the cached map is updated in place, outside the mutex. *)
SetRatesCacheInPlace(g) ==
    /\ call[g].method = "GetRates"
    /\ call[g].answer # NoRates
    /\ \E c \in Currencies :
         ratesCache' = [ratesCache EXCEPT ![c] = call[g].answer[c]]
    /\ ratesCachedAt' = now
    /\ call' = IF ratesCache' = call[g].answer THEN [call EXCEPT ![g] = NoCall]
                                               ELSE call
    /\ UNCHANGED <<now, table, changes, past, used>>

(* The answer of GetRates replaces whatever the cache holds, also when     *)
(* that was read later and has only come back earlier.                     *)
SetRatesCache(g) ==
    /\ call[g].method = "GetRates"
    /\ call[g].answer # NoRates
    /\ ratesCache' = call[g].answer
    /\ ratesCachedAt' = now
    /\ call' = [call EXCEPT ![g] = NoCall]
    /\ UNCHANGED <<now, table, changes, past, used>>

(***************************************************************************)
(* The wallet's callers.                                                   *)
(***************************************************************************)
GetExchangeRates(g) ==
    /\ call[g] = NoCall
    /\ call' = [call EXCEPT ![g] = GetRatesCall(now, NoRates)]
    /\ UNCHANGED <<now, table, changes, past, ratesCache, ratesCachedAt, used>>

LookUpInCache(g, p) ==
    /\ call[g] = NoCall
    /\ CachedRate(p)
    /\ used' = Rate(p, ratesCache, now)
    /\ UNCHANGED <<now, table, changes, past, ratesCache, ratesCachedAt, call>>

LookUpByCall(g, p) ==
    /\ call[g] = NoCall
    /\ ~ CachedRate(p)
    /\ call' = [call EXCEPT ![g] = GetRateCall(p, now, NoRates)]
    /\ UNCHANGED <<now, table, changes, past, ratesCache, ratesCachedAt, used>>

(* The rate a call brings is used once and not cached. *)
ReceiveRate(g) ==
    /\ call[g].method = "GetRate"
    /\ call[g].answer # NoRates
    /\ used' = Rate(call[g].pair, call[g].answer, now)
    /\ call' = [call EXCEPT ![g] = NoCall]
    /\ UNCHANGED <<now, table, changes, past, ratesCache, ratesCachedAt>>

(* A row is missing, a service is down, the time is over, the client left: *)
(* the caller gets an error, and the cache stays as it is.                 *)
CallFails(g) ==
    /\ call[g] # NoCall
    /\ call' = [call EXCEPT ![g] = NoCall]
    /\ UNCHANGED <<now, table, changes, past, ratesCache, ratesCachedAt, used>>

(* The wallet stops and starts again, without its cache. *)
Restart ==
    /\ ratesCache' = NoRates
    /\ ratesCachedAt' = 0
    /\ call' = [g \in Clients |-> NoCall]
    /\ UNCHANGED <<now, table, changes, past, used>>

(* Time passes, but not beyond the timeout of a call. *)
Tick ==
    /\ now < MaxTime
    /\ \A g \in Clients : call[g] # NoCall => now < call[g].since + Timeout
    /\ now' = now + 1
    /\ past' = past \cup {<<now + 1, table>>}
    /\ UNCHANGED <<table, changes, ratesCache, ratesCachedAt, call, used>>

Next ==
    \/ Tick
    \/ Restart
    \/ \E s \in Tables : EditTable(s)
    \/ \E g \in Clients :
         \/ GetExchangeRates(g) \/ Answer(g) \/ SetRatesCache(g)
         \/ ReceiveRate(g) \/ CallFails(g)
         \/ \E p \in Pairs : LookUpInCache(g, p) \/ LookUpByCall(g, p)

Spec == Init /\ [][Next]_vars

(***************************************************************************)
(* Properties.                                                             *)
(***************************************************************************)
Calls ==
    {NoCall}
    \cup {GetRatesCall(t, s) : t \in 0..MaxTime, s \in Tables}
    \cup {GetRateCall(p, t, s) : p \in Pairs, t \in 0..MaxTime, s \in Tables}

UsedRates ==
    {NoRate} \cup [pair : Pairs, from : Prices, to : Prices, at : 0..MaxTime]

(* Every variable keeps its type; in particular every rate the wallet uses *)
(* has two prices.                                                         *)
TypeOK ==
    /\ now \in 0..MaxTime
    /\ table \in Tables
    /\ changes \in 0..MaxChanges
    /\ past \subseteq (0..MaxTime) \X Tables
    /\ ratesCache \in Tables
    /\ ratesCachedAt \in 0..MaxTime
    /\ call \in [Clients -> Calls]
    /\ used \in UsedRates

(* Table s was in force at some instant from t to u. *)
InForce(s, t, u) == \E x \in past : x[2] = s /\ t <= x[1] /\ x[1] <= u

(* A rate is one that table s gives. *)
RateOf(r, s) == r.from = s[r.pair[1]] /\ r.to = s[r.pair[2]]

(* The two prices of a rate come from one and the same table: no exchange  *)
(* is computed from a price before and a price after an edit, or from two  *)
(* answers of the exchanger, whatever callers do to the cache meanwhile.   *)
OneSnapshot ==
    used # NoRate => \E x \in past : RateOf(used, x[2])

(* A rate is out of date by at most the cache's lifetime and the timeout   *)
(* of the call that filled it, also when an old answer arrives late and    *)
(* replaces a newer one.                                                   *)
FreshRate ==
    used # NoRate =>
        \E x \in past :
            /\ RateOf(used, x[2])
            /\ x[1] <= used.at
            /\ used.at - TTL - Timeout <= x[1]

(***************************************************************************)
(* The inductive invariant behind them.                                    *)
(***************************************************************************)
(* An answer under way was read since its call began, and what is cached   *)
(* at most a timeout before it was stored.                                 *)
RatesInv ==
    /\ <<now, table>> \in past
    /\ \A x \in past : x[1] <= now
    /\ ratesCachedAt <= now
    /\ ratesCache # NoRates =>
         InForce(ratesCache, ratesCachedAt - Timeout, ratesCachedAt)
    /\ \A g \in Clients : call[g] # NoCall =>
         /\ call[g].since <= now
         /\ now <= call[g].since + Timeout
         /\ call[g].answer # NoRates =>
              /\ InForce(call[g].answer, call[g].since, now)
              /\ \A c \in Wanted(g) : call[g].answer[c] # NoPrice
=============================================================================
