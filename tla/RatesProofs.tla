----------------------------- MODULE RatesProofs -----------------------------
(***************************************************************************)
(* Proofs about Rates: however many goroutines fill and use the cache, and *)
(* whatever its lifetime and the timeout of a call, a rate comes from one  *)
(* table and is out of date by no more than the two together.  And about   *)
(* ExchangerServer: stopping the exchanger fails no call it accepted.      *)
(***************************************************************************)
EXTENDS ExchangerServer, FiniteSetTheorems, TLAPS

(* NoCall is not the record of a call. *)
LEMMA CallShapes ==
    ASSUME NEW g \in Clients, TypeOK
    PROVE  /\ call[g].method = "GetRates" => call[g] # NoCall
           /\ call[g].method = "GetRate" => call[g] # NoCall
           /\ call[g] # NoCall =>
                /\ call[g].since \in 0..MaxTime
                /\ call[g].answer \in Tables
                /\ call[g].method \in {"GetRates", "GetRate"}
           /\ call[g] # NoCall /\ call[g].method = "GetRate" =>
                call[g].pair \in Pairs
  BY DEF TypeOK, Calls, NoCall, GetRatesCall, GetRateCall, Tables

IInv == TypeOK /\ RatesInv /\ FreshRate

(* The strengthened invariant holds when the wallet starts. *)
LEMMA InitIInv == Init => IInv
  BY RatesAssumption
  DEF Init, IInv, TypeOK, RatesInv, FreshRate, Tables, NoRates, Calls, UsedRates

(* No step leaves a value of the wrong type: every rate used has two prices. *)
LEMMA TypeStep == IInv /\ [Next]_vars => TypeOK'
<1> SUFFICES ASSUME IInv, [Next]_vars PROVE TypeOK'
  OBVIOUS
<1> USE RatesAssumption
<1>1. CASE UNCHANGED vars
  BY <1>1 DEF IInv, TypeOK, vars
<1>2. CASE Tick
  BY <1>2 DEF IInv, TypeOK, Tick, Tables
<1>3. CASE Restart
  BY <1>3 DEF IInv, TypeOK, Restart, NoRates, Tables, Calls
<1>4. ASSUME NEW s \in Tables, EditTable(s) PROVE TypeOK'
  BY <1>4 DEF IInv, TypeOK, EditTable
<1>5. ASSUME NEW g \in Clients, GetExchangeRates(g) PROVE TypeOK'
  <2>1. GetRatesCall(now, NoRates) \in Calls
    BY DEF Calls, IInv, TypeOK, NoRates, Tables
  <2> QED BY <1>5, <2>1 DEF IInv, TypeOK, GetExchangeRates
<1>6. ASSUME NEW g \in Clients, Answer(g) PROVE TypeOK'
  <2>1. call[g] \in Calls /\ call[g] # NoCall /\ table \in Tables
    BY <1>6 DEF IInv, TypeOK, Answer
  <2>2. CASE \E t \in 0..MaxTime, s \in Tables : call[g] = GetRatesCall(t, s)
    <3>1. PICK t \in 0..MaxTime, s \in Tables : call[g] = GetRatesCall(t, s)
      BY <2>2
    <3>2. [call[g] EXCEPT !.answer = table] = GetRatesCall(t, table)
      BY <3>1 DEF GetRatesCall
    <3>3. [call[g] EXCEPT !.answer = table] \in Calls
      BY <3>2, <2>1 DEF Calls
    <3> QED BY <1>6, <3>3 DEF IInv, TypeOK, Answer
  <2>3. CASE \E p \in Pairs, t \in 0..MaxTime, s \in Tables :
               call[g] = GetRateCall(p, t, s)
    <3>1. PICK p \in Pairs, t \in 0..MaxTime, s \in Tables :
            call[g] = GetRateCall(p, t, s)
      BY <2>3
    <3>2. [call[g] EXCEPT !.answer = table] = GetRateCall(p, t, table)
      BY <3>1 DEF GetRateCall
    <3>3. [call[g] EXCEPT !.answer = table] \in Calls
      BY <3>2, <2>1 DEF Calls
    <3> QED BY <1>6, <3>3 DEF IInv, TypeOK, Answer
  <2> QED BY <2>1, <2>2, <2>3 DEF Calls
<1>7. ASSUME NEW g \in Clients, SetRatesCache(g) PROVE TypeOK'
  BY <1>7, CallShapes DEF IInv, TypeOK, SetRatesCache, Calls
<1>8. ASSUME NEW g \in Clients, ReceiveRate(g) PROVE TypeOK'
  <2>1. /\ call[g] # NoCall /\ call[g].pair \in Pairs
        /\ call[g].answer \in Tables
    BY <1>8, CallShapes DEF IInv, ReceiveRate
  <2>2. \A c \in Wanted(g) : call[g].answer[c] # NoPrice
    BY <1>8, <2>1 DEF IInv, RatesInv, ReceiveRate
  <2>3. Rate(call[g].pair, call[g].answer, now) \in UsedRates
    BY <1>8, <2>1, <2>2
    DEF ReceiveRate, Wanted, Rate, UsedRates, Pairs, Tables, IInv, TypeOK
  <2> QED BY <1>8, <2>3 DEF IInv, TypeOK, ReceiveRate, Calls
<1>9. ASSUME NEW g \in Clients, CallFails(g) PROVE TypeOK'
  BY <1>9 DEF IInv, TypeOK, CallFails, Calls
<1>10. ASSUME NEW g \in Clients, NEW p \in Pairs, LookUpInCache(g, p)
       PROVE  TypeOK'
  <2>1. Rate(p, ratesCache, now) \in UsedRates
    BY <1>10
    DEF LookUpInCache, CachedRate, Rate, UsedRates, Pairs, Tables, IInv, TypeOK
  <2> QED BY <1>10, <2>1 DEF IInv, TypeOK, LookUpInCache
<1>11. ASSUME NEW g \in Clients, NEW p \in Pairs, LookUpByCall(g, p)
       PROVE  TypeOK'
  <2>1. GetRateCall(p, now, NoRates) \in Calls
    BY DEF Calls, IInv, TypeOK, NoRates, Tables
  <2> QED BY <1>11, <2>1 DEF IInv, TypeOK, LookUpByCall
<1> QED
  BY <1>1, <1>2, <1>3, <1>4, <1>5, <1>6, <1>7, <1>8, <1>9, <1>10, <1>11 DEF Next

(* Every step keeps what is known of the age of answers and of the cache. *)
LEMMA AgeStep == IInv /\ [Next]_vars => RatesInv'
<1> SUFFICES ASSUME IInv, [Next]_vars PROVE RatesInv'
  OBVIOUS
<1> USE RatesAssumption
<1>1. CASE UNCHANGED vars
  BY <1>1 DEF IInv, RatesInv, InForce, Wanted, vars
<1>2. CASE Tick
  <2>1. now \in Int /\ now' = now + 1 /\ past \subseteq past'
    BY <1>2 DEF Tick, IInv, TypeOK
  <2>2. /\ <<now, table>>' \in past'
        /\ \A x \in past' : x[1] <= now'
        /\ ratesCachedAt' <= now'
    BY <1>2, <2>1 DEF Tick, IInv, TypeOK, RatesInv
  <2>3. (ratesCache # NoRates =>
           InForce(ratesCache, ratesCachedAt - Timeout, ratesCachedAt))'
    BY <1>2, <2>1 DEF Tick, IInv, RatesInv, InForce, NoRates
  <2>4. ASSUME NEW g \in Clients, call'[g] # NoCall
        PROVE  (/\ call[g].since <= now
                /\ now <= call[g].since + Timeout
                /\ call[g].answer # NoRates =>
                     /\ InForce(call[g].answer, call[g].since, now)
                     /\ \A c \in Wanted(g) : call[g].answer[c] # NoPrice)'
    <3>1. call' = call /\ call[g] # NoCall /\ call[g].since \in Int
      BY <1>2, <2>4, CallShapes DEF Tick, IInv
    <3>2. now < call[g].since + Timeout
      BY <1>2, <3>1 DEF Tick
    <3>3. call[g].answer # NoRates =>
            /\ InForce(call[g].answer, call[g].since, now)'
            /\ \A c \in Wanted(g) : call[g].answer[c] # NoPrice
      <4>1. SUFFICES ASSUME call[g].answer # NoRates
                     PROVE  /\ InForce(call[g].answer, call[g].since, now)'
                            /\ \A c \in Wanted(g) : call[g].answer[c] # NoPrice
        OBVIOUS
      <4>2. PICK x \in past : /\ x[2] = call[g].answer
                              /\ call[g].since <= x[1] /\ x[1] <= now
        BY <3>1, <4>1 DEF IInv, RatesInv, InForce
      <4>3. x \in past' /\ x[1] <= now'
        BY <2>1, <2>2, <4>2
      <4>4. InForce(call[g].answer, call[g].since, now)'
        BY <3>1, <4>2, <4>3 DEF InForce
      <4> QED BY <3>1, <4>1, <4>4 DEF IInv, RatesInv
    <3> QED BY <2>1, <3>1, <3>2, <3>3 DEF IInv, RatesInv, Wanted
  <2> QED BY <2>2, <2>3, <2>4 DEF RatesInv
<1>3. CASE Restart
  BY <1>3 DEF Restart, IInv, TypeOK, RatesInv, NoRates, NoCall
<1>4. ASSUME NEW s \in Tables, EditTable(s) PROVE RatesInv'
  BY <1>4 DEF EditTable, IInv, TypeOK, RatesInv, InForce, NoRates, Wanted
<1>5. ASSUME NEW g \in Clients, GetExchangeRates(g) PROVE RatesInv'
  <2>1. \A h \in Clients : h # g => call'[h] = call[h]
    BY <1>5 DEF GetExchangeRates, IInv, TypeOK
  <2>2. call'[g] = GetRatesCall(now, NoRates)
    BY <1>5 DEF GetExchangeRates, IInv, TypeOK
  <2>3. call'[g].since = now /\ call'[g].answer = NoRates
    BY <2>2 DEF GetRatesCall
  <2> QED BY <1>5, <2>1, <2>3
          DEF GetExchangeRates, IInv, TypeOK, RatesInv, InForce, Wanted, NoRates
<1>6. ASSUME NEW g \in Clients, Answer(g) PROVE RatesInv'
  <2>1. /\ \A h \in Clients : h # g => call'[h] = call[h]
        /\ call[g] \in Calls /\ call[g] # NoCall
        /\ call' = [call EXCEPT ![g] = [call[g] EXCEPT !.answer = table]]
    BY <1>6 DEF Answer, IInv, TypeOK
  <2>2. /\ call'[g].since = call[g].since
        /\ call'[g].answer = table
        /\ Wanted(g)' = Wanted(g)
    BY <2>1 DEF Wanted, IInv, TypeOK, Calls, GetRatesCall, GetRateCall
  <2>3. InForce(table, call[g].since, now)
    BY <2>1 DEF IInv, TypeOK, RatesInv, InForce
  <2>4. InForce(call[g].answer, call[g].since, now)'
    BY <1>6, <2>2, <2>3 DEF Answer, InForce
  <2>5. ASSUME NEW h \in Clients, h # g
        PROVE  Wanted(h)' = Wanted(h)
    BY <2>1, <2>5 DEF Wanted
  <2>6. \A c \in Wanted(g)' : call'[g].answer[c] # NoPrice
    BY <1>6, <2>2 DEF Answer
  <2>7. ASSUME NEW h \in Clients, call'[h] # NoCall
        PROVE  (/\ call[h].since <= now
                /\ now <= call[h].since + Timeout
                /\ call[h].answer # NoRates =>
                     /\ InForce(call[h].answer, call[h].since, now)
                     /\ \A c \in Wanted(h) : call[h].answer[c] # NoPrice)'
    <3>1. CASE h = g
      BY <1>6, <2>1, <2>2, <2>4, <2>6, <3>1 DEF Answer, IInv, RatesInv
    <3>2. CASE h # g
      BY <1>6, <2>1, <2>5, <2>7, <3>2 DEF Answer, IInv, RatesInv, InForce
    <3> QED BY <3>1, <3>2
  <2> QED BY <1>6, <2>7 DEF Answer, IInv, RatesInv, InForce, NoRates
<1>7. ASSUME NEW g \in Clients, SetRatesCache(g) PROVE RatesInv'
  <2>1. call[g] # NoCall /\ call[g].since \in Int
    BY <1>7, CallShapes DEF SetRatesCache, IInv
  <2>2. /\ InForce(call[g].answer, call[g].since, now)
        /\ now <= call[g].since + Timeout
    BY <1>7, <2>1 DEF SetRatesCache, IInv, RatesInv
  <2>3. PICK x \in past : x[2] = call[g].answer /\ call[g].since <= x[1] /\ x[1] <= now
    BY <2>2 DEF InForce
  <2>4. now - Timeout <= x[1]
    BY <2>1, <2>2, <2>3 DEF IInv, TypeOK
  <2>5. InForce(ratesCache, ratesCachedAt - Timeout, ratesCachedAt)'
    BY <1>7, <2>3, <2>4 DEF SetRatesCache, InForce
  <2> QED BY <1>7, <2>5
          DEF SetRatesCache, IInv, TypeOK, RatesInv, InForce, Wanted, NoRates
<1>8. ASSUME NEW g \in Clients, ReceiveRate(g) PROVE RatesInv'
  BY <1>8 DEF ReceiveRate, IInv, TypeOK, RatesInv, InForce, Wanted, NoRates
<1>9. ASSUME NEW g \in Clients, CallFails(g) PROVE RatesInv'
  BY <1>9 DEF CallFails, IInv, TypeOK, RatesInv, InForce, Wanted, NoRates
<1>10. ASSUME NEW g \in Clients, NEW p \in Pairs, LookUpInCache(g, p)
       PROVE  RatesInv'
  BY <1>10 DEF LookUpInCache, IInv, RatesInv, InForce, Wanted, NoRates
<1>11. ASSUME NEW g \in Clients, NEW p \in Pairs, LookUpByCall(g, p)
       PROVE  RatesInv'
  <2>1. \A h \in Clients : h # g => call'[h] = call[h]
    BY <1>11 DEF LookUpByCall, IInv, TypeOK
  <2>2. call'[g] = GetRateCall(p, now, NoRates)
    BY <1>11 DEF LookUpByCall, IInv, TypeOK
  <2>3. call'[g].since = now /\ call'[g].answer = NoRates
    BY <2>2 DEF GetRateCall
  <2> QED BY <1>11, <2>1, <2>3
          DEF LookUpByCall, IInv, TypeOK, RatesInv, InForce, Wanted, NoRates
<1> QED
  BY <1>1, <1>2, <1>3, <1>4, <1>5, <1>6, <1>7, <1>8, <1>9, <1>10, <1>11 DEF Next

(* A rate keeps its witness in the history, and a new one has one. *)
LEMMA FreshStep == IInv /\ [Next]_vars => FreshRate'
<1> SUFFICES ASSUME IInv, [Next]_vars PROVE FreshRate'
  OBVIOUS
<1> USE RatesAssumption
<1>1. ASSUME past \subseteq past', used' = used PROVE FreshRate'
  BY <1>1 DEF IInv, FreshRate, RateOf
<1>2. ASSUME NEW g \in Clients, ReceiveRate(g) PROVE FreshRate'
  <2>1. /\ call[g] # NoCall /\ call[g].pair \in Pairs
        /\ call[g].since \in Int /\ now \in Int
    BY <1>2, CallShapes DEF IInv, TypeOK, ReceiveRate
  <2>2. PICK x \in past : /\ x[2] = call[g].answer
                          /\ call[g].since <= x[1] /\ x[1] <= now
    BY <1>2, <2>1 DEF IInv, RatesInv, InForce, ReceiveRate
  <2>3. now - TTL - Timeout <= x[1]
    BY <2>1, <2>2 DEF IInv, TypeOK, RatesInv
  <2>4. /\ used'.from = x[2][used'.pair[1]]
        /\ used'.to = x[2][used'.pair[2]]
        /\ used'.at = now /\ past' = past
    BY <1>2, <2>2 DEF ReceiveRate, Rate
  <2> QED BY <2>2, <2>3, <2>4 DEF FreshRate, RateOf
<1>3. ASSUME NEW g \in Clients, NEW p \in Pairs, LookUpInCache(g, p)
      PROVE  FreshRate'
  <2>1. /\ now \in Int /\ ratesCachedAt \in Int
        /\ now - ratesCachedAt <= TTL /\ ratesCache # NoRates
    BY <1>3 DEF LookUpInCache, CachedRate, IInv, TypeOK, NoRates, Pairs
  <2>2. PICK x \in past : /\ x[2] = ratesCache
                          /\ ratesCachedAt - Timeout <= x[1]
                          /\ x[1] <= ratesCachedAt
    BY <2>1 DEF IInv, RatesInv, InForce
  <2>3. now - TTL - Timeout <= x[1] /\ x[1] <= now
    BY <2>1, <2>2 DEF IInv, TypeOK, RatesInv
  <2>4. /\ used'.from = x[2][used'.pair[1]]
        /\ used'.to = x[2][used'.pair[2]]
        /\ used'.at = now /\ past' = past
    BY <1>3, <2>2 DEF LookUpInCache, Rate
  <2> QED BY <2>2, <2>3, <2>4 DEF FreshRate, RateOf
<1>4. CASE UNCHANGED vars
  BY <1>1, <1>4 DEF vars
<1>5. CASE Tick
  BY <1>1, <1>5 DEF Tick
<1>6. CASE Restart
  BY <1>1, <1>6 DEF Restart
<1>7. ASSUME NEW s \in Tables, EditTable(s) PROVE FreshRate'
  BY <1>1, <1>7 DEF EditTable
<1>8. ASSUME NEW g \in Clients,
             GetExchangeRates(g) \/ Answer(g) \/ SetRatesCache(g) \/ CallFails(g)
      PROVE  FreshRate'
  BY <1>1, <1>8 DEF GetExchangeRates, Answer, SetRatesCache, CallFails
<1>9. ASSUME NEW g \in Clients, NEW p \in Pairs, LookUpByCall(g, p)
      PROVE  FreshRate'
  BY <1>1, <1>9 DEF LookUpByCall
<1> QED
  BY <1>2, <1>3, <1>4, <1>5, <1>6, <1>7, <1>8, <1>9 DEF Next

(* The invariant holds in every reachable state. *)
LEMMA Inductive == Spec => []IInv
<1>1. IInv /\ [Next]_vars => IInv'
  BY TypeStep, AgeStep, FreshStep DEF IInv
<1> QED BY InitIInv, <1>1, PTL DEF Spec

(* Every variable keeps its type; no rate is used that lacks a price. *)
THEOREM TypeCorrect == Spec => []TypeOK
<1>1. IInv => TypeOK
  BY DEF IInv
<1> QED BY Inductive, <1>1, PTL

(* The age of answers and of the cache, for every lifetime and timeout. *)
THEOREM AgesKnown == Spec => []RatesInv
<1>1. IInv => RatesInv
  BY DEF IInv
<1> QED BY Inductive, <1>1, PTL

(* A rate is out of date by at most the cache's lifetime and one timeout. *)
THEOREM RatesAreFresh == Spec => []FreshRate
<1>1. IInv => FreshRate
  BY DEF IInv
<1> QED BY Inductive, <1>1, PTL

(* The two prices of a rate come from one table of the exchanger. *)
THEOREM RatesAreConsistent == Spec => []OneSnapshot
<1>1. IInv => OneSnapshot
  BY DEF IInv, FreshRate, OneSnapshot
<1> QED BY Inductive, <1>1, PTL

(***************************************************************************)
(* The process of the exchanger.                                           *)
(***************************************************************************)
(* Inside the process, and whatever becomes of it, rates are looked up as  *)
(* Rates says: what is proved above holds of the whole.                    *)
THEOREM SystemHasRates == SystemSpec => Spec
<1>1. SystemInit => Init
  BY DEF SystemInit
<1>2. [SystemNext]_systemVars => [Next]_vars
  <2>1. Elsewhere => Next
    BY DEF Elsewhere, Next
  <2>2. ASSUME NEW g \in Clients, Accept(g) \/ Handle(g) \/ Fails(g)
        PROVE  Next \/ UNCHANGED vars
    BY <2>2 DEF Accept, Handle, Fails, Next
  <2>3. \/ AcceptOther \/ OtherEnds \/ RunReturns \/ GoAway \/ GracefulStop
        \/ CloseStorage \/ Exit \/ Crash \/ Start
        => UNCHANGED vars
    BY DEF AcceptOther, OtherEnds, RunReturns, GoAway, GracefulStop, CloseStorage,
       Exit, Crash, GoDown, Start
  <2>4. WalletRestarts => Next
    BY DEF WalletRestarts, Next
  <2> QED
    BY <2>1, <2>2, <2>3, <2>4 DEF SystemNext, systemVars
<1> QED
  BY <1>1, <1>2, PTL DEF SystemSpec, Spec

(* GracefulStop has returned, and the pool may be closed, only when no     *)
(* handler is left; and as no connection brings a call any more, no        *)
(* handler comes back. *)
ServerInv ==
    /\ pool = "closed" => server \in {"stopped", "down"}
    /\ server \in {"stopped", "down"} => NoHandlers /\ ~ admitting

(* Calls that have no handler leave none behind when they are abandoned. *)
LEMMA AbandonStep ==
    ASSUME NEW S \in SUBSET Clients, Abandon(S), NoHandlers
    PROVE  NoHandlers'
<1>1. S \cap handling = {} /\ handling' = {}
  BY DEF Abandon, NoHandlers
<1>2. Cardinality(S \cap handling) = 0
  BY <1>1, FS_EmptySet
<1>3. others' \in 0 .. 0
  BY <1>2 DEF Abandon, NoHandlers
<1> QED
  BY <1>1, <1>3 DEF NoHandlers

LEMMA ServerStep == ServerInv /\ [SystemNext]_systemVars => ServerInv'
<1> SUFFICES ASSUME ServerInv, [SystemNext]_systemVars PROVE ServerInv'
  OBVIOUS
<1> USE DEF ServerInv
<1>1. CASE UNCHANGED serverVars
  BY <1>1 DEF serverVars, NoHandlers
<1>2. ASSUME NEW g \in Clients, Accept(g) PROVE ServerInv'
  BY <1>2 DEF Accept
<1>3. ASSUME NEW g \in Clients, Handle(g) PROVE ServerInv'
  BY <1>3 DEF Handle, NoHandlers
<1>4. ASSUME NEW S \in SUBSET Clients, Abandon(S), UNCHANGED <<server, pool, admitting>>
      PROVE  ServerInv'
  BY <1>4, AbandonStep
<1>5. ASSUME NEW g \in Clients, Fails(g) PROVE ServerInv'
  BY <1>4, <1>5 DEF Fails
<1>6. CASE WalletRestarts
  BY <1>4, <1>6 DEF WalletRestarts
<1>7. CASE AcceptOther
  BY <1>7 DEF AcceptOther
<1>8. CASE OtherEnds
  BY <1>8 DEF OtherEnds, NoHandlers
<1>9. CASE RunReturns
  BY <1>9 DEF RunReturns
<1>10. CASE GoAway
  BY <1>10 DEF GoAway
<1>11. CASE GracefulStop
  BY <1>11 DEF GracefulStop, NoHandlers
<1>12. CASE CloseStorage
  BY <1>12 DEF CloseStorage, NoHandlers
<1>13. CASE Exit \/ Crash
  BY <1>13 DEF Exit, Crash, GoDown, NoHandlers
<1>14. CASE Start
  BY <1>14 DEF Start
<1> QED
  BY <1>1, <1>2, <1>3, <1>5, <1>6, <1>7, <1>8, <1>9, <1>10, <1>11, <1>12, <1>13, <1>14
     DEF SystemNext, systemVars

(* Stopping fails no accepted call, however many goroutines and clients    *)
(* call, give up and go away while the exchanger is being stopped.         *)
THEOREM StoppingFailsNoCall == SystemSpec => []PoolOutlivesHandlers
<1>1. SystemInit => ServerInv
  BY DEF SystemInit, ServerInv
<1>2. ServerInv => PoolOutlivesHandlers
  BY DEF ServerInv, PoolOutlivesHandlers
<1> QED
  BY <1>1, <1>2, ServerStep, PTL DEF SystemSpec
=============================================================================
