--------------------------- MODULE ExchangerServer ---------------------------
(***************************************************************************)
(* The process of gw-exchanger (internal/app, cmd/main.go) around the      *)
(* answers of Rates: a gRPC server with a handler for each call it has     *)
(* accepted, which may be told to stop, may crash, and is started again.   *)
(*                                                                         *)
(* Close is GracefulStop and then the pool of connections that handlers    *)
(* query with.  GracefulStop closes the listener and announces the end on  *)
(* every connection; calls that come before the client has seen that are   *)
(* still taken.  It returns when every connection and every handler has    *)
(* come to its end, however long that takes: the wallet's calls have a     *)
(* deadline, but the port is published, and other clients need set none.   *)
(***************************************************************************)
EXTENDS Rates, FiniteSets

CONSTANT
    MaxOthers       \* bound: handlers nobody in the wallet waits for

ASSUME ExchangerAssumption == MaxOthers \in Nat

VARIABLES
    server,         \* where the process is in its life
    pool,           \* the pool of connections to the database
    admitting,      \* calls are still taken, on one connection or another
    handling,       \* goroutines of the wallet whose call has a handler
    others          \* the handlers of other clients' calls, and of calls
                    \* the wallet has given up

serverVars == <<server, pool, admitting, handling, others>>
systemVars == <<vars, serverVars>>

SystemInit ==
    /\ Init
    /\ server = "serving"
    /\ pool = "open"
    /\ admitting = TRUE
    /\ handling = {}
    /\ others = 0

NoHandlers == handling = {} /\ others = 0

(***************************************************************************)
(* Calls.                                                                  *)
(***************************************************************************)
Accept(g) ==
    /\ admitting
    /\ call[g] # NoCall
    /\ call[g].answer = NoRates
    /\ g \notin handling
    /\ handling' = handling \cup {g}
    /\ UNCHANGED <<vars, server, pool, admitting, others>>

(* The handler queries the table and answers. *)
Handle(g) ==
    /\ g \in handling
    /\ pool = "open"
    /\ Answer(g)
    /\ handling' = handling \ {g}
    /\ UNCHANGED <<server, pool, admitting, others>>

(* Calls of goroutines S are over for them; some of their handlers go on,  *)
(* until they learn it.                                                    *)
Abandon(S) ==
    /\ handling' = handling \ S
    /\ others' \in others .. others + Cardinality(S \cap handling)
    /\ others' <= MaxOthers

(* The handler returns an error, or the goroutine gives up. *)
Fails(g) ==
    /\ CallFails(g)
    /\ Abandon({g})
    /\ UNCHANGED <<server, pool, admitting>>

AcceptOther ==
    /\ admitting
    /\ others < MaxOthers
    /\ others' = others + 1
    /\ UNCHANGED <<vars, server, pool, admitting, handling>>

(* It answers, fails, or learns that its client is gone. *)
OtherEnds ==
    /\ others > 0
    /\ others' = others - 1
    /\ UNCHANGED <<vars, server, pool, admitting, handling>>

WalletRestarts ==
    /\ Restart
    /\ Abandon(Clients)
    /\ UNCHANGED <<server, pool, admitting>>

(***************************************************************************)
(* Run and Close.                                                          *)
(***************************************************************************)
(* A signal, or serving fails; Close calls GracefulStop. *)
RunReturns ==
    /\ server = "serving"
    /\ server' = "draining"
    /\ UNCHANGED <<vars, pool, admitting, handling, others>>

(* The last client has seen the announcement, or its connection is gone. *)
GoAway ==
    /\ server = "draining"
    /\ admitting
    /\ admitting' = FALSE
    /\ UNCHANGED <<vars, server, pool, handling, others>>

GracefulStop ==
    /\ server = "draining"
    /\ ~ admitting
    /\ NoHandlers
    /\ server' = "stopped"
    /\ UNCHANGED <<vars, pool, admitting, handling, others>>

(* A defect: the storage is closed first. *)
CloseStorageFirst ==
    /\ server \in {"draining", "stopped"}
    /\ pool = "open"
    /\ pool' = "closed"
    /\ UNCHANGED <<vars, server, admitting, handling, others>>

CloseStorage ==
    /\ server = "stopped"
    /\ pool = "open"
    /\ pool' = "closed"
    /\ UNCHANGED <<vars, server, admitting, handling, others>>

(* The process is gone, and with it the handlers and connections it had. *)
GoDown ==
    /\ server' = "down"
    /\ pool' = "closed"
    /\ admitting' = FALSE
    /\ handling' = {}
    /\ others' = 0
    /\ UNCHANGED vars

(* main returns after Close. *)
Exit == server = "stopped" /\ pool = "closed" /\ GoDown

Crash == server # "down" /\ GoDown

(* restart: unless-stopped *)
Start ==
    /\ server = "down"
    /\ server' = "serving"
    /\ pool' = "open"
    /\ admitting' = TRUE
    /\ UNCHANGED <<vars, handling, others>>

(***************************************************************************)
(* The specification.                                                      *)
(***************************************************************************)
(* What time, wallet and operator do without the exchanger. *)
Elsewhere ==
    \/ Tick
    \/ \E s \in Tables : EditTable(s)
    \/ \E g \in Clients :
         \/ GetExchangeRates(g) \/ SetRatesCache(g) \/ ReceiveRate(g)
         \/ \E p \in Pairs : LookUpInCache(g, p) \/ LookUpByCall(g, p)

SystemNext ==
    \/ Elsewhere /\ UNCHANGED serverVars
    \/ \E g \in Clients : Accept(g) \/ Handle(g) \/ Fails(g)
    \/ AcceptOther \/ OtherEnds
    \/ WalletRestarts
    \/ RunReturns \/ GoAway \/ GracefulStop \/ CloseStorage \/ Exit
    \/ Crash \/ Start

SystemSpec == SystemInit /\ [][SystemNext]_systemVars

(***************************************************************************)
(* Properties.                                                             *)
(***************************************************************************)
(* Stopping fails no call that was accepted: while a handler may still     *)
(* query, or a connection may still bring a call, the pool is open,        *)
(* although calls go on being accepted after the process was told to stop, *)
(* and handlers outlive the wallet that called them.                       *)
PoolOutlivesHandlers == pool = "closed" => NoHandlers /\ ~ admitting
=============================================================================
