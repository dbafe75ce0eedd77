-------------------------------- MODULE Ledger --------------------------------
(***************************************************************************)
(* What the wallet's storage promises: every money operation takes effect  *)
(* at one instant between its call and its reply, or not at all, and the   *)
(* reply says which.  The one exception is an operation that is answered   *)
(* with an error because the connection failed while it was committing: it *)
(* stays in doubt, and takes effect later, once, or never.                 *)
(***************************************************************************)
EXTENDS WalletOps

CONSTANTS
    Callers,        \* concurrent requests
    Slots           \* places for operations in doubt

VARIABLES
    bal,            \* the committed amount of each balance row
    call,           \* the call each caller is in
    doubt           \* what each in-doubt operation would still change

vars == <<bal, call, doubt>>

Idle == [state |-> "idle"]
Pending(o) == [state |-> "pending", op |-> o]
(* seen: the amounts the reply gives for the rows the operation touched. *)
Replied(o, outcome, seen) ==
    [state |-> "replied", op |-> o, outcome |-> outcome, seen |-> seen]

NothingSeen == [r \in {} |-> 0]

After(d) == [r \in Rows |-> bal[r] + d[r]]

(* The rows whose amounts an answer must get exactly right. *)
Answered(o) ==
    IF o.kind = "balances" THEN {r \in Rows : r[1] = o.user} ELSE RowsOf(o)

Init ==
    /\ bal = [r \in Rows |-> 0]
    /\ call = [t \in Callers |-> Idle]
    /\ doubt = [s \in Slots |-> NoDelta]

Invoke(t, o) ==
    /\ call[t] = Idle
    /\ call' = [call EXCEPT ![t] = Pending(o)]
    /\ UNCHANGED <<bal, doubt>>

(* The operation takes effect, and its reply shows the new amounts. *)
Apply(t, o) ==
    /\ call[t] = Pending(o)
    /\ o.user \in Registered
    /\ ArgumentError(o) = "none"
    /\ \A r \in RowsOf(o) : After(Delta(o))[r] \in Amounts
    /\ bal' = After(Delta(o))
    /\ call' = [call EXCEPT ![t] =
                  Replied(o, "ok", [r \in Answered(o) |-> bal'[r]])]
    /\ UNCHANGED doubt

(* The operation is refused, for a reason that holds at that instant. *)
Refuse(t, o) ==
    /\ call[t] = Pending(o)
    /\ \E why \in {ArgumentError(o)} \cup {"ErrUserNotFound", "ErrInsufficientFunds"} :
         /\ why # "none"
         /\ why = "ErrUserNotFound" => o.user \notin Registered
         /\ why = "ErrInsufficientFunds" =>
               /\ o.user \in Registered
               /\ o.kind \in {"withdraw", "exchange"}
               /\ bal[FromRow(o)] < o.debit
         /\ call' = [call EXCEPT ![t] = Replied(o, why, NothingSeen)]
    /\ UNCHANGED <<bal, doubt>>

(* An error: nothing happened, or nobody knows yet. *)
Fail(t, o) ==
    /\ call[t] = Pending(o)
    /\ call' = [call EXCEPT ![t] = Replied(o, "error", NothingSeen)]
    /\ \/ UNCHANGED doubt
       \/ \E s \in Slots : /\ doubt[s] = NoDelta
                           /\ ArgumentError(o) = "none"
                           /\ doubt' = [doubt EXCEPT ![s] = Delta(o)]
    /\ UNCHANGED bal

(* An operation in doubt takes effect as a whole, or is dropped. *)
Settle(s) ==
    /\ doubt[s] # NoDelta
    /\ \/ /\ \A r \in Rows : After(doubt[s])[r] \in Amounts
          /\ bal' = After(doubt[s])
       \/ UNCHANGED bal
    /\ doubt' = [doubt EXCEPT ![s] = NoDelta]
    /\ UNCHANGED call

Acknowledge(t) ==
    /\ call[t].state = "replied"
    /\ call' = [call EXCEPT ![t] = Idle]
    /\ UNCHANGED <<bal, doubt>>

Next ==
    \/ \E t \in Callers :
         \/ \E o \in Ops : \/ Invoke(t, o) \/ Apply(t, o)
                           \/ Refuse(t, o) \/ Fail(t, o)
         \/ Acknowledge(t)
    \/ \E s \in Slots : Settle(s)

Spec == Init /\ [][Next]_vars
=============================================================================
