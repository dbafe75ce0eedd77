---------------------------- MODULE Registration ----------------------------
(***************************************************************************)
(* Signing up (internal/usecase/auth.go, PgPool.CreateUser): one           *)
(* transaction inserts the user and a balance row per currency, and two    *)
(* unique indexes of the table users keep names and addresses apart.       *)
(*                                                                         *)
(* A signup is one request with its own goroutine, connection and backend; *)
(* its number is the user's id.  An INSERT enters its row into the indexes *)
(* one by one, in the order of the columns, and waits while another        *)
(* transaction that may still commit has entered an equal value.  As in    *)
(* WalletStore, any statement may fail, a backend outlives a broken        *)
(* connection, and a COMMIT whose answer is lost may still take place.     *)
(***************************************************************************)
EXTENDS Naturals, FiniteSets

CONSTANTS
    Signups,        \* requests to register
    Names,          \* user names
    Emails,         \* addresses
    Currencies      \* SupportedCurrencies

VARIABLES
    pc,             \* where CreateUser is
    who,            \* the name and address each signup is for
    entered,        \* the unique columns its row has entered
    funds,          \* the currencies it has inserted a balance row for
    answer,         \* what the client was told
    backend         \* the state of its transaction

vars == <<pc, who, entered, funds, answer, backend>>

Columns == {"username", "email"}

Nobody == [username |-> "", email |-> ""]

Init ==
    /\ pc = [i \in Signups |-> "new"]
    /\ who = [i \in Signups |-> Nobody]
    /\ entered = [i \in Signups |-> {}]
    /\ funds = [i \in Signups |-> {}]
    /\ answer = [i \in Signups |-> "none"]
    /\ backend = [i \in Signups |-> "none"]

(* Transactions that may still commit, and users that exist. *)
InProgress == {i \in Signups : backend[i] \in {"open", "doubt", "dying"}}
Users == {i \in Signups : backend[i] = "committed"}

(* Signups other than i whose row holds i's value in an index. *)
Rivals(i, column) ==
    {j \in Signups \ {i} : /\ column \in entered[j]
                           /\ who[j][column] = who[i][column]}

Reply(i, result) ==
    /\ answer' = [answer EXCEPT ![i] = result]
    /\ pc' = [pc EXCEPT ![i] = "replied"]

(* A defect: the error path does not assign err, so nothing is rolled back. *)
AbortWithoutErr(i, why) == Reply(i, why)

Abort(i, why) ==
    /\ answer' = [answer EXCEPT ![i] = why]
    /\ pc' = [pc EXCEPT ![i] = "rollback"]

(* The transaction is over; an aborted one leaves no row. *)
End(i, how) ==
    /\ backend' = [backend EXCEPT ![i] = how]
    /\ IF how = "committed" THEN UNCHANGED <<entered, funds>>
       ELSE /\ entered' = [entered EXCEPT ![i] = {}]
            /\ funds' = [funds EXCEPT ![i] = {}]

(***************************************************************************)
(* CreateUser.                                                             *)
(***************************************************************************)
(* A valid request: Validate, the password's hash, BEGIN. *)
Begin(i, name, email) ==
    /\ pc[i] = "new"
    /\ who' = [who EXCEPT ![i] = [username |-> name, email |-> email]]
    /\ pc' = [pc EXCEPT ![i] = "username"]
    /\ backend' = [backend EXCEPT ![i] = "open"]
    /\ UNCHANGED <<entered, funds, answer>>

(* The context ends while waiting for a connection, or connecting fails. *)
BeginFails(i) ==
    /\ pc[i] = "new"
    /\ Reply(i, "error")
    /\ UNCHANGED <<who, entered, funds, backend>>

(* A defect: a SELECT looks for equal values before the INSERT, and there  *)
(* is no unique index.                                                     *)
EnterUnlessSeen(i, column, next) ==
    /\ pc[i] = column
    /\ Rivals(i, column) \cap Users = {}
    /\ entered' = [entered EXCEPT ![i] = @ \cup {column}]
    /\ pc' = [pc EXCEPT ![i] = next]
    /\ UNCHANGED <<who, funds, answer, backend>>

Enter(i, column, next) ==
    /\ pc[i] = column
    /\ Rivals(i, column) = {}
    /\ entered' = [entered EXCEPT ![i] = @ \cup {column}]
    /\ pc' = [pc EXCEPT ![i] = next]
    /\ UNCHANGED <<who, funds, answer, backend>>

(* A defect: a value that a transaction still holds counts as taken. *)
DuplicateWithoutWaiting(i) ==
    /\ pc[i] \in Columns
    /\ Rivals(i, pc[i]) # {}
    /\ Abort(i, "ErrDuplicateUser")
    /\ UNCHANGED <<who, entered, funds, backend>>

(* The unique violation of a value that another user has. *)
Duplicate(i) ==
    /\ pc[i] \in Columns
    /\ Rivals(i, pc[i]) \cap Users # {}
    /\ Abort(i, "ErrDuplicateUser")
    /\ UNCHANGED <<who, entered, funds, backend>>

InsertBalance(i) ==
    /\ pc[i] = "balances"
    /\ \E c \in Currencies \ funds[i] :
         funds' = [funds EXCEPT ![i] = @ \cup {c}]
    /\ pc' = [pc EXCEPT ![i] = IF funds'[i] = Currencies THEN "commit" ELSE @]
    /\ UNCHANGED <<who, entered, answer, backend>>

(* A defect: each statement is a transaction of its own. *)
StatementFailsAfterAutocommit(i) ==
    /\ pc[i] \in {"username", "email", "balances"}
    /\ IF pc[i] = "balances" THEN End(i, "committed") ELSE End(i, "aborted")
    /\ Reply(i, "error")
    /\ UNCHANGED who

StatementFails(i) ==
    /\ pc[i] \in {"username", "email", "balances"}
    /\ Abort(i, "error")
    /\ UNCHANGED <<who, entered, funds, backend>>

Commit(i) ==
    /\ pc[i] = "commit"
    /\ End(i, "committed")
    /\ Reply(i, "created")
    /\ UNCHANGED who

CommitFails(i) ==
    /\ pc[i] = "commit"
    /\ backend' = [backend EXCEPT ![i] = "doubt"]
    /\ Reply(i, "error")
    /\ UNCHANGED <<who, entered, funds>>

Rollback(i) ==
    /\ pc[i] = "rollback"
    /\ End(i, "aborted")
    /\ pc' = [pc EXCEPT ![i] = "replied"]
    /\ UNCHANGED <<who, answer>>

(* The rollback's own error is ignored, and the connection is closed. *)
RollbackFails(i) ==
    /\ pc[i] = "rollback"
    /\ backend' = [backend EXCEPT ![i] = "dying"]
    /\ pc' = [pc EXCEPT ![i] = "replied"]
    /\ UNCHANGED <<who, entered, funds, answer>>

(* PostgreSQL ends the transaction of a lost connection. *)
Settle(i) ==
    /\ \/ backend[i] = "doubt" /\ End(i, "committed")
       \/ backend[i] \in {"doubt", "dying"} /\ End(i, "aborted")
    /\ UNCHANGED <<pc, who, answer>>

(***************************************************************************)
(* The specification.                                                      *)
(***************************************************************************)
InsertUser(i) ==
    \/ Enter(i, "username", "email")
    \/ Enter(i, "email", "balances")
    \/ Duplicate(i)

Step(i) ==
    \/ InsertUser(i) \/ InsertBalance(i) \/ StatementFails(i)
    \/ Commit(i) \/ CommitFails(i) \/ Rollback(i) \/ RollbackFails(i)
    \/ Settle(i)

Next ==
    \E i \in Signups :
        \/ \E name \in Names, email \in Emails : Begin(i, name, email)
        \/ BeginFails(i)
        \/ Step(i)

Spec == Init /\ [][Next]_vars

(* A statement that waits for nobody goes on, waiters are served, and a    *)
(* backend notices that its client is gone.  No failure is fair.           *)
Fairness ==
    \A i \in Signups :
        /\ SF_vars(InsertUser(i))
        /\ WF_vars(InsertBalance(i))
        /\ WF_vars(Commit(i) \/ CommitFails(i))
        /\ WF_vars(Rollback(i) \/ RollbackFails(i))
        /\ WF_vars(Settle(i))

FairSpec == Spec /\ Fairness

(***************************************************************************)
(* Properties.                                                             *)
(***************************************************************************)
(* Whom a signup can be for. *)
Persons == [username : Names, email : Emails] \cup {Nobody}

(* Every variable keeps its type. *)
TypeOK ==
    /\ pc \in [Signups -> {"new", "username", "email", "balances", "commit",
                           "rollback", "replied"}]
    /\ who \in [Signups -> Persons]
    /\ entered \in [Signups -> SUBSET Columns]
    /\ funds \in [Signups -> SUBSET Currencies]
    /\ answer \in [Signups -> {"none", "created", "error", "ErrDuplicateUser"}]
    /\ backend \in [Signups -> {"none", "open", "doubt", "dying", "committed",
                                "aborted"}]

(* No two users share a name or an address, however their signups overlap. *)
UsersAreUnique ==
    \A i, j \in Users : i # j => \A column \in Columns :
        who[i][column] # who[j][column]

(* A user has a balance row of every currency from the moment it exists,   *)
(* which is what every money operation of the storage relies on, and a     *)
(* signup that did not make a user leaves no row behind.                   *)
AllOrNothing ==
    \A i \in Signups :
        /\ i \in Users => funds[i] = Currencies /\ entered[i] = Columns
        /\ i \notin Users \cup InProgress => funds[i] = {} /\ entered[i] = {}

(* "created" is said of a user that exists; "already exists" only when a   *)
(* user with that name or address does, and then the signup made none.     *)
AnswersTellTheTruth ==
    \A i \in Signups :
        /\ answer[i] = "created" => i \in Users
        /\ answer[i] = "ErrDuplicateUser" =>
             /\ backend[i] \notin {"doubt", "committed"}
             /\ \E j \in Users \ {i}, column \in Columns :
                  who[j][column] = who[i][column]

(* Every signup is answered: none waits for ever for the outcome of        *)
(* another one that wants the same name or address.                        *)
SignupsAreAnswered == \A i \in Signups : pc[i] # "new" ~> pc[i] = "replied"

(***************************************************************************)
(* The inductive invariant behind the safety properties.                   *)
(***************************************************************************)
(* What a signup's row has entered and inserted, at each stage of its      *)
(* request and of its transaction.                                         *)
Stage(i) ==
    /\ pc[i] = "new" => backend[i] = "none"
    /\ backend[i] = "open" <=> pc[i] \notin {"new", "replied"}
    /\ backend[i] \in {"none", "aborted"} => entered[i] = {} /\ funds[i] = {}
    /\ backend[i] \in {"doubt", "committed"} => entered[i] = Columns /\ funds[i] = Currencies
    /\ pc[i] = "username" => entered[i] = {} /\ funds[i] = {}
    /\ pc[i] = "email" => entered[i] = {"username"} /\ funds[i] = {}
    /\ pc[i] \in {"balances", "commit"} => entered[i] = Columns
    /\ pc[i] = "commit" => funds[i] = Currencies
    /\ answer[i] = "created" => backend[i] = "committed"
    /\ answer[i] = "ErrDuplicateUser" => backend[i] \notin {"none", "doubt", "committed"}
    /\ answer[i] # "none" <=> pc[i] \in {"rollback", "replied"}

(* No value stands twice in an index, in-progress rows included. *)
IndexesAreUnique ==
    \A i \in Signups : \A column \in entered[i] : Rivals(i, column) = {}

RegistrationInv ==
    /\ \A i \in Signups : Stage(i)
    /\ IndexesAreUnique
=============================================================================
