------------------------- MODULE RegistrationProofs -------------------------
(***************************************************************************)
(* Proofs about signing up and logging in, for any number of signups,      *)
(* names, addresses, currencies, requests to log in and token lifetimes.   *)
(* RegistrationInv is inductive given TypeOK: a value stands at most once  *)
(* in each unique index, in-progress rows included, and a transaction that *)
(* may have committed has entered its whole row.  LoginInv adds that a     *)
(* token was issued to a user of the name and password that were typed.    *)
(***************************************************************************)
EXTENDS Accounts, TLAPS

USE DEF Columns, InProgress, Users, Reply, Abort, End

(* Every step of CreateUser keeps the types. *)
LEMMA Typing == TypeOK /\ [Next]_vars => TypeOK'
<1> SUFFICES ASSUME TypeOK, [Next]_vars PROVE TypeOK'
  OBVIOUS
<1> USE DEF TypeOK
<1>1. ASSUME NEW i \in Signups, NEW name \in Names, NEW email \in Emails,
             Begin(i, name, email)
      PROVE  TypeOK'
  <2>1. [username |-> name, email |-> email] \in Persons
    BY DEF Persons
  <2> QED
    BY <1>1, <2>1 DEF Begin
<1>2. ASSUME NEW i \in Signups, BeginFails(i) PROVE TypeOK'
  BY <1>2 DEF BeginFails
<1>3. ASSUME NEW i \in Signups, NEW column \in Columns,
             NEW next \in {"email", "balances"}, Enter(i, column, next)
      PROVE  TypeOK'
  BY <1>3 DEF Enter
<1>4. ASSUME NEW i \in Signups, Duplicate(i) PROVE TypeOK'
  BY <1>4 DEF Duplicate
<1>5. ASSUME NEW i \in Signups, InsertBalance(i) PROVE TypeOK'
  <2>1. PICK c \in Currencies : funds' = [funds EXCEPT ![i] = funds[i] \cup {c}]
    BY <1>5 DEF InsertBalance
  <2>2. funds' \in [Signups -> SUBSET Currencies]
    BY <2>1
  <2> QED
    BY <1>5, <2>2 DEF InsertBalance
<1>6. ASSUME NEW i \in Signups, StatementFails(i) PROVE TypeOK'
  BY <1>6 DEF StatementFails
<1>7. ASSUME NEW i \in Signups, Commit(i) PROVE TypeOK'
  BY <1>7 DEF Commit
<1>8. ASSUME NEW i \in Signups, CommitFails(i) PROVE TypeOK'
  BY <1>8 DEF CommitFails
<1>9. ASSUME NEW i \in Signups, Rollback(i) PROVE TypeOK'
  BY <1>9 DEF Rollback
<1>10. ASSUME NEW i \in Signups, RollbackFails(i) PROVE TypeOK'
  BY <1>10 DEF RollbackFails
<1>11. ASSUME NEW i \in Signups, Settle(i) PROVE TypeOK'
  BY <1>11 DEF Settle
<1>12. CASE UNCHANGED vars
  BY <1>12 DEF vars
<1> QED
  BY <1>1, <1>2, <1>3, <1>4, <1>5, <1>6, <1>7, <1>8, <1>9, <1>10, <1>11, <1>12
  DEF Next, Step, InsertUser

(***************************************************************************)
(* The indexes.  An entry is made only where no rival has one, and the     *)
(* name and address of a signup change only while it has none.             *)
(***************************************************************************)
(* No step puts a value into an index twice. *)
LEMMA IndexStep ==
  ASSUME TypeOK, TypeOK', RegistrationInv, [Next]_vars
  PROVE  IndexesAreUnique'
<1> USE DEF TypeOK
<1>a. IndexesAreUnique /\ \A i \in Signups : Stage(i)
  BY DEF RegistrationInv
<1>0. ASSUME who' = who, \A i \in Signups : entered'[i] \subseteq entered[i]
      PROVE  IndexesAreUnique'
  BY <1>a, <1>0 DEF IndexesAreUnique, Rivals
<1>1. ASSUME NEW i \in Signups, NEW name \in Names, NEW email \in Emails,
             Begin(i, name, email)
      PROVE  IndexesAreUnique'
  <2>1. entered' = entered /\ entered[i] = {}
    BY <1>1, <1>a DEF Begin, Stage
  <2>2. \A j \in Signups \ {i} : who'[j] = who[j]
    BY <1>1 DEF Begin
  <2>3. ASSUME NEW j \in Signups, NEW column \in entered'[j] PROVE Rivals(j, column)' = {}
    <3>1. j # i /\ column \in entered[j] /\ Rivals(j, column) = {}
      BY <1>a, <2>1, <2>3 DEF IndexesAreUnique
    <3>2. Rivals(j, column)' \subseteq Rivals(j, column)
      BY <2>1, <2>2, <3>1 DEF Rivals
    <3> QED
      BY <3>1, <3>2
  <2> QED
    BY <2>3 DEF IndexesAreUnique
<1>2. ASSUME NEW i \in Signups, NEW column \in Columns,
             NEW next \in {"email", "balances"}, Enter(i, column, next)
      PROVE  IndexesAreUnique'
  <2>1. /\ who' = who /\ Rivals(i, column) = {}
        /\ entered'[i] = entered[i] \cup {column}
        /\ \A j \in Signups \ {i} : entered'[j] = entered[j]
    BY <1>2 DEF Enter
  <2>2. ASSUME NEW j \in Signups, NEW k \in Signups, NEW c \in entered'[j],
               j # k, c \in entered'[k], who[j][c] = who[k][c]
        PROVE  FALSE
    <3>1. ~(c \in entered[j] /\ c \in entered[k])
      BY <1>a, <2>2 DEF IndexesAreUnique, Rivals
    <3>2. c = column /\ (j = i \/ k = i)
      BY <2>1, <2>2, <3>1
    <3> QED
      BY <2>1, <2>2, <3>2 DEF Rivals
  <2> QED
    BY <2>1, <2>2 DEF IndexesAreUnique, Rivals
<1>3. ASSUME NEW i \in Signups, StatementFails(i) \/ Commit(i) \/ CommitFails(i)
                                  \/ Rollback(i) \/ RollbackFails(i) \/ Settle(i)
      PROVE  IndexesAreUnique'
  BY <1>0, <1>3 DEF StatementFails, Commit, CommitFails, Rollback, RollbackFails, Settle
<1>4. ASSUME NEW i \in Signups, BeginFails(i) \/ Duplicate(i) \/ InsertBalance(i)
      PROVE  IndexesAreUnique'
  BY <1>0, <1>4 DEF BeginFails, Duplicate, InsertBalance
<1>5. CASE UNCHANGED vars
  BY <1>0, <1>5 DEF vars
<1> QED
  BY <1>1, <1>2, <1>3, <1>4, <1>5 DEF Next, Step, InsertUser

(***************************************************************************)
(* The stages.                                                             *)
(***************************************************************************)
(* The variables of signup i keep their values. *)
Untouched(i) ==
    /\ pc'[i] = pc[i] /\ entered'[i] = entered[i] /\ funds'[i] = funds[i]
    /\ answer'[i] = answer[i] /\ backend'[i] = backend[i]

(* A step of one signup leaves the others where they are. *)
LEMMA OneMoves ==
  ASSUME TypeOK, [Next]_vars
  PROVE  \/ \A j \in Signups : Untouched(j)
         \/ \E i \in Signups :
              /\ \/ \E name \in Names, email \in Emails : Begin(i, name, email)
                 \/ BeginFails(i)
                 \/ Step(i)
              /\ \A j \in Signups \ {i} : Untouched(j)
<1> USE DEF TypeOK, Untouched
<1>1. ASSUME NEW i \in Signups, NEW name \in Names, NEW email \in Emails,
             Begin(i, name, email)
      PROVE  \A j \in Signups \ {i} : Untouched(j)
  BY <1>1 DEF Begin
<1>2. ASSUME NEW i \in Signups, BeginFails(i) PROVE \A j \in Signups \ {i} : Untouched(j)
  BY <1>2 DEF BeginFails
<1>3. ASSUME NEW i \in Signups, InsertUser(i) \/ InsertBalance(i) \/ StatementFails(i)
      PROVE  \A j \in Signups \ {i} : Untouched(j)
  BY <1>3 DEF InsertUser, Enter, Duplicate, InsertBalance, StatementFails
<1>4. ASSUME NEW i \in Signups, Commit(i) \/ CommitFails(i) \/ Rollback(i)
                                  \/ RollbackFails(i) \/ Settle(i)
      PROVE  \A j \in Signups \ {i} : Untouched(j)
  BY <1>4 DEF Commit, CommitFails, Rollback, RollbackFails, Settle
<1>5. CASE UNCHANGED vars
  BY <1>5 DEF vars
<1> QED
  BY <1>1, <1>2, <1>3, <1>4, <1>5 DEF Next, Step

(* The signup that moves goes from one stage to the next. *)
LEMMA StageStep ==
  ASSUME TypeOK, NEW i \in Signups, Stage(i),
         \/ \E name \in Names, email \in Emails : Begin(i, name, email)
         \/ BeginFails(i)
         \/ Step(i)
  PROVE  Stage(i)'
<1> USE DEF TypeOK, Stage
<1>1. ASSUME NEW name \in Names, NEW email \in Emails, Begin(i, name, email)
      PROVE  Stage(i)'
  BY <1>1 DEF Begin
<1>2. CASE BeginFails(i)
  BY <1>2 DEF BeginFails
<1>3. CASE Enter(i, "username", "email")
  BY <1>3 DEF Enter
<1>4. CASE Enter(i, "email", "balances")
  BY <1>4 DEF Enter
<1>5. CASE Duplicate(i)
  BY <1>5 DEF Duplicate
<1>6. CASE InsertBalance(i)
  BY <1>6 DEF InsertBalance
<1>7. CASE StatementFails(i)
  BY <1>7 DEF StatementFails
<1>8. CASE Commit(i)
  BY <1>8 DEF Commit
<1>9. CASE CommitFails(i)
  BY <1>9 DEF CommitFails
<1>10. CASE Rollback(i)
  BY <1>10 DEF Rollback
<1>11. CASE RollbackFails(i)
  BY <1>11 DEF RollbackFails
<1>12. CASE Settle(i)
  BY <1>12 DEF Settle
<1> QED
  BY <1>1, <1>2, <1>3, <1>4, <1>5, <1>6, <1>7, <1>8, <1>9, <1>10, <1>11, <1>12
  DEF Step, InsertUser

(* RegistrationInv is inductive. *)
LEMMA InvStep ==
  ASSUME TypeOK, TypeOK', RegistrationInv, [Next]_vars
  PROVE  RegistrationInv'
<1>1. ASSUME NEW j \in Signups, Stage(j), Untouched(j) PROVE Stage(j)'
  BY <1>1 DEF Stage, Untouched
<1>2. \A j \in Signups : Stage(j)'
  BY <1>1, OneMoves, StageStep DEF RegistrationInv
<1> QED
  BY <1>2, IndexStep DEF RegistrationInv

(***************************************************************************)
(* What clients are told.                                                  *)
(***************************************************************************)
(* A user stays a user, under the same name and address. *)
LEMMA UsersStay ==
  ASSUME TypeOK, RegistrationInv, [Next]_vars, NEW j \in Users
  PROVE  j \in Users' /\ who'[j] = who[j]
<1> USE DEF TypeOK
<1>0. backend[j] = "committed" /\ pc[j] \in {"replied"}
  BY DEF RegistrationInv, Stage
<1>1. ASSUME NEW i \in Signups,
             \/ \E name \in Names, email \in Emails : Begin(i, name, email)
             \/ BeginFails(i)
      PROVE  backend'[j] = "committed" /\ who'[j] = who[j]
  BY <1>0, <1>1 DEF Begin, BeginFails
<1>2. ASSUME NEW i \in Signups, InsertUser(i) \/ InsertBalance(i) \/ StatementFails(i)
      PROVE  backend'[j] = "committed" /\ who'[j] = who[j]
  BY <1>0, <1>2 DEF InsertUser, Enter, Duplicate, InsertBalance, StatementFails
<1>3. ASSUME NEW i \in Signups, Commit(i) \/ CommitFails(i) \/ Rollback(i)
                                  \/ RollbackFails(i) \/ Settle(i)
      PROVE  backend'[j] = "committed" /\ who'[j] = who[j]
  BY <1>0, <1>3 DEF Commit, CommitFails, Rollback, RollbackFails, Settle
<1>4. CASE UNCHANGED vars
  BY <1>0, <1>4 DEF vars
<1> QED
  BY <1>1, <1>2, <1>3, <1>4 DEF Next, Step

(* "already exists" is said where a user with that name or address exists. *)
LEMMA DuplicateIsTold ==
  ASSUME TypeOK, [Next]_vars, NEW i \in Signups,
         answer[i] # "ErrDuplicateUser", answer'[i] = "ErrDuplicateUser"
  PROVE  /\ who' = who
         /\ \E j \in Users \ {i}, column \in Columns : who[j][column] = who[i][column]
<1> USE DEF TypeOK
<1>1. ASSUME NEW k \in Signups,
             \/ \E name \in Names, email \in Emails : Begin(k, name, email)
             \/ BeginFails(k)
      PROVE  FALSE
  BY <1>1 DEF Begin, BeginFails
<1>2. ASSUME NEW k \in Signups,
             \/ Enter(k, "username", "email")
             \/ Enter(k, "email", "balances")
             \/ InsertBalance(k) \/ StatementFails(k)
      PROVE  FALSE
  BY <1>2 DEF Enter, InsertBalance, StatementFails
<1>3. ASSUME NEW k \in Signups, Commit(k) \/ CommitFails(k) \/ Rollback(k)
                                  \/ RollbackFails(k) \/ Settle(k)
      PROVE  FALSE
  BY <1>3 DEF Commit, CommitFails, Rollback, RollbackFails, Settle
<1>4. ASSUME UNCHANGED vars PROVE FALSE
  BY <1>4 DEF vars
<1>5. PICK k \in Signups : Duplicate(k)
  <2>1. Next
    BY <1>4
  <2>2. PICK k \in Signups : \/ \E name \in Names, email \in Emails : Begin(k, name, email)
                            \/ BeginFails(k)
                            \/ Step(k)
    BY <2>1 DEF Next
  <2>3. Step(k)
    BY <1>1, <2>2
  <2>4. Duplicate(k)
    BY <1>2, <1>3, <2>3 DEF Step, InsertUser
  <2> QED
    BY <2>4
<1>6. k = i /\ who' = who /\ Rivals(i, pc[i]) \cap Users # {} /\ pc[i] \in Columns
  BY <1>5 DEF Duplicate
<1>7. PICK j \in Rivals(i, pc[i]) \cap Users : TRUE
  BY <1>6
<1> QED
  BY <1>6, <1>7 DEF Rivals

(* No step makes an answer untrue. *)
LEMMA AnswersStep ==
  ASSUME TypeOK, TypeOK', RegistrationInv, RegistrationInv', AnswersTellTheTruth, [Next]_vars
  PROVE  AnswersTellTheTruth'
<1> USE DEF TypeOK
<1> SUFFICES ASSUME NEW i \in Signups
             PROVE  /\ answer'[i] = "created" => i \in Users'
                    /\ answer'[i] = "ErrDuplicateUser" =>
                         /\ backend'[i] \notin {"doubt", "committed"}
                         /\ \E j \in Users' \ {i}, column \in Columns :
                              who'[j][column] = who'[i][column]
  BY DEF AnswersTellTheTruth
<1>1. Stage(i) /\ Stage(i)'
  BY DEF RegistrationInv
<1>2. answer'[i] = "created" => i \in Users'
  BY <1>1 DEF Stage
<1>3. answer'[i] = "ErrDuplicateUser" => backend'[i] \notin {"doubt", "committed"}
  BY <1>1 DEF Stage
<1>4. ASSUME answer'[i] = "ErrDuplicateUser"
      PROVE  \E j \in Users \ {i}, column \in Columns : who[j][column] = who[i][column]
  BY <1>4, DuplicateIsTold DEF AnswersTellTheTruth
<1>5. ASSUME answer'[i] = "ErrDuplicateUser" PROVE who'[i] = who[i]
  <2>1. CASE answer[i] # "ErrDuplicateUser"
    BY <1>5, <2>1, DuplicateIsTold
  <2>2. CASE answer[i] = "ErrDuplicateUser"
    <3>1. pc[i] # "new"
      BY <1>1, <2>2 DEF Stage
    <3> QED
      BY <3>1 DEF Next, Step, InsertUser, Begin, BeginFails, Enter, Duplicate, InsertBalance,
                  StatementFails, Commit, CommitFails, Rollback, RollbackFails, Settle, vars
  <2> QED
    BY <2>1, <2>2
<1>6. \A j \in Users : j \in Users' /\ who'[j] = who[j]
  BY UsersStay
<1> QED
  BY <1>2, <1>3, <1>4, <1>5, <1>6

(***************************************************************************)
(* Theorems.                                                               *)
(***************************************************************************)
(* The variables of signing up always have their types. *)
THEOREM TypeCorrect == Spec => []TypeOK
<1>1. Init => TypeOK
  BY DEF Init, TypeOK, Persons
<1> QED
  BY <1>1, Typing, PTL DEF Spec

(* At each stage of a signup its row has entered and inserted what         *)
(* CreateUser has got to, and no value stands twice in an index.           *)
THEOREM RegistrationInvariant == Spec => []RegistrationInv
<1>1. Init => RegistrationInv
  BY DEF Init, RegistrationInv, Stage, IndexesAreUnique, Rivals
<1>2. TypeOK /\ TypeOK' /\ RegistrationInv /\ [Next]_vars => RegistrationInv'
  BY InvStep
<1> QED
  BY <1>1, <1>2, TypeCorrect, PTL DEF Spec

(* No two users share a name or an address, however signups overlap. *)
THEOREM NoTwoUsersAlike == Spec => []UsersAreUnique
<1>1. TypeOK /\ RegistrationInv => UsersAreUnique
  BY DEF TypeOK, RegistrationInv, Stage, IndexesAreUnique, Rivals, UsersAreUnique
<1> QED
  BY <1>1, TypeCorrect, RegistrationInvariant, PTL

(* A user has a balance row of every currency; a signup that made no user  *)
(* leaves no row.                                                          *)
THEOREM WholeUsers == Spec => []AllOrNothing
<1>1. TypeOK /\ RegistrationInv => AllOrNothing
  BY DEF TypeOK, RegistrationInv, Stage, AllOrNothing
<1> QED
  BY <1>1, TypeCorrect, RegistrationInvariant, PTL

(* "created" and "already exists" are said only when they are so, and stay *)
(* true.                                                                   *)
THEOREM TruthfulAnswers == Spec => []AnswersTellTheTruth
<1>1. Init => AnswersTellTheTruth
  BY DEF Init, AnswersTellTheTruth
<1>2. /\ TypeOK /\ TypeOK' /\ RegistrationInv /\ RegistrationInv' /\ AnswersTellTheTruth
      /\ [Next]_vars
      => AnswersTellTheTruth'
  BY AnswersStep
<1> QED
  BY <1>1, <1>2, TypeCorrect, RegistrationInvariant, PTL DEF Spec

(***************************************************************************)
(* Logging in.                                                             *)
(***************************************************************************)
(* Signing up goes on as it does alone: what is proved above holds of the  *)
(* whole.                                                                  *)
THEOREM SystemHasRegistration == SystemSpec => Spec
<1>1. SystemInit => Init
  BY DEF SystemInit
<1>2. [SystemNext]_systemVars => [Next]_vars
  BY DEF SystemNext, systemVars, AskToLogIn, LogIn, RefuseLogIn, LogInFails, Tick
<1> QED
  BY <1>1, <1>2, PTL DEF SystemSpec, Spec

LoginStates == {"asked", "token", "ErrInvalidCredentials", "error"}

Requested == [state : LoginStates, name : Names, blanks : BOOLEAN,
              password : Passwords, members : SUBSET Signups]

Token == [user : Signups, issued : Nat, expires : Nat]

LoginTypeOK ==
    /\ now \in Nat
    /\ login \in [Logins -> Requested \cup {NotAsked}]
    /\ token \in [Logins -> Token \cup {NoToken}]

(* Those who were members when l asked are users still; if l was refused,  *)
(* none of them has its name and password. *)
MembersKept(l) ==
    login[l] # NotAsked => \A i \in login[l].members :
        /\ i \in Users
        /\ login[l].state = "ErrInvalidCredentials" =>
             who[i].username # login[l].name \/ PasswordOf[i] # login[l].password

(* The token l was given is for a user of its name and password. *)
TokenOfUser(l) ==
    token[l] # NoToken =>
        /\ login[l] # NotAsked
        /\ token[l].user \in Users
        /\ who[token[l].user].username = login[l].name
        /\ PasswordOf[token[l].user] = login[l].password
        /\ token[l].issued <= now /\ token[l].expires = Expiry(token[l].issued)

LoginInv == LoginTypeOK /\ \A l \in Logins : MembersKept(l) /\ TokenOfUser(l)

(* Rounding to whole seconds takes away less than a second. *)
LEMMA ExpiryFacts ==
    ASSUME NEW t \in Nat
    PROVE  /\ Expiry(t) \in Nat
           /\ Expiry(t) <= t + TTL /\ t + TTL < Expiry(t) + Second
<1> DEFINE x == t + TTL
           q == x \div Second
<1>1. Second \in Nat /\ Second > 0 /\ x \in Nat
  BY AccountsAssumption
<1> HIDE DEF x
<1>2. q \in Nat /\ q * Second <= x /\ x < q * Second + Second
  BY <1>1
<1>3. Expiry(t) = q * Second
  BY DEF Expiry, x
<1> HIDE DEF q
<1>4. q * Second \in Nat
  BY <1>1, <1>2
<1> QED
  BY <1>1, <1>2, <1>3, <1>4 DEF x

LEMMA TokenIsNone == NoToken \notin Token
  BY DEF NoToken, Token

LEMMA LoginInit == SystemInit => LoginInv
<1> SUFFICES ASSUME SystemInit PROVE LoginInv
  OBVIOUS
<1>1. now \in Nat
  BY AccountsAssumption DEF SystemInit
<1> QED
  BY <1>1 DEF SystemInit, LoginInv, LoginTypeOK, MembersKept, TokenOfUser

(* What the steps of logging in do to the request and the token. *)
LEMMA LoginStep ==
    ASSUME LoginInv, TypeOK, AnswersTellTheTruth, NEW l \in Logins,
           \/ \E name \in Names, blanks \in BOOLEAN, password \in Passwords :
                AskToLogIn(l, name, blanks, password)
           \/ LogIn(l) \/ RefuseLogIn(l) \/ LogInFails(l)
    PROVE  LoginInv'
<1> USE DEF LoginInv
<1>0. ASSUME LoginTypeOK', UNCHANGED <<vars, now>>, MembersKept(l)', TokenOfUser(l)',
             \A k \in Logins \ {l} : login'[k] = login[k] /\ token'[k] = token[k]
      PROVE  LoginInv'
  <2>1. ASSUME NEW k \in Logins, k # l PROVE MembersKept(k)' /\ TokenOfUser(k)'
    BY <1>0, <2>1 DEF MembersKept, TokenOfUser, vars, Expiry
  <2> QED
    BY <1>0, <2>1
<1>1. ASSUME NEW name \in Names, NEW blanks \in BOOLEAN, NEW password \in Passwords,
             AskToLogIn(l, name, blanks, password)
      PROVE  LoginInv'
  <2>1. /\ login'[l] = Asked(name, blanks, password, {i \in Signups : answer[i] = "created"})
        /\ UNCHANGED <<vars, now, token>>
        /\ \A k \in Logins \ {l} : login'[k] = login[k]
    BY <1>1 DEF AskToLogIn, LoginTypeOK
  <2>2. login'[l] \in Requested
    BY <2>1 DEF Asked, Requested, LoginStates
  <2>3. LoginTypeOK'
    BY <1>1, <2>1, <2>2 DEF AskToLogIn, LoginTypeOK
  <2>4. MembersKept(l)'
    BY <2>1 DEF MembersKept, Asked, AnswersTellTheTruth, vars
  <2>5. TokenOfUser(l)'
    BY <1>1, <2>1 DEF TokenOfUser, AskToLogIn
  <2> QED
    BY <1>0, <2>1, <2>3, <2>4, <2>5
<1>2. ASSUME NEW state \in LoginStates, login[l].state = "asked", login[l] # NotAsked,
             login' = [login EXCEPT ![l].state = state]
      PROVE  /\ login' \in [Logins -> Requested \cup {NotAsked}]
             /\ login'[l] # NotAsked /\ login'[l].state = state
             /\ login'[l].name = login[l].name
             /\ login'[l].password = login[l].password
             /\ login'[l].members = login[l].members
             /\ \A k \in Logins \ {l} : login'[k] = login[k]
  <2>1. login[l] \in Requested
    BY <1>2 DEF LoginTypeOK
  <2>2. login'[l] = [login[l] EXCEPT !.state = state]
    BY <1>2 DEF LoginTypeOK
  <2>3. login'[l] \in Requested
    BY <2>1, <2>2 DEF Requested
  <2>4. login'[l].state = state /\ state # "new"
    BY <2>1, <2>2 DEF Requested, LoginStates
  <2> QED
    BY <1>2, <2>1, <2>2, <2>3, <2>4 DEF LoginTypeOK, NotAsked, Requested
<1>3. login[l].state = "asked" => login[l] # NotAsked
  BY DEF NotAsked
<1>4. CASE LogIn(l)
  <2>1. PICK i \in Credentials(l) :
          /\ PasswordOf[i] = login[l].password
          /\ token' = [token EXCEPT ![l] =
                          [user |-> i, issued |-> now, expires |-> Expiry(now)]]
    BY <1>4 DEF LogIn
  <2>2. i \in Users /\ who[i].username = login[l].name
    BY DEF Credentials
  <2>3. Expiry(now) \in Nat
    BY ExpiryFacts DEF LoginTypeOK
  <2>4. token'[l] = [user |-> i, issued |-> now, expires |-> Expiry(now)]
        /\ token' \in [Logins -> Token \cup {NoToken}]
        /\ \A k \in Logins \ {l} : token'[k] = token[k]
    BY <2>1, <2>2, <2>3 DEF LoginTypeOK, Token
  <2>5. /\ login'[l] # NotAsked /\ login'[l].state = "token"
        /\ login'[l].name = login[l].name /\ login'[l].password = login[l].password
        /\ login'[l].members = login[l].members
        /\ login' \in [Logins -> Requested \cup {NotAsked}]
        /\ \A k \in Logins \ {l} : login'[k] = login[k]
    BY <1>2, <1>3, <1>4 DEF LogIn, LoginStates
  <2>6. UNCHANGED <<vars, now>>
    BY <1>4 DEF LogIn
  <2>7. LoginTypeOK'
    BY <2>4, <2>5, <2>6 DEF LoginTypeOK
  <2>8. MembersKept(l)'
    BY <1>3, <1>4, <2>5, <2>6 DEF MembersKept, LogIn, vars
  <2>9. TokenOfUser(l)'
    BY <2>1, <2>2, <2>4, <2>5, <2>6 DEF TokenOfUser, vars, Expiry, LoginTypeOK
  <2> QED
    BY <1>0, <2>4, <2>5, <2>6, <2>7, <2>8, <2>9
<1>5. CASE RefuseLogIn(l) \/ LogInFails(l)
  <2>1. PICK state \in {"ErrInvalidCredentials", "error"} :
          login' = [login EXCEPT ![l].state = state]
    BY <1>5 DEF RefuseLogIn, LogInFails
  <2>2. /\ login'[l] # NotAsked /\ login'[l].state = state
        /\ login'[l].name = login[l].name /\ login'[l].password = login[l].password
        /\ login'[l].members = login[l].members
        /\ login' \in [Logins -> Requested \cup {NotAsked}]
        /\ \A k \in Logins \ {l} : login'[k] = login[k]
    BY <1>2, <1>3, <1>5, <2>1 DEF RefuseLogIn, LogInFails, LoginStates
  <2>3. UNCHANGED <<vars, now, token>> /\ login[l].state = "asked"
    BY <1>5 DEF RefuseLogIn, LogInFails
  <2>4. LoginTypeOK'
    BY <2>2, <2>3 DEF LoginTypeOK
  <2>5. \A i \in login[l].members : i \in Users
    BY <1>3, <2>3 DEF MembersKept
  <2>6. MembersKept(l)'
    <3>1. CASE RefuseLogIn(l)
      <4>1. \A i \in Credentials(l) : PasswordOf[i] # login[l].password
        BY <3>1 DEF RefuseLogIn
      <4> QED
        BY <2>2, <2>3, <2>5, <4>1 DEF MembersKept, Credentials, vars
    <3>2. CASE LogInFails(l)
      <4>1. login'[l].state = "error"
        BY <2>1, <2>2, <2>3, <3>2, <1>2, <1>3 DEF LogInFails, LoginStates
      <4> QED
        BY <2>2, <2>3, <2>5, <4>1 DEF MembersKept, vars
    <3> QED
      BY <1>5, <3>1, <3>2
  <2>7. TokenOfUser(l)'
    BY <2>2, <2>3 DEF TokenOfUser, vars, Expiry
  <2> QED
    BY <1>0, <2>2, <2>3, <2>4, <2>6, <2>7
<1> QED
  BY <1>1, <1>4, <1>5

LEMMA LoginInvStep ==
    ASSUME LoginInv, TypeOK, RegistrationInv, AnswersTellTheTruth, [SystemNext]_systemVars
    PROVE  LoginInv'
<1> USE DEF LoginInv
<1>1. CASE (Next \/ UNCHANGED vars) /\ UNCHANGED accountVars
  <2>1. \A j \in Users : j \in Users' /\ who'[j] = who[j]
    BY <1>1, UsersStay
  <2>2. LoginTypeOK'
    BY <1>1 DEF LoginTypeOK, accountVars
  <2>3. ASSUME NEW l \in Logins PROVE MembersKept(l)'
    BY <1>1, <2>1, <2>3 DEF MembersKept, accountVars
  <2>4. ASSUME NEW l \in Logins PROVE TokenOfUser(l)'
    BY <1>1, <2>1, <2>4 DEF TokenOfUser, accountVars, Expiry
  <2> QED
    BY <2>2, <2>3, <2>4
<1>2. CASE Tick
  <2>1. now' = now + 1 /\ UNCHANGED <<vars, login, token>>
    BY <1>2 DEF Tick
  <2>2. LoginTypeOK'
    BY <2>1 DEF LoginTypeOK
  <2>3. ASSUME NEW l \in Logins PROVE MembersKept(l)' /\ TokenOfUser(l)'
    <3>1. MembersKept(l)'
      BY <2>1 DEF MembersKept, vars
    <3>2. TokenOfUser(l)'
      BY <2>1, TokenIsNone DEF TokenOfUser, vars, Expiry, LoginTypeOK, Token
    <3> QED
      BY <3>1, <3>2
  <2> QED
    BY <2>2, <2>3
<1> QED
  BY <1>1, <1>2, LoginStep DEF SystemNext, systemVars, accountVars

THEOREM LoginInvariant == SystemSpec => []LoginInv
<1> QED
  BY LoginInit, LoginInvStep, SystemHasRegistration, TypeCorrect, RegistrationInvariant,
     TruthfulAnswers, PTL DEF SystemSpec

(* Whoever was told "created" can log in from then on. *)
THEOREM MembersCanLogIn == SystemSpec => []CreatedCanLogIn
<1>1. LoginInv => CreatedCanLogIn
  BY DEF LoginInv, MembersKept, CreatedCanLogIn, NotAsked
<1> QED
  BY <1>1, LoginInvariant, PTL

(* A token stands for the one user of the name and password that were      *)
(* typed, and that user has all its balance rows.                          *)
THEOREM TokensAreOwners == SystemSpec => []TokensNameOwners
<1>1. LoginInv /\ UsersAreUnique /\ AllOrNothing => TokensNameOwners
  <2> SUFFICES ASSUME LoginInv, UsersAreUnique, AllOrNothing,
                      NEW l \in Logins, NEW i \in Parse(token[l])
               PROVE  /\ i \in Users
                      /\ funds[i] = Currencies
                      /\ PasswordOf[i] = login[l].password
                      /\ {j \in Users : who[j].username = login[l].name} = {i}
    BY DEF TokensNameOwners
  <2>1. i = token[l].user /\ token[l] # NoToken
    BY DEF Parse
  <2>2. i \in Users /\ who[i].username = login[l].name /\ PasswordOf[i] = login[l].password
    BY <2>1 DEF LoginInv, TokenOfUser
  <2>3. funds[i] = Currencies
    BY <2>2 DEF AllOrNothing
  <2>4. ASSUME NEW j \in Users, who[j].username = login[l].name PROVE j = i
    <3>1. "username" \in Columns
      OBVIOUS
    <3>2. who[j]["username"] = who[i]["username"]
      BY <2>2, <2>4
    <3> QED
      BY <2>2, <3>1, <3>2 DEF UsersAreUnique
  <2> QED
    BY <2>2, <2>3, <2>4
<1> QED
  BY <1>1, LoginInvariant, SystemHasRegistration, NoTwoUsersAlike, WholeUsers, PTL

(* A token is good for the time it was promised, less at most a second,    *)
(* and never for longer.                                                   *)
THEOREM TokensExpire == SystemSpec => []TokenLifetime
<1>1. LoginInv => TokenLifetime
  <2> SUFFICES ASSUME LoginInv, NEW l \in Logins, token[l] # NoToken
               PROVE  /\ now + Second <= token[l].issued + TTL => Parse(token[l]) # {}
                      /\ now >= token[l].issued + TTL => Parse(token[l]) = {}
    BY DEF TokenLifetime
  <2>1. token[l].issued \in Nat /\ now \in Nat /\ token[l].expires = Expiry(token[l].issued)
    BY DEF LoginInv, LoginTypeOK, TokenOfUser, Token
  <2>2. /\ token[l].expires \in Nat
        /\ token[l].expires <= token[l].issued + TTL
        /\ token[l].issued + TTL < token[l].expires + Second
    BY <2>1, ExpiryFacts
  <2>3. Second \in Nat /\ TTL \in Nat
    BY AccountsAssumption
  <2>4. /\ now + Second <= token[l].issued + TTL => now < token[l].expires
        /\ now >= token[l].issued + TTL => ~ (now < token[l].expires)
    BY <2>1, <2>2, <2>3
  <2> QED
    BY <2>4 DEF Parse
<1> QED
  BY <1>1, LoginInvariant, PTL
=============================================================================
