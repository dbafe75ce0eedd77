------------------------------- MODULE Accounts -------------------------------
(***************************************************************************)
(* Logging in (internal/usecase/auth.go, internal/auth/token.go) beside    *)
(* the signups of Registration, and the token that AuthMiddleware asks for *)
(* on every request after that.                                            *)
(*                                                                         *)
(* A log-in reads the user of a name, compares the password and issues a   *)
(* token.  A name may be typed with blanks around it.  Time is discrete,   *)
(* with Second instants to a second, because a token carries whole seconds.*)
(* That a password matches only its own hash, and that no token but the    *)
(* service's passes the check of its signature, is taken from bcrypt and   *)
(* JWT.  Input that Validate refuses changes nothing and is left out.      *)
(***************************************************************************)
EXTENDS Registration

CONSTANTS
    Logins,         \* requests to log in
    Passwords,      \* passwords one may type
    PasswordOf,     \* the password of each signup
    TTL,            \* JWT_TOKEN_TTL_MINUTES, in instants
    Second,         \* how many instants a second has
    MaxTime         \* bound: the last instant

ASSUME AccountsAssumption ==
    /\ PasswordOf \in [Signups -> Passwords]
    /\ Second \in Nat \ {0}
    /\ TTL \in Nat \ {0} /\ TTL % Second = 0
    /\ MaxTime \in Nat

VARIABLES
    now,            \* the time
    login,          \* what became of each request to log in
    token           \* the token each was answered with

accountVars == <<now, login, token>>
systemVars == <<vars, accountVars>>

NotAsked == [state |-> "new"]
NoToken == [user |-> "nobody"]

(* members: the signups that had been answered "created" when it began. *)
Asked(name, blanks, password, members) ==
    [state |-> "asked", name |-> name, blanks |-> blanks,
     password |-> password, members |-> members]

SystemInit ==
    /\ Init
    /\ now \in 0..(Second - 1)
    /\ login = [l \in Logins |-> NotAsked]
    /\ token = [l \in Logins |-> NoToken]

(* A defect: the name is looked up as it was typed. *)
CredentialsAsTyped(l) ==
    {i \in Users : who[i].username = login[l].name /\ ~ login[l].blanks}

(* The user of that name, if there is one: Register and Login both trim    *)
(* the blanks. *)
Credentials(l) == {i \in Users : who[i].username = login[l].name}

AskToLogIn(l, name, blanks, password) ==
    /\ login[l] = NotAsked
    /\ login' = [login EXCEPT ![l] =
                    Asked(name, blanks, password,
                          {i \in Signups : answer[i] = "created"})]
    /\ UNCHANGED <<vars, now, token>>

(* A defect: the end is rounded up to a whole second. *)
ExpiryRoundedUp(t) == ((t + TTL + Second - 1) \div Second) * Second

(* ExpiresAt: NewNumericDate drops the fraction of a second. *)
Expiry(t) == ((t + TTL) \div Second) * Second

(* A defect: the comparison's error is not looked at. *)
LogInAnyway(l) ==
    /\ login[l].state = "asked"
    /\ \E i \in Credentials(l) :
         token' = [token EXCEPT ![l] =
                      [user |-> i, issued |-> now, expires |-> Expiry(now)]]
    /\ login' = [login EXCEPT ![l].state = "token"]
    /\ UNCHANGED <<vars, now>>

LogIn(l) ==
    /\ login[l].state = "asked"
    /\ \E i \in Credentials(l) :
         /\ PasswordOf[i] = login[l].password
         /\ token' = [token EXCEPT ![l] =
                         [user |-> i, issued |-> now, expires |-> Expiry(now)]]
    /\ login' = [login EXCEPT ![l].state = "token"]
    /\ UNCHANGED <<vars, now>>

RefuseLogIn(l) ==
    /\ login[l].state = "asked"
    /\ \A i \in Credentials(l) : PasswordOf[i] # login[l].password
    /\ login' = [login EXCEPT ![l].state = "ErrInvalidCredentials"]
    /\ UNCHANGED <<vars, now, token>>

(* The storage does not answer. *)
LogInFails(l) ==
    /\ login[l].state = "asked"
    /\ login' = [login EXCEPT ![l].state = "error"]
    /\ UNCHANGED <<vars, now, token>>

(* A token is all the service looks at: whether it is still good.  Time    *)
(* makes no difference before there is one. *)
Tick ==
    /\ \E l \in Logins : token[l] # NoToken
    /\ now < MaxTime
    /\ now' = now + 1
    /\ UNCHANGED <<vars, login, token>>

SystemNext ==
    \/ Next /\ UNCHANGED accountVars
    \/ \E l \in Logins :
         \/ \E name \in Names, blanks \in BOOLEAN, password \in Passwords :
              AskToLogIn(l, name, blanks, password)
         \/ LogIn(l) \/ RefuseLogIn(l) \/ LogInFails(l)
    \/ Tick

SystemSpec == SystemInit /\ [][SystemNext]_systemVars /\ Fairness

(* The user Parse finds in a token, if it accepts it. *)
Parse(t) == IF t # NoToken /\ now < t.expires THEN {t.user} ELSE {}

(***************************************************************************)
(* Properties.                                                             *)
(***************************************************************************)
(* Whoever was told "created" can log in from then on: no request that     *)
(* began later and typed that name and password, blanks or not, is         *)
(* answered with "invalid username or password".                           *)
CreatedCanLogIn ==
    \A l \in Logins : login[l].state = "ErrInvalidCredentials" =>
        \A i \in login[l].members :
            \/ who[i].username # login[l].name
            \/ PasswordOf[i] # login[l].password

(* A token stands for the one user who has the name and the password that  *)
(* were typed, and that user has all its balance rows: no operation a      *)
(* token admits is answered with "user not found", whatever other signups  *)
(* for that name were under way when it was issued.                        *)
TokensNameOwners ==
    \A l \in Logins : \A i \in Parse(token[l]) :
        /\ i \in Users
        /\ funds[i] = Currencies
        /\ PasswordOf[i] = login[l].password
        /\ {j \in Users : who[j].username = login[l].name} = {i}

(* A token is good for the time it was promised, but for the last second,  *)
(* which rounding may take away, and never for longer.                     *)
TokenLifetime ==
    \A l \in Logins : token[l] # NoToken =>
        /\ now + Second <= token[l].issued + TTL => Parse(token[l]) # {}
        /\ now >= token[l].issued + TTL => Parse(token[l]) = {}
=============================================================================
