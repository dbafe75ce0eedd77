CONSTANTS
    i1 = i1
    i2 = i2
    Signups = {i1, i2}
    Names = {"n1", "n2"}
    Emails = {"e1", "e2"}
    Currencies = {"EUR", "RUB"}
    Logins = {l1}
    Passwords = {"p1", "p2"}
    PasswordOf <- TwoPasswords
    TTL = 2
    Second = 2
    MaxTime = 5
SPECIFICATION SystemSpec
INVARIANTS UsersAreUnique AllOrNothing AnswersTellTheTruth RegistrationInv CreatedCanLogIn TokensNameOwners TokenLifetime
PROPERTY SignupsAreAnswered
\* Once every signup is answered and settled, there is nothing left to do.
CHECK_DEADLOCK FALSE
