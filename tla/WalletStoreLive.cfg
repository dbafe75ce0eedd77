CONSTANTS
    u1 = u1
    u2 = u2
    Users = {u1}
    Registered = {u1}
    NumCurrencies = 2
    MaxBalance = 1
    Ops <- LiveOps
    Callers = {t1, t2}
    Sessions = {s1, s2}
    MaxConns = 2
    None = None
SPECIFICATION FairSpec
PROPERTY CallsReturn
