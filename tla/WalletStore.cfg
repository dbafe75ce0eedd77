CONSTANTS
    u1 = u1
    u2 = u2
    Users = {u1, u2}
    Registered = {u1}
    NumCurrencies = 2
    MaxBalance = 1
    Ops <- AllOps
    Callers = {t1, t2}
    Sessions = {s1, s2, s3}
    MaxConns = 2
    None = None
SPECIFICATION Spec
SYMMETRY Swaps
INVARIANTS TypeOK NoDeadlock CheckNeverFires NoLeak StoreInv
PROPERTY ImplementsLedger
