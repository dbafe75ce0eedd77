CONSTANTS
    u1 = u1
    Users = {u1}
    Registered = {u1}
    NumCurrencies = 2
    MaxBalance = 3
    Ops <- StoreOps
    Callers = {t1, t2}
    Slots = {s1, s2}
    Requests <- MoneyRequests
    Rub = 2
    Prices = {1, 3}
    Threshold = 3
    MaxOps = 2
    Faults = {"rate", "kafka", "sigterm", "slow", "crash"}
SPECIFICATION Spec
SYMMETRY Swaps
INVARIANTS ServiceTypeOK AtMostOnce AnswersTellTheTruth EventsTellTheTruth ShutdownIsGraceful
