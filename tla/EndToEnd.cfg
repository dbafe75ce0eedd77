CONSTANTS
    u1 = u1
    Users = {u1}
    Registered = {u1}
    NumCurrencies = 2
    MaxBalance = 3
    Ops <- StoreOps
    Callers = {t1}
    Slots = {s1, s2}
    Requests <- AllRequests
    Rub = 2
    Prices = {1, 3}
    Threshold = 3
    MaxOps = 2
    Faults = {}
SPECIFICATION SystemSpec
INVARIANT BooksBalance
PROPERTIES EveryOperationRecorded LargeOnesConfirmed
\* After MaxOps operations the clients ask for nothing more.
CHECK_DEADLOCK FALSE
