CONSTANTS
    g1 = g1
    g2 = g2
    Clients = {g1, g2}
    RUB = RUB
    USD = USD
    Currencies = {RUB, USD}
    low = low
    high = high
    Prices = {low, high}
    NoPrice = NoPrice
    TTL = 1
    Timeout = 1
    MaxTime = 3
    MaxChanges = 1
    MaxOthers = 1
SPECIFICATION SystemSpec
SYMMETRY Swaps
INVARIANTS OneSnapshot FreshRate RatesInv PoolOutlivesHandlers
