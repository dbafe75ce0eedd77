CONSTANTS
    Width = 12
    Wholes <- WholesAroundLimits
    Fractions <- FractionsUpToThree
    Single = 5
    Double = 10
    Decimal = 10
    Prices = {}
SPECIFICATION SystemSpec
INVARIANT AcceptedAmountsAreExact
\* A conversion ends with its result.
CHECK_DEADLOCK FALSE
