CONSTANTS
    Width = 12
    Wholes <- WholesAroundLimits
    Fractions <- FractionsUpToThree
    Single = 5
    Double = 10
    Decimal = 10
    Prices = {1, 7, 9, 10, 33, 90, 127}
SPECIFICATION SystemSpec
INVARIANTS TypeOK ConvertsAmounts ConversionsAreClose
\* A conversion ends with its result.
CHECK_DEADLOCK FALSE
