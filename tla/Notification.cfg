CONSTANTS
    Ids = {e1, e2}
    Broken = {broken}
    Invalid = {invalid}
    BatchSize = 2
    MaxLog = 3
    MaxFaults = 3
    WriteErrors = {"other"}
SPECIFICATION FairSpec
INVARIANT LostOnlyBesideDuplicate
PROPERTIES ImplementsDelivery EventuallySaved CatchesUp
\* With MaxLog messages consumed, the consumer waits for the next one for ever.
CHECK_DEADLOCK FALSE
