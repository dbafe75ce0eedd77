CONSTANTS
    Ids = {e1, e2}
    Broken = {broken}
    Invalid = {invalid}
    BatchSize = 2
    MaxLog = 3
    MaxFaults = 3
    NoDoc = NoDoc
SPECIFICATION FairSpec
INVARIANTS NoEventLost EveryCopyCounted OverCountNeedsFault
PROPERTIES ImplementsDelivery EventuallyRecorded CatchesUp
\* With MaxLog messages consumed, the consumer waits for the next one for ever.
CHECK_DEADLOCK FALSE
