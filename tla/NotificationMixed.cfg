CONSTANTS
    Ids = {e1, e2}
    Broken = {}
    Invalid = {}
    BatchSize = 2
    MaxLog = 3
    MaxFaults = 1
    WriteErrors = {"other"}
SPECIFICATION Spec
INVARIANT AckedAreSaved
\* With MaxLog messages consumed, the consumer waits for the next one for ever.
CHECK_DEADLOCK FALSE
