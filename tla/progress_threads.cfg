SPECIFICATION Spec
CHECK_DEADLOCK FALSE
CONSTANTS
    Threads = {"t1", "t2"}
    Subscribers = {"u"}
    Amounts = {0, 1, 2}
    Totals = {0, 1, 3, 5}
    steps = 3
    CAP = 2
    MaxCalls = 2
    MaxSets = 1
INVARIANTS
    StepsInRange
    LastStepReceived
