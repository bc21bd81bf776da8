CONSTANTS
    Calls = {r1}
    Lists = {r2}
    NoTask = NoTask
    MaxRetries = 3
    MaxInFlight = 2
    MaxStarts = 2
    MaxMisses = 0
    MaxRefusals = 1
SPECIFICATION Spec
INVARIANTS CallsAreSafe AppIsServed
CHECK_DEADLOCK FALSE
