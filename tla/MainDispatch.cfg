SPECIFICATION FairSpec
CONSTANTS
    NoCall = NoCall
    Calls = {c1, c2, c3}
    MaxTimeout = 1
    Grace = 1
INVARIANTS OneInFlight VerdictsAreTrue ReturnsInTime
PROPERTIES Implements EveryCallReturns
CHECK_DEADLOCK FALSE
