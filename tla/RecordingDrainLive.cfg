SPECIFICATION FairSpec
CONSTANTS
    None = None
    MaxEvents = 10
    MaxCheckpoints = 10
    Clients = {c1}
    Windows = {w1, w2}
    Kinds = {"start"}
    BfCache = TRUE
    MaxOps = 1
    MaxTime = 1
    MaxVisits = 2
PROPERTY CapturedIsRecorded
