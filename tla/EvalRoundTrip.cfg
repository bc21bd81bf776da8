SPECIFICATION FairSpec
CONSTANTS
    NoNonce = NoNonce
    NoPage = NoPage
    Calls = {c1}
    Bridged = {p1, p2}
    Plain = {q}
    First = p1
    BfCache = FALSE
    MaxNavs = 2
    MaxForged = 1
    MaxProbes = 1
INVARIANT AnswersAreTrue
PROPERTY EveryCallEnds
CHECK_DEADLOCK FALSE
