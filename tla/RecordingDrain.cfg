SPECIFICATION Spec
CONSTANTS
    None = None
    MaxEvents = 10
    MaxCheckpoints = 10
    Clients = {c1, c2}
    Windows = {w1}
    Kinds = {"start", "stop", "checkpoint", "flush", "import"}
    BfCache = FALSE
    MaxOps = 3
    MaxTime = 1
    MaxVisits = 2
SYMMETRY ClientSymmetry
INVARIANTS RecordingsAreFaithful ReadsAddUp
CHECK_DEADLOCK FALSE
