SPECIFICATION HostSpec
CONSTANTS
    Scenarios = {"pending", "trace", "watchdog", "logs", "console", "launch", "start"}
    a1 = a1
    a2 = a2
    p1 = p1
    p2 = p2
    u = u
    v = v
    NoWindow = NoWindow
    Free = Free
    Agents <- AgentSet
    PageEvals <- PageSet
    WindowOf <- Sent
    MaxPending = 2
    MaxPage = 1
    MaxPerWindow = 1
    None = None
    x = x
    y = y
    Clients <- TraceClients
    MaxEvents = 1
    MaxCheckpoints = 1
    MaxFrames = 1
    MaxOps = 4
    Absent = Absent
    Default = 7373
    Ports = {7373, 7374}
    Pids = {1, 2, 3}
    AppKinds <- KindSet
    Selections = {"x", Absent}
    MaxFailures = 1
    t1 = t1
    t2 = t2
    w1 = w1
    NoThread = NoThread
    NoCursor = NoCursor
    Threads <- ThreadSet
    Waiters <- WaiterSet
    RingCapacity = 2
    PageLimit = 1
    MaxBacktraces = 1
    MaxLogs = 3
    NoFile = 0
    FileCapacity = 2
    Window = 2
    AnswerLimit = 1
    ReaderKinds = {"plugin", "cli"}
    MaxRecords = 6
    MaxFiles = 4
    MaxFaults = 1
    STOP_ECHO = 1
    STOP_GRACE = 2
    STOP_GRACE_TERMINAL = 3
    STOP_KILL_AFTER = 2
    DrainFor = 1
    Cleanups = {1, 4}
    MaxSignals = 2
    Unset = Unset
    Preferred = 2
    FallbackRange = 2
    MaxPort = 3
    Wrapped = FALSE
    MaxPolls = 2
INVARIANTS TableIsShared TracesOwnTheirs NeverSwitches LogIsFollowed LaunchersKeepTheirWord StartIsSound
CHECK_DEADLOCK FALSE
