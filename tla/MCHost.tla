------------------------------- MODULE MCHost -------------------------------
(***************************************************************************)
(* The processes around the application: the plugin's table of pending     *)
(* evals, its traces, its log ring and its start, the watchdog, the        *)
(* launcher and the console capture it writes, each in a scenario of its   *)
(* own.  They share no variables; the scenario is chosen in the initial    *)
(* state and the others stand still, without fairness.                     *)
(***************************************************************************)
EXTENDS PendingEvals, TraceOwner, Watchdog, LogBuffer, ConsoleCapture, Launcher, AppStart

CONSTANTS a1, a2, p1, p2, u, v,   \* evals and the windows they are sent to
          x, y,                   \* clients of traces
          t1, t2, w1              \* threads that log, a waiter

CONSTANT Scenarios

VARIABLE scenario

hostVars == <<scenario, pendingVars, traceAllVars, watchdogVars, logVars, consoleVars,
              launchVars, startVars>>

AgentSet == {a1, a2}
PageSet == {p1, p2}
Sent == [e \in {a1, a2, p1, p2} |-> IF e \in {a2, p2} THEN v ELSE u]
TraceClients == {x, y}
ThreadSet == {t1, t2}
WaiterSet == {w1}
(* Two applications that share a product name, and one that says nothing.  *)
KindSet == {[identifier |-> "a", product |-> "x"], [identifier |-> "b", product |-> "x"],
            [identifier |-> Absent, product |-> Absent]}

On(name) == scenario = name

(* The choices of a scenario that is not being run do not matter.          *)
HostInit ==
  /\ scenario \in Scenarios
  /\ PendingInit
  /\ TraceInit
  /\ WatchdogInit /\ (On("watchdog") \/ config = [explicit |-> FALSE, app |-> Absent])
  /\ LogInit /\ (On("logs") \/ <<redacting, client>> = <<FALSE, "waits">>)
  /\ ConsoleInit /\ (On("console") \/ reader.kind = "cli")
  /\ LaunchInit
  /\ \/ On("launch")
     \/ setting = [os |-> "unix", terminal |-> FALSE, heedsInt |-> TRUE, heedsTerm |-> TRUE,
                   cleanup |-> 4, held |-> FALSE]
  /\ StartInit
  /\ \/ On("start")
     \/ owner = [p \in PortNumbers |-> "free"]

Pending == On("pending") /\ PendingNext /\
  UNCHANGED <<scenario, traceAllVars, watchdogVars, logVars, consoleVars, launchVars, startVars>>
Trace == On("trace") /\ TraceNext /\
  UNCHANGED <<scenario, pendingVars, watchdogVars, logVars, consoleVars, launchVars, startVars>>
Watching == On("watchdog") /\ WatchdogNext /\
  UNCHANGED <<scenario, pendingVars, traceAllVars, logVars, consoleVars, launchVars, startVars>>
Logging == On("logs") /\ LogNext /\
  UNCHANGED <<scenario, pendingVars, traceAllVars, watchdogVars, consoleVars, launchVars, startVars>>
Capturing == On("console") /\ ConsoleNext /\
  UNCHANGED <<scenario, pendingVars, traceAllVars, watchdogVars, logVars, launchVars, startVars>>
Launching == On("launch") /\ LaunchNext /\
  UNCHANGED <<scenario, pendingVars, traceAllVars, watchdogVars, logVars, consoleVars, startVars>>
Starting == On("start") /\ StartNext /\
  UNCHANGED <<scenario, pendingVars, traceAllVars, watchdogVars, logVars, consoleVars, launchVars>>

HostNext ==
  Pending \/ Trace \/ Watching \/ Logging \/ Capturing \/ Launching \/ Starting

(* The fairness of each specification, in its own scenario.                *)
HostFairness ==
  /\ WF_pendingVars(On("pending") /\ \E e \in Evals : Work(e))
  /\ WF_pendingVars(On("pending") /\ \E j \in Jobs : Retry(j))
  /\ \A c \in Clients : WF_traceAllVars(On("trace") /\ Handler(c))
  /\ \A g \in Generations : WF_traceAllVars(On("trace") /\ Ending(g))
  /\ WF_watchdogVars(On("watchdog") /\ Loop)
  /\ \A t \in Threads : WF_logVars(On("logs") /\ Thread(t))
  /\ \A w \in Waiters : WF_logVars(On("logs") /\ Waiter(w))
  /\ WF_logVars(On("logs") /\ Symbolised)
  /\ WF_launchVars(On("launch") /\ LauncherSteps)
  /\ WF_launchVars(On("launch") /\ Stopper)
  /\ WF_launchVars(On("launch") /\ WatchArms)
  /\ WF_launchVars(On("launch") /\ WatchActs)
  /\ WF_launchVars(On("launch") /\ DueToEnd)
  /\ WF_launchVars(On("launch") /\ Tick)
  /\ WF_startVars(On("start") /\ Build)
  /\ WF_startVars(On("start") /\ SpawnServer)
  /\ WF_startVars(On("start") /\ ServerStep)

HostSpec == HostInit /\ [][HostNext]_hostVars
HostFairSpec == HostSpec /\ HostFairness
-----------------------------------------------------------------------------
(* Nothing in the plugin waits for ever: an agent's eval gets the lock of  *)
(* the table although the application blocks its runtime, a result that    *)
(* was accepted reaches its caller, a trace ends with its recording, and   *)
(* no thread hangs in a log call.                                          *)
PluginGoesOn == AgentsGetTheLock /\ AcceptedIsDelivered /\ TracesEnd /\ LoggersReturn

(* The processes are minded: the watchdog reports a crash and follows a    *)
(* restart, a stop ends the launcher and a killed launcher the app, and a  *)
(* plugin that was set up gets its server.                                 *)
ProcessesAreMinded ==
  CrashIsReported /\ RestartIsFollowed /\ StopsReachTheApp /\ ServersStart
=============================================================================
