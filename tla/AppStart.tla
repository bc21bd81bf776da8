------------------------------ MODULE AppStart ------------------------------
(***************************************************************************)
(* An application starts its server, and a test waits for it.  The plugin   *)
(* is built and set up, the server is handed to a thread of its own or, if  *)
(* that fails, to the application's runtime; it binds a port, writes its    *)
(* discovery entry and reports the port to on_ready.  TestApp spawns the    *)
(* application (directly, or through a command that starts it as its own    *)
(* child) and polls for the entry of its child's process.  Another          *)
(* application comes and goes meanwhile.                                    *)
(***************************************************************************)
EXTENDS Integers, FiniteSets

CONSTANTS Preferred,  \* the port asked for
          FallbackRange, MaxPort,  \* PORT_FALLBACK_RANGE; the largest port number
          Wrapped,    \* the command runs the application as its own child
          MaxPolls    \* bound: polls of the test

ASSUME AppStartAssumption ==
  /\ MaxPort \in Nat /\ Preferred \in 1..MaxPort /\ FallbackRange \in Nat /\ MaxPolls \in Nat

VARIABLES authOff,  \* the builder was told auth_disabled()
          app,      \* "new", "setup", "runs", "exits", "off" (no plugin), "dead"
          handed,   \* where the server is: "no", "parcel", "thread", "shared"
          server,   \* "none", "binds", "bound", "token", "listed", "serves", "leaving",
                    \* "failed", "stopped"
          tried,    \* ports tried so far
          owner,    \* port -> "free", "reserved", "app", "other"
          entry,    \* the application's discovery entry: its token and its port
          missed,   \* the files of the entry that could not be written
          auth,     \* the token resolved at build, then the one the gate asks for, or "none"
          bound,    \* what the server reported: at "nothing", "failed" or "port"
          ready,    \* the ready task: at "waits", "gave up" or "called", and what on_ready met
          test      \* the test: where it is, what it found, polls, who answered
startVars ==
  <<authOff, app, handed, server, tried, owner, entry, missed, auth, bound, ready, test>>

PortNumbers == 1..MaxPort
NoEntry == [token |-> "none", port |-> 0]
Nobody == [at |-> "nothing", port |-> 0]
AppAlive == app \in {"new", "setup", "runs", "exits", "off"}

StartInit ==
  /\ authOff = FALSE
  /\ app = "new" /\ handed = "no" /\ server = "none" /\ tried = 0
  /\ owner \in [PortNumbers -> {"free", "reserved", "other"}]
  /\ entry = NoEntry /\ missed = {} /\ auth = "none" /\ bound = Nobody
  /\ ready = [at |-> "waits", port |-> 0, owner |-> "none", listed |-> FALSE, app |-> "new"]
  /\ test = [at |-> "polls", port |-> 0, token |-> "none", polls |-> 0, who |-> "none",
             up |-> FALSE]

-----------------------------------------------------------------------------
(***************************************************************************)
(* The token: none if it was disabled, else the builder's, else that of the *)
(* environment, else a generated one.  A blank one is not one; the server,  *)
(* handed a blank one, asks for none at all.                                *)
(***************************************************************************)
(* A mistaken reading: any token that was given counts, a blank one too. *)
WasGiven(token) == token # "none"
IsToken(token) == token \notin {"none", "blank"}
resolve_auth_token(options) ==
  IF options.authOff THEN "none"
  ELSE IF IsToken(options.token) THEN options.token
  ELSE IF IsToken(options.env) THEN options.env
  ELSE "generated"
normalize_auth_token(token) == IF token = "blank" THEN "none" ELSE token

Options == [disable : BOOLEAN, valid : BOOLEAN, authOff : BOOLEAN,
            token : {"none", "blank", "builder"}, env : {"none", "blank", "env"}]
(* VictauriBuilder::build: the kill switch comes before the validation. *)
Build ==
  /\ app = "new"
  /\ \E options \in Options :
       /\ app' = IF options.disable THEN "off" ELSE IF options.valid THEN "setup" ELSE "dead"
       /\ authOff' = options.authOff
       /\ auth' = IF app' = "setup" THEN resolve_auth_token(options) ELSE "none"
  /\ UNCHANGED <<handed, server, tried, owner, entry, missed, bound, ready, test>>

(***************************************************************************)
(* spawn_server_isolated: the server goes to a thread in a parcel; with no  *)
(* runtime of its own, or no thread, to the application's runtime.          *)
(***************************************************************************)
SpawnServer ==
  /\ app = "setup" /\ app' = "runs"
  /\ handed' \in {"parcel", "returned", "shared"}
  /\ UNCHANGED <<authOff, server, tried, owner, entry, missed, auth, bound, ready, test>>
Starts == server' = "binds" /\ auth' = normalize_auth_token(auth)
ThreadTakes ==
  /\ handed = "parcel" /\ handed' = "thread" /\ Starts
  /\ UNCHANGED <<authOff, app, tried, owner, entry, missed, bound, ready, test>>
ParcelComesBack ==
  /\ handed = "returned" /\ handed' = "shared"
  /\ UNCHANGED <<authOff, app, server, tried, owner, entry, missed, auth, bound, ready, test>>
SharedRuns ==
  /\ handed = "shared" /\ server = "none" /\ Starts
  /\ UNCHANGED <<authOff, app, handed, tried, owner, entry, missed, bound, ready, test>>

(***************************************************************************)
(* try_bind_in: the preferred port, the next ones up to the largest port    *)
(* number, then any the system assigns.                                     *)
(***************************************************************************)
Takes(p) == owner' = [owner EXCEPT ![p] = "app"] /\ server' = "bound"
TryBind ==
  /\ server = "binds" /\ tried <= FallbackRange /\ Preferred + tried <= MaxPort
  /\ IF owner[Preferred + tried] = "free" THEN Takes(Preferred + tried) /\ UNCHANGED tried
     ELSE tried' = tried + 1 /\ UNCHANGED <<owner, server>>
  /\ UNCHANGED <<authOff, app, handed, entry, missed, auth, bound, ready, test>>
BindAny ==
  /\ server = "binds" /\ (tried > FallbackRange \/ Preferred + tried > MaxPort)
  /\ \/ \E p \in PortNumbers : owner[p] = "free" /\ Takes(p) /\ UNCHANGED bound
     \/ /\ \A p \in PortNumbers : owner[p] # "free"
        /\ server' = "failed" /\ bound' = [bound EXCEPT !.at = "failed"] /\ UNCHANGED owner
  /\ UNCHANGED <<authOff, app, handed, tried, entry, missed, auth, ready, test>>

OwnPort == CHOOSE p \in PortNumbers : owner[p] = "app"

(***************************************************************************)
(* start_server_reporting_port: the token, then the port, then the report.  *)
(* A file that cannot be written is only logged.  Without a token to ask    *)
(* for, one is generated for the file.                                      *)
(***************************************************************************)
TokenForFile == IF auth = "none" THEN "session" ELSE auth
Writes(field, value) ==
  \/ entry' = [entry EXCEPT ![field] = value] /\ UNCHANGED missed
  \/ missed' = missed \cup {field} /\ UNCHANGED entry
WriteToken ==
  /\ server = "bound" /\ server' = "token"
  /\ Writes("token", TokenForFile)
  /\ UNCHANGED <<authOff, app, handed, tried, owner, auth, bound, ready, test>>
WritePort ==
  /\ server = "token" /\ server' = "listed"
  /\ Writes("port", OwnPort)
  /\ UNCHANGED <<authOff, app, handed, tried, owner, auth, bound, ready, test>>
ReportBound ==
  /\ server = "listed" /\ server' = "serves"
  /\ bound' = [at |-> "port", port |-> OwnPort]
  /\ UNCHANGED <<authOff, app, handed, tried, owner, entry, missed, auth, ready, test>>

(***************************************************************************)
(* The task behind on_ready waits five seconds for the report, and runs on  *)
(* the application's runtime: the server may be gone again when it does.    *)
(***************************************************************************)
OnReady ==
  /\ ready.at = "waits" /\ bound.at = "port"
  /\ ready' = [at |-> "called", port |-> bound.port, owner |-> owner[bound.port],
               listed |-> entry.port = bound.port /\ entry.token # "none", app |-> app]
ReadyEnds ==
  /\ app \in {"runs", "exits"}
  /\ \/ OnReady
     \/ /\ ready.at = "waits" /\ bound.at # "port"  \* told of a failure, or five seconds are over
        /\ ready' = [ready EXCEPT !.at = "gave up"]
  /\ UNCHANGED <<authOff, app, handed, server, tried, owner, entry, missed, auth, bound, test>>

(***************************************************************************)
(* The application exits: the server takes its entry back, whatever the     *)
(* ready task is at, then closes its port.  Or it dies.                     *)
(***************************************************************************)
ReleasePort == owner' = [p \in PortNumbers |-> IF owner[p] = "app" THEN "free" ELSE owner[p]]
Exit ==
  /\ app = "runs" /\ app' = "exits"
  /\ UNCHANGED <<authOff, handed, server, tried, owner, entry, missed, auth, bound, ready, test>>
Unlist ==
  /\ app = "exits" /\ server = "serves"
  /\ server' = "leaving" /\ entry' = NoEntry
  /\ UNCHANGED <<authOff, app, handed, tried, owner, missed, auth, bound, ready, test>>
ServerStops ==
  /\ app = "exits" /\ server = "leaving"
  /\ server' = "stopped" /\ ReleasePort
  /\ UNCHANGED <<authOff, app, handed, tried, entry, missed, auth, bound, ready, test>>
Dies ==
  /\ AppAlive /\ app' = "dead" /\ ReleasePort
  /\ UNCHANGED <<authOff, handed, server, tried, entry, missed, auth, bound, ready, test>>

OtherApp ==
  /\ \E p \in PortNumbers : \/ owner[p] = "free" /\ owner' = [owner EXCEPT ![p] = "other"]
                            \/ owner[p] = "other" /\ owner' = [owner EXCEPT ![p] = "free"]
  /\ UNCHANGED <<authOff, app, handed, server, tried, entry, missed, auth, bound, ready, test>>

-----------------------------------------------------------------------------
(***************************************************************************)
(* TestApp.  The entry looked for is that of the child's process: the       *)
(* application's only when the command did not start it in another.         *)
(***************************************************************************)
Lists == ~Wrapped /\ AppAlive /\ entry.port # 0
discover_actual_connection ==
  IF Lists THEN entry ELSE [port |-> 0, token |-> "none"]

Serves(p) == owner[p] = "other" \/ (owner[p] = "app" /\ server = "serves")
Polls ==
  /\ test.at = "polls"
  /\ test' = IF test.polls = MaxPolls THEN [test EXCEPT !.at = "timed out"]
             ELSE IF ~AppAlive THEN [test EXCEPT !.at = "exited"]
             ELSE LET c == discover_actual_connection
                  IN [test EXCEPT !.at = "asks", !.polls = @ + 1, !.port = c.port, !.token = c.token,
                                  !.up = server = "serves" /\ AppAlive]
  /\ UNCHANGED <<authOff, app, handed, server, tried, owner, entry, missed, auth, bound, ready>>
Answered ==
  /\ test.at = "asks"
  /\ test' = IF test.port # 0 /\ Serves(test.port)
             THEN [test EXCEPT !.at = "ready", !.who = owner[test.port], !.up = app = "runs"]
             ELSE [test EXCEPT !.at = "polls", !.up = @ /\ AppAlive /\ server = "serves"]
  /\ UNCHANGED <<authOff, app, handed, server, tried, owner, entry, missed, auth, bound, ready>>
Drop ==
  /\ test.at \in {"ready", "timed out"} /\ test' = [test EXCEPT !.at = "dropped"]
  /\ app' = IF Wrapped THEN app ELSE "dead"
  /\ IF Wrapped THEN UNCHANGED owner ELSE ReleasePort
  /\ UNCHANGED <<authOff, handed, server, tried, entry, missed, auth, bound, ready>>

ServerStep ==
  /\ app \in {"runs", "exits"}
  /\ \/ ThreadTakes \/ ParcelComesBack \/ SharedRuns \/ TryBind \/ BindAny
     \/ WriteToken \/ WritePort \/ ReportBound
StartNext ==
  \/ Build \/ SpawnServer \/ ServerStep \/ ReadyEnds
  \/ Exit \/ Unlist \/ ServerStops \/ Dies \/ OtherApp
  \/ Polls \/ Answered \/ Drop

(***************************************************************************)
(* The plugin's own steps are taken; nobody need exit, die or come.         *)
(***************************************************************************)
StartFairness ==
  WF_startVars(Build) /\ WF_startVars(SpawnServer) /\ WF_startVars(ServerStep)
StartSpec == StartInit /\ [][StartNext]_startVars /\ StartFairness

-----------------------------------------------------------------------------
(***************************************************************************)
(* Called before the application began to exit, on_ready names a port that  *)
(* is the application's and, unless its files could not be written, listed. *)
(***************************************************************************)
OnReadyIsOurs ==
  ready.at = "called" /\ ready.app = "runs" => ready.owner = "app" /\ (missed = {} => ready.listed)
(* The gate is open only on request: no blank token opens it. *)
AuthIsOn == server \in {"serves", "leaving"} /\ auth = "none" => authOff
(* While its child runs, what a test found is the child's server and token. *)
TestsDriveTheirChild ==
  test.at = "ready" /\ test.up =>
    test.who = "app" /\ (auth # "none" /\ "token" \notin missed => test.token = auth)
(***************************************************************************)
(* A test that gives up does so on an application that was not serving when *)
(* it last looked, or could not be listed.                                  *)
(***************************************************************************)
TimeoutsAreTrue == test.at = "timed out" /\ missed = {} => ~test.up

(***************************************************************************)
(* Whatever fails on the way and whoever holds the ports: on_ready names a  *)
(* port that is the application's and listed, unless the exit came first,   *)
(* the server asks for a token unless that was disabled, the one it is      *)
(* listed with, and a test drives the application it started, or none, and  *)
(* does not give up on one that serves.                                     *)
(***************************************************************************)
StartIsSound ==
  OnReadyIsOurs /\ AuthIsOn /\ TestsDriveTheirChild /\ (Wrapped \/ TimeoutsAreTrue)

(***************************************************************************)
(* A plugin that is set up gets its server: it serves, has no port left to  *)
(* bind, or the application is gone.                                        *)
(***************************************************************************)
ServersStart ==
  []<>(app \in {"setup", "runs", "exits"} =>
         server \in {"serves", "failed", "leaving", "stopped"})
=============================================================================
