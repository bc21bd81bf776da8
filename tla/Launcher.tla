------------------------------ MODULE Launcher ------------------------------
(***************************************************************************)
(* `victauri run -- <app>` (victauri-cli run.rs): the launcher starts the  *)
(* app, waits for it and records how it ended.  Stopping the launcher has  *)
(* to stop the app, though the launcher may be stopped by a signal that    *)
(* the app got too, by the same signal twice, or by SIGKILL, and the app   *)
(* may clean up on its own, ignore SIGTERM, or leave processes behind that *)
(* hold its output open.  On Unix a thread forwards a stop and a helper    *)
(* shell watches for the launcher's death; on Windows a job object does.   *)
(*                                                                         *)
(* Time is counted in ticks.  Whoever waits may wake late; the launcher's  *)
(* own start, and an app that is due to end, take less than a tick.        *)
(***************************************************************************)
EXTENDS Naturals, ConsoleCapture

CONSTANTS STOP_ECHO, STOP_GRACE, STOP_GRACE_TERMINAL, STOP_KILL_AFTER,  \* in ticks
          DrainFor,       \* ticks the output of an ended app is waited for
          Cleanups,       \* ticks an app may take to end on its own copy of a stop
          MaxSignals,     \* bound: stops sent
          Unset

ASSUME LauncherAssumption ==
    /\ STOP_ECHO \in Nat \ {0} /\ STOP_GRACE \in Nat /\ STOP_GRACE_TERMINAL \in Nat
    /\ STOP_ECHO < STOP_GRACE /\ STOP_GRACE =< STOP_GRACE_TERMINAL
    /\ STOP_KILL_AFTER \in Nat /\ DrainFor \in Nat /\ Cleanups \subseteq Nat
    /\ Unset \notin Nat

VARIABLES setting,    \* the platform, a terminal or not, the app's manners
          child,      \* the app: its state, the ticks it still needs, what ended it, its own stop
          pid,        \* what its pid stands for
          launcher,   \* where the launcher is, the ticks it still waits, what it recorded
          stored,     \* child_pid: the pid a signal may go to
          echo,       \* ticks since the first stop (up to STOP_ECHO), or None
          signals,    \* stops sent
          late,       \* one came after the echo of the first
          stopper,    \* the thread of the first stop
          again,      \* the handler of a later one
          watch,      \* the helper shell, or the job
          ours,       \* signals this side sent to the app
          strays      \* and to a process that is not the app

launchVars == <<setting, child, pid, launcher, stored, echo, signals, late, stopper, again, watch, ours, strays>>

Unix == setting.os = "unix"
Grace == IF setting.terminal THEN STOP_GRACE_TERMINAL ELSE STOP_GRACE
LauncherAlive == launcher.at \notin {"ended", "failed", "killed"}

LaunchInit ==
    /\ setting \in [os : {"unix", "windows"}, terminal : BOOLEAN, heedsInt : BOOLEAN, heedsTerm : BOOLEAN,
                    cleanup : Cleanups, held : BOOLEAN]
    /\ child = [state |-> "none", left |-> 0, by |-> Unset, heard |-> FALSE]
    /\ pid = "free"
    /\ launcher = [at |-> "spawn", left |-> 0, recorded |-> Unset]
    /\ stored = FALSE
    /\ echo = Unset
    /\ signals = 0
    /\ late = FALSE
    /\ stopper = [at |-> "idle", left |-> 0, pid |-> FALSE]
    /\ again = "idle"
    /\ watch = [at |-> "none", left |-> 0]
    /\ ours = {}
    /\ strays = {}

----------------------------------------------------------------------------
(* run: the app is started, its pid stored, the helper started. *)
SpawnApp ==
    /\ launcher.at = "spawn"
    /\ \/ /\ child' = [child EXCEPT !.state = "running"]
          /\ pid' = "child"
          /\ launcher' = [launcher EXCEPT !.at = IF Unix THEN "store" ELSE "guard"]
       \/ /\ launcher' = [launcher EXCEPT !.at = "failed"]
          /\ UNCHANGED <<child, pid>>
    /\ UNCHANGED <<setting, stored, echo, signals, late, stopper, again, watch, ours, strays>>

StorePid ==
    /\ launcher.at = "store"
    /\ stored' = TRUE
    /\ launcher' = [launcher EXCEPT !.at = "guard"]
    /\ UNCHANGED <<setting, child, pid, echo, signals, late, stopper, again, watch, ours, strays>>

(* DeathWatch::start, KillOnCloseJob::assign: best effort. *)
StartGuard ==
    /\ launcher.at = "guard"
    /\ watch' \in {watch, [watch EXCEPT !.at = IF Unix THEN "starting" ELSE "armed"]}
    /\ launcher' = [launcher EXCEPT !.at = "wait"]
    /\ UNCHANGED <<setting, child, pid, stored, echo, signals, late, stopper, again, ours, strays>>

(* The helper has set its traps. *)
WatchArms ==
    /\ watch.at = "starting"
    /\ watch' = [watch EXCEPT !.at = "armed"]
    /\ UNCHANGED <<setting, child, pid, launcher, stored, echo, signals, late, stopper, again, ours, strays>>

(* wait() reaps the app: from here on its pid may be another process's. *)
Reap ==
    /\ launcher.at = "wait"
    /\ pid = "zombie"
    /\ pid' = "free"
    /\ launcher' = [launcher EXCEPT !.at = "clear"]
    /\ UNCHANGED <<setting, child, stored, echo, signals, late, stopper, again, watch, ours, strays>>

ClearPid ==
    /\ launcher.at = "clear"
    /\ stored' = FALSE
    /\ launcher' = [launcher EXCEPT !.at = "disarm"]
    /\ UNCHANGED <<setting, child, pid, echo, signals, late, stopper, again, watch, ours, strays>>

Disarm ==
    /\ launcher.at = "disarm"
    /\ watch' = [watch EXCEPT !.at = "none"]
    /\ launcher' = [launcher EXCEPT !.at = "drain", !.left = DrainFor]
    /\ UNCHANGED <<setting, child, pid, stored, echo, signals, late, stopper, again, ours, strays>>

(* The pumps see the end of the output, or the deadline passes with it held open. *)
RecordExit ==
    /\ launcher.at = "drain"
    /\ ~setting.held \/ launcher.left = 0
    /\ launcher' = [at |-> "ended", left |-> 0, recorded |-> child.by]
    /\ UNCHANGED <<setting, child, pid, stored, echo, signals, late, stopper, again, watch, ours, strays>>

----------------------------------------------------------------------------
(* The app. *)
Ended(by) ==
    /\ child' = [child EXCEPT !.state = "dead", !.left = 0, !.by = by]
    /\ pid' = IF LauncherAlive THEN "zombie" ELSE "free"

ChildEnds ==
    /\ child.state = "running" \/ (child.state = "stopping" /\ child.left = 0)
    /\ Ended("itself")
    /\ UNCHANGED <<setting, launcher, stored, echo, signals, late, stopper, again, watch, ours, strays>>

(* Another process gets the pid. *)
PidReused ==
    /\ pid = "free"
    /\ child.state = "dead"
    /\ pid' = "other"
    /\ UNCHANGED <<setting, child, launcher, stored, echo, signals, late, stopper, again, watch, ours, strays>>

(* kill -s signal pid, with whatever the pid stands for by now. *)
DeliverStop(signal) ==
    /\ IF pid = "child" /\ (signal = "KILL" \/ setting.heedsTerm) THEN Ended(signal)
       ELSE UNCHANGED <<child, pid>>
    /\ ours' = IF pid = "child" THEN ours \cup {signal} ELSE ours
    /\ strays' = IF pid = "other" THEN strays \cup {signal} ELSE strays

----------------------------------------------------------------------------
(* on_stop_signal.  A stop may go to the whole group, the app and the helper included. *)
ChildHears == child.state = "running" /\ setting.heedsInt

(* A further stop this soon after the first is the same one. *)
Echoes == echo < STOP_ECHO

StopSignal(group) ==
    /\ LauncherAlive
    /\ signals < MaxSignals
    /\ signals' = signals + 1
    /\ IF echo = Unset
       THEN /\ echo' = 0
            /\ stopper' = IF Unix THEN [at |-> "grace", left |-> Grace, pid |-> FALSE] ELSE stopper
            /\ UNCHANGED <<again, late>>
       ELSE /\ again' = IF Unix /\ ~Echoes THEN "load" ELSE again
            /\ late' = (late \/ echo >= STOP_ECHO)
            /\ UNCHANGED <<echo, stopper>>
    /\ child' = IF group /\ ChildHears THEN [child EXCEPT !.state = "stopping", !.left = setting.cleanup, !.heard = TRUE]
                ELSE child
    /\ watch' = IF group /\ watch.at = "starting" THEN [watch EXCEPT !.at = "none"] ELSE watch
    /\ UNCHANGED <<setting, pid, launcher, stored, ours, strays>>

(* A later stop: SIGKILL at once, to the pid stored. *)
Again ==
    /\ LauncherAlive
    /\ \/ /\ again = "load"
          /\ again' = IF stored THEN "send" ELSE "idle"
          /\ UNCHANGED <<child, pid, ours, strays>>
       \/ /\ again = "send"
          /\ again' = "idle"
          /\ DeliverStop("KILL")
    /\ UNCHANGED <<setting, launcher, stored, echo, signals, late, stopper, watch>>

AfterTerm == [stopper EXCEPT !.at = "waiting", !.left = STOP_KILL_AFTER]

(* The thread: SIGTERM after the grace, SIGKILL later; each reads the pid, then sends. *)
Stopper ==
    /\ LauncherAlive
    /\ \/ /\ stopper.at \in {"grace", "waiting"}
          /\ stopper.left = 0
          /\ stopper' = [at |-> IF stopper.at = "grace" THEN "term" ELSE "kill", left |-> 0, pid |-> stored]
          /\ UNCHANGED <<child, pid, ours, strays>>
       \/ /\ stopper.at = "term"
          /\ stopper' = AfterTerm
          /\ IF stopper.pid THEN DeliverStop("TERM") ELSE UNCHANGED <<child, pid, ours, strays>>
       \/ /\ stopper.at = "kill"
          /\ stopper' = [stopper EXCEPT !.at = "done"]
          /\ IF stopper.pid THEN DeliverStop("KILL") ELSE UNCHANGED <<child, pid, ours, strays>>
    /\ UNCHANGED <<setting, launcher, stored, echo, signals, late, again, watch>>

----------------------------------------------------------------------------
(* SIGKILL, or TerminateProcess.  An app that had already ended is reaped by init. *)
KillLauncher ==
    /\ LauncherAlive
    /\ launcher' = [launcher EXCEPT !.at = "killed"]
    /\ pid' = IF pid = "zombie" THEN "free" ELSE pid
    /\ UNCHANGED <<setting, child, stored, echo, signals, late, stopper, again, watch, ours, strays>>

(* The helper's read returns, and the job's last handle closes, when the launcher is gone. *)
WatchActs ==
    /\ launcher.at = "killed"
    /\ \/ /\ ~Unix /\ watch.at = "armed"
          /\ watch' = [watch EXCEPT !.at = "none"]
          /\ IF child.state \in {"running", "stopping"} THEN Ended("KILL") ELSE UNCHANGED <<child, pid>>
          /\ UNCHANGED <<ours, strays>>
       \/ /\ Unix /\ watch.at = "armed"
          /\ watch' = IF pid = "free" THEN [watch EXCEPT !.at = "none"]
                      ELSE [at |-> "loop", left |-> STOP_KILL_AFTER]
          /\ DeliverStop("TERM")
       \/ /\ watch.at = "loop"
          /\ pid = "free" \/ watch.left = 0
          /\ watch' = [watch EXCEPT !.at = "none"]
          /\ IF pid = "free" THEN UNCHANGED <<child, pid, ours, strays>> ELSE DeliverStop("KILL")
    /\ UNCHANGED <<setting, launcher, stored, echo, signals, late, stopper, again>>

----------------------------------------------------------------------------
Down(n) == IF n > 0 THEN n - 1 ELSE 0
Running == stopper.left > 0 \/ child.left > 0 \/ launcher.left > 0 \/ watch.left > 0
           \/ (echo # Unset /\ echo < STOP_ECHO)

(* A tick passes once what takes no time is done. *)
Tick ==
    /\ Running
    /\ launcher.at \notin {"spawn", "store", "guard"}
    /\ ~(child.state = "stopping" /\ child.left = 0)
    /\ stopper' = [stopper EXCEPT !.left = Down(@)]
    /\ child' = [child EXCEPT !.left = Down(@)]
    /\ launcher' = [launcher EXCEPT !.left = Down(@)]
    /\ watch' = [watch EXCEPT !.left = Down(@)]
    /\ echo' = IF echo # Unset /\ echo < STOP_ECHO THEN echo + 1 ELSE echo
    /\ UNCHANGED <<setting, pid, stored, signals, late, again, ours, strays>>

LauncherSteps == SpawnApp \/ StorePid \/ StartGuard \/ Reap \/ ClearPid \/ Disarm \/ RecordExit
DueToEnd == child.state = "stopping" /\ child.left = 0 /\ ChildEnds

LaunchNext ==
    \/ LauncherSteps
    \/ ChildEnds \/ PidReused \/ WatchArms
    \/ \E group \in BOOLEAN : StopSignal(group)
    \/ Again \/ Stopper \/ KillLauncher \/ WatchActs
    \/ Tick

LaunchFairness ==
    /\ WF_launchVars(LauncherSteps)
    /\ WF_launchVars(Stopper)
    /\ WF_launchVars(WatchArms)
    /\ WF_launchVars(WatchActs)
    /\ WF_launchVars(DueToEnd)
    /\ WF_launchVars(Tick)

LaunchSpec == LaunchInit /\ [][LaunchNext]_launchVars /\ LaunchFairness

----------------------------------------------------------------------------
(* An app that has its own copy of the stop and cleans up within the grace is left alone, *)
(* even when the stop arrives twice (run.rs, on_stop_signal).                             *)
CleanStopsAreLeftAlone ==
    child.heard /\ setting.cleanup + STOP_ECHO <= STOP_GRACE /\ ~late /\ launcher.at # "killed" =>
        ours = {} /\ child.by \in {Unset, "itself"}

(* A stop ends the launcher, whatever the app ignores or leaves holding its output; and an *)
(* app whose launcher is killed, once guarded, ends too (run.rs, DeathWatch).              *)
StopsReachTheApp ==
    /\ []<>(Unix /\ echo # Unset => ~LauncherAlive)
    /\ []<>(launcher.at = "killed" /\ watch.at # "none" => child.state \in {"none", "dead"})

(* A launcher keeps its word: its capture can be followed, and an app that got its own copy *)
(* of a stop is left to end by itself (run.rs).                                             *)
LaunchersKeepTheirWord == CaptureIsFollowed /\ CleanStopsAreLeftAlone
============================================================================
