------------------------------- MODULE Watchdog -------------------------------
(***************************************************************************)
(* The crash-recovery sidecar (victauri-watchdog main.rs).  It resolves an *)
(* application through the discovery entries that running applications     *)
(* publish, pins its identity, polls it, follows it to a new process or    *)
(* port while polls fail, and runs a recovery command once per outage.     *)
(* Meanwhile applications start, hang, recover, exit and crash (a crash    *)
(* leaves its entry behind), and ports pass from one to another.           *)
(*                                                                         *)
(* A process id is used once: the watchdog cannot tell a recycled one.     *)
(***************************************************************************)
EXTENDS Naturals, FiniteSets

CONSTANTS Pids, Ports,
          Default,     \* DEFAULT_PORT
          AppKinds,       \* applications: [identifier, product], either may be None
          Selections,  \* values of --app, None for no selection
          Absent,
          MaxFailures  \* VICTAURI_MAX_FAILURES

ASSUME WatchdogAssumption ==
    /\ Default \in Ports
    /\ Pids \subseteq Nat
    /\ Absent \notin Pids /\ Absent \notin AppKinds
    /\ MaxFailures \in Nat \ {0}     \* MIN_MAX_FAILURES

VARIABLES
    kind, port,  \* what each process that ran is, and where it listens
    alive,       \* running processes
    healthy,     \* those that answer /health
    entries,     \* processes with a discovery entry
    config,      \* explicit port, --app
    selector, target, failures, fired,   \* the watchdog's locals
    loopAt,          \* where its loop is
    watched      \* what was resolved first (history)

appVars == <<kind, port, alive, healthy, entries>>
dogVars == <<config, selector, target, failures, fired, loopAt, watched>>
watchdogVars == <<appVars, dogVars>>

IdentityOf(p) == IF kind[p].identifier # Absent THEN kind[p].identifier ELSE kind[p].product

Any == [by |-> "any"]
App(name) == [by |-> "app", name |-> name]
Pinned(name) == [by |-> "pinned", name |-> name]
Pid(p) == [by |-> "pid", pid |-> p]

(* Selector::matches.  A pinned name is an identifier where there is one. *)
SelectorMatches(s, p) ==
    \/ s.by = "any"
    \/ s.by = "app" /\ s.name \in {kind[p].identifier, kind[p].product}
    \/ s.by = "pinned" /\ s.name = IdentityOf(p)
    \/ s.by = "pid" /\ s.pid = p

(* Selector::pin: an application that says nothing of itself is its process. *)
PinTo(s, p) ==
    IF s.by = "pinned" THEN s
    ELSE IF IdentityOf(p) # Absent THEN Pinned(IdentityOf(p)) ELSE Pid(p)

(* discover_in_roots: the live entries that match; an entry whose process is
   gone is skipped, and of several none is taken.                          *)
Candidates(s) == {p \in entries \cap alive : SelectorMatches(s, p)}
Discovered(s) ==
    IF Cardinality(Candidates(s)) = 1 THEN CHOOSE p \in Candidates(s) : TRUE ELSE Absent

TargetOf(p) == [port |-> port[p], pid |-> p]
Portless == [port |-> Absent, pid |-> Absent]

(* initial_target, at the watchdog's start. *)
InitialTarget(c, p) ==
    IF c.explicit \/ (p = Absent /\ c.app = Absent) THEN [port |-> Default, pid |-> Absent]
    ELSE IF p = Absent THEN Portless
    ELSE TargetOf(p)

WatchdogInit ==
    /\ kind = [p \in Pids |-> Absent]
    /\ port = [p \in Pids |-> Absent]
    /\ alive = {} /\ healthy = {} /\ entries = {}
    /\ config \in {c \in [explicit : BOOLEAN, app : Selections] :
                       c.explicit => c.app = Absent}   \* --app is then not looked at
    /\ selector = IF config.app = Absent THEN Any ELSE App(config.app)
    /\ target = Portless
    /\ failures = 0
    /\ fired = FALSE
    /\ loopAt = "start"
    /\ watched = Absent
-----------------------------------------------------------------------------
(* The applications: the plugin binds a free port, then publishes its entry. *)

Launch(p, k, n) ==
    /\ kind[p] = Absent
    /\ \A q \in Pids : q < p => kind[q] # Absent   \* ids are names: given in order
    /\ \A q \in alive : port[q] # n
    /\ kind' = [kind EXCEPT ![p] = k]
    /\ port' = [port EXCEPT ![p] = n]
    /\ alive' = alive \cup {p}
    /\ healthy' = healthy \cup {p}
    /\ UNCHANGED <<entries, dogVars>>

Publish(p) ==
    /\ p \in alive \ entries
    /\ entries' = entries \cup {p}
    /\ UNCHANGED <<kind, port, alive, healthy, dogVars>>

Hang(p) ==
    /\ p \in healthy
    /\ healthy' = healthy \ {p}
    /\ UNCHANGED <<kind, port, alive, entries, dogVars>>

Recover(p) ==
    /\ p \in alive \ healthy
    /\ healthy' = healthy \cup {p}
    /\ UNCHANGED <<kind, port, alive, entries, dogVars>>

Die(p) ==
    /\ p \in alive
    /\ alive' = alive \ {p}
    /\ healthy' = healthy \ {p}
    /\ entries' \in {entries, entries \ {p}}   \* a crash, an orderly exit
    /\ UNCHANGED <<kind, port, dogVars>>

Applications ==
    \E p \in Pids :
        \/ \E k \in AppKinds, n \in Ports : Launch(p, k, n)
        \/ Publish(p) \/ Hang(p) \/ Recover(p) \/ Die(p)
-----------------------------------------------------------------------------
(* The watchdog. *)

Resolve(p) ==
    /\ selector' = PinTo(selector, p)
    /\ watched' = IF watched = Absent THEN PinTo(selector, p) ELSE watched

Start ==
    LET p == IF config.explicit THEN Absent ELSE Discovered(selector) IN
    /\ loopAt = "start"
    /\ target' = InitialTarget(config, p)
    /\ IF p = Absent THEN UNCHANGED <<selector, watched>> ELSE Resolve(p)
    /\ loopAt' = "poll"
    /\ UNCHANGED <<config, failures, fired, appVars>>

Failed ==
    /\ failures' = IF failures < MaxFailures THEN failures + 1 ELSE failures
    /\ loopAt' = "follow"
    /\ UNCHANGED fired

(* Mutant: whoever answers on the port is the application. *)
CheckPortOnly ==
    /\ loopAt = "poll"
    /\ IF target = Portless THEN Failed ELSE loopAt' = "http" /\ UNCHANGED <<failures, fired>>
    /\ UNCHANGED <<config, selector, target, watched, appVars>>

(* poll_health: no target and an exited process are failures outright. *)
CheckProcess ==
    /\ loopAt = "poll"
    /\ IF target = Portless \/ (target.pid # Absent /\ target.pid \notin alive)
       THEN Failed
       ELSE loopAt' = "http" /\ UNCHANGED <<failures, fired>>
    /\ UNCHANGED <<config, selector, target, watched, appVars>>

AskHealth ==
    /\ loopAt = "http"
    /\ IF \E p \in healthy : port[p] = target.port
       THEN /\ failures' = 0
            /\ fired' = IF failures > 0 THEN FALSE ELSE fired
            /\ loopAt' = "follow"
       ELSE Failed
    /\ UNCHANGED <<config, selector, target, watched, appVars>>

(* Mutant: any single live application is followed. *)
FollowAny ==
    /\ loopAt = "follow"
    /\ LET p == Discovered(Any) IN
       IF failures > 0 /\ ~config.explicit /\ p # Absent /\ target # TargetOf(p)
       THEN target' = TargetOf(p) /\ Resolve(p)
       ELSE UNCHANGED <<target, selector, watched>>
    /\ loopAt' = "act"
    /\ UNCHANGED <<config, failures, fired, appVars>>

(* follow_target, while failing and unless the port was given. *)
Follow ==
    /\ loopAt = "follow"
    /\ LET p == Discovered(selector) IN
       IF failures > 0 /\ ~config.explicit /\ p # Absent /\ target # TargetOf(p)
       THEN target' = TargetOf(p) /\ Resolve(p)
       ELSE UNCHANGED <<target, selector, watched>>
    /\ loopAt' = "act"
    /\ UNCHANGED <<config, failures, fired, appVars>>

(* The recovery command; whatever it starts is an application's step. *)
Act ==
    /\ loopAt = "act"
    /\ fired' = (fired \/ failures >= MaxFailures)
    /\ loopAt' = "poll"
    /\ UNCHANGED <<config, selector, target, failures, watched, appVars>>

Loop == Start \/ CheckProcess \/ AskHealth \/ Follow \/ Act

WatchdogNext == Applications \/ Loop

(* The loop sleeps and polls for ever; nothing is assumed of applications. *)
WatchdogSpec == WatchdogInit /\ [][WatchdogNext]_watchdogVars /\ WF_watchdogVars(Loop)
-----------------------------------------------------------------------------
(* The states of the watchdog and the applications; what is polled is a port
   an application can listen on.                                           *)
WatchdogTypeOK ==
    /\ kind \in [Pids -> AppKinds \cup {Absent}]
    /\ port \in [Pids -> Ports \cup {Absent}]
    /\ alive \subseteq Pids /\ healthy \subseteq alive /\ entries \subseteq Pids
    /\ selector.by \in {"any", "app", "pinned", "pid"}
    /\ target \in [port : Ports \cup {Absent}, pid : Pids \cup {Absent}]
    /\ failures \in 0..MaxFailures
    /\ fired \in BOOLEAN
    /\ loopAt \in {"start", "poll", "http", "follow", "act"}

(* "a different app is never silently adopted": once an application has been
   resolved, every process ever followed is that application's, also when
   several share a product name, one took the port of another, or the entry
   of a crashed one is still there.                                        *)
NeverSwitches ==
    watched # Absent =>
        /\ target.pid # Absent
        /\ SelectorMatches(watched, target.pid)
        /\ selector = watched

(* A crash is reported even if another application answers on the same port:
   if no process of the watched application runs any more, recovery fires. *)
Gone == watched # Absent /\ \A p \in alive : ~SelectorMatches(watched, p)
CrashIsReported == <>[]Gone => <>[]fired

(* An application that came back as one published, healthy process is found
   and polled, wherever it listens now: the outage ends.                   *)
Back == ~config.explicit /\ Discovered(selector) \in healthy
RestartIsFollowed == <>[]Back => <>[](failures = 0 /\ ~fired)
=============================================================================
