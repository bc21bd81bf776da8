----------------------------- MODULE MainDispatch -----------------------------
(***************************************************************************)
(* The main-thread dispatcher of the plugin (victauri-plugin bridge.rs):   *)
(* every window or webview access of a background thread is a round trip   *)
(* that posts a closure to the UI thread and waits for it.  Round trips go *)
(* through one gate (a lock and a count of closures on the main thread),   *)
(* a caller that runs out of time races its own closure through one        *)
(* compare-and-swap, and one deadline covers everything before the start.  *)
(*                                                                         *)
(* A member of Calls is one call of on_main, made by some background       *)
(* thread.  Time is a tick that counts every waiting caller's timer down.  *)
(***************************************************************************)
EXTENDS Naturals, FiniteSets

CONSTANTS Calls,       \* round trips (each made once)
          NoCall,      \* no call holds the lock / is on the main thread
          MaxTimeout,  \* MAIN_THREAD_TIMEOUT, in ticks
          Grace        \* what a started closure is given beyond the deadline

ASSUME DispatchAssumption ==
    /\ NoCall \notin Calls
    /\ MaxTimeout \in Nat \ {0}
    /\ Grace \in Nat \ {0}

VARIABLES
    phase,      \* where the calling thread is
    left,       \* ticks left of the timer the calling thread is waiting on
    elapsed,    \* ticks since the call was made (history, for ReturnsInTime)
    answer,     \* what on_main returned
    lock,       \* holder of DispatchGate.lock
    inFlight,   \* DispatchGate.in_flight
    state,      \* the job's AtomicU8
    place,      \* where the posted job is
    chan,       \* the oneshot result channel
    mpc,        \* what the main thread is doing
    job,        \* the call whose job the main thread is executing
    effect,     \* calls whose closure ran (history)
    loop,       \* whether the event loop accepts and runs jobs
    installed   \* whether MAIN_APP holds the main thread's app handle

callerVars == <<phase, left, elapsed, answer, lock>>
mainVars   == <<mpc, job, effect, loop, installed>>
sharedVars == <<inFlight, state, place, chan>>
vars       == <<callerVars, mainVars, sharedVars>>

Phases == {"idle", "locking", "clearing", "posting", "waiting", "timedout",
           "grace", "returned"}
(* Results a closure sends: f's value, a caught panic, or no app handle. *)
Outcomes == {"ok", "panicked", "no_handle"}
(* The errors on_main returns for a closure that never ran and never will. *)
WillNotRun == {"not_sent", "lock_timeout", "earlier_running", "post_failed",
               "dropped", "timed_out", "no_handle"}
(* closure_may_have_run: the closure started on the main thread. *)
MayHaveRun == {"unknown", "panicked"}
Answers == {"none", "ok"} \cup WillNotRun \cup MayHaveRun

(* The states of the callers, the gate and the main thread; in particular the
   in-flight count of the gate is 0 or 1, whatever is abandoned or dropped. *)
TypeOK ==
    /\ phase \in [Calls -> Phases]
    /\ left \in [Calls -> Nat]
    /\ elapsed \in [Calls -> Nat]
    /\ answer \in [Calls -> Answers]
    /\ lock \in Calls \cup {NoCall}
    /\ inFlight \in {0, 1}
    /\ state \in [Calls -> {"queued", "running", "abandoned"}]
    /\ place \in [Calls -> {"unposted", "queue", "main", "gone"}]
    /\ chan \in [Calls -> Outcomes \cup {"empty"}]
    /\ mpc \in {"idle", "app", "counted", "running", "finished", "sent"}
    /\ job \in Calls \cup {NoCall}
    /\ effect \in SUBSET Calls
    /\ loop \in BOOLEAN
    /\ installed \in BOOLEAN

Init ==
    /\ phase = [c \in Calls |-> "idle"]
    /\ left = [c \in Calls |-> 0]
    /\ elapsed = [c \in Calls |-> 0]
    /\ answer = [c \in Calls |-> "none"]
    /\ lock = NoCall
    /\ inFlight = 0
    /\ state = [c \in Calls |-> "queued"]
    /\ place = [c \in Calls |-> "unposted"]
    /\ chan = [c \in Calls |-> "empty"]
    /\ mpc = "idle"
    /\ job = NoCall
    /\ effect = {}
    /\ loop = TRUE
    /\ installed \in BOOLEAN   \* adopted inline by setup, or posted
-----------------------------------------------------------------------------
(* The calling thread: on_main, serialized_round_trip, dispatch_and_wait. *)

Return(c, a) ==
    /\ phase' = [phase EXCEPT ![c] = "returned"]
    /\ answer' = [answer EXCEPT ![c] = a]
    /\ UNCHANGED <<left, elapsed>>

Release(c) == lock' = NoCall

(* on_main: `timeout` is what the agent call's CallBudget leaves, at most
   MAIN_THREAD_TIMEOUT; a call already out of time dispatches nothing.     *)
StartTimeout == 0..MaxTimeout

Call(c) ==
    /\ phase[c] = "idle"
    /\ \E timeout \in StartTimeout :
         IF timeout = 0
         THEN Return(c, "not_sent")
         ELSE /\ phase' = [phase EXCEPT ![c] = "locking"]
              /\ left' = [left EXCEPT ![c] = timeout]
              /\ UNCHANGED <<elapsed, answer>>
    /\ UNCHANGED <<lock, mainVars, sharedVars>>

(* Mutant: the wait behind the lock starts a timer of its own. *)
AcquireFreshTimer(c) ==
    /\ phase[c] = "locking"
    /\ lock = NoCall
    /\ lock' = c
    /\ phase' = [phase EXCEPT ![c] = "clearing"]
    /\ left' = [left EXCEPT ![c] = MaxTimeout]
    /\ UNCHANGED <<elapsed, answer, mainVars, sharedVars>>

(* The try_lock loop: the lock is taken when free, even at the deadline. *)
Acquire(c) ==
    /\ phase[c] = "locking"
    /\ lock = NoCall
    /\ lock' = c
    /\ phase' = [phase EXCEPT ![c] = "clearing"]
    /\ UNCHANGED <<left, elapsed, answer, mainVars, sharedVars>>

LockTimeout(c) ==
    /\ phase[c] = "locking"
    /\ lock # NoCall
    /\ left[c] = 0
    /\ Return(c, "lock_timeout")
    /\ UNCHANGED <<lock, mainVars, sharedVars>>

(* The lock holder polls in_flight until an earlier closure is off the main
   thread, within its own deadline.                                        *)
EarlierRunning(c) ==
    /\ phase[c] = "clearing"
    /\ inFlight # 0
    /\ left[c] = 0
    /\ Return(c, "earlier_running")
    /\ Release(c)
    /\ UNCHANGED <<mainVars, sharedVars>>

(* Mutant: the lock is taken for the whole gate, as before R4-LOCK1. *)
ClearNoWait(c) ==
    /\ phase[c] = "clearing"
    /\ phase' = [phase EXCEPT ![c] = "posting"]
    /\ UNCHANGED <<left, elapsed, answer, lock, mainVars, sharedVars>>

Clear(c) ==
    /\ phase[c] = "clearing"
    /\ inFlight = 0
    /\ IF left[c] = 0
       THEN Return(c, "lock_timeout") /\ Release(c)
       ELSE /\ phase' = [phase EXCEPT ![c] = "posting"]
            /\ UNCHANGED <<left, elapsed, answer, lock>>
    /\ UNCHANGED <<mainVars, sharedVars>>

(* run_on_main_thread: queued, or refused once the event loop is gone. *)
Post(c) ==
    /\ phase[c] = "posting"
    /\ IF loop
       THEN /\ place' = [place EXCEPT ![c] = "queue"]
            /\ phase' = [phase EXCEPT ![c] = "waiting"]
            /\ UNCHANGED <<left, elapsed, answer, lock>>
       ELSE /\ Return(c, "post_failed")
            /\ Release(c)
            /\ UNCHANGED place
    /\ UNCHANGED <<mainVars, inFlight, state, chan>>

(* recv_timeout, and the grace recv_timeout, return a sent result. *)
Receive(c) ==
    /\ phase[c] \in {"waiting", "grace"}
    /\ chan[c] # "empty"
    /\ Return(c, chan[c])
    /\ Release(c)
    /\ UNCHANGED <<mainVars, sharedVars>>

(* recv_timeout: Disconnected, the job was dropped with its sender. *)
Disconnected(c) ==
    /\ phase[c] = "waiting"
    /\ place[c] = "gone"
    /\ chan[c] = "empty"
    /\ Return(c, "dropped")
    /\ Release(c)
    /\ UNCHANGED <<mainVars, sharedVars>>

Timeout(c) ==
    /\ phase[c] = "waiting"
    /\ left[c] = 0
    /\ chan[c] = "empty"
    /\ phase' = [phase EXCEPT ![c] = "timedout"]
    /\ UNCHANGED <<left, elapsed, answer, lock, mainVars, sharedVars>>

(* Mutant: a caller out of time leaves without settling it with its job. *)
AbandonNoSwap(c) ==
    /\ phase[c] = "timedout"
    /\ Return(c, "timed_out")
    /\ Release(c)
    /\ UNCHANGED <<mainVars, sharedVars>>

(* compare_exchange(QUEUED, ABANDONED): won, the closure never runs; lost,
   it started, so its outcome is waited for up to `grace`.                 *)
Abandon(c) ==
    /\ phase[c] = "timedout"
    /\ IF state[c] = "queued"
       THEN /\ state' = [state EXCEPT ![c] = "abandoned"]
            /\ Return(c, "timed_out")
            /\ Release(c)
       ELSE /\ phase' = [phase EXCEPT ![c] = "grace"]
            /\ left' = [left EXCEPT ![c] = Grace]
            /\ UNCHANGED <<elapsed, answer, lock, state>>
    /\ UNCHANGED <<mainVars, inFlight, place, chan>>

(* Mutant: recv instead of recv_timeout for a started closure. *)
GiveUpOnlyWhenDone(c) ==
    /\ phase[c] = "grace"
    /\ place[c] = "gone"
    /\ chan[c] = "empty"
    /\ Return(c, "unknown")
    /\ Release(c)
    /\ UNCHANGED <<mainVars, sharedVars>>

GiveUp(c) ==
    /\ phase[c] = "grace"
    /\ left[c] = 0
    /\ chan[c] = "empty"
    /\ Return(c, "unknown")
    /\ Release(c)
    /\ UNCHANGED <<mainVars, sharedVars>>

Caller(c) ==
    \/ Acquire(c) \/ LockTimeout(c) \/ EarlierRunning(c) \/ Clear(c) \/ Post(c)
    \/ Receive(c) \/ Disconnected(c) \/ Timeout(c) \/ Abandon(c) \/ GiveUp(c)
-----------------------------------------------------------------------------
(* The main thread.  Whatever the host application does on it (including
   inline on_main calls, which take no lock) is "app"; it may never end.   *)

AppBegin ==
    /\ mpc = "idle"
    /\ mpc' = "app"
    /\ UNCHANGED <<job, effect, loop, installed, callerVars, sharedVars>>

AppEnd ==
    /\ mpc = "app"
    /\ mpc' = "idle"
    /\ UNCHANGED <<job, effect, loop, installed, callerVars, sharedVars>>

(* adopt_on_main: the posted adoption installs the handle. *)
Adopt ==
    /\ mpc = "idle"
    /\ loop
    /\ ~installed
    /\ installed' = TRUE
    /\ UNCHANGED <<mpc, job, effect, loop, callerVars, sharedVars>>

(* The counted wrapper: in_flight is raised before the job can start. *)
Pick(c) ==
    /\ mpc = "idle"
    /\ loop
    /\ place[c] = "queue"
    /\ place' = [place EXCEPT ![c] = "main"]
    /\ inFlight' = inFlight + 1
    /\ mpc' = "counted"
    /\ job' = c
    /\ UNCHANGED <<effect, loop, installed, callerVars, state, chan>>

(* Mutant: the job runs whether or not its caller gave up. *)
StartJobAnyway ==
    /\ mpc = "counted"
    /\ state' = [state EXCEPT ![job] = "running"]
    /\ mpc' = "running"
    /\ UNCHANGED <<job, effect, loop, installed, callerVars, inFlight, place, chan>>

(* compare_exchange(QUEUED, RUNNING): lost, the caller gave up first. *)
StartJob ==
    /\ mpc = "counted"
    /\ IF state[job] = "queued"
       THEN /\ state' = [state EXCEPT ![job] = "running"]
            /\ mpc' = "running"
       ELSE /\ mpc' = "sent"
            /\ UNCHANGED state
    /\ UNCHANGED <<job, effect, loop, installed, callerVars, inFlight, place, chan>>

(* catch_unwind(f): f itself is called only with an installed handle. *)
RunClosure ==
    /\ mpc = "running"
    /\ effect' = IF installed THEN effect \cup {job} ELSE effect
    /\ mpc' = "finished"
    /\ UNCHANGED <<job, loop, installed, callerVars, sharedVars>>

SendResult ==
    /\ mpc = "finished"
    /\ \E outcome \in Outcomes :
         /\ (outcome = "no_handle") <=> ~(job \in effect)
         /\ chan' = [chan EXCEPT ![job] = outcome]
    /\ mpc' = "sent"
    /\ UNCHANGED <<job, effect, loop, installed, callerVars, inFlight, state, place>>

(* InFlightGuard::drop. *)
FinishJob ==
    /\ mpc = "sent"
    /\ inFlight' = inFlight - 1
    /\ place' = [place EXCEPT ![job] = "gone"]
    /\ mpc' = "idle"
    /\ job' = NoCall
    /\ UNCHANGED <<effect, loop, installed, callerVars, state, chan>>

(* The event loop exits between two jobs and drops what is queued. *)
LoopExit ==
    /\ mpc = "idle"
    /\ loop
    /\ loop' = FALSE
    /\ place' = [c \in Calls |-> IF place[c] = "queue" THEN "gone" ELSE place[c]]
    /\ UNCHANGED <<mpc, job, effect, installed, callerVars, inFlight, state, chan>>

Main ==
    \/ AppBegin \/ AppEnd \/ Adopt \/ (\E c \in Calls : Pick(c)) \/ StartJob
    \/ RunClosure \/ SendResult \/ FinishJob \/ LoopExit
-----------------------------------------------------------------------------
Waiting == {"locking", "clearing", "waiting", "grace"}

(* A thread whose timer has run out, or that is between two waits, takes its
   step before the next tick: threads are scheduled within a tick.          *)
Due(c) ==
    \/ phase[c] \in Waiting /\ left[c] = 0
    \/ phase[c] \in {"posting", "timedout"}

Tick ==
    /\ \E c \in Calls : phase[c] \in Waiting
    /\ \A c \in Calls : ~Due(c)
    /\ left' = [c \in Calls |-> IF phase[c] \in Waiting THEN left[c] - 1 ELSE left[c]]
    /\ elapsed' = [c \in Calls |-> IF phase[c] \in Waiting THEN elapsed[c] + 1
                                                             ELSE elapsed[c]]
    /\ UNCHANGED <<phase, answer, lock, mainVars, sharedVars>>

Next ==
    \/ \E c \in Calls : Call(c) \/ Caller(c)
    \/ Main
    \/ Tick

Spec == Init /\ [][Next]_vars

(* Calling threads are scheduled and time passes; the main thread is given
   no fairness at all: the UI may be wedged forever.                       *)
FairSpec == Spec /\ WF_vars(Tick) /\ \A c \in Calls : WF_vars(Caller(c))
-----------------------------------------------------------------------------
(* A call is in flight while its closure may still start or is running. *)
InFlight(c) ==
    \/ place[c] = "queue" /\ state[c] = "queued"
    \/ job = c /\ mpc = "counted" /\ state[c] = "queued"
    \/ job = c /\ mpc \in {"running", "finished"}

(* MAIN_DISPATCH_LOCK exists to keep more than one round trip from ever being
   in flight, also beside a closure whose caller gave up and let go of the
   lock (R4-LOCK1): on Linux several at once corrupt the heap.              *)
OneInFlight == \A c, d \in Calls : InFlight(c) /\ InFlight(d) => c = d

(* "(it will not run)": a caller told that its closure did not run is right,
   and stays right, whatever the main thread does later; a caller told that
   it ran, is told so only after it did.                                    *)
VerdictsAreTrue ==
    \A c \in Calls :
        /\ answer[c] \in WillNotRun => c \notin effect /\ ~InFlight(c)
        /\ answer[c] \in {"ok", "panicked"} => c \in effect
        /\ answer[c] = "unknown" => state[c] = "running"

(* One deadline is shared by every wait before the start, so a call returns
   within its timeout if its closure never started and within timeout plus
   grace otherwise, however many callers queue up and however wedged the UI. *)
ReturnsInTime ==
    \A c \in Calls :
        /\ elapsed[c] <= MaxTimeout + Grace
        /\ answer[c] \in WillNotRun \ {"no_handle"} => elapsed[c] <= MaxTimeout

(* Every call returns even if the UI thread never does anything again. *)
EveryCallReturns ==
    \A c \in Calls : phase[c] # "idle" ~> phase[c] = "returned"

(* What a caller was told is what SerializedCalls promises. *)
Verdict(a) ==
    IF a = "none" THEN "none"
    ELSE IF a = "ok" THEN "ran"
    ELSE IF a \in WillNotRun THEN "not_run"
    ELSE "maybe"

Promise == INSTANCE SerializedCalls
    WITH open <- {c \in Calls : InFlight(c)},
         verdict <- [c \in Calls |-> Verdict(answer[c])]

(* Round trips implement the promise: one in flight at a time, effects only
   in flight, and no effect after "it will not run".                       *)
Implements == Promise!AbsSpec
=============================================================================
