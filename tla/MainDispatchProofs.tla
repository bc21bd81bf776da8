------------------------- MODULE MainDispatchProofs -------------------------
(***************************************************************************)
(* Proofs about MainDispatch for any set of calls and any timeouts.  The   *)
(* three safety invariants are not inductive; Inv below is.  What carries  *)
(* them is the link between the gate and the jobs: a job that may still    *)
(* start belongs to the lock holder (Owned), a job that has started keeps  *)
(* the count up until its result is sent (Counted), so a holder that saw   *)
(* the count at zero posts beside nothing (Alone).                         *)
(***************************************************************************)
EXTENDS MainDispatch, TLAPS

Before == {"idle", "locking", "clearing", "posting"}   \* nothing posted yet
Holding == {"clearing", "posting", "waiting", "timedout", "grace"}

(* The lock is held by exactly the thread that is past the try_lock loop. *)
LockInv == \A c \in Calls : (phase[c] \in Holding) <=> (lock = c)

(* The main thread executes at most one job, and counts it. *)
Counted ==
    /\ (job = NoCall) <=> (mpc \in {"idle", "app"})
    /\ inFlight = IF job = NoCall THEN 0 ELSE 1
    /\ \A c \in Calls : (place[c] = "main") <=> (job = c)

(* How far a job has come, as its atomic and its channel show it. *)
JobInv ==
    \A c \in Calls :
        /\ phase[c] \in Before => place[c] = "unposted"
        /\ phase[c] \in {"waiting", "timedout", "grace"} => place[c] # "unposted"
        /\ place[c] = "unposted" => state[c] = "queued" /\ phase[c] \in Before \cup {"returned"}
        /\ place[c] = "queue" => state[c] # "running"
        /\ job = c /\ mpc = "counted" => state[c] # "running"
        /\ job = c /\ mpc \in {"running", "finished"} => state[c] = "running" /\ chan[c] = "empty"
        /\ job = c /\ mpc = "running" => c \notin effect
        /\ job = c /\ mpc = "sent" => state[c] # "queued"
        /\ job = c /\ mpc = "sent" /\ state[c] = "running" => chan[c] # "empty"
        /\ place[c] = "gone" /\ state[c] = "running" => chan[c] # "empty"
        /\ chan[c] # "empty" => state[c] = "running"
        /\ c \in effect => state[c] = "running"
        /\ chan[c] \in {"ok", "panicked"} => c \in effect
        /\ chan[c] = "no_handle" => c \notin effect
        /\ phase[c] = "grace" => state[c] = "running"

(* What each answer rests on. *)
AnswerInv ==
    \A c \in Calls :
        /\ (answer[c] = "none") <=> (phase[c] # "returned")
        /\ answer[c] \in {"not_sent", "lock_timeout", "earlier_running", "post_failed"}
             => place[c] = "unposted"
        /\ answer[c] = "dropped" => place[c] = "gone" /\ state[c] # "running"
        /\ answer[c] = "timed_out" => state[c] = "abandoned"
        /\ state[c] = "abandoned" => answer[c] = "timed_out"
        /\ answer[c] = "unknown" => state[c] = "running"
        /\ answer[c] \in Outcomes => chan[c] = answer[c]

(* A posted job that has not started belongs to the lock holder. *)
Owned ==
    \A c \in Calls :
        place[c] \in {"queue", "main"} /\ state[c] = "queued" => lock = c

(* A thread that has seen the count at zero is alone with its own job. *)
Alone ==
    \A c, d \in Calls :
        phase[c] \in {"posting", "waiting", "timedout", "grace"} /\ InFlight(d) => c = d

TimeInv ==
    \A c \in Calls :
        /\ phase[c] = "idle" => elapsed[c] = 0
        /\ phase[c] \in {"locking", "clearing", "posting", "waiting", "timedout"}
             => elapsed[c] + left[c] <= MaxTimeout
        /\ phase[c] = "grace" => elapsed[c] + left[c] <= MaxTimeout + Grace
        /\ phase[c] = "returned" => elapsed[c] <= MaxTimeout + Grace
        /\ answer[c] \in WillNotRun \ {"no_handle"} => elapsed[c] <= MaxTimeout

Inv == TypeOK /\ LockInv /\ Counted /\ JobInv /\ AnswerInv /\ Owned /\ Alone /\ TimeInv
-----------------------------------------------------------------------------
(* Every action preserves every conjunct. *)

(* A call that has time left starts to wait for the lock. *)
LEMMA CallStep ==
    ASSUME Inv, NEW c \in Calls, Call(c)
    PROVE  Inv'
<1> USE DispatchAssumption DEF Inv, TypeOK, Call, Return, StartTimeout, callerVars, mainVars, sharedVars
<1>1. TypeOK'  BY DEF Phases, Answers, WillNotRun
<1>2. LockInv'  BY DEF LockInv, Holding
<1>3. Counted'  BY DEF Counted
<1>4. JobInv'  BY DEF JobInv, Before
<1>5. AnswerInv'  BY DEF AnswerInv, Outcomes, JobInv, Before
<1>6. Owned'  BY DEF Owned
<1>7. Alone'  BY DEF Alone, InFlight
<1>8. TimeInv'  BY DEF TimeInv
<1> QED  BY <1>1, <1>2, <1>3, <1>4, <1>5, <1>6, <1>7, <1>8 DEF Inv

(* The free lock gets its holder. *)
LEMMA AcquireStep ==
    ASSUME Inv, NEW c \in Calls, Acquire(c)
    PROVE  Inv'
<1> USE DispatchAssumption DEF Inv, TypeOK, Acquire, callerVars, mainVars, sharedVars
<1>1. TypeOK'  BY DEF Phases
<1>2. LockInv'  BY DEF LockInv, Holding
<1>3. Counted'  BY DEF Counted
<1>4. JobInv'  BY DEF JobInv, Before
<1>5. AnswerInv'  BY DEF AnswerInv
<1>6. Owned'  BY DEF Owned
<1>7. Alone'  BY DEF Alone, InFlight
<1>8. TimeInv'  BY DEF TimeInv
<1> QED  BY <1>1, <1>2, <1>3, <1>4, <1>5, <1>6, <1>7, <1>8 DEF Inv

(* A caller that never got the lock leaves nothing behind. *)
LEMMA LockTimeoutStep ==
    ASSUME Inv, NEW c \in Calls, LockTimeout(c)
    PROVE  Inv'
<1> USE DispatchAssumption DEF Inv, TypeOK, LockTimeout, Return, callerVars, mainVars, sharedVars
<1>1. TypeOK'  BY DEF Phases, Answers, WillNotRun
<1>2. LockInv'  BY DEF LockInv, Holding
<1>3. Counted'  BY DEF Counted
<1>4. JobInv'  BY DEF JobInv, Before
<1>5. AnswerInv'  BY DEF AnswerInv, Outcomes, JobInv, Before
<1>6. Owned'  BY DEF Owned
<1>7. Alone'  BY DEF Alone, InFlight
<1>8. TimeInv'  BY DEF TimeInv
<1> QED  BY <1>1, <1>2, <1>3, <1>4, <1>5, <1>6, <1>7, <1>8 DEF Inv

(* A holder that gives up on an earlier closure posted nothing. *)
LEMMA EarlierRunningStep ==
    ASSUME Inv, NEW c \in Calls, EarlierRunning(c)
    PROVE  Inv'
<1> USE DispatchAssumption DEF Inv, TypeOK, EarlierRunning, Return, Release, callerVars, mainVars, sharedVars
<1>1. TypeOK'  BY DEF Phases, Answers, WillNotRun
<1>2. LockInv'  BY DEF LockInv, Holding
<1>3. Counted'  BY DEF Counted
<1>4. JobInv'  BY DEF JobInv, Before
<1>5. AnswerInv'  BY DEF AnswerInv, Outcomes, JobInv, Before
<1>6. Owned'  BY DEF Owned, JobInv, Before, LockInv, Holding
<1>7. Alone'  BY DEF Alone, InFlight
<1>8. TimeInv'  BY DEF TimeInv
<1> QED  BY <1>1, <1>2, <1>3, <1>4, <1>5, <1>6, <1>7, <1>8 DEF Inv

(* A zero count means that no started closure is left, so the holder is alone. *)
LEMMA ClearStep ==
    ASSUME Inv, NEW c \in Calls, Clear(c)
    PROVE  Inv'
<1> USE DispatchAssumption DEF Inv, TypeOK, Clear, Return, Release, callerVars, mainVars, sharedVars
<1>1. TypeOK'  BY DEF Phases, Answers, WillNotRun
<1>2. LockInv'  BY DEF LockInv, Holding
<1>3. Counted'  BY DEF Counted
<1>4. JobInv'  BY DEF JobInv, Before
<1>5. AnswerInv'  BY DEF AnswerInv, Outcomes, JobInv, Before
<1>6. Owned'  BY DEF Owned, JobInv, Before, LockInv, Holding
<1>7. Alone'  BY DEF Alone, InFlight, LockInv, Holding, Counted, Owned
<1>8. TimeInv'  BY DEF TimeInv
<1> QED  BY <1>1, <1>2, <1>3, <1>4, <1>5, <1>6, <1>7, <1>8 DEF Inv

(* The only posted job that may start is the holder's. *)
LEMMA PostStep ==
    ASSUME Inv, NEW c \in Calls, Post(c)
    PROVE  Inv'
<1> USE DispatchAssumption DEF Inv, TypeOK, Post, Return, Release, callerVars, mainVars, sharedVars
<1>1. TypeOK'  BY DEF Phases, Answers, WillNotRun
<1>2. LockInv'  BY DEF LockInv, Holding
<1>3. Counted'  BY DEF Counted, JobInv, Before
<1>4. JobInv'  BY DEF JobInv, Before
<1>5. AnswerInv'  BY DEF AnswerInv, Outcomes, JobInv, Before
<1>6. Owned'  BY DEF Owned, JobInv, Before, LockInv, Holding
<1>7. Alone'  BY DEF Alone, InFlight, LockInv, Holding
<1>8. TimeInv'  BY DEF TimeInv
<1> QED  BY <1>1, <1>2, <1>3, <1>4, <1>5, <1>6, <1>7, <1>8 DEF Inv

(* A received result is what the closure did. *)
LEMMA ReceiveStep ==
    ASSUME Inv, NEW c \in Calls, Receive(c)
    PROVE  Inv'
<1> USE DispatchAssumption DEF Inv, TypeOK, Receive, Return, Release, callerVars, mainVars, sharedVars
<1>1. TypeOK'  BY DEF Phases, Answers, Outcomes, WillNotRun, MayHaveRun
<1>2. LockInv'  BY DEF LockInv, Holding
<1>3. Counted'  BY DEF Counted
<1>4. JobInv'  BY DEF JobInv, Before
<1>5. AnswerInv'  BY DEF AnswerInv, Outcomes
<1>6. Owned'  BY DEF Owned, JobInv, LockInv, Holding
<1>7. Alone'  BY DEF Alone, InFlight
<1>8. TimeInv'  BY DEF TimeInv, WillNotRun, Outcomes
<1> QED  BY <1>1, <1>2, <1>3, <1>4, <1>5, <1>6, <1>7, <1>8 DEF Inv

(* A dropped job never started. *)
LEMMA DisconnectedStep ==
    ASSUME Inv, NEW c \in Calls, Disconnected(c)
    PROVE  Inv'
<1> USE DispatchAssumption DEF Inv, TypeOK, Disconnected, Return, Release, callerVars, mainVars, sharedVars
<1>1. TypeOK'  BY DEF Phases, Answers, WillNotRun
<1>2. LockInv'  BY DEF LockInv, Holding
<1>3. Counted'  BY DEF Counted
<1>4. JobInv'  BY DEF JobInv, Before
<1>5. AnswerInv'  BY DEF AnswerInv, Outcomes, JobInv
<1>6. Owned'  BY DEF Owned, LockInv, Holding
<1>7. Alone'  BY DEF Alone, InFlight
<1>8. TimeInv'  BY DEF TimeInv
<1> QED  BY <1>1, <1>2, <1>3, <1>4, <1>5, <1>6, <1>7, <1>8 DEF Inv

(* Running out of time decides nothing yet. *)
LEMMA TimeoutStep ==
    ASSUME Inv, NEW c \in Calls, Timeout(c)
    PROVE  Inv'
<1> USE DispatchAssumption DEF Inv, TypeOK, Timeout, callerVars, mainVars, sharedVars
<1>1. TypeOK'  BY DEF Phases
<1>2. LockInv'  BY DEF LockInv, Holding
<1>3. Counted'  BY DEF Counted
<1>4. JobInv'  BY DEF JobInv, Before
<1>5. AnswerInv'  BY DEF AnswerInv
<1>6. Owned'  BY DEF Owned
<1>7. Alone'  BY DEF Alone, InFlight
<1>8. TimeInv'  BY DEF TimeInv
<1> QED  BY <1>1, <1>2, <1>3, <1>4, <1>5, <1>6, <1>7, <1>8 DEF Inv

(* The compare-and-swap decides between never and started. *)
LEMMA AbandonStep ==
    ASSUME Inv, NEW c \in Calls, Abandon(c)
    PROVE  Inv'
<1> USE DispatchAssumption DEF Inv, TypeOK, Abandon, Return, Release, callerVars, mainVars, sharedVars
<1>1. TypeOK'  BY DEF Phases, Answers, WillNotRun
<1>2. LockInv'  BY DEF LockInv, Holding
<1>3. Counted'  BY DEF Counted
<1>4. JobInv'  BY DEF JobInv, Before, AnswerInv
<1>5. AnswerInv'  BY DEF AnswerInv, Outcomes
<1>6. Owned'  BY DEF Owned, LockInv, Holding
<1>7. Alone'  BY DEF Alone, InFlight
<1>8. TimeInv'  BY DEF TimeInv
<1> QED  BY <1>1, <1>2, <1>3, <1>4, <1>5, <1>6, <1>7, <1>8 DEF Inv

(* A closure given up on has started and stays counted. *)
LEMMA GiveUpStep ==
    ASSUME Inv, NEW c \in Calls, GiveUp(c)
    PROVE  Inv'
<1> USE DispatchAssumption DEF Inv, TypeOK, GiveUp, Return, Release, callerVars, mainVars, sharedVars
<1>1. TypeOK'  BY DEF Phases, Answers, MayHaveRun
<1>2. LockInv'  BY DEF LockInv, Holding
<1>3. Counted'  BY DEF Counted
<1>4. JobInv'  BY DEF JobInv, Before
<1>5. AnswerInv'  BY DEF AnswerInv, Outcomes, JobInv
<1>6. Owned'  BY DEF Owned, JobInv, LockInv, Holding
<1>7. Alone'  BY DEF Alone, InFlight
<1>8. TimeInv'  BY DEF TimeInv, WillNotRun
<1> QED  BY <1>1, <1>2, <1>3, <1>4, <1>5, <1>6, <1>7, <1>8 DEF Inv

(* The application's own work does not touch the gate. *)
LEMMA AppBeginStep ==
    ASSUME Inv, AppBegin
    PROVE  Inv'
<1> USE DispatchAssumption DEF Inv, TypeOK, AppBegin, callerVars, mainVars, sharedVars
<1>1. TypeOK'  BY DEF Phases
<1>2. LockInv'  BY DEF LockInv
<1>3. Counted'  BY DEF Counted
<1>4. JobInv'  BY DEF JobInv
<1>5. AnswerInv'  BY DEF AnswerInv
<1>6. Owned'  BY DEF Owned
<1>7. Alone'  BY DEF Alone, InFlight
<1>8. TimeInv'  BY DEF TimeInv
<1> QED  BY <1>1, <1>2, <1>3, <1>4, <1>5, <1>6, <1>7, <1>8 DEF Inv

(* Nor does its end. *)
LEMMA AppEndStep ==
    ASSUME Inv, AppEnd
    PROVE  Inv'
<1> USE DispatchAssumption DEF Inv, TypeOK, AppEnd, callerVars, mainVars, sharedVars
<1>1. TypeOK'  BY DEF Phases
<1>2. LockInv'  BY DEF LockInv
<1>3. Counted'  BY DEF Counted
<1>4. JobInv'  BY DEF JobInv
<1>5. AnswerInv'  BY DEF AnswerInv
<1>6. Owned'  BY DEF Owned
<1>7. Alone'  BY DEF Alone, InFlight
<1>8. TimeInv'  BY DEF TimeInv
<1> QED  BY <1>1, <1>2, <1>3, <1>4, <1>5, <1>6, <1>7, <1>8 DEF Inv

(* Nor does the adoption of the handle. *)
LEMMA AdoptStep ==
    ASSUME Inv, Adopt
    PROVE  Inv'
<1> USE DispatchAssumption DEF Inv, TypeOK, Adopt, callerVars, mainVars, sharedVars
<1>1. TypeOK'  BY DEF Phases
<1>2. LockInv'  BY DEF LockInv
<1>3. Counted'  BY DEF Counted
<1>4. JobInv'  BY DEF JobInv
<1>5. AnswerInv'  BY DEF AnswerInv
<1>6. Owned'  BY DEF Owned
<1>7. Alone'  BY DEF Alone, InFlight
<1>8. TimeInv'  BY DEF TimeInv
<1> QED  BY <1>1, <1>2, <1>3, <1>4, <1>5, <1>6, <1>7, <1>8 DEF Inv

(* A job is counted before it can start. *)
LEMMA PickStep ==
    ASSUME Inv, NEW c \in Calls, Pick(c)
    PROVE  Inv'
<1> USE DispatchAssumption DEF Inv, TypeOK, Pick, callerVars, mainVars, sharedVars
<1>1. TypeOK'  BY DEF Counted
<1>2. LockInv'  BY DEF LockInv
<1>3. Counted'  BY DEF Counted
<1>4. JobInv'  BY DEF JobInv
<1>5. AnswerInv'  BY DEF AnswerInv
<1>6. Owned'  BY DEF Owned
<1>7. Alone'  BY DEF Alone, InFlight
<1>8. TimeInv'  BY DEF TimeInv
<1> QED  BY <1>1, <1>2, <1>3, <1>4, <1>5, <1>6, <1>7, <1>8 DEF Inv

(* A job starts only if its caller has not abandoned it. *)
LEMMA StartJobStep ==
    ASSUME Inv, StartJob
    PROVE  Inv'
<1> USE DispatchAssumption DEF Inv, TypeOK, StartJob, callerVars, mainVars, sharedVars
<1>1. TypeOK'  BY DEF Phases
<1>2. LockInv'  BY DEF LockInv
<1>3. Counted'  BY DEF Counted
<1>4. JobInv'  BY DEF JobInv, Counted
<1>5. AnswerInv'  BY DEF AnswerInv, Counted
<1>6. Owned'  BY DEF Owned
<1>7. Alone'  BY DEF Alone, InFlight
<1>8. TimeInv'  BY DEF TimeInv
<1> QED  BY <1>1, <1>2, <1>3, <1>4, <1>5, <1>6, <1>7, <1>8 DEF Inv

(* The closure of the running job takes effect. *)
LEMMA RunClosureStep ==
    ASSUME Inv, RunClosure
    PROVE  Inv'
<1> USE DispatchAssumption DEF Inv, TypeOK, RunClosure, callerVars, mainVars, sharedVars
<1>1. TypeOK'  BY DEF Counted
<1>2. LockInv'  BY DEF LockInv
<1>3. Counted'  BY DEF Counted
<1>4. JobInv'  BY DEF JobInv
<1>5. AnswerInv'  BY DEF AnswerInv
<1>6. Owned'  BY DEF Owned
<1>7. Alone'  BY DEF Alone, InFlight
<1>8. TimeInv'  BY DEF TimeInv
<1> QED  BY <1>1, <1>2, <1>3, <1>4, <1>5, <1>6, <1>7, <1>8 DEF Inv

(* Its outcome says whether it did. *)
LEMMA SendResultStep ==
    ASSUME Inv, SendResult
    PROVE  Inv'
<1> USE DispatchAssumption DEF Inv, TypeOK, SendResult, callerVars, mainVars, sharedVars
<1>1. TypeOK'  BY DEF Phases
<1>2. LockInv'  BY DEF LockInv
<1>3. Counted'  BY DEF Counted
<1>4. JobInv'  BY DEF JobInv, Outcomes
<1>5. AnswerInv'  BY DEF AnswerInv, Answers, WillNotRun, MayHaveRun, JobInv
<1>6. Owned'  BY DEF Owned
<1>7. Alone'  BY DEF Alone, InFlight
<1>8. TimeInv'  BY DEF TimeInv
<1> QED  BY <1>1, <1>2, <1>3, <1>4, <1>5, <1>6, <1>7, <1>8 DEF Inv

(* The count goes down after the result is out. *)
LEMMA FinishJobStep ==
    ASSUME Inv, FinishJob
    PROVE  Inv'
<1> USE DispatchAssumption DEF Inv, TypeOK, FinishJob, callerVars, mainVars, sharedVars
<1>1. TypeOK'  BY DEF Counted
<1>2. LockInv'  BY DEF LockInv
<1>3. Counted'  BY DEF Counted
<1>4. JobInv'  BY DEF JobInv
<1>5. AnswerInv'  BY DEF AnswerInv, JobInv
<1>6. Owned'  BY DEF Owned
<1>7. Alone'  BY DEF Alone, InFlight
<1>8. TimeInv'  BY DEF TimeInv
<1> QED  BY <1>1, <1>2, <1>3, <1>4, <1>5, <1>6, <1>7, <1>8 DEF Inv

(* A job dropped with the loop never starts. *)
LEMMA LoopExitStep ==
    ASSUME Inv, LoopExit
    PROVE  Inv'
<1> USE DispatchAssumption DEF Inv, TypeOK, LoopExit, callerVars, mainVars, sharedVars
<1>1. TypeOK'  BY DEF Phases
<1>2. LockInv'  BY DEF LockInv
<1>3. Counted'  BY DEF Counted
<1>4. JobInv'  BY DEF JobInv
<1>5. AnswerInv'  BY DEF AnswerInv
<1>6. Owned'  BY DEF Owned
<1>7. Alone'  BY DEF Alone, InFlight
<1>8. TimeInv'  BY DEF TimeInv
<1> QED  BY <1>1, <1>2, <1>3, <1>4, <1>5, <1>6, <1>7, <1>8 DEF Inv

(* No timer is overrun. *)
LEMMA TickStep ==
    ASSUME Inv, Tick
    PROVE  Inv'
<1> USE DispatchAssumption DEF Inv, TypeOK, Tick, Due, Waiting, callerVars, mainVars, sharedVars
<1>1. TypeOK'  BY DEF WillNotRun
<1>2. LockInv'  BY DEF LockInv
<1>3. Counted'  BY DEF Counted
<1>4. JobInv'  BY DEF JobInv
<1>5. AnswerInv'  BY DEF AnswerInv
<1>6. Owned'  BY DEF Owned
<1>7. Alone'  BY DEF Alone, InFlight
<1>8. TimeInv'  BY DEF TimeInv, WillNotRun, AnswerInv
<1> QED  BY <1>1, <1>2, <1>3, <1>4, <1>5, <1>6, <1>7, <1>8 DEF Inv

(* The initial states satisfy the invariant. *)
LEMMA InitInv == Init => Inv
<1> SUFFICES ASSUME Init PROVE Inv
  OBVIOUS
<1> USE DispatchAssumption DEF Init
<1>1. TypeOK  BY DEF TypeOK, Phases, Answers
<1>2. LockInv /\ Counted  BY DEF LockInv, Holding, Counted
<1>3. JobInv  BY DEF JobInv, Before
<1>4. AnswerInv  BY DEF AnswerInv, Outcomes
<1>5. Owned /\ Alone  BY DEF Owned, Alone
<1>6. TimeInv  BY DEF TimeInv, WillNotRun
<1> QED  BY <1>1, <1>2, <1>3, <1>4, <1>5, <1>6 DEF Inv

(* A stuttering step preserves the invariant. *)
LEMMA StutterStep ==
    ASSUME Inv, UNCHANGED vars
    PROVE  Inv'
<1> USE DEF vars, callerVars, mainVars, sharedVars, Inv
<1>1. TypeOK'  BY DEF TypeOK
<1>2. LockInv' /\ Counted'  BY DEF LockInv, Counted
<1>3. JobInv'  BY DEF JobInv
<1>4. AnswerInv'  BY DEF AnswerInv
<1>5. Owned' /\ Alone'  BY DEF Owned, Alone, InFlight
<1>6. TimeInv'  BY DEF TimeInv
<1> QED  BY <1>1, <1>2, <1>3, <1>4, <1>5, <1>6

(* Inv is inductive. *)
LEMMA NextInv == Inv /\ [Next]_vars => Inv'
<1> SUFFICES ASSUME Inv, [Next]_vars PROVE Inv'
  OBVIOUS
<1>1. CASE \E c \in Calls : Call(c)  BY <1>1, CallStep
<1>2. CASE \E c \in Calls : Acquire(c)  BY <1>2, AcquireStep
<1>3. CASE \E c \in Calls : LockTimeout(c)  BY <1>3, LockTimeoutStep
<1>4. CASE \E c \in Calls : EarlierRunning(c)  BY <1>4, EarlierRunningStep
<1>5. CASE \E c \in Calls : Clear(c)  BY <1>5, ClearStep
<1>6. CASE \E c \in Calls : Post(c)  BY <1>6, PostStep
<1>7. CASE \E c \in Calls : Receive(c)  BY <1>7, ReceiveStep
<1>8. CASE \E c \in Calls : Disconnected(c)  BY <1>8, DisconnectedStep
<1>9. CASE \E c \in Calls : Timeout(c)  BY <1>9, TimeoutStep
<1>10. CASE \E c \in Calls : Abandon(c)  BY <1>10, AbandonStep
<1>11. CASE \E c \in Calls : GiveUp(c)  BY <1>11, GiveUpStep
<1>12. CASE \E c \in Calls : Pick(c)  BY <1>12, PickStep
<1>13. CASE AppBegin  BY <1>13, AppBeginStep
<1>14. CASE AppEnd  BY <1>14, AppEndStep
<1>15. CASE Adopt  BY <1>15, AdoptStep
<1>16. CASE StartJob  BY <1>16, StartJobStep
<1>17. CASE RunClosure  BY <1>17, RunClosureStep
<1>18. CASE SendResult  BY <1>18, SendResultStep
<1>19. CASE FinishJob  BY <1>19, FinishJobStep
<1>20. CASE LoopExit  BY <1>20, LoopExitStep
<1>21. CASE Tick  BY <1>21, TickStep
<1>22. CASE UNCHANGED vars  BY <1>22, StutterStep
<1> QED  BY <1>1, <1>2, <1>3, <1>4, <1>5, <1>6, <1>7, <1>8, <1>9, <1>10, <1>11,
            <1>12, <1>13, <1>14, <1>15, <1>16, <1>17, <1>18, <1>19, <1>20, <1>21, <1>22 DEF Next, Caller, Main

(* Inv holds in every reachable state. *)
LEMMA Invariance == Spec => []Inv
<1>1. Init => Inv  BY InitInv
<1>2. Inv /\ [Next]_vars => Inv'  BY NextInv
<1> QED  BY <1>1, <1>2, PTL DEF Spec
-----------------------------------------------------------------------------
(* Every variable of the dispatcher keeps its type; in particular the count
   of closures on the main thread never exceeds one (bridge.rs in_flight).  *)
THEOREM TypeCorrect == Spec => []TypeOK
<1>1. Inv => TypeOK  BY DEF Inv
<1> QED  BY <1>1, Invariance, PTL

(* Two posted jobs that may still start would have two lock holders, and one
   that has started keeps the count up.                                    *)
LEMMA InvOneInFlight == Inv => OneInFlight
<1> SUFFICES ASSUME Inv, NEW c \in Calls, NEW d \in Calls, InFlight(c), InFlight(d)
             PROVE  c = d
  BY DEF OneInFlight
<1> USE DispatchAssumption DEF Inv, TypeOK, InFlight, Counted
<1>1. CASE place[c] = "queue" /\ state[c] = "queued"
  <2>1. lock = c  BY <1>1 DEF Owned
  <2>2. phase[c] \in {"waiting", "timedout", "grace"}
    BY <1>1, <2>1 DEF LockInv, JobInv, Holding, Before
  <2> QED  BY <2>2 DEF Alone
<1>2. CASE job = c
  <2>1. CASE job = d  BY <1>2, <2>1
  <2>2. CASE place[d] = "queue" /\ state[d] = "queued"
    <3>1. lock = d  BY <2>2 DEF Owned
    <3>2. phase[d] \in {"waiting", "timedout", "grace"}
      BY <2>2, <3>1 DEF LockInv, JobInv, Holding, Before
    <3> QED  BY <3>2 DEF Alone
  <2> QED  BY <2>1, <2>2
<1> QED  BY <1>1, <1>2

(* However many threads call on_main and whatever they are told, at most one
   round trip is in flight.                                                *)
THEOREM SerializedDispatch == Spec => []OneInFlight
  BY InvOneInFlight, Invariance, PTL

(* What the answers rest on makes them true. *)
LEMMA InvVerdicts == Inv => VerdictsAreTrue
<1> SUFFICES ASSUME Inv, NEW c \in Calls
             PROVE  /\ answer[c] \in WillNotRun => c \notin effect /\ ~InFlight(c)
                    /\ answer[c] \in {"ok", "panicked"} => c \in effect
                    /\ answer[c] = "unknown" => state[c] = "running"
  BY DEF VerdictsAreTrue
<1> USE DispatchAssumption DEF Inv, TypeOK, AnswerInv, JobInv, Counted, Outcomes
<1>1. answer[c] \in {"ok", "panicked"} => c \in effect  OBVIOUS
<1>2. answer[c] = "unknown" => state[c] = "running"  OBVIOUS
<1>3. answer[c] \in WillNotRun => c \notin effect  BY DEF WillNotRun
<1>4. answer[c] \in WillNotRun => ~InFlight(c)  BY DEF WillNotRun, InFlight
<1> QED  BY <1>1, <1>2, <1>3, <1>4

(* "(it will not run)" is true when it is said and stays true, and a call is
   reported as run only if it ran.                                         *)
THEOREM TruthfulVerdicts == Spec => []VerdictsAreTrue
  BY InvVerdicts, Invariance, PTL

(* A call is back within its timeout if its closure never started, and within
   timeout plus grace otherwise, for every timeout, grace and number of
   callers queued before it.                                               *)
THEOREM BoundedWait == Spec => []ReturnsInTime
<1>1. Inv => ReturnsInTime
  BY DispatchAssumption DEF Inv, TypeOK, TimeInv, ReturnsInTime, Phases
<1> QED  BY <1>1, Invariance, PTL
-----------------------------------------------------------------------------
(* The dispatcher implements SerializedCalls: each action is a step of it or
   changes nothing it sees.                                                *)

InFlightSet == {c \in Calls : InFlight(c)}
VerdictOf == [c \in Calls |-> Verdict(answer[c])]

(* A step that gives one caller its answer and takes at most this call out of
   flight is an Answer of the abstract specification.                      *)
LEMMA AnswerRefines ==
    ASSUME Inv, Inv', NEW c \in Calls, phase[c] # "returned",
           NEW a \in Answers \ {"none"},
           answer' = [answer EXCEPT ![c] = a],
           UNCHANGED effect,
           \/ InFlightSet' = InFlightSet
           \/ InFlightSet' = InFlightSet \ {c}
    PROVE  Promise!AbsNext
<1>1. answer[c] = "none" /\ answer'[c] = a
  BY DEF Inv, TypeOK, AnswerInv
<1>2. VerdictsAreTrue'  BY InvVerdicts, PTL
<1>3. Verdict(a) \in Promise!Verdicts /\ Verdict(a) # "none"
  BY DEF Verdict, Answers, WillNotRun, MayHaveRun, Promise!Verdicts
<1>4. VerdictOf[c] = "none" /\ VerdictOf' = [VerdictOf EXCEPT ![c] = Verdict(a)]
  BY <1>1 DEF VerdictOf, Verdict, Inv, TypeOK
<1>5. Verdict(a) = "ran" => c \in effect
  BY <1>1, <1>2 DEF VerdictsAreTrue, Verdict, Answers, WillNotRun, MayHaveRun
<1>6. Verdict(a) = "not_run" => c \notin effect /\ c \notin InFlightSet'
  BY <1>1, <1>2 DEF VerdictsAreTrue, Verdict, Answers, WillNotRun, MayHaveRun, InFlightSet
<1>7. Promise!Answer(c, Verdict(a))
  BY <1>3, <1>4, <1>5, <1>6 DEF Promise!Answer, InFlightSet, VerdictOf
<1> QED  BY <1>3, <1>7 DEF Promise!AbsNext

(* The steps that answer a caller without touching its job. *)
LEMMA ReturnRefines ==
    ASSUME Inv, Inv', NEW c \in Calls, phase[c] # "returned",
           NEW a \in Answers \ {"none"}, Return(c, a),
           UNCHANGED <<mainVars, sharedVars>>
    PROVE  Promise!AbsNext
<1>1. answer' = [answer EXCEPT ![c] = a] /\ UNCHANGED effect
  BY DEF Return, mainVars
<1>2. InFlightSet' = InFlightSet
  BY DEF InFlightSet, InFlight, mainVars, sharedVars
<1> QED  BY <1>1, <1>2, AnswerRefines

(* A step that changes no answer, effect or job in flight is a stutter. *)
LEMMA Invisible ==
    ASSUME UNCHANGED <<answer, effect>>, InFlightSet' = InFlightSet
    PROVE  UNCHANGED Promise!absVars
  BY DEF Promise!absVars, InFlightSet, Verdict

(* The job of a thread that is about to post is launched beside no other. *)
LEMMA PostRefines ==
    ASSUME Inv, Inv', NEW c \in Calls, Post(c)
    PROVE  [Promise!AbsNext]_(Promise!absVars)
<1> USE DEF Post
<1>1. CASE loop
  <2>1. InFlightSet = {}
    BY DispatchAssumption DEF Inv, TypeOK, Alone, JobInv, Counted, Before, InFlightSet, InFlight
  <2>2. InFlightSet' = {c}
    <3>1. InFlight(c)'  BY <1>1 DEF Inv, TypeOK, JobInv, Before, InFlight
    <3>2. phase'[c] = "waiting"  BY <1>1 DEF Inv, TypeOK
    <3>3. \A d \in Calls : InFlight(d)' => d = c
      BY <3>2 DEF Inv, Alone, InFlight
    <3> QED  BY <3>1, <3>3 DEF InFlightSet
  <2>3. c \notin effect /\ answer[c] = "none"
    BY DEF Inv, TypeOK, JobInv, AnswerInv, Before
  <2>4. UNCHANGED <<effect, answer>>  BY <1>1 DEF mainVars
  <2>5. Promise!Launch(c)
    BY <2>1, <2>2, <2>3, <2>4 DEF Promise!Launch, InFlightSet, Verdict
  <2> QED  BY <2>5 DEF Promise!AbsNext
<1>2. CASE ~loop
  <2>1. Return(c, "post_failed") /\ UNCHANGED <<mainVars, sharedVars>>
    BY <1>2 DEF mainVars, sharedVars
  <2> QED  BY <2>1, ReturnRefines DEF Answers, WillNotRun
<1> QED  BY <1>1, <1>2

(* Winning the compare-and-swap takes the call out of flight as it answers. *)
LEMMA AbandonRefines ==
    ASSUME Inv, Inv', NEW c \in Calls, Abandon(c)
    PROVE  [Promise!AbsNext]_(Promise!absVars)
<1> USE DEF Abandon
<1>1. CASE state[c] = "queued"
  <2>1. answer' = [answer EXCEPT ![c] = "timed_out"] /\ UNCHANGED effect
    BY <1>1 DEF Return, mainVars
  <2>2. ~InFlight(c)'
    BY <1>1 DEF InFlight, Inv, TypeOK, JobInv, mainVars
  <2>3. \A d \in Calls : d # c => (InFlight(d)' <=> InFlight(d))
    BY <1>1 DEF InFlight, Inv, TypeOK, mainVars
  <2>4. InFlightSet' = InFlightSet \ {c}  BY <2>2, <2>3 DEF InFlightSet
  <2> QED  BY <2>1, <2>4, AnswerRefines DEF Answers, WillNotRun
<1>2. CASE state[c] # "queued"
  <2>1. UNCHANGED <<answer, effect>> /\ InFlightSet' = InFlightSet
    BY <1>2 DEF InFlightSet, InFlight, mainVars
  <2> QED  BY <2>1, Invisible
<1> QED  BY <1>1, <1>2

(* What the main thread does to a job, seen from outside. *)
LEMMA MainRefines ==
    ASSUME Inv, Inv', Main
    PROVE  [Promise!AbsNext]_(Promise!absVars)
<1> USE DispatchAssumption DEF callerVars, sharedVars, mainVars
<1>1. CASE AppBegin \/ AppEnd \/ Adopt
  <2>1. UNCHANGED <<answer, effect>> /\ InFlightSet' = InFlightSet
    BY <1>1 DEF AppBegin, AppEnd, Adopt, InFlightSet, InFlight, Inv, Counted
  <2> QED  BY <2>1, Invisible
<1>2. ASSUME NEW c \in Calls, Pick(c) PROVE UNCHANGED Promise!absVars
  <2>1. UNCHANGED <<answer, effect>> /\ InFlightSet' = InFlightSet
    BY <1>2 DEF Pick, InFlightSet, InFlight, Inv, TypeOK, Counted
  <2> QED  BY <2>1, Invisible
<1>3. CASE StartJob
  <2>1. UNCHANGED <<answer, effect>> /\ InFlightSet' = InFlightSet
    BY <1>3 DEF StartJob, InFlightSet, InFlight, Inv, TypeOK, Counted
  <2> QED  BY <2>1, Invisible
<1>4. CASE RunClosure
  <2>1. job \in Calls /\ job \in InFlightSet /\ job \notin effect
    BY <1>4 DEF RunClosure, InFlightSet, InFlight, Inv, TypeOK, Counted, JobInv
  <2>2. UNCHANGED answer /\ InFlightSet' = InFlightSet
    BY <1>4 DEF RunClosure, InFlightSet, InFlight
  <2>3. CASE installed
    <3>1. Promise!TakeEffect(job)
      BY <1>4, <2>1, <2>2, <2>3 DEF RunClosure, Promise!TakeEffect, InFlightSet, Verdict
    <3> QED  BY <2>1, <3>1 DEF Promise!AbsNext
  <2>4. CASE ~installed  BY <1>4, <2>2, <2>4, Invisible DEF RunClosure
  <2> QED  BY <2>3, <2>4
<1>5. CASE SendResult
  <2>1. job \in Calls /\ job \in InFlightSet
    BY <1>5 DEF SendResult, InFlightSet, InFlight, Inv, TypeOK, Counted
  <2>2. InFlightSet' = InFlightSet \ {job}
    BY <1>5 DEF SendResult, InFlightSet, InFlight, Inv, TypeOK, Counted
  <2>3. Promise!Land(job)
    BY <1>5, <2>1, <2>2 DEF SendResult, Promise!Land, InFlightSet, Verdict
  <2> QED  BY <2>1, <2>3 DEF Promise!AbsNext
<1>6. CASE FinishJob
  <2>1. UNCHANGED <<answer, effect>> /\ InFlightSet' = InFlightSet
    BY <1>6 DEF FinishJob, InFlightSet, InFlight, Inv, TypeOK, Counted
  <2> QED  BY <2>1, Invisible
<1>7. CASE LoopExit
  <2>1. UNCHANGED <<answer, effect>>  BY <1>7 DEF LoopExit
  <2>2. InFlightSet' = {}
    BY <1>7 DEF LoopExit, InFlightSet, InFlight, Inv, TypeOK, Counted
  <2>3. CASE InFlightSet = {}  BY <2>1, <2>2, <2>3, Invisible
  <2>4. CASE InFlightSet # {}
    <3>1. PICK c \in Calls : c \in InFlightSet  BY <2>4 DEF InFlightSet
    <3>2. InFlightSet = {c}  BY <3>1, InvOneInFlight DEF OneInFlight, InFlightSet
    <3>3. Promise!Land(c)
      BY <2>1, <2>2, <3>2 DEF Promise!Land, InFlightSet, Verdict
    <3> QED  BY <3>3 DEF Promise!AbsNext
  <2> QED  BY <2>3, <2>4
<1> QED  BY <1>1, <1>2, <1>3, <1>4, <1>5, <1>6, <1>7 DEF Main

(* Every step of the dispatcher is a step of the promise, or a stutter. *)
LEMMA StepRefines ==
    ASSUME Inv, Inv', [Next]_vars
    PROVE  [Promise!AbsNext]_(Promise!absVars)
<1> USE DEF callerVars, sharedVars, mainVars
<1>1. ASSUME NEW c \in Calls, Call(c) PROVE [Promise!AbsNext]_(Promise!absVars)
  <2>1. CASE Return(c, "not_sent")
    BY <1>1, <2>1, ReturnRefines DEF Call, Answers, WillNotRun
  <2>2. CASE ~Return(c, "not_sent")
    <3>1. UNCHANGED <<answer, effect>> /\ InFlightSet' = InFlightSet
      BY <1>1, <2>2 DEF Call, StartTimeout, InFlightSet, InFlight
    <3> QED  BY <3>1, Invisible
  <2> QED  BY <2>1, <2>2
<1>2. ASSUME NEW c \in Calls, Acquire(c) \/ Timeout(c) PROVE UNCHANGED Promise!absVars
  <2>1. UNCHANGED <<answer, effect>> /\ InFlightSet' = InFlightSet
    BY <1>2 DEF Acquire, Timeout, InFlightSet, InFlight
  <2> QED  BY <2>1, Invisible
<1>3. ASSUME NEW c \in Calls, LockTimeout(c) \/ EarlierRunning(c) PROVE Promise!AbsNext
  BY <1>3, ReturnRefines DEF LockTimeout, EarlierRunning, Answers, WillNotRun
<1>4. ASSUME NEW c \in Calls, Clear(c) PROVE [Promise!AbsNext]_(Promise!absVars)
  <2>1. CASE left[c] = 0
    BY <1>4, <2>1, ReturnRefines DEF Clear, Answers, WillNotRun
  <2>2. CASE left[c] # 0
    <3>1. UNCHANGED <<answer, effect>> /\ InFlightSet' = InFlightSet
      BY <1>4, <2>2 DEF Clear, InFlightSet, InFlight
    <3> QED  BY <3>1, Invisible
  <2> QED  BY <2>1, <2>2
<1>5. ASSUME NEW c \in Calls, Receive(c) PROVE Promise!AbsNext
  <2>1. chan[c] \in Answers \ {"none"}
    BY <1>5 DEF Receive, Inv, TypeOK, Outcomes, Answers, WillNotRun, MayHaveRun
  <2> QED  BY <1>5, <2>1, ReturnRefines DEF Receive
<1>6. ASSUME NEW c \in Calls, Disconnected(c) \/ GiveUp(c) PROVE Promise!AbsNext
  BY <1>6, ReturnRefines DEF Disconnected, GiveUp, Answers, WillNotRun, MayHaveRun
<1>7. CASE Tick \/ UNCHANGED vars
  <2>1. UNCHANGED <<answer, effect>> /\ InFlightSet' = InFlightSet
    BY <1>7 DEF Tick, vars, InFlightSet, InFlight
  <2> QED  BY <2>1, Invisible
<1> QED  BY <1>1, <1>2, <1>3, <1>4, <1>5, <1>6, <1>7, PostRefines, AbandonRefines, MainRefines
         DEF Next, Caller

(* Round trips implement SerializedCalls for every number of callers and every
   timeout: one in flight at a time, effects only in flight, and no effect
   after "it will not run".                                                *)
THEOREM DispatchRefinement == Spec => Implements
<1>1. Init => Promise!AbsInit
  BY DEF Init, Promise!AbsInit, InFlight, Verdict
<1>2. Inv /\ Inv' /\ [Next]_vars => [Promise!AbsNext]_(Promise!absVars)
  BY StepRefines
<1> QED  BY <1>1, <1>2, Invariance, PTL DEF Spec, Implements, Promise!AbsSpec
=============================================================================
