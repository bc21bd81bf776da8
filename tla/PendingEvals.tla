----------------------------- MODULE PendingEvals -----------------------------
(***************************************************************************)
(* The table of pending evals (victauri-plugin lib.rs PendingCallbacks and *)
(* PendingSlot; tools.rs reserve_page_eval and deliver_eval_result; mod.rs *)
(* reserve_pending).  Agent calls run on the server's own runtime, page    *)
(* commands on the application's, results arrive on the main thread, and   *)
(* all of them meet at one asynchronous, FAIR lock: a released lock goes   *)
(* to the first queued task, whether or not that task can be polled.  The  *)
(* application may block its runtime for good, and any call may be dropped *)
(* at any await.                                                           *)
(*                                                                         *)
(* The server is taken to run on its own runtime, as it does unless that   *)
(* runtime could not be created.                                           *)
(***************************************************************************)
EXTENDS Naturals, Sequences, FiniteSets

CONSTANTS Agents,        \* evals of agent calls
          PageEvals,     \* evals of page commands
          WindowOf,      \* the window an eval is sent to
          NoWindow,      \* no binding, no result
          Free,          \* nobody holds the lock
          MaxPending,    \* MAX_PENDING_EVALS
          MaxPage,       \* MAX_PAGE_PENDING_EVALS
          MaxPerWindow   \* MAX_PAGE_PENDING_EVALS_PER_WINDOW

Evals == Agents \cup PageEvals
Windows == {WindowOf[e] : e \in Evals}

(* A job is one use of the lock: the reservation of a slot, the removal of
   its entry when the slot is dropped, and the delivery of its result.     *)
Jobs == {"reserve", "remove", "deliver"} \X Evals

ASSUME PendingAssumption ==
    /\ Agents \cap PageEvals = {}
    /\ NoWindow \notin Windows
    /\ Free \notin Jobs
    /\ MaxPending \in Nat
    /\ MaxPage \in 1..MaxPending
    /\ MaxPerWindow \in 1..MaxPage

VARIABLES
    future,       \* where the calling future is
    job,      \* what each user of the lock is doing
    lock,     \* whose lock it is: granted is held, polled or not
    queue,    \* tasks queued on the lock
    pending,  \* the keys of PendingCallbacks
    evalTarget,   \* EVAL_TARGETS
    from,     \* the window whose result was accepted
    got,      \* evals whose result reached the caller
    crowd,    \* of a refused agent call: how many agent evals were pending
    blocked   \* the application has blocked its runtime, for good

pendingVars == <<future, job, lock, queue, pending, evalTarget, from, got, crowd, blocked>>

(* The lock is consistent with its users: the queue holds exactly the jobs
   that wait in it, once each, and one job has the lock unless it is free. *)
States == {"idle", "running", "queued", "granted", "retrying", "over"}
LockOk ==
    /\ job \in [Jobs -> States]
    /\ lock \in Jobs \cup {Free}
    /\ \A j \in Jobs : (lock = j) <=> (job[j] \in {"running", "granted"})
    /\ queue \in Seq(Jobs)
    /\ \A j \in Jobs : (job[j] = "queued") <=> (\E k \in DOMAIN queue : queue[k] = j)
    /\ \A k, l \in DOMAIN queue : queue[k] = queue[l] => k = l

PendingTypeOK ==
    /\ LockOk
    /\ future \in [Evals -> {"new", "reserving", "live", "ended"}]
    /\ pending \in SUBSET Evals
    /\ evalTarget \in [Evals -> Windows \cup {NoWindow}]
    /\ from \in [Evals -> Windows \cup {NoWindow}]
    /\ got \in SUBSET Evals
    /\ crowd \in [Evals -> 0..MaxPending]
    /\ blocked \in BOOLEAN

PendingInit ==
    /\ future = [e \in Evals |-> "new"]
    /\ job = [j \in Jobs |-> "idle"]
    /\ lock = Free
    /\ queue = <<>>
    /\ pending = {}
    /\ evalTarget = [e \in Evals |-> NoWindow]
    /\ from = [e \in Evals |-> NoWindow]
    /\ got = {}
    /\ crowd = [e \in Evals |-> MaxPending]
    /\ blocked = FALSE
-----------------------------------------------------------------------------

(* Page commands, and the removals they leave, are polled by the application's
   runtime; a deferred delivery is spawned on the server's.                *)
OnApp(j) == j[1] # "deliver" /\ j[2] \in PageEvals
CanPoll(j) == OnApp(j) => ~blocked

(* Mutant: page commands queue on the lock. *)
QueuesEverywhere(j) == j[1] # "deliver"

(* lock().await queues; lock_pending_unqueued only ever tries. *)
Queues(j) == ~OnApp(j) /\ j[1] # "deliver"

(* The first attempt at the lock: taken if it is free. *)
RequestSlot(j) ==
    IF lock = Free
    THEN /\ lock' = j
         /\ job' = [job EXCEPT ![j] = "running"]
         /\ UNCHANGED queue
    ELSE /\ job' = [job EXCEPT ![j] = IF Queues(j) THEN "queued" ELSE "retrying"]
         /\ queue' = IF Queues(j) THEN Append(queue, j) ELSE queue
         /\ UNCHANGED lock

(* lock_pending_unqueued, a millisecond later. *)
Retry(j) ==
    /\ job[j] = "retrying"
    /\ lock = Free
    /\ CanPoll(j)
    /\ lock' = j
    /\ job' = [job EXCEPT ![j] = "running"]
    /\ UNCHANGED <<future, queue, pending, evalTarget, from, got, crowd, blocked>>

(* The guard is dropped: the lock is handed to the first in the queue. *)
ReleaseLock(j) ==
    IF queue = <<>>
    THEN /\ lock' = Free
         /\ job' = [job EXCEPT ![j] = "over"]
         /\ UNCHANGED queue
    ELSE /\ lock' = Head(queue)
         /\ job' = [job EXCEPT ![j] = "over", ![Head(queue)] = "granted"]
         /\ queue' = Tail(queue)

(* Code under the lock has no await: once polled it runs to the release. *)
Holding(j) == job[j] = "running" \/ (job[j] = "granted" /\ CanPoll(j))
-----------------------------------------------------------------------------
Reserve(e) ==
    /\ future[e] = "new"
    /\ CanPoll(<<"reserve", e>>)
    /\ future' = [future EXCEPT ![e] = "reserving"]
    /\ RequestSlot(<<"reserve", e>>)
    /\ UNCHANGED <<pending, evalTarget, from, got, crowd, blocked>>

(* Mutant: pages have no budget of their own. *)
FullShared(e) == Cardinality(pending) >= MaxPending

(* reserve_pending and reserve_page_eval check and insert under one lock. *)
Full(e) ==
    LET mine == pending \cap PageEvals IN
    \/ Cardinality(pending) >= MaxPending
    \/ /\ e \in PageEvals
       /\ \/ Cardinality(mine) >= MaxPage
          \/ Cardinality({d \in mine : WindowOf[d] = WindowOf[e]}) >= MaxPerWindow

(* bind_window runs before the id leaves the handler. *)
Insert(e) ==
    /\ Holding(<<"reserve", e>>)
    /\ IF Full(e)
       THEN /\ future' = [future EXCEPT ![e] = "ended"]
            /\ crowd' = [crowd EXCEPT ![e] = Cardinality(pending \cap Agents)]
            /\ UNCHANGED <<pending, evalTarget>>
       ELSE /\ future' = [future EXCEPT ![e] = "live"]
            /\ pending' = pending \cup {e}
            /\ evalTarget' = [evalTarget EXCEPT ![e] = WindowOf[e]]
            /\ UNCHANGED crowd
    /\ ReleaseLock(<<"reserve", e>>)
    /\ UNCHANGED <<from, got, blocked>>

LeaveQueue(j) ==
    LET k == CHOOSE k \in DOMAIN queue : queue[k] = j
    IN  SubSeq(queue, 1, k - 1) \o SubSeq(queue, k + 1, Len(queue))

(* The call is dropped while it waits for the lock; one that had been handed
   the lock hands it on.                                                   *)
CancelReserve(e) ==
    LET j == <<"reserve", e>> IN
    /\ job[j] \in {"queued", "granted", "retrying"}
    /\ CanPoll(j)
    /\ future' = [future EXCEPT ![e] = "ended"]
    /\ IF job[j] = "granted"
       THEN ReleaseLock(j)
       ELSE /\ job' = [job EXCEPT ![j] = "over"]
            /\ queue' = IF job[j] = "queued" THEN LeaveQueue(j) ELSE queue
            /\ UNCHANGED lock
    /\ UNCHANGED <<pending, evalTarget, from, got, crowd, blocked>>

(* PendingSlot::drop, on every exit: answered, timed out, failed, cancelled. *)
DropSlot(e) ==
    /\ future[e] = "live"
    /\ CanPoll(<<"remove", e>>)
    /\ future' = [future EXCEPT ![e] = "ended"]
    /\ evalTarget' = [evalTarget EXCEPT ![e] = NoWindow]
    /\ RequestSlot(<<"remove", e>>)
    /\ UNCHANGED <<pending, from, got, crowd, blocked>>

RemoveEntry(e) ==
    /\ Holding(<<"remove", e>>)
    /\ pending' = pending \ {e}
    /\ ReleaseLock(<<"remove", e>>)
    /\ UNCHANGED <<future, evalTarget, from, got, crowd, blocked>>

(* victauri_eval_callback on the main thread: eval_result_accepted, then in
   place or from a task on the server's runtime.                           *)
Accepted(e, w) == evalTarget[e] # NoWindow /\ evalTarget[e] = w

Result(e, w) ==
    /\ job[<<"deliver", e>>] = "idle"
    /\ Accepted(e, w)
    /\ from' = [from EXCEPT ![e] = w]
    /\ RequestSlot(<<"deliver", e>>)
    /\ UNCHANGED <<future, pending, evalTarget, got, crowd, blocked>>

DeliverResult(e) ==
    /\ Holding(<<"deliver", e>>)
    /\ pending' = pending \ {e}
    /\ got' = IF e \in pending /\ future[e] = "live" THEN got \cup {e} ELSE got
    /\ ReleaseLock(<<"deliver", e>>)
    /\ UNCHANGED <<future, evalTarget, from, crowd, blocked>>

BlockApp ==
    /\ ~blocked
    /\ blocked' = TRUE
    /\ UNCHANGED <<future, job, lock, queue, pending, evalTarget, from, got, crowd>>

Work(e) == Insert(e) \/ RemoveEntry(e) \/ DeliverResult(e)

PendingNext ==
    \/ \E e \in Evals : Reserve(e) \/ CancelReserve(e) \/ DropSlot(e) \/ Work(e)
    \/ \E e \in Evals, w \in Windows : Result(e, w)
    \/ \E j \in Jobs : Retry(j)
    \/ BlockApp

(* Each runtime polls its tasks, the application's only until it is blocked
   (every job is done once, so some task's progress is each task's progress).
   Nothing obliges a page to answer or a caller to give up.                *)
PendingFairness ==
    /\ WF_pendingVars(\E e \in Evals : Work(e))
    /\ WF_pendingVars(\E j \in Jobs : Retry(j))

PendingSpec == PendingInit /\ [][PendingNext]_pendingVars /\ PendingFairness
-----------------------------------------------------------------------------
(* "a TRUE hard ceiling": no interleaving of reservations, removals left for
   later and results exceeds a budget.                                     *)
HardCeilings ==
    /\ Cardinality(pending) <= MaxPending
    /\ Cardinality(pending \cap PageEvals) <= MaxPage
    /\ \A w \in Windows :
         Cardinality({e \in pending \cap PageEvals : WindowOf[e] = w}) <= MaxPerWindow

(* Page script that fills its budget does not "starve the agent": an agent call
   is refused only when agent calls use up what pages cannot.               *)
PagesDoNotStarveAgents ==
    \A e \in Agents : crowd[e] >= MaxPending - MaxPage

(* A caller is answered only by the window its eval was sent to, whichever
   window calls back first.                                                *)
AnsweredByItsWindow == \A e \in got : from[e] = WindowOf[e]

(* The table of pending evals is shared without harm: hard budgets, agents that
   pages cannot crowd out, and each answer from the window asked.            *)
TableIsShared == HardCeilings /\ PagesDoNotStarveAgents /\ AnsweredByItsWindow

(* An agent call never hangs in reserve_pending, whoever blocks whatever: over
   and over, no agent call is waiting for the lock.                        *)
AgentsGetTheLock == []<>(\A e \in Agents : future[e] # "reserving")

(* "a result never waits for an app that is blocking its own async runtime":
   a result that was accepted reaches its caller, or the caller has gone.   *)
AcceptedIsDelivered ==
    []<>(\A e \in Evals : from[e] # NoWindow => e \in got \/ future[e] = "ended")
=============================================================================
